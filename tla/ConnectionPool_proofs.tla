----------------------- MODULE ConnectionPool_proofs ------------------------
(***************************************************************************)
(* The accounting of the connection pool, and what follows from it: an     *)
(* operation is refused only while the database server is down.            *)
(***************************************************************************)
EXTENDS ConnectionPool, FiniteSetTheorems, FunctionTheorems, SequenceTheorems, TLAPS

Elems(s) == {s[i] : i \in 1 .. Len(s)}

\* The connections there are, and how they divide up.
Divided == /\ Existing = Listed \union Borrowed \union lost
           /\ Exclusive

\* Who is between get_connection and the end of the operation.
InHand == \A w \in Workers : /\ pc[w] = "out" => held[w] = NoSession
                             /\ pc[w] = "done" => held[w] # NoSession

Counted == main # "destroyed" => curSize = Cardinality(Existing) /\ curSize <= MaxSize

\* From its first lock of mtx to its end the destructor keeps it.
Locked == main \in {"destroying", "relocking"} => lock = "destroyer"

IInv == TypeOK /\ Divided /\ InHand /\ Counted /\ Locked

-----------------------------------------------------------------------------
(* What the list operations do to the set of its elements. *)

LEMMA PopFront ==
  ASSUME NEW S, NEW s \in Seq(S), s # <<>>, NoRepeats(s)
  PROVE  /\ Tail(s) \in Seq(S) /\ Head(s) \in Elems(s) /\ Head(s) \in S
         /\ Elems(Tail(s)) = Elems(s) \ {Head(s)}
         /\ NoRepeats(Tail(s))
<1>1. /\ Tail(s) \in Seq(S) /\ Head(s) = s[1] /\ Head(s) \in S
      /\ Len(s) \in Nat /\ Len(s) >= 1 /\ Len(Tail(s)) = Len(s) - 1
      /\ \A i \in 1 .. Len(Tail(s)) : Tail(s)[i] = s[i + 1]
  BY HeadTailProperties, LenProperties, EmptySeq
<1>2. Head(s) \in Elems(s)
  BY <1>1 DEF Elems
<1>3. NoRepeats(Tail(s))
  BY <1>1 DEF NoRepeats
<1>4. ASSUME NEW x \in Elems(Tail(s)) PROVE x \in Elems(s) /\ x # Head(s)
  <2>1. PICK i \in 1 .. Len(Tail(s)) : x = s[i + 1]
    BY <1>1, <1>4 DEF Elems
  <2>2. i + 1 \in 1 .. Len(s) /\ 1 \in 1 .. Len(s) /\ i + 1 # 1
    BY <1>1
  <2> QED
    BY <1>1, <2>1, <2>2 DEF Elems, NoRepeats
<1>5. ASSUME NEW x \in Elems(s), x # Head(s) PROVE x \in Elems(Tail(s))
  <2>1. PICK i \in 1 .. Len(s) : x = s[i]
    BY DEF Elems
  <2>2. i - 1 \in 1 .. Len(Tail(s)) /\ Tail(s)[i - 1] = s[i]
    BY <1>1, <1>5, <2>1
  <2> QED
    BY <2>1, <2>2 DEF Elems
<1> QED
  BY <1>1, <1>2, <1>3, <1>4, <1>5

LEMMA PushBack ==
  ASSUME NEW S, NEW s \in Seq(S), NEW x \in S, x \notin Elems(s), NoRepeats(s)
  PROVE  /\ Append(s, x) \in Seq(S)
         /\ Elems(Append(s, x)) = Elems(s) \union {x}
         /\ NoRepeats(Append(s, x))
<1> DEFINE a == Append(s, x)
<1>1. /\ a \in Seq(S) /\ Len(s) \in Nat /\ Len(a) = Len(s) + 1
      /\ \A i \in 1 .. Len(s) : a[i] = s[i]
      /\ a[Len(s) + 1] = x
  BY AppendProperties, LenProperties
<1> HIDE DEF a
<1>2. \A i \in 1 .. Len(a) : i \in 1 .. Len(s) \/ i = Len(s) + 1
  BY <1>1
<1>3. Elems(a) = Elems(s) \union {x}
  BY <1>1, <1>2 DEF Elems
<1>4. NoRepeats(a)
  BY <1>1, <1>2 DEF NoRepeats, Elems
<1> QED
  BY <1>1, <1>3, <1>4 DEF a

LEMMA SessionsFinite ==
  /\ IsFiniteSet(Existing) /\ Cardinality(Existing) \in Nat
  /\ IsFiniteSet(Existing') /\ Cardinality(Existing') \in Nat
<1>1. Existing \in SUBSET Sessions /\ Existing' \in SUBSET Sessions
  BY DEF Existing
<1> QED
  BY <1>1, SessionAssumption, FS_Subset, FS_CardinalityType

-----------------------------------------------------------------------------
LEMMA InitInv == Init => IInv
<1> SUFFICES ASSUME Init PROVE IInv
  OBVIOUS
<1>1. PICK n \in 0 .. InitialSize : idle \in [1 .. n -> Sessions]
  BY DEF Init
<1>2. n \in Nat /\ n <= MaxSize
  BY SizeAssumption
<1>3. idle \in Seq(Sessions) /\ Len(idle) = n
  BY <1>1, <1>2
<1>4. TypeOK
  BY <1>2, <1>3 DEF Init, TypeOK
<1>5. Existing = Listed /\ Borrowed = {} /\ lost = {}
  BY <1>1, <1>3 DEF Init, Existing, Listed, Borrowed
<1>6. Exclusive /\ InHand
  BY <1>5 DEF Init, Exclusive, InHand
<1>7. Cardinality(Listed) = n
  <2>1. idle \in Bijection(1 .. n, Listed)
    <3>1. idle \in [1 .. n -> Listed]
      BY <1>1, <1>3 DEF Listed
    <3>2. \A i, j \in 1 .. n : idle[i] = idle[j] => i = j
      <4>1. NoRepeats(idle)
        BY DEF Init
      <4> QED
        BY <1>3, <4>1 DEF NoRepeats
    <3>3. \A x \in Listed : \E i \in 1 .. n : idle[i] = x
      BY <1>3 DEF Listed
    <3> QED
      <4>1. idle \in Injection(1 .. n, Listed)
        BY <3>1, <3>2, Fun_IsInj
      <4>2. idle \in Surjection(1 .. n, Listed)
        BY <3>1, <3>3, Fun_IsSurj
      <4> QED
        BY <4>1, <4>2, Fun_IsBij
  <2>2. IsFiniteSet(1 .. n) /\ Cardinality(1 .. n) = n
    BY <1>2, FS_Interval
  <2> QED
    BY <2>1, <2>2, FS_Bijection DEF ExistsBijection
<1> QED
  BY <1>2, <1>3, <1>4, <1>5, <1>6, <1>7 DEF IInv, Divided, Counted, Locked, Init

-----------------------------------------------------------------------------
(* What borrowing and giving back do to the sets of Divided. *)

HeldOnce == \A v, w \in Workers : held[v] = held[w] /\ held[v] # NoSession => v = w

LEMMA Borrow ==
  ASSUME TypeOK, HeldOnce, NEW w \in Workers, held[w] = NoSession,
         NEW s \in Sessions, s \notin Borrowed, held' = [held EXCEPT ![w] = s]
  PROVE  Borrowed' = Borrowed \union {s} /\ HeldOnce'
<1>1. s # NoSession /\ \A v \in Workers : held[v] # s
  BY SessionAssumption DEF Borrowed
<1>2. held'[w] = s /\ \A v \in Workers : v # w => held'[v] = held[v]
  BY DEF TypeOK
<1>3. Borrowed' = Borrowed \union {s}
  BY <1>1, <1>2 DEF Borrowed
<1>4. HeldOnce'
  BY <1>1, <1>2 DEF HeldOnce
<1> QED
  BY <1>3, <1>4

LEMMA GiveBack ==
  ASSUME TypeOK, HeldOnce, NEW w \in Workers, held[w] # NoSession,
         held' = [held EXCEPT ![w] = NoSession]
  PROVE  Borrowed' = Borrowed \ {held[w]} /\ HeldOnce' /\ held[w] \in Sessions
<1>1. held'[w] = NoSession /\ \A v \in Workers : v # w => held'[v] = held[v]
  BY DEF TypeOK
<1>2. \A v \in Workers : v # w => held[v] # held[w]
  BY DEF HeldOnce
<1>3. Borrowed' = Borrowed \ {held[w]}
  BY <1>1, <1>2 DEF Borrowed
<1>4. HeldOnce'
  BY <1>1 DEF HeldOnce
<1> QED
  BY <1>3, <1>4 DEF TypeOK

LEMMA ListedIsElems == Listed = Elems(idle) /\ Listed' = Elems(idle')
BY DEF Listed, Elems

\* What the next-state lemmas below use of the invariant.
LEMMA Parts ==
  ASSUME IInv
  PROVE  /\ TypeOK /\ HeldOnce /\ NoRepeats(idle)
         /\ Existing = Listed \union Borrowed \union lost
         /\ Listed \intersect Borrowed = {} /\ lost \intersect (Listed \union Borrowed) = {}
         /\ Existing \subseteq Sessions
BY DEF IInv, Divided, Exclusive, HeldOnce, Existing

LEMMA GetIdleInv == ASSUME IInv, NEW w \in Workers, GetIdle(w) PROVE IInv'
<1> USE Parts
<1> DEFINE h == Head(idle)
<1>1. /\ idle' \in Seq(Sessions) /\ h \in Listed /\ h \in Sessions
      /\ Listed' = Listed \ {h} /\ NoRepeats(idle')
  BY PopFront, ListedIsElems DEF GetIdle, TypeOK
<1>2. held[w] = NoSession /\ held' = [held EXCEPT ![w] = h]
      /\ pc' = [pc EXCEPT ![w] = "got"]
      /\ UNCHANGED <<curSize, lock, main, lost, link, result, up, crash>>
  BY DEF GetIdle, Got, Asks, IInv, InHand
<1> HIDE DEF h
<1>3. Borrowed' = Borrowed \union {h} /\ HeldOnce'
  BY <1>1, <1>2, Borrow
<1>4. TypeOK'
  BY <1>1, <1>2 DEF TypeOK
<1>5. Existing' = Existing
  BY <1>2 DEF Existing
<1>6. Divided'
  BY <1>1, <1>2, <1>3, <1>5 DEF Divided, Exclusive, HeldOnce
<1>7. InHand'
  BY <1>2 DEF IInv, InHand, TypeOK
<1>8. Counted'
  BY <1>2, <1>5 DEF IInv, Counted
<1> QED
  BY <1>2, <1>4, <1>6, <1>7, <1>8 DEF IInv, Locked

LEMMA GetReplacedInv == ASSUME IInv, NEW w \in Workers, GetReplaced(w) PROVE IInv'
<1> USE Parts
<1> DEFINE h == Head(idle)
<1>1. /\ idle' \in Seq(Sessions) /\ h \in Listed /\ h \in Sessions
      /\ Listed' = Listed \ {h} /\ NoRepeats(idle')
  BY PopFront, ListedIsElems DEF GetReplaced, TypeOK
<1>2. PICK t \in Sessions :
        /\ link[t] = "none" \/ t = h
        /\ link' = [link EXCEPT ![h] = "none", ![t] = "open"]
        /\ result' = [result EXCEPT ![t] = "none"]
        /\ Got(w, t)
  BY DEF GetReplaced
<1>3. held[w] = NoSession /\ held' = [held EXCEPT ![w] = t]
      /\ pc' = [pc EXCEPT ![w] = "got"]
      /\ UNCHANGED <<curSize, lock, main, lost, up, crash>>
  BY <1>2 DEF GetReplaced, Got, Asks, IInv, InHand
<1> HIDE DEF h
<1>4. t \notin Existing \/ t = h
  BY <1>2 DEF Existing
<1>5. Borrowed' = Borrowed \union {t} /\ HeldOnce'
  BY <1>1, <1>3, <1>4, Borrow
<1>6. TypeOK'
  BY <1>1, <1>2, <1>3 DEF TypeOK
<1>7. Existing' = (Existing \ {h}) \union {t}
  BY <1>1, <1>2 DEF Existing, TypeOK
<1>8. Divided'
  BY <1>1, <1>3, <1>4, <1>5, <1>7 DEF Divided, Exclusive, HeldOnce
<1>9. InHand'
  BY <1>3, SessionAssumption DEF IInv, InHand, TypeOK
<1>10. Cardinality(Existing') = Cardinality(Existing)
  <2>1. h \in Existing /\ t \notin Existing \ {h}
    BY <1>1, <1>4
  <2>2. /\ IsFiniteSet(Existing \ {h})
        /\ Cardinality(Existing \ {h}) = Cardinality(Existing) - 1
    BY <2>1, SessionsFinite, FS_RemoveElement
  <2>3. Cardinality((Existing \ {h}) \union {t}) = Cardinality(Existing \ {h}) + 1
    BY <2>1, <2>2, FS_AddElement
  <2> QED
    BY <1>7, <2>2, <2>3, SessionsFinite
<1>11. Counted'
  BY <1>3, <1>10 DEF IInv, Counted
<1> QED
  BY <1>3, <1>6, <1>8, <1>9, <1>11 DEF IInv, Locked

LEMMA GetDroppedInv == ASSUME IInv, NEW w \in Workers, GetDropped(w) PROVE IInv'
<1> USE Parts
<1> DEFINE h == Head(idle)
<1>1. /\ idle' \in Seq(Sessions) /\ h \in Listed /\ h \in Sessions
      /\ Listed' = Listed \ {h} /\ NoRepeats(idle')
  BY PopFront, ListedIsElems DEF GetDropped, TypeOK
<1>2. held[w] = NoSession /\ held' = [held EXCEPT ![w] = NoSession]
      /\ pc' = [pc EXCEPT ![w] = "got"]
      /\ link' = [link EXCEPT ![h] = "none"]
      /\ curSize' = curSize - 1
      /\ UNCHANGED <<lock, main, lost, result, up, crash>>
  BY DEF GetDropped, Got, Asks, IInv, InHand
<1> HIDE DEF h
<1>3. held' = held
  BY <1>2 DEF TypeOK
<1>4. TypeOK'
  <2>1. curSize \in Int
    BY DEF TypeOK
  <2>3. curSize' \in Int
    BY <1>2, <2>1
  <2>2. /\ link' \in [Sessions -> {"none", "open", "broken"}]
        /\ pc' \in [Workers -> {"out", "got", "done"}]
    BY <1>2 DEF TypeOK
  <2> QED
    BY <1>1, <1>2, <1>3, <2>2, <2>3 DEF TypeOK
<1>5. Existing' = Existing \ {h}
  BY <1>1, <1>2 DEF Existing, TypeOK
<1>6. Borrowed' = Borrowed /\ HeldOnce'
  BY <1>3 DEF Borrowed, HeldOnce
<1>7. Divided'
  BY <1>1, <1>2, <1>5, <1>6 DEF Divided, Exclusive, HeldOnce
<1>8. InHand'
  BY <1>2, <1>3 DEF IInv, InHand, TypeOK
<1>9. Cardinality(Existing') = Cardinality(Existing) - 1
  BY <1>1, <1>5, SessionsFinite, FS_RemoveElement
<1>10. Counted'
  <2> SUFFICES ASSUME main # "destroyed"
               PROVE  curSize - 1 = Cardinality(Existing') /\ curSize - 1 <= MaxSize
    BY <1>2 DEF Counted
  <2>1. curSize = Cardinality(Existing) /\ curSize <= MaxSize
    BY DEF IInv, Counted
  <2> QED
    BY <1>9, <2>1, SizeAssumption, SessionsFinite
<1> QED
  BY <1>2, <1>4, <1>7, <1>8, <1>10 DEF IInv, Locked

LEMMA GetCreatedInv == ASSUME IInv, NEW w \in Workers, GetCreated(w) PROVE IInv'
<1> USE Parts
<1>1. PICK t \in Sessions : link[t] = "none" /\ Connect(t) /\ Got(w, t)
  BY DEF GetCreated
<1>2. /\ link' = [link EXCEPT ![t] = "open"] /\ result' = [result EXCEPT ![t] = "none"]
      /\ held[w] = NoSession /\ held' = [held EXCEPT ![w] = t]
      /\ pc' = [pc EXCEPT ![w] = "got"]
      /\ curSize' = curSize + 1 /\ curSize < MaxSize
      /\ UNCHANGED <<idle, lock, main, lost, up, crash>>
  BY <1>1 DEF GetCreated, Connect, Got, Asks, IInv, InHand
<1>3. t \notin Existing
  BY <1>1 DEF Existing
<1>4. Borrowed' = Borrowed \union {t} /\ HeldOnce'
  BY <1>2, <1>3, Borrow
<1>5. TypeOK'
  <2>1. curSize \in Int
    BY DEF TypeOK
  <2>2. curSize' \in Int
    BY <1>2, <2>1
  <2> QED
    BY <1>2, <2>2 DEF TypeOK
<1>6. Existing' = Existing \union {t} /\ Listed' = Listed
  BY <1>2 DEF Existing, TypeOK, Listed
<1>7. Divided'
  BY <1>2, <1>3, <1>4, <1>6 DEF Divided, Exclusive, HeldOnce
<1>8. InHand'
  BY <1>2, SessionAssumption DEF IInv, InHand, TypeOK
<1>9. Cardinality(Existing') = Cardinality(Existing) + 1
  BY <1>3, <1>6, SessionsFinite, FS_AddElement
<1>10. Counted'
  <2> SUFFICES ASSUME main # "destroyed"
               PROVE  curSize + 1 = Cardinality(Existing') /\ curSize + 1 <= MaxSize
    BY <1>2 DEF Counted
  <2>1. curSize = Cardinality(Existing)
    BY DEF IInv, Counted
  <2> QED
    BY <1>2, <1>9, <2>1, SizeAssumption, SessionsFinite
<1> QED
  BY <1>2, <1>5, <1>7, <1>8, <1>10 DEF IInv, Locked

\* A step that moves no session keeps Divided and Counted.
LEMMA SameSessions ==
  ASSUME IInv, UNCHANGED <<poolVars, main, held, lost, link>>
  PROVE  Divided' /\ Counted'
<1>1. Existing' = Existing /\ Listed' = Listed /\ Borrowed' = Borrowed
  BY DEF Existing, Listed, Borrowed, poolVars
<1>2. Divided'
  BY <1>1 DEF IInv, Divided, Exclusive, NoRepeats, poolVars
<1>3. Counted'
  BY <1>1 DEF IInv, Counted, poolVars
<1> QED
  BY <1>2, <1>3

LEMMA GetNullInv == ASSUME IInv, NEW w \in Workers, GetNull(w) PROVE IInv'
<1>1. held[w] = NoSession /\ held' = held /\ pc' = [pc EXCEPT ![w] = "got"]
      /\ UNCHANGED <<poolVars, lock, main, lost, link, result, up, crash>>
  BY DEF GetNull, Got, Asks, IInv, InHand, TypeOK
<1>2. TypeOK'
  BY <1>1 DEF IInv, TypeOK, poolVars
<1>3. Divided' /\ Counted'
  BY <1>1, SameSessions
<1>4. InHand'
  BY <1>1 DEF IInv, InHand, TypeOK
<1> QED
  BY <1>1, <1>2, <1>3, <1>4 DEF IInv, Locked

LEMMA UseInv == ASSUME IInv, NEW w \in Workers, Use(w) PROVE IInv'
<1>1. /\ held[w] # NoSession /\ pc' = [pc EXCEPT ![w] = "done"]
      /\ UNCHANGED <<poolVars, lock, main, held, lost, link, up, crash>>
  BY DEF Use
<1>2. result' \in [Sessions -> {"none", "live", "freed"}]
  BY DEF Use, IInv, TypeOK
<1>3. TypeOK'
  BY <1>1, <1>2 DEF IInv, TypeOK, poolVars
<1>4. Divided' /\ Counted'
  BY <1>1, SameSessions
<1>5. InHand'
  BY <1>1 DEF IInv, InHand, TypeOK
<1> QED
  BY <1>1, <1>3, <1>4, <1>5 DEF IInv, Locked

LEMMA ReleaseInv == ASSUME IInv, NEW w \in Workers, Release(w) PROVE IInv'
<1> USE Parts
<1>1. /\ held[w] # NoSession /\ held' = [held EXCEPT ![w] = NoSession]
      /\ pc' = [pc EXCEPT ![w] = "out"]
      /\ idle' = Append(idle, held[w])
      /\ UNCHANGED <<curSize, lock, main, lost, link, result, up, crash>>
  BY DEF Release, Ends, IInv, InHand
<1>2. Borrowed' = Borrowed \ {held[w]} /\ HeldOnce' /\ held[w] \in Sessions
  BY <1>1, GiveBack
<1>3. held[w] \in Borrowed
  BY <1>1 DEF Borrowed
<1>4. /\ idle' \in Seq(Sessions)
      /\ Listed' = Listed \union {held[w]}
      /\ NoRepeats(idle')
  <2>1. idle \in Seq(Sessions) /\ held[w] \notin Elems(idle)
    BY <1>3, ListedIsElems DEF TypeOK
  <2>2. NoRepeats(idle)
    OBVIOUS
  <2>3. /\ Append(idle, held[w]) \in Seq(Sessions)
        /\ Elems(Append(idle, held[w])) = Elems(idle) \union {held[w]}
        /\ NoRepeats(Append(idle, held[w]))
    BY ONLY <1>2, <2>1, <2>2, PushBack
  <2> QED
    BY <1>1, <2>3, ListedIsElems
<1>5. TypeOK'
  BY <1>1, <1>4 DEF TypeOK
<1>6. Existing' = Existing
  BY <1>1 DEF Existing
<1>7. Divided'
  BY <1>1, <1>2, <1>3, <1>4, <1>6 DEF Divided, Exclusive, HeldOnce
<1>8. InHand' /\ Counted'
  BY <1>1, <1>6 DEF IInv, InHand, Counted, TypeOK
<1> QED
  BY <1>1, <1>5, <1>7, <1>8 DEF IInv, Locked

LEMMA LeakInv == ASSUME IInv, NEW w \in Workers, Leak(w) PROVE IInv'
<1> USE Parts
<1>1. /\ held[w] # NoSession /\ held' = [held EXCEPT ![w] = NoSession]
      /\ pc' = [pc EXCEPT ![w] = "out"]
      /\ lost' = lost \union {held[w]}
      /\ UNCHANGED <<poolVars, lock, main, link, result, up, crash>>
  BY DEF Leak, Ends, IInv, InHand
<1>2. Borrowed' = Borrowed \ {held[w]} /\ HeldOnce' /\ held[w] \in Sessions
  BY <1>1, GiveBack
<1>3. held[w] \in Borrowed
  BY <1>1 DEF Borrowed
<1>4. TypeOK'
  BY <1>1, <1>2 DEF TypeOK, poolVars
<1>5. Existing' = Existing /\ Listed' = Listed
  BY <1>1 DEF Existing, Listed, poolVars
<1>6. Divided'
  BY <1>1, <1>2, <1>3, <1>5 DEF Divided, Exclusive, HeldOnce, poolVars
<1>7. InHand' /\ Counted'
  BY <1>1, <1>5 DEF IInv, InHand, Counted, TypeOK, poolVars
<1> QED
  BY <1>1, <1>4, <1>6, <1>7 DEF IInv, Locked

\* The server's steps break links, they make and unmake none; the destructor
\* and a crash move no connection.
LEMMA ServerInv == ASSUME IInv, Server PROVE IInv'
<1> USE DEF IInv
<1>1. UNCHANGED <<idle, curSize, held, lost, pc, lock, main, result, crash>>
  BY DEF Server, BreakLink, ServerStops, ServerStarts, poolVars
<1>2. /\ up' \in BOOLEAN
      /\ link' \in [Sessions -> {"none", "open", "broken"}]
      /\ \A s \in Sessions : link'[s] = "none" <=> link[s] = "none"
  <2>1. CASE \E s \in Sessions : BreakLink(s)
    BY <2>1 DEF BreakLink, TypeOK
  <2>2. CASE ServerStops
    BY <2>2 DEF ServerStops, TypeOK
  <2>3. CASE ServerStarts
    BY <2>3 DEF ServerStarts, TypeOK
  <2> QED
    BY <2>1, <2>2, <2>3 DEF Server
<1>3. Existing' = Existing /\ Listed' = Listed /\ Borrowed' = Borrowed
  BY <1>1, <1>2 DEF Existing, Listed, Borrowed
<1>4. TypeOK' /\ InHand'
  BY <1>1, <1>2 DEF TypeOK, InHand
<1>5. Divided' /\ Counted'
  BY <1>1, <1>3 DEF Divided, Exclusive, NoRepeats, Counted
<1> QED
  BY <1>1, <1>4, <1>5 DEF Locked

LEMMA DestroyInv == ASSUME IInv, Destroy PROVE IInv'
<1> USE DEF IInv
<1>1. /\ UNCHANGED <<idle, held, lost, pc, link, result, up, crash>>
      /\ main' \in {"destroying", "relocking", "destroyed"} /\ lock' \in {"free", "destroyer"}
      /\ main # "destroyed" /\ Locked'
      /\ curSize' = curSize \/ (main' = "destroyed" /\ curSize' = 0)
  BY DEF Destroy, DestroyLocks, DestroyEnters, DestroyEnds, Locked, poolVars
<1>2. curSize' \in Int
  <2>1. curSize \in Int
    BY DEF TypeOK
  <2> QED
    BY <1>1, <2>1
<1>3. TypeOK' /\ InHand'
  BY <1>1, <1>2 DEF TypeOK, InHand
<1>4. Existing' = Existing /\ Listed' = Listed /\ Borrowed' = Borrowed
  BY <1>1 DEF Existing, Listed, Borrowed
<1>5. Divided' /\ Counted'
  BY <1>1, <1>4 DEF Divided, Exclusive, NoRepeats, Counted
<1> QED
  BY <1>1, <1>3, <1>5

LEMMA CrashInv ==
  ASSUME IInv, NEW w \in Workers, GetCrashes(w) \/ UseNull(w) PROVE IInv'
<1> USE DEF IInv
<1>1. /\ UNCHANGED <<poolVars, lock, main, pc, held, lost, link, result, up>>
      /\ crash' \in {crash, "NULL dereferenced", "freed twice"}
  BY DEF GetCrashes, UseNull
<1>2. crash' \in {"no", "NULL dereferenced", "freed twice"}
  BY <1>1 DEF TypeOK
<1>3. TypeOK' /\ InHand'
  BY <1>1, <1>2 DEF TypeOK, InHand, poolVars
<1> QED
  BY <1>1, <1>3, SameSessions DEF Locked

LEMMA StutterInv == ASSUME IInv, UNCHANGED vars PROVE IInv'
<1> USE DEF IInv
<1>1. TypeOK' /\ InHand'
  BY DEF TypeOK, InHand, vars, poolVars
<1> QED
  BY <1>1, SameSessions DEF vars, Locked

LEMMA NextInv == ASSUME IInv, [Next]_vars PROVE IInv'
<1>1. CASE Server
  BY <1>1, ServerInv
<1>2. CASE Destroy
  BY <1>2, DestroyInv
<1>3. ASSUME NEW w \in Workers, Work(w) PROVE IInv'
  BY <1>3, GetIdleInv, GetReplacedInv, GetDroppedInv, GetCreatedInv, GetNullInv, UseInv,
     ReleaseInv, LeakInv, CrashInv
  DEF Work, Get
<1>4. CASE UNCHANGED vars
  BY <1>4, StutterInv
<1> QED
  BY <1>1, <1>2, <1>3, <1>4 DEF Next

LEMMA Invariance == Spec => []IInv
  BY InitInv, NextInv, PTL DEF Spec

-----------------------------------------------------------------------------
\* Types, for every number of workers, sessions and every limit.
THEOREM TypeCorrect == Spec => []TypeOK
<1>1. IInv => TypeOK
  BY DEF IInv
<1> QED
  BY <1>1, Invariance, PTL

\* curSize counts the connections, in the list, in use or lost, and they are
\* at most MaxSize.
THEOREM PoolCounts == Spec => []SizeIsSessions
<1>1. IInv => SizeIsSessions
  BY DEF IInv, Divided, Counted, SizeIsSessions
<1> QED
  BY <1>1, Invariance, PTL

\* No connection is in two hands.
THEOREM NoSharing == Spec => []Exclusive
<1>1. IInv => Exclusive
  BY DEF IInv, Divided
<1> QED
  BY <1>1, Invariance, PTL

-----------------------------------------------------------------------------
(* The limit is never what refuses an operation.                           *)

\* A worker with nothing in hand leaves a connection for itself.
LEMMA OneIsLeft ==
  ASSUME IInv, NEW w \in Workers, held[w] = NoSession, Cardinality(Workers) <= MaxSize
  PROVE  /\ Cardinality(Borrowed) \in Nat
         /\ Cardinality(Borrowed) < MaxSize
<1> DEFINE Busy == {v \in Workers : held[v] # NoSession}
           hold == [v \in Busy |-> held[v]]
<1>1. Busy \in SUBSET (Workers \ {w})
  OBVIOUS
<1>2. /\ IsFiniteSet(Workers \ {w})
      /\ Cardinality(Workers) \in Nat
      /\ Cardinality(Workers \ {w}) = Cardinality(Workers) - 1
  BY SessionAssumption, FS_CardinalityType, FS_RemoveElement
<1>3. /\ IsFiniteSet(Busy) /\ Cardinality(Busy) \in Nat
      /\ Cardinality(Busy) <= Cardinality(Workers) - 1
  BY <1>1, <1>2, FS_Subset, FS_CardinalityType
<1>4. hold \in Surjection(Busy, Borrowed)
  <2>1. hold \in [Busy -> Borrowed]
    BY DEF Borrowed
  <2>2. \A s \in Borrowed : \E v \in Busy : hold[v] = s
    BY DEF Borrowed
  <2> QED
    BY <2>1, <2>2, Fun_IsSurj
<1> HIDE DEF Busy, hold
<1>5. IsFiniteSet(Borrowed) /\ Cardinality(Borrowed) <= Cardinality(Busy)
  BY <1>3, <1>4, FS_Surjection
<1>6. Cardinality(Borrowed) \in Nat
  BY <1>5, FS_CardinalityType
<1> QED
  BY <1>2, <1>3, <1>5, <1>6, SizeAssumption

\* A worker that is handed NULL took one of the two steps that hand it out.
LEMMA NullFrom ==
  ASSUME IInv, [Next]_vars, NEW w \in Workers,
         pc[w] = "out", pc'[w] = "got", held'[w] = NoSession
  PROVE  GetDropped(w) \/ GetNull(w)
<1>1. PICK v \in Workers : Work(v)
  BY DEF Next, vars, Server, BreakLink, ServerStops, ServerStarts,
         Destroy, DestroyLocks, DestroyEnters, DestroyEnds
<1>2. v = w /\ Get(w)
  <2>1. pc' # pc
    OBVIOUS
  <2>2. Get(v) \/ pc' = [pc EXCEPT ![v] = "done"] \/ pc' = [pc EXCEPT ![v] = "out"]
    BY <1>1, <2>1 DEF Work, UseNull, Use, Release, Leak, Ends
  <2>3. Get(v)
    BY <2>2 DEF IInv, TypeOK
  <2>4. pc' = [pc EXCEPT ![v] = "got"]
    BY <2>1, <2>3 DEF Get, GetIdle, GetReplaced, GetDropped, GetCrashes, GetCreated, GetNull, Got
  <2> QED
    BY <2>3, <2>4 DEF IInv, TypeOK
<1>3. ~GetCrashes(w)
  BY DEF GetCrashes
<1>4. ~GetIdle(w)
  <2> SUFFICES ASSUME GetIdle(w) PROVE FALSE
    OBVIOUS
  <2>1. held'[w] = Head(idle)
    BY DEF GetIdle, Got, IInv, TypeOK
  <2>2. Head(idle) \in Sessions
    BY Parts, PopFront DEF GetIdle, TypeOK
  <2> QED
    BY <2>1, <2>2, SessionAssumption
<1>5. ~GetReplaced(w) /\ ~GetCreated(w)
  BY SessionAssumption DEF GetReplaced, GetCreated, Got, IInv, TypeOK
<1> QED
  BY <1>2, <1>3, <1>4, <1>5 DEF Get

\* However the links break and the server comes and goes, an operation is
\* handed NULL only while the server is down, until an operation has lost a
\* connection or the destructor runs.
THEOREM NeverRefused ==
  ASSUME Cardinality(Workers) <= MaxSize
  PROVE  Spec => LendWhenUp
<1>1. ASSUME IInv, [Next]_vars, NEW w \in Workers, lost = {}, main = "running",
             pc[w] = "out", pc'[w] = "got", held'[w] = NoSession
      PROVE  ~up
  <2>1. held[w] = NoSession
    BY <1>1 DEF IInv, InHand
  <2>2. CASE GetDropped(w)
    BY <2>2 DEF GetDropped
  <2>3. CASE GetNull(w)
    <3>1. idle = <<>> /\ (curSize >= MaxSize \/ ~up)
      BY <2>3 DEF GetNull
    <3>2. Existing = Borrowed
      <4>1. Listed = {}
        BY <3>1 DEF Listed
      <4> QED
        BY <1>1, <4>1 DEF IInv, Divided
    <3>3. curSize = Cardinality(Borrowed)
      BY <1>1, <3>2 DEF IInv, Counted
    <3>4. Cardinality(Borrowed) \in Nat /\ Cardinality(Borrowed) < MaxSize
      BY <1>1, <2>1, OneIsLeft
    <3>5. ~(curSize >= MaxSize)
      BY <3>3, <3>4, SizeAssumption
    <3> QED
      BY <3>1, <3>5
  <2> QED
    BY <1>1, <2>2, <2>3, NullFrom
<1>2. IInv /\ [Next]_vars =>
        [\A w \in Workers :
           lost = {} /\ main = "running" /\ pc[w] = "out" /\ pc'[w] = "got" /\ held'[w] = NoSession
           => ~up]_vars
  BY <1>1
<1> QED
  BY <1>2, Invariance, PTL DEF Spec, LendWhenUp

-----------------------------------------------------------------------------
(* The limit alone refuses nobody, destructor or not, while nothing leaks. *)

\* curSize falls behind the connections there are only when the destructor resets it.
NoneLost == lost = {} /\ curSize <= Cardinality(Existing)

LEMMA CountsMove ==
  ASSUME IInv, NEW w \in Workers
  PROVE  /\ GetReplaced(w) => Cardinality(Existing') = Cardinality(Existing)
         /\ GetDropped(w) => Cardinality(Existing') = Cardinality(Existing) - 1
         /\ GetCreated(w) => Cardinality(Existing') = Cardinality(Existing) + 1
<1> USE Parts
<1> DEFINE h == Head(idle)
<1>1. idle # <<>> => h \in Existing
  BY PopFront, ListedIsElems DEF TypeOK
<1>2. link \in [Sessions -> {"none", "open", "broken"}]
  BY DEF TypeOK
<1>3. ASSUME GetReplaced(w) PROVE Cardinality(Existing') = Cardinality(Existing)
  <2>1. PICK t \in Sessions : /\ link[t] = "none" \/ t = h
                             /\ link' = [link EXCEPT ![h] = "none", ![t] = "open"]
    BY <1>3 DEF GetReplaced
  <2>2. h \in Existing
    BY <1>1, <1>3 DEF GetReplaced
  <2> HIDE DEF h
  <2>3. Existing' = (Existing \ {h}) \union {t} /\ t \notin Existing \ {h}
    BY <1>2, <2>1, <2>2 DEF Existing
  <2>4. /\ IsFiniteSet(Existing \ {h})
        /\ Cardinality(Existing \ {h}) = Cardinality(Existing) - 1
    BY <2>2, SessionsFinite, FS_RemoveElement
  <2>5. Cardinality((Existing \ {h}) \union {t}) = Cardinality(Existing \ {h}) + 1
    BY <2>3, <2>4, FS_AddElement
  <2> QED
    BY <2>3, <2>4, <2>5, SessionsFinite
<1>4. ASSUME GetDropped(w) PROVE Cardinality(Existing') = Cardinality(Existing) - 1
  <2>1. h \in Existing /\ link' = [link EXCEPT ![h] = "none"]
    BY <1>1, <1>4 DEF GetDropped
  <2> HIDE DEF h
  <2>2. Existing' = Existing \ {h}
    BY <1>2, <2>1 DEF Existing
  <2> QED
    BY <2>1, <2>2, SessionsFinite, FS_RemoveElement
<1>5. ASSUME GetCreated(w) PROVE Cardinality(Existing') = Cardinality(Existing) + 1
  <2>1. PICK t \in Sessions : link[t] = "none" /\ link' = [link EXCEPT ![t] = "open"]
    BY <1>5 DEF GetCreated, Connect
  <2>2. Existing' = Existing \union {t} /\ t \notin Existing
    BY <1>2, <2>1 DEF Existing
  <2> QED
    BY <2>2, SessionsFinite, FS_AddElement
<1> QED
  BY <1>3, <1>4, <1>5

LEMMA NoneLostStays ==
  ASSUME IInv, NoneLost, ~Leaky, [Next]_vars PROVE NoneLost'
<1>1. /\ curSize \in Int /\ Cardinality(Existing) \in Nat /\ Cardinality(Existing') \in Nat
      /\ lost = {} /\ curSize <= Cardinality(Existing)
  BY SessionsFinite DEF IInv, TypeOK, NoneLost
<1>2. ASSUME lost' = lost, curSize' = curSize, Existing' = Existing PROVE NoneLost'
  BY <1>1, <1>2 DEF NoneLost
<1>3. CASE Server
  <2>1. link \in [Sessions -> {"none", "open", "broken"}]
    BY DEF IInv, TypeOK
  <2>2. /\ lost' = lost /\ curSize' = curSize
        /\ \A s \in Sessions : link'[s] = "none" <=> link[s] = "none"
    BY <1>3, <2>1 DEF Server, BreakLink, ServerStops, ServerStarts, poolVars
  <2> QED
    BY <1>2, <2>2 DEF Existing
<1>4. CASE Destroy
  <2>1. /\ lost' = lost /\ link' = link
        /\ curSize' = curSize \/ curSize' = 0
    BY <1>4 DEF Destroy, DestroyLocks, DestroyEnters, DestroyEnds, poolVars
  <2>2. Existing' = Existing
    BY <2>1 DEF Existing
  <2> QED
    BY <1>1, <2>1, <2>2 DEF NoneLost
<1>5. ASSUME NEW w \in Workers, Work(w) PROVE NoneLost'
  <2>1. CASE GetReplaced(w) \/ GetDropped(w) \/ GetCreated(w)
    <3>1. /\ lost' = lost
          /\ \/ curSize' = curSize /\ Cardinality(Existing') = Cardinality(Existing)
             \/ curSize' = curSize - 1 /\ Cardinality(Existing') = Cardinality(Existing) - 1
             \/ curSize' = curSize + 1 /\ Cardinality(Existing') = Cardinality(Existing) + 1
      BY <2>1, CountsMove DEF GetReplaced, GetDropped, GetCreated
    <3> QED
      BY <1>1, <3>1 DEF NoneLost
  <2>2. CASE GetIdle(w) \/ GetCrashes(w) \/ GetNull(w) \/ UseNull(w) \/ Use(w) \/ Release(w)
    BY <1>2, <2>2 DEF GetIdle, GetCrashes, GetNull, UseNull, Use, Release, Existing, poolVars
  <2> QED
    BY <1>5, <2>1, <2>2 DEF Work, Get, Leak
<1>6. CASE UNCHANGED vars
  BY <1>2, <1>6 DEF vars, poolVars, Existing
<1> QED
  BY <1>3, <1>4, <1>5, <1>6 DEF Next

\* The operations that lose a connection are all that makes the pool refuse one while
\* the server is up: where every path releases, LendAlways holds, before, during and
\* after the destructor.
THEOREM OnlyLeaksRefuse ==
  ASSUME ~Leaky, Cardinality(Workers) <= MaxSize
  PROVE  Spec => LendAlways
<1>1. Init /\ IInv => NoneLost
  <2> SUFFICES ASSUME Init, IInv PROVE NoneLost
    OBVIOUS
  <2>1. curSize = Cardinality(Existing) /\ lost = {}
    BY DEF Init, IInv, Counted
  <2> QED
    BY <2>1, SessionsFinite DEF NoneLost
<1>2. IInv /\ NoneLost /\ [Next]_vars => NoneLost'
  BY NoneLostStays
<1>3. ASSUME IInv, NoneLost, [Next]_vars, NEW w \in Workers,
             pc[w] = "out", pc'[w] = "got", held'[w] = NoSession
      PROVE  ~up
  <2>1. held[w] = NoSession
    BY <1>3 DEF IInv, InHand
  <2>2. CASE GetDropped(w)
    BY <2>2 DEF GetDropped
  <2>3. CASE GetNull(w)
    <3>1. idle = <<>> /\ (curSize >= MaxSize \/ ~up)
      BY <2>3 DEF GetNull
    <3>2. Existing = Borrowed
      <4>1. Listed = {}
        BY <3>1 DEF Listed
      <4> QED
        BY <1>3, <4>1 DEF IInv, Divided, NoneLost
    <3>3. /\ Cardinality(Borrowed) \in Nat /\ Cardinality(Borrowed) < MaxSize
          /\ curSize <= Cardinality(Borrowed) /\ curSize \in Int
      BY <1>3, <2>1, <3>2, OneIsLeft DEF NoneLost, IInv, TypeOK
    <3>4. ~(curSize >= MaxSize)
      BY <3>3, SizeAssumption
    <3> QED
      BY <3>1, <3>4
  <2> QED
    BY <1>3, <2>2, <2>3, NullFrom
<1>4. IInv /\ NoneLost /\ [Next]_vars =>
        [\A w \in Workers :
           pc[w] = "out" /\ pc'[w] = "got" /\ held'[w] = NoSession => ~up]_vars
  BY <1>3
<1> QED
  BY <1>1, <1>2, <1>4, Invariance, PTL DEF Spec, LendAlways

-----------------------------------------------------------------------------
(* The refinement: each session has one owner, and a step moves one or two. *)

\* What makes m the owner of s.
Has(s, m) == \/ m = AbsentMark /\ s \notin Existing
             \/ m = IdleMark /\ s \in Listed
             \/ m = LostMark /\ s \in lost
             \/ \E w \in Workers : m = w /\ held[w] = s

LEMMA OwnerIs ==
  ASSUME IInv
  PROVE  \A s \in Sessions : \A m : Has(s, m) => OwnerOf(s) = m
<1> SUFFICES ASSUME NEW s \in Sessions, NEW m, Has(s, m) PROVE OwnerOf(s) = m
  OBVIOUS
<1>1. \A w \in Workers : held[w] = s => s \in Borrowed /\ \A v \in Workers : held[v] = s => v = w
  BY SessionAssumption DEF Borrowed, IInv, Divided, Exclusive
<1>2. /\ s \in Existing <=> link[s] # "none"
      /\ Existing = Listed \union Borrowed \union lost
      /\ Listed \intersect Borrowed = {} /\ lost \intersect (Listed \union Borrowed) = {}
  BY DEF Existing, IInv, Divided, Exclusive
<1>3. ASSUME NEW w \in Workers, held[w] = s PROVE (CHOOSE v \in Workers : held[v] = s) = w
  BY <1>1, <1>3
<1> QED
  BY <1>1, <1>2, <1>3 DEF Has, OwnerOf

LEMMA OwnerIsNext ==
  ASSUME IInv'
  PROVE  \A s \in Sessions : \A m : Has(s, m)' => OwnerOf(s)' = m
<1> SUFFICES ASSUME NEW s \in Sessions, NEW m, Has(s, m)' PROVE OwnerOf(s)' = m
  OBVIOUS
<1>1. \A w \in Workers : held'[w] = s => s \in Borrowed' /\ \A v \in Workers : held'[v] = s => v = w
  BY SessionAssumption DEF Borrowed, IInv, Divided, Exclusive
<1>2. /\ s \in Existing' <=> link'[s] # "none"
      /\ Existing' = Listed' \union Borrowed' \union lost'
      /\ Listed' \intersect Borrowed' = {} /\ lost' \intersect (Listed' \union Borrowed') = {}
  BY DEF Existing, IInv, Divided, Exclusive
<1>3. ASSUME NEW w \in Workers, held'[w] = s PROVE (CHOOSE v \in Workers : held'[v] = s) = w
  BY <1>1, <1>3
<1> QED
  BY <1>1, <1>2, <1>3 DEF Has, OwnerOf

LEMMA EachHasOne ==
  ASSUME IInv, NEW s \in Sessions
  PROVE  /\ Has(s, owner[s])
         /\ \A w \in Workers : owner[s] = w => held[w] = s
<1>1. \E m : Has(s, m)
  BY DEF Has, IInv, Divided, Borrowed
<1>2. owner[s] = OwnerOf(s)
  BY DEF owner
<1>3. Has(s, owner[s])
  BY <1>1, <1>2, OwnerIs
<1> QED
  BY <1>3, MarkAssumption DEF Has

\* Sessions whose owner a step does not change.
Keeps(s) == \A m : Has(s, m) => Has(s, m)'

LEMMA OwnersStay ==
  ASSUME IInv, IInv', \A s \in Sessions : Keeps(s)
  PROVE  UNCHANGED owner
<1>1. \A s \in Sessions : OwnerOf(s)' = OwnerOf(s)
  <2> SUFFICES ASSUME NEW s \in Sessions PROVE OwnerOf(s)' = OwnerOf(s)
    OBVIOUS
  <2>1. Has(s, OwnerOf(s))
    BY EachHasOne DEF owner
  <2> QED
    BY <2>1, OwnerIsNext DEF Keeps
<1>2. owner = [s \in Sessions |-> OwnerOf(s)] /\ owner' = [s \in Sessions |-> OwnerOf(s)']
  BY DEF owner
<1> QED
  BY <1>1, <1>2

LEMMA OwnerMoves ==
  ASSUME IInv, IInv', NEW s \in Sessions, NEW a, NEW b, Has(s, a), Has(s, b)',
         \A r \in Sessions : r # s => Keeps(r)
  PROVE  owner[s] = a /\ owner' = [owner EXCEPT ![s] = b]
<1>1. \A r \in Sessions : r # s => OwnerOf(r)' = OwnerOf(r)
  <2> SUFFICES ASSUME NEW r \in Sessions, r # s PROVE OwnerOf(r)' = OwnerOf(r)
    OBVIOUS
  <2>1. Has(r, OwnerOf(r))
    BY EachHasOne DEF owner
  <2> QED
    BY <2>1, OwnerIsNext DEF Keeps
<1>2. owner = [r \in Sessions |-> OwnerOf(r)] /\ owner' = [r \in Sessions |-> OwnerOf(r)']
  BY DEF owner
<1>3. OwnerOf(s) = a /\ OwnerOf(s)' = b
  BY OwnerIs, OwnerIsNext
<1> QED
  BY <1>1, <1>2, <1>3

LEMMA LeaseCounts == \A S : Lease!Cardinality(S) = Cardinality(S)
BY DEF Lease!Cardinality, Cardinality

LEMMA NothingLeased ==
  ASSUME IInv, NEW w \in Workers, held[w] = NoSession
  PROVE  Lease!Leases(w) = {}
BY EachHasOne, SessionAssumption DEF Lease!Leases

\* A worker with nothing in hand is given s, whose owner was a.
LEMMA Gives ==
  ASSUME IInv, IInv', NEW w \in Workers, NEW s \in Sessions, NEW a,
         held[w] = NoSession, held' = [held EXCEPT ![w] = s], Has(s, a),
         Listed' = Listed \ {s}, lost' = lost, main' = main,
         \A r \in Sessions : r # s => (r \in Existing' <=> r \in Existing)
  PROVE  owner[s] = a /\ Lease!Give(s, w)
<1>1. held'[w] = s /\ \A v \in Workers : v # w => held'[v] = held[v]
  BY DEF IInv, TypeOK
<1>2. Has(s, w)'
  BY <1>1 DEF Has
<1>3. \A r \in Sessions : r # s => Keeps(r)
  BY <1>1, SessionAssumption DEF Keeps, Has
<1>4. owner[s] = a /\ owner' = [owner EXCEPT ![s] = w]
  BY <1>2, <1>3, OwnerMoves
<1> QED
  BY <1>4, NothingLeased DEF Lease!Give

LEMMA GetIdleLeases ==
  ASSUME IInv, IInv', NEW w \in Workers, GetIdle(w)
  PROVE  Lease!Next
<1>1. PICK h \in Sessions : h = Head(idle) /\ h \in Listed /\ Listed' = Listed \ {h}
  BY Parts, PopFront, ListedIsElems DEF GetIdle, TypeOK
<1>2. /\ held[w] = NoSession /\ held' = [held EXCEPT ![w] = h]
      /\ UNCHANGED <<lost, main, link>>
  BY <1>1 DEF GetIdle, Got, Asks, IInv, InHand
<1>3. Existing' = Existing
  BY <1>2 DEF Existing
<1>4. Has(h, IdleMark)
  BY <1>1 DEF Has
<1>5. Lease!Lend(h, w)
  BY <1>1, <1>2, <1>3, <1>4, Gives DEF Lease!Lend
<1> QED
  BY <1>5 DEF Lease!Next

LEMMA GetCreatedLeases ==
  ASSUME IInv, IInv', NEW w \in Workers, GetCreated(w)
  PROVE  Lease!Next
<1>1. PICK s \in Sessions : link[s] = "none" /\ Connect(s) /\ Got(w, s)
  BY DEF GetCreated
<1>2. /\ held[w] = NoSession /\ held' = [held EXCEPT ![w] = s]
      /\ UNCHANGED <<lost, main, idle>>
  BY <1>1 DEF GetCreated, Got, Asks, IInv, InHand
<1>3. s \notin Existing /\ \A r \in Sessions : r # s => (r \in Existing' <=> r \in Existing)
  BY <1>1 DEF Connect, Existing, IInv, TypeOK
<1>4. Listed' = Listed \ {s}
  BY <1>2, <1>3 DEF Listed, IInv, Divided
<1>5. Has(s, AbsentMark)
  BY <1>3 DEF Has
<1>6. owner[s] = AbsentMark /\ Lease!Give(s, w)
  BY <1>2, <1>3, <1>4, <1>5, Gives
<1>7. Lease!Existing = Existing
  <2>1. ASSUME NEW r \in Sessions PROVE owner[r] # AbsentMark <=> r \in Existing
    <3>1. Has(r, owner[r])
      BY EachHasOne
    <3>2. r \notin Existing => Has(r, AbsentMark)
      BY DEF Has
    <3>3. r \notin Existing => owner[r] = AbsentMark
      BY <3>2, OwnerIs DEF owner
    <3> QED
      BY <3>1, <3>3, MarkAssumption DEF Has
  <2> QED
    BY <2>1 DEF Lease!Existing, Existing
<1>8. main # "destroyed" => Cardinality(Lease!Existing) < MaxSize
  BY <1>7 DEF GetCreated, IInv, Counted
<1>9. Lease!Create(s, w)
  BY <1>6, <1>8, LeaseCounts DEF Lease!Create
<1> QED
  BY <1>9 DEF Lease!Next

LEMMA GetReplacedLeases ==
  ASSUME IInv, IInv', NEW w \in Workers, GetReplaced(w)
  PROVE  Lease!Next
<1>1. PICK h \in Sessions : h = Head(idle) /\ h \in Listed /\ Listed' = Listed \ {h}
  BY Parts, PopFront, ListedIsElems DEF GetReplaced, TypeOK
<1>2. PICK t \in Sessions :
        /\ link[t] = "none" \/ t = h
        /\ link' = [link EXCEPT ![h] = "none", ![t] = "open"]
        /\ Got(w, t)
  BY <1>1 DEF GetReplaced
<1>3. /\ held[w] = NoSession /\ held' = [held EXCEPT ![w] = t] /\ UNCHANGED <<lost, main>>
  BY <1>2 DEF GetReplaced, Got, Asks, IInv, InHand
<1>4. held'[w] = t /\ \A v \in Workers : v # w => held'[v] = held[v]
  BY <1>3 DEF IInv, TypeOK
<1>5. Existing' = (Existing \ {h}) \union {t}
  <2>1. link'[t] = "open" /\ \A r \in Sessions : r # t => link'[r] = IF r = h THEN "none" ELSE link[r]
    BY <1>2 DEF IInv, TypeOK
  <2> QED
    BY <2>1 DEF Existing
<1>6. Has(h, IdleMark) /\ Has(t, w)' /\ (t # h => Has(h, AbsentMark)')
  BY <1>1, <1>4, <1>5 DEF Has
<1>7. \A r \in Sessions : r \notin {h, t} => Keeps(r)
  BY <1>1, <1>3, <1>4, <1>5, SessionAssumption DEF Keeps, Has
<1>8. ASSUME NEW r \in Sessions, r \notin {h, t} PROVE OwnerOf(r)' = OwnerOf(r)
  <2>1. Has(r, OwnerOf(r))
    BY EachHasOne DEF owner
  <2> QED
    BY <1>7, <1>8, <2>1, OwnerIsNext DEF Keeps
<1>9. OwnerOf(t)' = w /\ (t # h => OwnerOf(h)' = AbsentMark)
  BY <1>6, OwnerIsNext
<1>10. owner = [r \in Sessions |-> OwnerOf(r)] /\ owner' = [r \in Sessions |-> OwnerOf(r)']
  BY DEF owner
<1>11. owner' = [owner EXCEPT ![h] = AbsentMark, ![t] = w]
  BY <1>8, <1>9, <1>10
<1>12. owner[h] = IdleMark
  BY <1>6, <1>10, OwnerIs
<1>13. owner[t] = AbsentMark \/ t = h
  <2>1. link[t] = "none" => Has(t, AbsentMark)
    BY DEF Has, Existing
  <2> QED
    BY <1>2, <1>10, <2>1, OwnerIs
<1>14. Lease!Replace(h, t, w)
  BY <1>3, <1>11, <1>12, <1>13, NothingLeased DEF Lease!Replace
<1> QED
  BY <1>14 DEF Lease!Next

LEMMA GetDroppedLeases ==
  ASSUME IInv, IInv', NEW w \in Workers, GetDropped(w)
  PROVE  Lease!Next
<1>1. PICK h \in Sessions : h = Head(idle) /\ h \in Listed /\ Listed' = Listed \ {h}
  BY Parts, PopFront, ListedIsElems DEF GetDropped, TypeOK
<1>2. /\ held[w] = NoSession /\ held' = [held EXCEPT ![w] = NoSession]
      /\ link' = [link EXCEPT ![h] = "none"] /\ UNCHANGED <<lost, main>>
  BY <1>1 DEF GetDropped, Got, Asks, IInv, InHand
<1>3. held' = held /\ Existing' = Existing \ {h}
  BY <1>2 DEF Existing, IInv, TypeOK
<1>4. Has(h, IdleMark) /\ Has(h, AbsentMark)'
  BY <1>1, <1>3 DEF Has
<1>5. \A r \in Sessions : r # h => Keeps(r)
  BY <1>1, <1>2, <1>3 DEF Keeps, Has
<1>6. owner[h] = IdleMark /\ owner' = [owner EXCEPT ![h] = AbsentMark]
  BY <1>4, <1>5, OwnerMoves
<1> QED
  BY <1>2, <1>6 DEF Lease!Retire, Lease!Moves, Lease!Next

\* A worker lets its session go, to the list or to nobody.
LEMMA EndLeases ==
  ASSUME IInv, IInv', NEW w \in Workers, Release(w) \/ Leak(w)
  PROVE  Lease!Next
<1>1. /\ held[w] # NoSession /\ held' = [held EXCEPT ![w] = NoSession] /\ UNCHANGED <<link, main>>
      /\ held[w] \in Sessions
  BY DEF Release, Leak, Ends, IInv, InHand, TypeOK
<1>2. PICK s \in Sessions : s = held[w]
  BY <1>1
<1>3. /\ held'[w] = NoSession /\ \A v \in Workers : v # w => held'[v] = held[v]
      /\ s \notin Listed /\ s \in Borrowed
  BY <1>1, <1>2, SessionAssumption DEF IInv, TypeOK, Divided, Exclusive, Borrowed
<1>4. Existing' = Existing /\ Has(s, w)
  BY <1>1, <1>2 DEF Existing, Has
<1>5. CASE Release(w)
  <2>1. Listed' = Listed \union {s} /\ lost' = lost
    <3>1. idle' = Append(idle, s) /\ s \notin Elems(idle) /\ lost' = lost
      BY <1>2, <1>1, <1>3, <1>5, ListedIsElems DEF Release
    <3>2. idle \in Seq(Sessions) /\ NoRepeats(idle)
      BY Parts DEF TypeOK
    <3>3. Elems(Append(idle, s)) = Elems(idle) \union {s}
      BY <3>1, <3>2, PushBack
    <3> QED
      BY <3>1, <3>3, ListedIsElems
  <2>2. Has(s, IdleMark)'
    BY <2>1 DEF Has
  <2>3. \A r \in Sessions : r # s => Keeps(r)
    BY <1>2, <1>3, <1>4, <2>1 DEF Keeps, Has
  <2>4. owner[s] = w /\ owner' = [owner EXCEPT ![s] = IdleMark]
    BY <1>4, <2>2, <2>3, OwnerMoves
  <2> QED
    BY <1>1, <2>4 DEF Lease!Return, Lease!Moves, Lease!Next
<1>6. CASE Leak(w)
  <2>1. Listed' = Listed /\ lost' = lost \union {s}
    BY <1>2, <1>6 DEF Leak, Listed, poolVars
  <2>2. Has(s, LostMark)'
    BY <2>1 DEF Has
  <2>3. \A r \in Sessions : r # s => Keeps(r)
    BY <1>2, <1>3, <1>4, <2>1 DEF Keeps, Has
  <2>4. owner[s] = w /\ owner' = [owner EXCEPT ![s] = LostMark]
    BY <1>4, <2>2, <2>3, OwnerMoves
  <2> QED
    BY <1>1, <2>4 DEF Lease!Lose, Lease!Moves, Lease!Next
<1> QED
  BY <1>5, <1>6

\* No other step moves a session; the destructor ends the bound.
LEMMA QuietLeases ==
  ASSUME IInv, IInv', UNCHANGED <<idle, held, lost>>, Existing' = Existing
  PROVE  UNCHANGED owner
<1>1. \A s \in Sessions : Keeps(s)
  BY DEF Keeps, Has, Listed
<1> QED
  BY <1>1, OwnersStay

LEMMA NextLeases == ASSUME IInv, IInv', [Next]_vars PROVE [Lease!Next]_(Lease!vars)
<1> SUFFICES Lease!Next \/ (UNCHANGED owner /\ (main # "destroyed" <=> main' # "destroyed"))
  BY DEF Lease!vars
<1>1. CASE UNCHANGED vars
  BY <1>1, QuietLeases DEF vars, poolVars, Existing
<1>2. ASSUME NEW w \in Workers, GetNull(w) \/ GetCrashes(w) \/ UseNull(w) \/ Use(w)
      PROVE  UNCHANGED owner /\ main' = main
  <2>1. UNCHANGED <<idle, lost, link, main>>
    BY <1>2 DEF GetNull, GetCrashes, UseNull, Use, poolVars
  <2>2. held' = held
    <3>1. held' = held \/ (held[w] = NoSession /\ held' = [held EXCEPT ![w] = NoSession])
      BY <1>2 DEF GetNull, GetCrashes, UseNull, Use, Got, Asks, IInv, InHand
    <3>2. held \in [Workers -> Sessions \union {NoSession}]
      BY DEF IInv, TypeOK
    <3> QED
      BY <3>1, <3>2
  <2> QED
    BY <2>1, <2>2, QuietLeases DEF Existing
<1>3. CASE Server
  <2>1. /\ UNCHANGED <<idle, held, lost, main>>
        /\ \A s \in Sessions : link'[s] = "none" <=> link[s] = "none"
    <3>1. link \in [Sessions -> {"none", "open", "broken"}]
      BY DEF IInv, TypeOK
    <3>2. CASE \E s \in Sessions : BreakLink(s)
      BY <3>1, <3>2 DEF BreakLink, poolVars
    <3>3. CASE ServerStops
      BY <3>1, <3>3 DEF ServerStops, poolVars
    <3>4. CASE ServerStarts
      BY <3>4 DEF ServerStarts, poolVars
    <3> QED
      BY <1>3, <3>2, <3>3, <3>4 DEF Server
  <2> QED
    BY <2>1, QuietLeases DEF Existing
<1>4. CASE Destroy
  <2>1. /\ UNCHANGED <<idle, held, lost, link>>
        /\ main' = "destroyed" \/ (main' # "destroyed" /\ main # "destroyed")
    BY <1>4 DEF Destroy, DestroyLocks, DestroyEnters, DestroyEnds, poolVars
  <2>2. UNCHANGED owner
    BY <2>1, QuietLeases DEF Existing
  <2> QED
    BY <2>1, <2>2 DEF Lease!ShutDown, Lease!Next
<1>5. ASSUME NEW w \in Workers, Work(w)
      PROVE  Lease!Next \/ (UNCHANGED owner /\ main' = main)
  BY <1>2, <1>5, GetIdleLeases, GetCreatedLeases, GetReplacedLeases, GetDroppedLeases, EndLeases
  DEF Work, Get
<1> QED
  BY <1>1, <1>3, <1>4, <1>5 DEF Next

LEMMA InitLeases == ASSUME Init, IInv PROVE Lease!Init
<1>1. Existing = Listed /\ main = "running"
  BY DEF Init, Existing, Listed
<1>2. \A s \in Sessions : OwnerOf(s) = IF s \in Existing THEN IdleMark ELSE AbsentMark
  BY <1>1 DEF OwnerOf, Existing
<1>3. Lease!Existing = Existing
  BY <1>2, MarkAssumption DEF Lease!Existing, owner, Existing
<1>4. owner \in [Sessions -> {AbsentMark, IdleMark}]
  BY <1>2 DEF owner
<1>5. Cardinality(Lease!Existing) <= MaxSize
  BY <1>1, <1>3 DEF IInv, Counted
<1> QED
  BY <1>1, <1>4, <1>5, LeaseCounts DEF Lease!Init

\* The list and the counter of the pool implement leases of sessions: one borrower at a
\* time, no more than MaxSize until the destructor, none taken from a borrower.
THEOREM ImplementsLeases == Spec => LeasesSessions
<1>1. Init /\ IInv => Lease!Init
  BY InitLeases
<1>2. IInv /\ IInv' /\ [Next]_vars => [Lease!Next]_(Lease!vars)
  BY NextLeases
<1> QED
  BY <1>1, <1>2, Invariance, PTL DEF Spec, LeasesSessions, Lease!Spec
=============================================================================

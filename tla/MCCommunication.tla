-------------------------- MODULE MCCommunication ---------------------------
EXTENDS Communication, TLC

\* Threads of one kind run the same code.
ThreadSymmetry == Permutations(Receivers) \union Permutations(Disposers)
=============================================================================

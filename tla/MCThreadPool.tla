---------------------------- MODULE MCThreadPool ----------------------------
(* The pool on small instances: the configurations give the threads, the   *)
(* tasks and which of the tasks never end.                                 *)
EXTENDS ThreadPool
=============================================================================

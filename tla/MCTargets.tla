----------------------------- MODULE MCTargets -----------------------------
(* The targets with two normal mutexes and an error-checking one. *)
EXTENDS Targets

KindOfEach == [m \in Mutex |-> IF m = CheckedMutex THEN "errorcheck" ELSE "normal"]
=============================================================================

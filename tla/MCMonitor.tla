----------------------------- MODULE MCMonitor -----------------------------
(* Monitor with the mutex kinds of the runs. *)
EXTENDS Monitor, TLC

CONSTANTS a, b

AllNormal == [m \in Mutex |-> "normal"]

RecursiveAndErrorcheck == (a :> "recursive") @@ (b :> "errorcheck")

\* All mutexes are of one kind and threads are told apart by slot order only.
Symmetry == Permutations(Thread) \cup Permutations(Mutex)
=============================================================================

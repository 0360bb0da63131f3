---------------------------- MODULE MCTransport ----------------------------
(* Transport with two interchangeable threads. *)
EXTENDS Transport, TLC

Threads == Permutations(Thread)
=============================================================================

---------------------------- MODULE MCRingBuffer ----------------------------
(* RingBuffer with a ring of four slots whose counters wrap every second   *)
(* time round the ring; no bound on the number of calls is needed.         *)
EXTENDS RingBuffer
=============================================================================

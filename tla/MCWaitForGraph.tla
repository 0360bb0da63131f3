--------------------------- MODULE MCWaitForGraph ---------------------------
(* Four threads and a mutex for each. *)
EXTENDS WaitForGraph

CONSTANTS t1, t2, t3, t4, a, b, c, d

OwnOfEach == (t1 :> a) @@ (t2 :> b) @@ (t3 :> c) @@ (t4 :> d)

Registration == <<t1, t2, t3, t4>>
=============================================================================

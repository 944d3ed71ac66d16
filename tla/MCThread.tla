------------------------------ MODULE MCThread ------------------------------
(* One thread object, its starts on two regions, a caller of thread_stop. *)
EXTENDS Thread

CONSTANTS r1, r2, a1, c1
=============================================================================

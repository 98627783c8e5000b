--------------------------- MODULE MCSessionSetup ---------------------------
(* Two session addresses and two threads of one application.               *)
EXTENDS SessionSetup, TLC

CONSTANTS f1, f2, t1, t2

Addresses == Permutations(Files) \cup Permutations(Threads)
=============================================================================

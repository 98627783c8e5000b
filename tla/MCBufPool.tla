------------------------------ MODULE MCBufPool ------------------------------
(* An instance of BufPool for TLC.                                         *)
EXTENDS BufPool, TLC

CONSTANTS b1, b2, b3, b4, a1, a2, t1, t2

\* Buffers, header arrays and threads are interchangeable.
Symmetry == Permutations(Bufs) \cup Permutations(Arrays) \cup Permutations(Threads)
====

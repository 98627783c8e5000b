---------------------------- MODULE MCVirtioMsg ----------------------------
(* Instances of VirtioMsg for TLC.                                         *)
EXTENDS VirtioMsg, TLC

CONSTANTS t1, t2, b1, b2

\* Threads are interchangeable, and so are buffers; ids are not (lowest first).
Symmetry == Permutations(Threads) \cup Permutations(Bufs)
====

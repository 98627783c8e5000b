------------------------------ MODULE MCMapRefs ------------------------------
(* An instance of MapRefs for TLC.                                         *)
EXTENDS MapRefs, TLC

CONSTANTS m1, m2, m3, t1, t2

\* Maps and threads are interchangeable.
Symmetry == Permutations(Maps) \cup Permutations(Threads)
====

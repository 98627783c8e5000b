---------------------------- MODULE MCDspSignal ----------------------------
(* An instance of DspSignal for TLC: two signals of one group.             *)
EXTENDS DspSignal, TLC

CONSTANTS i1, i2, g1, t1, t2

\* The second signal is there to share the group.
Creations == i1 :> 2 @@ i2 :> 1
Receptions == i1 :> 2 @@ i2 :> 1
OneGroup == i1 :> g1 @@ i2 :> g1
====

-------------------------- MODULE MCSubsystemNotif --------------------------
(* Two subsystems of the host around one of the guest.                     *)
EXTENDS SubsystemNotif

CONSTANTS lpass, cdsp, slpi

ThreeChildren == <<lpass, slpi, cdsp>>

\* One whole restart of the first, or less of it and events of another kind; a
\* single event of the second, which shares the work queue.
EventBounds == [s \in {lpass, cdsp} |-> IF s = lpass THEN 4 ELSE 1]
=============================================================================

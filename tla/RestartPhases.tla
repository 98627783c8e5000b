--------------------------- MODULE RestartPhases ---------------------------
(***************************************************************************)
(* What a client of the guest's restart notifications may rely on.         *)
(*                                                                         *)
(* A restart of a subsystem is a round of four notifications.  When every  *)
(* event is acknowledged before the next one is raised (lossless), a       *)
(* client gets each of the four, once, in their order: the order in which  *)
(* fastrpc_restart_notifier_cb counts the restart, marks the subsystem     *)
(* down, resets the waiting callers and marks it up again.  Otherwise a    *)
(* notification may be skipped or repeated.                                *)
(***************************************************************************)
EXTENDS Naturals

CONSTANT Subsystems

VARIABLES
    lossless,   \* is every event acknowledged before the next one?
    count,      \* notifications of restart phases so far, by subsystem
    last        \* the latest of them

vars == <<lossless, count, last>>

\* enum qcom_ssr_notify_type
BEFORE_POWERUP  == 0
AFTER_POWERUP   == 1
BEFORE_SHUTDOWN == 2
AFTER_SHUTDOWN  == 3

Types == {BEFORE_POWERUP, AFTER_POWERUP, BEFORE_SHUTDOWN, AFTER_SHUTDOWN}

Round == <<BEFORE_SHUTDOWN, AFTER_SHUTDOWN, BEFORE_POWERUP, AFTER_POWERUP>>

Init ==
    /\ lossless \in BOOLEAN
    /\ count = [s \in Subsystems |-> 0]
    /\ last = [s \in Subsystems |-> AFTER_POWERUP]

Notify(s) ==
    /\ count' = [count EXCEPT ![s] = @ + 1]
    /\ \E t \in Types :
        /\ lossless => t = Round[(count[s] % 4) + 1]
        /\ last' = [last EXCEPT ![s] = t]
    /\ UNCHANGED lossless

Next == \E s \in Subsystems : Notify(s)

Spec == Init /\ [][Next]_vars
=============================================================================

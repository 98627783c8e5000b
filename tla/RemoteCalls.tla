----------------------------- MODULE RemoteCalls -----------------------------
(***************************************************************************)
(* What a caller may rely on about the execution of its remote calls.      *)
(*                                                                         *)
(* A call is prepared, sent, worked on by the DSP and finished.  It is     *)
(* executed at most once: a system call that was interrupted and started   *)
(* again waits for the same execution, and a call that was refused, or     *)
(* that a restart of the subsystem or the end of its DSP process took      *)
(* away, never comes back.                                                 *)
(***************************************************************************)
CONSTANT Calls      \* the numbers of the calls

VARIABLES
    power,          \* is the subsystem "up" or "down"?
    status          \* how far each call has come

vars == <<power, status>>

Init ==
    /\ power = "up"
    /\ status = [n \in Calls |-> "new"]

Become(n, s) == status' = [status EXCEPT ![n] = s]

\* A context is set up for the call.
Prepare(n) ==
    /\ status[n] = "new"
    /\ Become(n, "prepared")
    /\ UNCHANGED power

\* The DSP gets the request.
Start(n) ==
    /\ power = "up" /\ status[n] = "prepared"
    /\ Become(n, "running")
    /\ UNCHANGED power

\* The call fails before it is sent, or its message is lost.
Refuse(n) ==
    /\ status[n] = "prepared"
    /\ Become(n, "dropped")
    /\ UNCHANGED power

\* The DSP delivers the result, or answers that it has no process to run it.
Finish(n) ==
    /\ power = "up" /\ status[n] \in {"prepared", "running"}
    /\ Become(n, "finished")
    /\ UNCHANGED power

\* The DSP stops working on the calls of a process, or on all.
Drop(S) ==
    /\ \A n \in S : status[n] = "running"
    /\ status' = [n \in Calls |-> IF n \in S THEN "dropped" ELSE status[n]]

EndProcess ==
    /\ \E S \in SUBSET Calls : Drop(S)
    /\ UNCHANGED power

Stop ==
    /\ power = "up" /\ power' = "down"
    /\ Drop({n \in Calls : status[n] = "running"})

Recover ==
    /\ power = "down" /\ power' = "up"
    /\ UNCHANGED status

Next ==
    \/ \E n \in Calls : Prepare(n) \/ Start(n) \/ Refuse(n) \/ Finish(n)
    \/ EndProcess \/ Stop \/ Recover

Spec == Init /\ [][Next]_vars
=============================================================================

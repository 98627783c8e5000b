--------------------------- MODULE SubsystemNotif ---------------------------
(***************************************************************************)
(* The guest's notification of subsystem restarts (subsystem_notif_virt.c).*)
(*                                                                         *)
(* For a subsystem the host owns ("virtual"), the host writes an event     *)
(* into a state register and raises an interrupt; the threaded handler     *)
(* queues a work item; the work function reads the register when it runs,  *)
(* converts the event, calls the notifier chain and writes the chain's     *)
(* result into the client-state register.  One single-threaded work queue  *)
(* serves all subsystems.  For a subsystem the guest owns ("native"), a    *)
(* notifier callback writes the guest's event into a register.             *)
(*                                                                         *)
(* The host is external: it restarts its subsystems at will and may raise  *)
(* events that are no restart phase.  A host that waits takes the write of *)
(* the client-state register, which it clears first, for its go-ahead.     *)
(***************************************************************************)
EXTENDS Naturals, Sequences, SequencesExt

CONSTANTS
    Children,   \* the device-tree children, in order
    Virtual,    \* those of type "virtual" (or of an unknown type: value 0)
    OtherEvent, \* a host event that is no restart phase
    Early,      \* may the host raise an event before the probe is over?
    OwnEvents,  \* guest types that occur for the guest's own subsystems
    MaxEvents,  \* bound, by virtual child: events the host raises
    NULL

Subsystems == ToSet(Children)
Native == Subsystems \ Virtual

ASSUME NotifAssumption ==
    /\ Virtual \subseteq Subsystems
    /\ \A i, j \in DOMAIN Children : Children[i] = Children[j] => i = j
    /\ OtherEvent \in 4 .. 8
    /\ Early \in BOOLEAN
    /\ OwnEvents \subseteq 0 .. 3
    /\ MaxEvents \in [Virtual -> Nat]
    /\ NULL \notin Subsystems

VARIABLES
    probe,   \* phase of the driver and the child get_resources works on
    wq,      \* ssr_wq: "none", "live" or "destroyed"
    irq,     \* the state interrupt: "none", "requested" or "failed"
    ready,   \* children whose work item INIT_WORK has prepared
    chain,   \* native children registered on the notifier chain
    line,    \* interrupts raised by the host and not yet handled
    reg,     \* the state registers the host writes
    ack,     \* client-state registers: has the guest written an answer?
    native,  \* the state registers the guest writes
    queue,   \* pending work items
    work,    \* the running work function: step, subsystem, value read
    waits,   \* does the host wait for the answer before the next event?
    events,  \* events raised by the host, and the phase it is in
    count,   \* restart phases the notifier chain has been called with
    last,    \* the last of them
    lost     \* subsystems with an event that never became a work item

vars == <<probe, wq, irq, ready, chain, line, reg, ack, native, queue, work,
          waits, events, count, last, lost>>

driver == <<probe, wq, irq, ready, chain>>
host == <<reg, waits, events>>
client == <<count, last>>

IdleWork == [pc |-> "idle", s |-> NULL, state |-> 0]

Init ==
    /\ probe = [pc |-> "children", child |-> 1, init |-> FALSE]
    /\ wq = "live"
    /\ irq = [s \in Virtual |-> "none"]
    /\ ready = {} /\ chain = {}
    /\ line = {}
    /\ reg = [s \in Virtual |-> 3]
    /\ ack = [s \in Virtual |-> TRUE]
    /\ native = [s \in Native |-> 1]
    /\ queue = <<>> /\ work = IdleWork
    /\ waits \in BOOLEAN
    /\ events = [s \in Virtual |-> [n |-> 0, phase |-> 3]]
    /\ count = [s \in Virtual |-> 0]
    /\ last = [s \in Virtual |-> 1]
    /\ lost = {}

-----------------------------------------------------------------------------
(* Probe and removal.                                                      *)

Child == Children[probe.child]

NextChild ==
    probe' = IF probe.child = Len(Children)
             THEN [pc |-> "done", child |-> probe.child, init |-> FALSE]
             ELSE [pc |-> "children", child |-> probe.child + 1, init |-> FALSE]

\* devm_request_threaded_irq; the value it returns is not looked at.
RequestIrq ==
    /\ probe.pc = "children" /\ Child \in Virtual /\ ~probe.init
    /\ \E r \in {"requested", "failed"} : irq' = [irq EXCEPT ![Child] = r]
    /\ probe' = [probe EXCEPT !.init = TRUE]
    /\ UNCHANGED <<wq, ready, chain, line, host, ack, native, queue, work,
                   client, lost>>

\* INIT_WORK, after the interrupt was requested.
InitWork ==
    /\ probe.pc = "children" /\ Child \in Virtual /\ probe.init
    /\ ready' = ready \cup {Child}
    /\ NextChild
    /\ UNCHANGED <<wq, irq, chain, line, host, ack, native, queue, work, client,
                   lost>>

RegisterNative ==
    /\ probe.pc = "children" /\ Child \in Native
    /\ chain' = chain \cup {Child}
    /\ NextChild
    /\ UNCHANGED <<wq, irq, ready, line, host, ack, native, queue, work, client,
                   lost>>

\* A property, an interrupt number, an allocation or a registration fails: the
\* probe gives up.  What was registered before stays on the chain.
ChildFails ==
    /\ probe.pc = "children" /\ ~probe.init
    /\ probe' = [probe EXCEPT !.pc = "failing"]
    /\ UNCHANGED <<wq, irq, ready, chain, line, host, ack, native, queue, work,
                   client, lost>>

RemoveDriver ==
    /\ probe.pc = "done"
    /\ probe' = [probe EXCEPT !.pc = "removing"]
    /\ UNCHANGED <<wq, irq, ready, chain, line, host, ack, native, queue, work,
                   client, lost>>

\* destroy_workqueue waits until the queue has run dry.
DestroyWq ==
    /\ probe.pc \in {"failing", "removing"} /\ wq = "live"
    /\ queue = <<>> /\ work.pc = "idle"
    /\ wq' = "destroyed"
    /\ UNCHANGED <<probe, irq, ready, chain, line, host, ack, native, queue,
                   work, client, lost>>

\* release_resources, on removal only, and then the driver core frees the
\* interrupts and the descriptors.
Release ==
    /\ wq = "destroyed" /\ probe.pc \in {"failing", "removing"}
    /\ chain' = IF probe.pc = "removing" THEN {} ELSE chain
    /\ irq' = [s \in Virtual |-> "none"]
    /\ probe' = [probe EXCEPT !.pc = "gone"]
    /\ UNCHANGED <<wq, ready, line, host, ack, native, queue, work, client, lost>>

-----------------------------------------------------------------------------
(* The host (external).                                                    *)

MayRaise(s) ==
    /\ events[s].n < MaxEvents[s]
    /\ Early \/ probe.pc = "done"
    /\ waits => ack[s]

\* The next phase of a restart, or another event, which leaves the phase alone.
HostEvent(s) ==
    /\ MayRaise(s)
    /\ \E e \in {(events[s].phase + 1) % 4, OtherEvent} :
        /\ reg' = [reg EXCEPT ![s] = e]
        /\ events' = [events EXCEPT ![s] =
               [n |-> @.n + 1, phase |-> IF e < 4 THEN e ELSE @.phase]]
    /\ ack' = [ack EXCEPT ![s] = FALSE]
    /\ line' = line \cup {s}
    /\ UNCHANGED <<driver, native, queue, work, waits, client, lost>>

-----------------------------------------------------------------------------
(* The interrupt handler and the work function.                            *)

\* Fault: the work item counts as pending until its function has returned.
IrqHandler_PendingWhileRunning(s) ==
    /\ s \in line /\ irq[s] = "requested"
    /\ line' = line \ {s}
    /\ queue' = IF Contains(queue, s) \/ work.s = s THEN queue
                ELSE Append(queue, s)
    /\ UNCHANGED <<driver, host, ack, native, work, client, lost>>

\* subsystem_restart_irq_handler: queue_work does nothing for an item that is
\* pending, refuses one that was never initialised, and does not reach a queue
\* that is being, or has been, destroyed.
IrqHandler(s) ==
    /\ s \in line /\ irq[s] = "requested"
    /\ line' = line \ {s}
    /\ IF s \notin ready \/ probe.pc \in {"failing", "removing"}
       THEN lost' = lost \cup {s} /\ UNCHANGED queue
       ELSE /\ queue' = IF Contains(queue, s) THEN queue ELSE Append(queue, s)
            /\ UNCHANGED lost
    /\ UNCHANGED <<driver, host, ack, native, work, client>>

\* The worker takes an item: from here on it may be queued again.
WorkStart ==
    /\ work.pc = "idle" /\ queue # <<>>
    /\ work' = [pc |-> "read", s |-> Head(queue), state |-> 0]
    /\ queue' = Tail(queue)
    /\ UNCHANGED <<driver, host, line, ack, native, client, lost>>

\* Fault: the first two guest types are taken for the first two host types.
SsrType_Same(event) == IF event < 4 THEN event ELSE 255

\* The switch of subsystem_notif_wq_func: host events to guest types, 0xFF for
\* the events the guest has no type for.
SsrType(event) ==
    CASE event = 0 -> 2
      [] event = 1 -> 3
      [] event = 2 -> 0
      [] event = 3 -> 1
      [] OTHER -> 255

\* Fault: the answer is written before the clients are called.
WorkRead_AnswerFirst ==
    /\ work.pc = "read"
    /\ work' = [work EXCEPT !.pc = "notify", !.state = SsrType(reg[work.s])]
    /\ ack' = [ack EXCEPT ![work.s] = TRUE]
    /\ UNCHANGED <<driver, host, line, native, queue, client, lost>>

WorkRead ==
    /\ work.pc = "read"
    /\ work' = [work EXCEPT !.pc = "notify", !.state = SsrType(reg[work.s])]
    /\ UNCHANGED <<driver, host, line, ack, native, queue, client, lost>>

\* qcom_notify_ssr_clients (external): every client's callback runs, and takes
\* no notice of a type it does not know.
WorkNotify ==
    /\ work.pc = "notify"
    /\ IF work.state = 255 THEN UNCHANGED client
       ELSE /\ count' = [count EXCEPT ![work.s] = @ + 1]
            /\ last' = [last EXCEPT ![work.s] = work.state]
    /\ work' = [work EXCEPT !.pc = "answer"]
    /\ UNCHANGED <<driver, host, line, ack, native, queue, lost>>

\* Fault: no answer to an event the guest has no type for.
WorkAnswer_KnownOnly ==
    /\ work.pc = "answer"
    /\ ack' = [ack EXCEPT ![work.s] = @ \/ work.state # 255]
    /\ work' = IdleWork
    /\ UNCHANGED <<driver, host, line, native, queue, client, lost>>

WorkAnswer ==
    /\ work.pc = "answer"
    /\ ack' = [ack EXCEPT ![work.s] = TRUE]
    /\ work' = IdleWork
    /\ UNCHANGED <<driver, host, line, native, queue, client, lost>>

\* subsystem_state_callback, on an event of the guest's own subsystem: the
\* guest's type goes to the host as it is.  (What a callback does that a failed
\* probe left on the chain, with its descriptor freed, is not followed.)
NativeCallback(s) ==
    /\ s \in chain /\ probe.pc # "gone"
    /\ \E value \in OwnEvents : native' = [native EXCEPT ![s] = value]
    /\ UNCHANGED <<driver, host, line, ack, queue, work, client, lost>>

-----------------------------------------------------------------------------

Probe == RequestIrq \/ InitWork \/ RegisterNative \/ ChildFails

Teardown == DestroyWq \/ Release

Worker == WorkStart \/ WorkRead \/ WorkNotify \/ WorkAnswer

Next ==
    \/ Probe \/ RemoveDriver \/ Teardown
    \/ \E s \in Virtual : HostEvent(s) \/ IrqHandler(s)
    \/ Worker
    \/ \E s \in Native : NativeCallback(s)

Spec == Init /\ [][Next]_vars

(* Interrupt thread and worker are kernel threads that are always scheduled *)
(* in the end, and a probe or a removal that has begun runs to its end.     *)
FairSpec ==
    /\ Spec
    /\ WF_vars(Probe) /\ WF_vars(Teardown)
    /\ WF_vars(Worker)
    /\ \A s \in Virtual : WF_vars(IrqHandler(s))

-----------------------------------------------------------------------------
(* Correctness.                                                            *)

(* Clients see restarts as RestartPhases says: in a run in which the host  *)
(* waits for its answers, the conversion, the coalescing of work items and *)
(* the late read of the register neither lose, repeat nor reorder a phase. *)
Phases == INSTANCE RestartPhases
              WITH Subsystems <- Virtual, lossless <- waits

PhasesInOrder == Phases!Spec

\* The clients' last notification is the phase the host calls e.
Told(s, e) == last[s] = Phases!Round[e + 1]

(* Once everything raised for a subsystem has been handled, clients know   *)
(* the state its register holds, however fast the host wrote it: an event  *)
(* that arrives while the work function runs queues it again.              *)
LatestSeen ==
    \A s \in Virtual :
        /\ events[s].n > 0 /\ s \notin line \cup lost
        /\ ~Contains(queue, s) /\ work.s # s /\ reg[s] \in 0 .. 3
        => Told(s, reg[s])

(* The answer a waiting host takes for its go-ahead is written after the   *)
(* clients were notified: no restart proceeds behind a client's back.      *)
AnswerTells ==
    \A s \in Virtual :
        waits /\ ack[s] => Told(s, events[s].phase)

(* Every event is answered, unless its interrupt could not be requested or *)
(* arrived while the driver was only half there.                           *)
AnswerComes ==
    \A s \in Virtual :
        ~ack[s] ~> (ack[s] \/ s \in lost \/ irq[s] # "requested")
=============================================================================

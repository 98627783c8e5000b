---------------------------- MODULE SessionSetup ----------------------------
(***************************************************************************)
(* Sessions of the hybrid FastRPC driver: the unique process ids they are  *)
(* known to the DSP by, the DSP processes they start, and the queue of     *)
(* status notifications each of them reads (hybrid_fastrpc_core.c,         *)
(* hybrid_fastrpc_vdev.c, fastrpc_common.c).                               *)
(*                                                                         *)
(* A session is an address of Files, reused after kfree.  ioctl threads    *)
(* set a session up, start its DSP process and wait for notifications; the *)
(* transport's callback and the restart notifier look sessions up on the   *)
(* driver's list and queue notifications; the last fput runs file release, *)
(* when no ioctl is inside.  One action is one critical section (me->hlock,*)
(* fl->hlock, nqlock) or one access to a shared field.                     *)
(***************************************************************************)
EXTENDS Naturals, Sequences, FiniteSets, SequencesExt

CONSTANTS
    Files,        \* addresses a session (fastrpc_file) can have
    Threads,      \* ioctl threads, all of one application process
    MAX_FRPC_TGID,\* ids 1 .. MAX_FRPC_TGID - 1 are handed out
    PdTypes,      \* kinds of DSP process asked for: subset of {"signed", "unsigned"}
    CloseMayFail, \* may the backend fail to close a DSP process?
    Notifying,    \* are notifications sent and read in this instance?
    Upids,        \* names the backend gives DSP processes
    MaxLives,     \* bound: sessions ever opened
    MaxPds,       \* bound: DSP processes ever started
    MaxNotifs,    \* bound: notifications ever queued
    NULL

ASSUME SetupAssumption ==
    /\ MAX_FRPC_TGID \in Nat \ {0}
    /\ PdTypes \subseteq {"signed", "unsigned"}
    /\ {CloseMayFail, Notifying} \subseteq BOOLEAN
    /\ {MaxLives, MaxPds, MaxNotifs} \subseteq Nat
    /\ Upids \subseteq Nat \ {0}
    /\ NULL \notin Files \cup Threads

VARIABLES
    fl,        \* the sessions, by address
    drivers,   \* me->drivers: addresses on the driver's list
    used,      \* frpc_tgid_usage_array
    thr,       \* the ioctl threads
    cb,        \* fastrpc_notif_find_process: step, session found, message
    dsp,       \* the DSP processes that run (external)
    inflight,  \* status messages on their way to the driver (external)
    lives,     \* history: sessions opened
    pds,       \* history: DSP processes started
    notifs,    \* history: notifications queued
    orphans    \* history: has a close failed, leaving its process behind?

vars == <<fl, drivers, used, thr, cb, dsp, inflight, lives, pds, notifs, orphans>>

FreeFile ==
    [phase |-> "free", life |-> 0, set |-> FALSE, tgid_frpc |-> 0,
     domain |-> FALSE, unsigned |-> FALSE, init |-> FALSE, upid |-> 0,
     exit_notif |-> FALSE, queue |-> <<>>, count |-> 0, wakes |-> 0]

IdleThread == [pc |-> "idle", f |-> NULL, attrs |-> NULL]

Init ==
    /\ fl = [f \in Files |-> FreeFile]
    /\ drivers = {} /\ used = {}
    /\ thr = [t \in Threads |-> IdleThread]
    /\ cb = [pc |-> "idle", f |-> NULL, upid |-> 0]
    /\ dsp = {} /\ inflight = {}
    /\ lives = 0 /\ pds = 0 /\ notifs = 0 /\ orphans = FALSE

Open(f) == fl[f].phase = "open"

Enter(t, f, pc, attrs) ==
    /\ thr[t].pc = "idle" /\ Open(f)
    /\ thr' = [thr EXCEPT ![t] = [pc |-> pc, f |-> f, attrs |-> attrs]]

Goto(t, pc) == thr' = [thr EXCEPT ![t].pc = pc]
Return(t) == thr' = [thr EXCEPT ![t] = IdleThread]

external == <<dsp, inflight, pds, orphans>>

-----------------------------------------------------------------------------
(* hfastrpc_open.                                                          *)

OpenFile(f) ==
    /\ fl[f].phase = "free" /\ lives < MaxLives
    /\ fl' = [fl EXCEPT ![f] = [FreeFile EXCEPT !.phase = "open",
                                                !.life = lives + 1]]
    /\ drivers' = drivers \cup {f}
    /\ lives' = lives + 1
    /\ UNCHANGED <<used, thr, cb, external, notifs>>

-----------------------------------------------------------------------------
(* hfastrpc_get_info and hfastrpc_set_session_info.                        *)

\* Fault: a session may be set up again.
GetInfo_Again(t, f) ==
    /\ Enter(t, f, "getid", NULL)
    /\ fl' = [fl EXCEPT ![f].set = TRUE]
    /\ UNCHANGED <<drivers, used, cb, external, lives, notifs>>

\* Under fl->hlock: only the first caller goes on.
GetInfo(t, f) ==
    /\ ~fl[f].set
    /\ Enter(t, f, "getid", NULL)
    /\ fl' = [fl EXCEPT ![f].set = TRUE]
    /\ UNCHANGED <<drivers, used, cb, external, lives, notifs>>

FreeIds == (1 .. MAX_FRPC_TGID - 1) \ used

\* get_unique_hlos_process_id under me->hlock: the smallest free id, if any.
GetId(t) ==
    /\ thr[t].pc = "getid"
    /\ IF FreeIds = {}
       THEN Return(t) /\ UNCHANGED <<fl, used>>
       ELSE /\ \E i \in FreeIds :
                /\ \A j \in FreeIds : i <= j
                /\ used' = used \cup {i}
                /\ fl' = [fl EXCEPT ![thr[t].f].tgid_frpc = i]
            /\ Goto(t, "domain")
    /\ UNCHANGED <<drivers, cb, external, lives, notifs>>

\* There is no such domain; the debugfs buffer cannot be allocated, or the
\* device node does not give access to the domain, and the id stays with the
\* session.
InfoFails(t) ==
    /\ thr[t].pc \in {"getid", "domain"}
    /\ Return(t)
    /\ UNCHANGED <<fl, drivers, used, cb, external, lives, notifs>>

SetDomain(t) ==
    /\ thr[t].pc = "domain"
    /\ fl' = [fl EXCEPT ![thr[t].f].domain = TRUE]
    /\ Return(t)
    /\ UNCHANGED <<drivers, used, cb, external, lives, notifs>>

-----------------------------------------------------------------------------
(* hfastrpc_init_process (FASTRPC_INIT_CREATE) and virt_fastrpc_open.      *)

\* The permission checks pass; is_unsigned_pd is set for an unsigned process
\* and left alone for a signed one.  Nothing stands against a second INIT of
\* the session, after the first or beside it.
InitProcess(t, f, attrs) ==
    /\ fl[f].domain
    /\ Enter(t, f, "pdtype", attrs)
    /\ fl' = [fl EXCEPT ![f].unsigned = @ \/ attrs = "unsigned"]
    /\ UNCHANGED <<drivers, used, cb, external, lives, notifs>>

\* Under me->hlock: sessions of the process on the same channel must have
\* asked for the same type.  (The backend numbers channels by domain.)
CheckPdType(t) ==
    LET f == thr[t].f
    IN  /\ thr[t].pc = "pdtype"
        /\ IF \E g \in drivers \ {f} :
                fl[g].domain /\ fl[g].unsigned # fl[f].unsigned
           THEN Return(t)
           ELSE Goto(t, "start")
        /\ UNCHANGED <<fl, drivers, used, cb, external, lives, notifs>>

\* The message cannot be sent, or the backend refuses.
StartFails(t) ==
    /\ thr[t].pc = "start"
    /\ Return(t)
    /\ UNCHANGED <<fl, drivers, used, cb, external, lives, notifs>>

\* The backend starts a process under the session's id and names it; a name is
\* used again, and processes on two domains may have the same.
StartPd(t) ==
    LET f == thr[t].f
    IN  /\ thr[t].pc = "start" /\ pds < MaxPds
        /\ \E upid \in Upids :
            /\ dsp' = dsp \cup {[upid |-> upid, pid |-> fl[f].tgid_frpc,
                                 life |-> fl[f].life, type |-> thr[t].attrs]}
            /\ fl' = [fl EXCEPT ![f].upid = upid, ![f].init = TRUE]
        /\ pds' = pds + 1
        /\ Return(t)
        /\ UNCHANGED <<drivers, used, cb, inflight, orphans, lives, notifs>>

-----------------------------------------------------------------------------
(* Status notifications.                                                   *)

\* The DSP reports the status of a process.
DspStatus(p) ==
    /\ Notifying
    /\ p \in dsp /\ p.upid \notin inflight
    /\ inflight' = inflight \cup {p.upid}
    /\ UNCHANGED <<fl, drivers, used, thr, cb, dsp, pds, orphans, lives, notifs>>

\* fastrpc_notif_find_process: the list is searched for a session that knows its
\* process by this name, on whatever domain, under me->hlock, which is dropped
\* before the session is used.
NotifFind(upid) ==
    /\ cb.pc = "idle" /\ upid \in inflight
    /\ inflight' = inflight \ {upid}
    /\ IF \E f \in drivers : fl[f].upid = upid
       THEN \E f \in drivers : /\ fl[f].upid = upid
                               /\ cb' = [pc |-> "queue", f |-> f, upid |-> upid]
       ELSE UNCHANGED cb
    /\ UNCHANGED <<fl, drivers, used, thr, dsp, pds, orphans, lives, notifs>>

\* fastrpc_queue_pd_status, under nqlock; it wakes every waiter.
Queued(s, n) == [s EXCEPT !.queue = Append(@, n), !.count = @ + 1]

\* The notification is queued, dropped for want of memory, or written into
\* memory that has been freed.
NotifQueue ==
    /\ cb.pc = "queue"
    /\ \/ /\ fl[cb.f].phase # "free" /\ notifs < MaxNotifs
          /\ fl' = [fl EXCEPT ![cb.f] = Queued(@, cb.upid)]
          /\ notifs' = notifs + 1
       \/ UNCHANGED <<fl, notifs>>
    /\ cb' = [pc |-> "idle", f |-> NULL, upid |-> 0]
    /\ UNCHANGED <<drivers, used, thr, external, lives>>

\* fastrpc_notify_drivers, under me->hlock throughout: the sessions of the
\* domain on the list are told of the restart (0), less those for which there
\* is no memory.  The processes of the old life are gone.
RestartNotify ==
    /\ Notifying
    /\ \E told \in SUBSET {f \in drivers : fl[f].domain} :
        /\ notifs + Cardinality(told) <= MaxNotifs
        /\ fl' = [f \in Files |-> IF f \in told THEN Queued(fl[f], 0) ELSE fl[f]]
        /\ notifs' = notifs + Cardinality(told)
    /\ dsp' = {}
    /\ UNCHANGED <<drivers, used, thr, cb, inflight, pds, orphans, lives>>

-----------------------------------------------------------------------------
(* hfastrpc_wait_on_notif_queue.                                           *)

WaitNotif(t, f) ==
    /\ Notifying
    /\ Enter(t, f, "wait", NULL)
    /\ UNCHANGED <<fl, drivers, used, cb, external, lives, notifs>>

\* wait_event_interruptible ends: the counter is not zero.
Woken(t) ==
    /\ thr[t].pc = "wait" /\ fl[thr[t].f].count > 0
    /\ Goto(t, "woken")
    /\ UNCHANGED <<fl, drivers, used, cb, external, lives, notifs>>

\* A signal ends the wait: -EFAULT or -ERESTARTSYS.
WaitInterrupted(t) ==
    /\ thr[t].pc = "wait" /\ fl[thr[t].f].count = 0
    /\ Return(t)
    /\ UNCHANGED <<fl, drivers, used, cb, external, lives, notifs>>

\* exit_notif: the thread is told to go.
WakeCheck(t) ==
    /\ thr[t].pc = "woken"
    /\ IF fl[thr[t].f].exit_notif THEN Return(t) ELSE Goto(t, "take")
    /\ UNCHANGED <<fl, drivers, used, cb, external, lives, notifs>>

\* Fault: a thread that finds the queue empty gives up its wakeup.
TakeNotif_Consume(t) ==
    LET f == thr[t].f
    IN  /\ thr[t].pc = "take"
        /\ fl' = [fl EXCEPT ![f].queue = IF @ = <<>> THEN @ ELSE Tail(@),
                            ![f].count = IF @ = 0 THEN 0 ELSE @ - 1]
        /\ IF fl[f].queue = <<>> THEN Goto(t, "wait") ELSE Return(t)
        /\ UNCHANGED <<drivers, used, cb, external, lives, notifs>>

\* Under nqlock: the oldest notification, or back to the wait when another
\* thread has taken it.
TakeNotif(t) ==
    LET f == thr[t].f
    IN  /\ thr[t].pc = "take"
        /\ IF fl[f].queue = <<>>
           THEN Goto(t, "wait") /\ UNCHANGED fl
           ELSE /\ fl' = [fl EXCEPT ![f].queue = Tail(@), ![f].count = @ - 1]
                /\ Return(t)
        /\ UNCHANGED <<drivers, used, cb, external, lives, notifs>>

\* hfastrpc_control, FASTRPC_CONTROL_NOTIF_WAKE: the flag, then the counter
\* (bound: not again once a wake has been counted).
NotifWake(t, f) ==
    /\ Notifying /\ fl[f].wakes = 0
    /\ Enter(t, f, "wake", NULL)
    /\ fl' = [fl EXCEPT ![f].exit_notif = TRUE]
    /\ UNCHANGED <<drivers, used, cb, external, lives, notifs>>

NotifWakeCount(t) ==
    /\ thr[t].pc = "wake"
    /\ fl' = [fl EXCEPT ![thr[t].f].count = @ + 1, ![thr[t].f].wakes = @ + 1]
    /\ Return(t)
    /\ UNCHANGED <<drivers, used, cb, external, lives, notifs>>

-----------------------------------------------------------------------------
(* hfastrpc_file_free.                                                     *)

ReleaseStep(f, from, to) ==
    /\ fl[f].phase = from
    /\ fl' = [fl EXCEPT ![f].phase = to]

\* Fault: the DSP process is closed after its id was given back.
ReleaseStart_IdFirst(f) ==
    /\ \A t \in Threads : thr[t].f # f
    /\ ReleaseStep(f, "open", "close")
    /\ used' = used \ {fl[f].tgid_frpc}
    /\ UNCHANGED <<drivers, thr, cb, external, lives, notifs>>

\* The last reference is gone; from here on ioctls are refused.
ReleaseStart(f) ==
    /\ \A t \in Threads : thr[t].f # f
    /\ ReleaseStep(f, "open", "close")
    /\ UNCHANGED <<drivers, used, thr, cb, external, lives, notifs>>

\* virt_fastrpc_close, for a session that started a process; its result is
\* ignored.  The backend ends every process the session started.
ClosePd(f) ==
    /\ ReleaseStep(f, "close", "wake")
    /\ \/ /\ dsp' = {p \in dsp : p.life # fl[f].life}
          /\ UNCHANGED orphans
       \/ /\ CloseMayFail /\ fl[f].init
          /\ orphans' = TRUE /\ UNCHANGED dsp
    /\ UNCHANGED <<drivers, used, thr, cb, inflight, pds, lives, notifs>>

\* The wakeup for a waiting thread, of which there is none any more.
DummyWake(f) ==
    /\ fl[f].phase = "wake"
    /\ fl' = [fl EXCEPT ![f].phase = "putid", ![f].count = @ + 1,
                        ![f].wakes = @ + 1]
    /\ UNCHANGED <<drivers, used, thr, cb, external, lives, notifs>>

\* put_unique_hlos_process_id under me->hlock.
PutId(f) ==
    /\ ReleaseStep(f, "putid", "unlink")
    /\ used' = used \ {fl[f].tgid_frpc}
    /\ UNCHANGED <<drivers, thr, cb, external, lives, notifs>>

Unlink(f) ==
    /\ ReleaseStep(f, "unlink", "kfree")
    /\ drivers' = drivers \ {f}
    /\ UNCHANGED <<used, thr, cb, external, lives, notifs>>

Kfree(f) ==
    /\ fl[f].phase = "kfree"
    /\ fl' = [fl EXCEPT ![f] = FreeFile]
    /\ UNCHANGED <<drivers, used, thr, cb, external, lives, notifs>>

-----------------------------------------------------------------------------

Release(f) ==
    ClosePd(f) \/ DummyWake(f) \/ PutId(f) \/ Unlink(f) \/ Kfree(f)

Step(t) ==
    \/ GetId(t) \/ InfoFails(t) \/ SetDomain(t)
    \/ CheckPdType(t) \/ StartFails(t) \/ StartPd(t)
    \/ Woken(t) \/ WakeCheck(t) \/ TakeNotif(t) \/ NotifWakeCount(t)

Next ==
    \/ \E f \in Files : OpenFile(f) \/ ReleaseStart(f) \/ Release(f)
    \/ \E t \in Threads :
        \/ Step(t) \/ WaitInterrupted(t)
        \/ \E f \in Files :
            \/ GetInfo(t, f) \/ WaitNotif(t, f) \/ NotifWake(t, f)
            \/ \E a \in PdTypes : InitProcess(t, f, a)
    \/ \E p \in dsp : DspStatus(p)
    \/ \E u \in Upids : NotifFind(u)
    \/ NotifQueue
    \/ RestartNotify

Spec == Init /\ [][Next]_vars

-----------------------------------------------------------------------------
(* Correctness.                                                            *)

(* The ids in use are exactly those of the sessions between set-up and     *)
(* put_unique_hlos_process_id, one each: none is shared, and no sequence   *)
(* of racing or failing set-ups and releases uses the 255 ids up.          *)
IdsExact ==
    LET holders == {f \in Files : fl[f].tgid_frpc # 0
                                  /\ fl[f].phase \notin {"unlink", "kfree"}}
    IN  /\ used = {fl[f].tgid_frpc : f \in holders}
        /\ Cardinality(used) = Cardinality(holders)

(* The DSP never has two processes of different sessions under one guest   *)
(* pid: an id is given back after its process was closed.  A close that    *)
(* fails is the exception: its result is ignored and the id reused.        *)
PidsUnique ==
    orphans \/ \A p, q \in dsp : p.pid = q.pid => p.life = q.life

(* The counter the waiting threads look at is the length of the queue plus *)
(* the wakeups that tell them to go; before those, no thread spins on an   *)
(* empty queue and none sleeps on a full one.                              *)
NotifCounted ==
    \A f \in Files : fl[f].phase # "free" =>
        /\ fl[f].count = Len(fl[f].queue) + fl[f].wakes
        /\ Open(f) /\ ~fl[f].exit_notif => fl[f].wakes = 0

(* "Validate that any existing sessions of process are of same pd type": the *)
(* sessions of the application on one domain have DSP processes that are   *)
(* all signed or all unsigned (hfastrpc_init_process).                     *)
SamePdType == \A p, q \in dsp : p.life # q.life => p.type = q.type
=============================================================================

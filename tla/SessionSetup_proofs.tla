------------------------- MODULE SessionSetup_proofs -------------------------
(***************************************************************************)
(* The safety properties of SessionSetup, for any number of sessions,      *)
(* threads, ids, DSP processes and notifications.                          *)
(***************************************************************************)
EXTENDS SessionSetup, SequenceTheorems, FunctionTheorems, FiniteSetTheorems, TLAPS

FilePhases == {"free", "open", "close", "wake", "putid", "unlink", "kfree"}
ThreadPcs == {"idle", "getid", "domain", "pdtype", "start", "wait", "woken",
              "take", "wake"}
Session ==
    [phase : FilePhases, life : Nat, set : BOOLEAN, tgid_frpc : Nat,
     domain : BOOLEAN, unsigned : BOOLEAN, init : BOOLEAN, upid : Nat,
     exit_notif : BOOLEAN, queue : Seq(Nat), count : Nat, wakes : Nat]

\* The shape of the variables the invariants speak of.
Types ==
    /\ fl \in [Files -> Session]
    /\ drivers \subseteq Files
    /\ thr \in [Threads -> [pc : ThreadPcs, f : Files \cup {NULL},
                            attrs : PdTypes \cup {NULL}]]
    /\ cb \in [pc : {"idle", "queue"}, f : Files \cup {NULL}, upid : Nat]
    /\ lives \in Nat /\ pds \in Nat

\* A thread inside an ioctl keeps its session open.  One thread sets a session
\* up, and as long as it has no id for it the session has none; INIT finds a
\* session that is set up; who counts a wakeup has raised the flag before.
ThreadInv ==
    \A t \in Threads :
        /\ thr[t].pc # "idle" => thr[t].f \in Files /\ Open(thr[t].f)
        /\ thr[t].pc = "getid" =>
            /\ fl[thr[t].f].set /\ fl[thr[t].f].tgid_frpc = 0
            /\ \A u \in Threads : thr[u].pc = "getid" /\ thr[u].f = thr[t].f => u = t
        /\ thr[t].pc = "domain" => fl[thr[t].f].tgid_frpc # 0
        /\ thr[t].pc \in {"pdtype", "start"} => fl[thr[t].f].domain
        /\ thr[t].pc = "wake" => fl[thr[t].f].exit_notif
        /\ thr[t].pc = "idle" => thr[t].f = NULL

\* A session that is not set up, or is free, has no id; one with a domain has
\* one.
FileInv ==
    \A f \in Files :
        /\ fl[f].phase \in {"free", "kfree"} => f \notin drivers
        /\ fl[f].phase = "free" \/ ~fl[f].set => fl[f].tgid_frpc = 0
        /\ fl[f].domain => fl[f].tgid_frpc # 0

\* Between set-up and put_unique_hlos_process_id.
Holder(f) == fl[f].tgid_frpc # 0 /\ fl[f].phase \notin {"unlink", "kfree"}

\* The table of ids says who holds one, and nobody shares.
IdInv ==
    /\ used \subseteq 1 .. MAX_FRPC_TGID - 1
    /\ \A f \in Files : Holder(f) => fl[f].tgid_frpc \in used
    /\ \A i \in used : \E f \in Files : Holder(f) /\ fl[f].tgid_frpc = i
    /\ \A f, g \in Files :
        Holder(f) /\ Holder(g) /\ fl[f].tgid_frpc = fl[g].tgid_frpc => f = g

\* Unless a close failed, a DSP process belongs to a session that has not been
\* closed yet, and runs under that session's id.
PdInv ==
    orphans \/ \A p \in dsp : \E f \in Files :
        /\ fl[f].phase \in {"open", "close"} /\ fl[f].tgid_frpc # 0
        /\ p.pid = fl[f].tgid_frpc /\ p.life = fl[f].life

IndInv ==
    Types /\ ThreadInv /\ FileInv /\ IdInv /\ PdInv /\ NotifCounted

-----------------------------------------------------------------------------
(* Records.                                                                *)

\* Storing a value of its type in a field of a session keeps its type.
LEMMA SessionField ==
    ASSUME NEW k \in Session
    PROVE  /\ \A p \in FilePhases : [k EXCEPT !.phase = p] \in Session
           /\ [k EXCEPT !.set = TRUE] \in Session
           /\ [k EXCEPT !.domain = TRUE] \in Session
           /\ \A b \in BOOLEAN : [k EXCEPT !.unsigned = b] \in Session
           /\ [k EXCEPT !.exit_notif = TRUE] \in Session
           /\ \A i \in Nat : [k EXCEPT !.tgid_frpc = i] \in Session
           /\ \A i \in Nat : [k EXCEPT !.upid = i, !.init = TRUE] \in Session
           /\ \A q \in Seq(Nat), n \in Nat :
                 [k EXCEPT !.queue = q, !.count = n] \in Session
           /\ \A n, m \in Nat : [k EXCEPT !.count = n, !.wakes = m] \in Session
           /\ \A p \in FilePhases, n, m \in Nat :
                 [k EXCEPT !.phase = p, !.count = n, !.wakes = m] \in Session
<1>1. /\ \A p \in FilePhases : [k EXCEPT !.phase = p] \in Session
      /\ [k EXCEPT !.set = TRUE] \in Session
      /\ [k EXCEPT !.domain = TRUE] \in Session
  BY DEF Session
<1>2. /\ \A b \in BOOLEAN : [k EXCEPT !.unsigned = b] \in Session
      /\ [k EXCEPT !.exit_notif = TRUE] \in Session
  BY DEF Session
<1>3. /\ \A i \in Nat : [k EXCEPT !.tgid_frpc = i] \in Session
      /\ \A i \in Nat : [k EXCEPT !.upid = i, !.init = TRUE] \in Session
  BY DEF Session
<1>4. \A q \in Seq(Nat), n \in Nat : [k EXCEPT !.queue = q, !.count = n] \in Session
  BY DEF Session
<1>5. \A n, m \in Nat : [k EXCEPT !.count = n, !.wakes = m] \in Session
  BY DEF Session
<1>6. \A p \in FilePhases, n, m \in Nat :
         [k EXCEPT !.phase = p, !.count = n, !.wakes = m] \in Session
  BY DEF Session
<1> QED
  BY <1>1, <1>2, <1>3, <1>4, <1>5, <1>6

\* The effect of a store on the table of sessions.
LEMMA Store ==
    ASSUME Types, NEW f \in Files, NEW r \in Session, fl' = [fl EXCEPT ![f] = r]
    PROVE  /\ fl' \in [Files -> Session] /\ fl'[f] = r
           /\ \A g \in Files \ {f} : fl'[g] = fl[g]
  BY DEF Types

\* The effect of leaving an ioctl, going on and entering one on the threads.
ThreadTypes == [Threads -> [pc : ThreadPcs, f : Files \cup {NULL},
                            attrs : PdTypes \cup {NULL}]]

\* Leaving an ioctl.
LEMMA ReturnFacts ==
    ASSUME Types, NEW t \in Threads, Return(t)
    PROVE  /\ thr' \in ThreadTypes /\ thr'[t].pc = "idle" /\ thr'[t].f = NULL
           /\ \A u \in Threads \ {t} : thr'[u] = thr[u]
  BY DEF Types, Return, IdleThread, ThreadTypes, ThreadPcs

\* Going on.
LEMMA GotoFacts ==
    ASSUME Types, NEW t \in Threads, NEW pc \in ThreadPcs, Goto(t, pc)
    PROVE  /\ thr' \in ThreadTypes /\ thr'[t].pc = pc /\ thr'[t].f = thr[t].f
           /\ \A u \in Threads \ {t} : thr'[u] = thr[u]
  BY DEF Types, Goto, ThreadTypes

\* Entering an ioctl of an open session.
LEMMA EnterFacts ==
    ASSUME Types, NEW t \in Threads, NEW f \in Files, NEW pc \in ThreadPcs,
           NEW a \in PdTypes \cup {NULL}, Enter(t, f, pc, a)
    PROVE  /\ thr[t].pc = "idle" /\ Open(f)
           /\ thr' \in ThreadTypes /\ thr'[t].pc = pc /\ thr'[t].f = f
           /\ \A u \in Threads \ {t} : thr'[u] = thr[u]
  BY DEF Types, Enter, ThreadTypes

-----------------------------------------------------------------------------
(* What a step must leave alone for an invariant to survive it.            *)

\* Ids: the table, who holds one, and which.
LEMMA KeepIds ==
    ASSUME IdInv, used' = used,
           \A f \in Files : /\ Holder(f)' <=> Holder(f)
                            /\ Holder(f) => fl'[f].tgid_frpc = fl[f].tgid_frpc
    PROVE  IdInv'
  BY DEF IdInv

\* Processes: no new one, and the sessions not closed yet keep id and life.
LEMMA KeepPds ==
    ASSUME PdInv, dsp' \subseteq dsp, orphans => orphans',
           \A f \in Files : fl[f].phase \in {"open", "close"} =>
               /\ fl'[f].phase \in {"open", "close"} /\ fl'[f].life = fl[f].life
               /\ fl[f].tgid_frpc # 0 => fl'[f].tgid_frpc = fl[f].tgid_frpc
    PROVE  PdInv'
  BY DEF PdInv

\* Counters: a session's counter, queue and wakeups stay together.
LEMMA KeepCounts ==
    ASSUME NotifCounted,
           \A f \in Files :
               /\ fl[f].phase = "free" => fl'[f].phase = "free"
               /\ fl'[f].phase = "open" => fl[f].phase = "open"
               /\ fl'[f].queue = fl[f].queue /\ fl'[f].count = fl[f].count
               /\ fl'[f].wakes = fl[f].wakes
               /\ fl[f].exit_notif => fl'[f].exit_notif
    PROVE  NotifCounted'
  BY DEF NotifCounted, Open

\* A step that only moves a thread from one program point to another.
LEMMA ThreadOnly ==
    ASSUME IndInv, NEW t \in Threads, thr' \in ThreadTypes,
           UNCHANGED <<fl, drivers, used, cb, external, lives, notifs>>,
           \A u \in Threads \ {t} : thr'[u] = thr[u],
           \/ thr'[t].pc = "idle" /\ thr'[t].f = NULL
           \/ /\ thr'[t].pc \in {"start", "wait", "woken", "take"}
              /\ thr'[t].f \in Files /\ Open(thr'[t].f)
              /\ thr'[t].pc = "start" => fl[thr'[t].f].domain
    PROVE  IndInv'
<1> USE DEF IndInv, external
<1>1. Types'
  BY DEF Types, ThreadTypes
<1>2. ThreadInv'
  BY DEF ThreadInv, Open
<1>3. FileInv' /\ IdInv' /\ PdInv'
  BY DEF FileInv, IdInv, Holder, PdInv
<1>4. NotifCounted'
  BY DEF NotifCounted, Open
<1> QED
  BY <1>1, <1>2, <1>3, <1>4

-----------------------------------------------------------------------------
(* The ioctls.                                                             *)

\* The steps of an ioctl that touch no session: failures, checks and waits.
LEMMA QuietStep ==
    ASSUME IndInv, NEW t \in Threads,
           \/ InfoFails(t) \/ CheckPdType(t) \/ StartFails(t) \/ Woken(t)
           \/ WaitInterrupted(t) \/ WakeCheck(t)
    PROVE  IndInv'
<1> UNCHANGED <<fl, drivers, used, cb, external, lives, notifs>>
  BY DEF InfoFails, CheckPdType, StartFails, Woken, WaitInterrupted, WakeCheck
<1> Types /\ thr[t].f \in Files /\ Open(thr[t].f)
  BY DEF IndInv, ThreadInv, InfoFails, CheckPdType, StartFails, Woken,
         WaitInterrupted, WakeCheck
<1>1. CASE Return(t)
  BY <1>1, ReturnFacts, ThreadOnly
<1>2. CASE Goto(t, "start") /\ CheckPdType(t)
  <2>1. fl[thr[t].f].domain
    BY <1>2 DEF IndInv, ThreadInv, CheckPdType
  <2>2. "start" \in ThreadPcs
    BY DEF ThreadPcs
  <2> QED
    BY <1>2, <2>1, <2>2, GotoFacts, ThreadOnly
<1>3. CASE Goto(t, "woken") \/ Goto(t, "take")
  <2>1. "woken" \in ThreadPcs /\ "take" \in ThreadPcs
    BY DEF ThreadPcs
  <2> QED
    BY <1>3, <2>1, GotoFacts, ThreadOnly
<1> QED
  BY <1>1, <1>2, <1>3 DEF InfoFails, CheckPdType, StartFails, Woken, WaitInterrupted,
                          WakeCheck

\* A thread waits for a notification.
LEMMA WaitNotifStep ==
    ASSUME IndInv, NEW t \in Threads, NEW f \in Files, WaitNotif(t, f) PROVE IndInv'
<1>1. "wait" \in ThreadPcs
  BY DEF ThreadPcs
<1> QED
  BY <1>1, EnterFacts, ThreadOnly DEF WaitNotif, IndInv

\* What SET_SESSION_INFO, INIT and NOTIF_WAKE store in a session: flags only.
LEMMA FlagStep ==
    ASSUME IndInv, NEW f \in Files, NEW r \in Session,
           fl' = [fl EXCEPT ![f] = r], thr' \in ThreadTypes, ThreadInv',
           UNCHANGED <<drivers, used, cb, external, lives, notifs>>,
           r.phase = fl[f].phase, r.life = fl[f].life, fl[f].set => r.set,
           r.tgid_frpc = fl[f].tgid_frpc, r.domain => r.tgid_frpc # 0,
           r.upid = fl[f].upid, fl[f].exit_notif => r.exit_notif,
           r.queue = fl[f].queue, r.count = fl[f].count, r.wakes = fl[f].wakes
    PROVE  IndInv'
<1> USE DEF IndInv
<1>1. /\ fl' \in [Files -> Session] /\ fl'[f] = r
      /\ \A g \in Files \ {f} : fl'[g] = fl[g]
  BY Store
<1>2. Types'
  BY <1>1 DEF Types, ThreadTypes, external
<1>3. FileInv'
  BY <1>1 DEF FileInv, external
<1>4. IdInv'
  BY <1>1, KeepIds DEF Holder
<1>5. PdInv'
  BY <1>1, KeepPds DEF external
<1>6. NotifCounted'
  BY <1>1, KeepCounts
<1> QED
  BY <1>2, <1>3, <1>4, <1>5, <1>6

\* hfastrpc_set_session_info: who marks the session has it to himself.
LEMMA GetInfoStep ==
    ASSUME IndInv, NEW t \in Threads, NEW f \in Files, GetInfo(t, f) PROVE IndInv'
<1> USE DEF IndInv
<1> DEFINE r == [fl[f] EXCEPT !.set = TRUE]
<1>1. /\ fl[f] \in Session /\ fl' = [fl EXCEPT ![f] = r]
      /\ ~fl[f].set /\ Enter(t, f, "getid", NULL)
      /\ UNCHANGED <<drivers, used, cb, external, lives, notifs>>
  BY DEF GetInfo, Types
<1>2. /\ r \in Session
      /\ r.phase = fl[f].phase /\ r.life = fl[f].life /\ r.set
      /\ r.tgid_frpc = fl[f].tgid_frpc /\ (r.domain <=> fl[f].domain)
      /\ r.upid = fl[f].upid /\ (r.exit_notif <=> fl[f].exit_notif)
      /\ r.queue = fl[f].queue /\ r.count = fl[f].count /\ r.wakes = fl[f].wakes
  <2>1. fl[f] \in Session
    BY <1>1
  <2>2. r \in Session
    BY <2>1, SessionField
  <2> QED
    BY <2>1, <2>2 DEF Session
<1>3. fl'[f] = r /\ \A g \in Files \ {f} : fl'[g] = fl[g]
  BY <1>1, <1>2, Store
<1>4. /\ thr[t].pc = "idle" /\ Open(f) /\ thr' \in ThreadTypes
      /\ thr'[t].pc = "getid" /\ thr'[t].f = f
      /\ \A u \in Threads \ {t} : thr'[u] = thr[u]
  BY <1>1, EnterFacts DEF ThreadPcs
<1> HIDE DEF r
<1>5. ThreadInv'
  BY <1>1, <1>2, <1>3, <1>4 DEF ThreadInv, FileInv, Open
<1> QED
  BY <1>1, <1>2, <1>4, <1>5, FlagStep DEF FileInv

\* The session gets its domain.
LEMMA SetDomainStep ==
    ASSUME IndInv, NEW t \in Threads, SetDomain(t) PROVE IndInv'
<1> USE DEF IndInv
<1> PICK f \in Files : f = thr[t].f
  BY DEF SetDomain, ThreadInv
<1> DEFINE r == [fl[f] EXCEPT !.domain = TRUE]
<1>1. /\ fl[f] \in Session /\ fl' = [fl EXCEPT ![f] = r]
      /\ fl[f].tgid_frpc # 0 /\ Return(t)
      /\ UNCHANGED <<drivers, used, cb, external, lives, notifs>>
  BY DEF SetDomain, Types, ThreadInv
<1>2. /\ r \in Session
      /\ r.phase = fl[f].phase /\ r.life = fl[f].life
      /\ (r.set <=> fl[f].set) /\ r.tgid_frpc = fl[f].tgid_frpc /\ r.domain
      /\ r.upid = fl[f].upid /\ (r.exit_notif <=> fl[f].exit_notif)
      /\ r.queue = fl[f].queue /\ r.count = fl[f].count /\ r.wakes = fl[f].wakes
  <2>1. fl[f] \in Session
    BY <1>1
  <2>2. r \in Session
    BY <2>1, SessionField
  <2> QED
    BY <2>1, <2>2 DEF Session
<1>3. fl'[f] = r /\ \A g \in Files \ {f} : fl'[g] = fl[g]
  BY <1>1, <1>2, Store
<1>4. /\ thr' \in ThreadTypes /\ thr'[t].pc = "idle" /\ thr'[t].f = NULL
      /\ \A u \in Threads \ {t} : thr'[u] = thr[u]
  BY <1>1, ReturnFacts
<1> HIDE DEF r
<1>5. ThreadInv'
  BY <1>1, <1>2, <1>3, <1>4 DEF ThreadInv, Open
<1> QED
  BY <1>1, <1>2, <1>4, <1>5, FlagStep

\* hfastrpc_init_process starts and records the type asked for.
LEMMA InitProcessStep ==
    ASSUME IndInv, NEW t \in Threads, NEW f \in Files, NEW a \in PdTypes,
           InitProcess(t, f, a)
    PROVE  IndInv'
<1> USE DEF IndInv
<1> PICK b \in BOOLEAN : b = (fl[f].unsigned \/ a = "unsigned")
  OBVIOUS
<1> DEFINE r == [fl[f] EXCEPT !.unsigned = b]
<1>1. /\ fl[f] \in Session /\ fl' = [fl EXCEPT ![f] = r]
      /\ fl[f].domain /\ Enter(t, f, "pdtype", a)
      /\ UNCHANGED <<drivers, used, cb, external, lives, notifs>>
  BY DEF InitProcess, Types
<1>2. /\ r \in Session
      /\ r.phase = fl[f].phase /\ r.life = fl[f].life
      /\ (r.set <=> fl[f].set) /\ r.tgid_frpc = fl[f].tgid_frpc
      /\ (r.domain <=> fl[f].domain)
      /\ r.upid = fl[f].upid /\ (r.exit_notif <=> fl[f].exit_notif)
      /\ r.queue = fl[f].queue /\ r.count = fl[f].count /\ r.wakes = fl[f].wakes
  <2>1. fl[f] \in Session
    BY <1>1
  <2>2. r \in Session
    BY <2>1, SessionField
  <2> QED
    BY <2>1, <2>2 DEF Session
<1>3. fl'[f] = r /\ \A g \in Files \ {f} : fl'[g] = fl[g]
  BY <1>1, <1>2, Store
<1>4. /\ thr[t].pc = "idle" /\ Open(f) /\ thr' \in ThreadTypes
      /\ thr'[t].pc = "pdtype" /\ thr'[t].f = f
      /\ \A u \in Threads \ {t} : thr'[u] = thr[u]
  BY <1>1, EnterFacts DEF ThreadPcs
<1> HIDE DEF r
<1>5. ThreadInv'
  BY <1>1, <1>2, <1>3, <1>4 DEF ThreadInv, Open
<1> QED
  BY <1>1, <1>2, <1>4, <1>5, FlagStep DEF FileInv

\* NOTIF_WAKE_SIGNAL sets exit_notif.
LEMMA NotifWakeStep ==
    ASSUME IndInv, NEW t \in Threads, NEW f \in Files, NotifWake(t, f) PROVE IndInv'
<1> USE DEF IndInv
<1> DEFINE r == [fl[f] EXCEPT !.exit_notif = TRUE]
<1>1. /\ fl[f] \in Session /\ fl' = [fl EXCEPT ![f] = r] /\ Enter(t, f, "wake", NULL)
      /\ UNCHANGED <<drivers, used, cb, external, lives, notifs>>
  BY DEF NotifWake, Types
<1>2. /\ r \in Session
      /\ r.phase = fl[f].phase /\ r.life = fl[f].life
      /\ (r.set <=> fl[f].set) /\ r.tgid_frpc = fl[f].tgid_frpc
      /\ (r.domain <=> fl[f].domain) /\ r.upid = fl[f].upid /\ r.exit_notif
      /\ r.queue = fl[f].queue /\ r.count = fl[f].count /\ r.wakes = fl[f].wakes
  <2>1. fl[f] \in Session
    BY <1>1
  <2>2. r \in Session
    BY <2>1, SessionField
  <2> QED
    BY <2>1, <2>2 DEF Session
<1>3. fl'[f] = r /\ \A g \in Files \ {f} : fl'[g] = fl[g]
  BY <1>1, <1>2, Store
<1>4. /\ thr[t].pc = "idle" /\ Open(f) /\ thr' \in ThreadTypes
      /\ thr'[t].pc = "wake" /\ thr'[t].f = f
      /\ \A u \in Threads \ {t} : thr'[u] = thr[u]
  BY <1>1, EnterFacts DEF ThreadPcs
<1> HIDE DEF r
<1>5. ThreadInv'
  BY <1>1, <1>2, <1>3, <1>4 DEF ThreadInv, Open
<1> QED
  BY <1>1, <1>2, <1>4, <1>5, FlagStep DEF FileInv

\* get_unique_hlos_process_id: the id is free, and the session had none.
LEMMA GetIdStep ==
    ASSUME IndInv, NEW t \in Threads, GetId(t) PROVE IndInv'
<1> USE DEF IndInv
<1> PICK f \in Files : f = thr[t].f
  BY DEF GetId, ThreadInv
<1>0. /\ thr[t].pc = "getid" /\ Open(f) /\ fl[f].set /\ fl[f].tgid_frpc = 0
      /\ UNCHANGED <<drivers, cb, external, lives, notifs>>
  BY DEF GetId, ThreadInv
<1>1. CASE Return(t) /\ UNCHANGED <<fl, used>>
  BY <1>0, <1>1, ReturnFacts, ThreadOnly
<1>2. CASE /\ \E i \in FreeIds : /\ used' = used \cup {i}
                                 /\ fl' = [fl EXCEPT ![f].tgid_frpc = i]
           /\ Goto(t, "domain")
  <2> PICK i \in FreeIds : /\ used' = used \cup {i}
                           /\ fl' = [fl EXCEPT ![f].tgid_frpc = i]
    BY <1>2
  <2>1. /\ i \in 1 .. MAX_FRPC_TGID - 1 /\ i \in Nat /\ i # 0 /\ i \notin used
        /\ fl[f] \in Session /\ fl' = [fl EXCEPT ![f] = [fl[f] EXCEPT !.tgid_frpc = i]]
    BY <1>0, SetupAssumption DEF FreeIds, Types
  <2>2. /\ fl' \in [Files -> Session] /\ fl'[f] = [fl[f] EXCEPT !.tgid_frpc = i]
        /\ \A g \in Files \ {f} : fl'[g] = fl[g]
    BY <1>0, <2>1, SessionField, Store
  <2>3. /\ fl'[f].phase = fl[f].phase /\ fl'[f].life = fl[f].life
        /\ fl'[f].set = fl[f].set /\ fl'[f].tgid_frpc = i
        /\ fl'[f].domain = fl[f].domain /\ fl'[f].upid = fl[f].upid
        /\ (fl'[f].exit_notif <=> fl[f].exit_notif)
        /\ fl'[f].queue = fl[f].queue /\ fl'[f].count = fl[f].count
        /\ fl'[f].wakes = fl[f].wakes
    BY <2>1, <2>2 DEF Session
  <2>4. /\ thr' \in ThreadTypes /\ thr'[t].pc = "domain" /\ thr'[t].f = f
        /\ \A u \in Threads \ {t} : thr'[u] = thr[u]
    BY <1>2, GotoFacts DEF ThreadPcs
  <2>5. Types'
    BY <1>0, <2>2, <2>4 DEF Types, ThreadTypes, external
  <2>6. ThreadInv'
    BY <1>0, <2>1, <2>2, <2>3, <2>4 DEF ThreadInv, Open
  <2>7. FileInv'
    BY <1>0, <2>1, <2>2, <2>3 DEF FileInv, Open, external
  <2>8. IdInv'
    <3>1. Holder(f)' /\ ~Holder(f)
      BY <1>0, <2>1, <2>3 DEF Holder, Open
    <3>2. \A g \in Files \ {f} : Holder(g)' <=> Holder(g)
      BY <2>2 DEF Holder
    <3>3. \A j \in used' : \E g \in Files : Holder(g)' /\ fl'[g].tgid_frpc = j
      BY <1>0, <2>2, <2>3, <3>1, <3>2 DEF IdInv
    <3>4. \A g \in Files \ {f} : Holder(g) => fl[g].tgid_frpc # i
      BY <2>1 DEF IdInv
    <3> QED
      BY <1>0, <2>1, <2>2, <2>3, <3>1, <3>2, <3>3, <3>4 DEF IdInv
  <2>9. PdInv'
    BY <1>0, <2>2, <2>3, KeepPds DEF external
  <2>10. NotifCounted'
    BY <2>2, <2>3, KeepCounts
  <2> QED
    BY <2>5, <2>6, <2>7, <2>8, <2>9, <2>10
<1> QED
  BY <1>1, <1>2 DEF GetId

\* virt_fastrpc_open: the new process has the session's id and life.
LEMMA StartPdStep ==
    ASSUME IndInv, NEW t \in Threads, StartPd(t) PROVE IndInv'
<1> USE DEF IndInv
<1> PICK f \in Files : f = thr[t].f
  BY DEF StartPd, ThreadInv
<1>0. PICK n \in Upids :
        /\ dsp' = dsp \cup {[upid |-> n, pid |-> fl[f].tgid_frpc,
                             life |-> fl[f].life, type |-> thr[t].attrs]}
        /\ fl' = [fl EXCEPT ![f].upid = n, ![f].init = TRUE]
  BY DEF StartPd
<1> DEFINE r == [fl[f] EXCEPT !.upid = n, !.init = TRUE]
           p == [upid |-> n, pid |-> fl[f].tgid_frpc, life |-> fl[f].life,
                 type |-> thr[t].attrs]
<1>1. /\ fl[f] \in Session /\ fl' = [fl EXCEPT ![f] = r] /\ fl[f].phase = "open"
      /\ fl[f].tgid_frpc # 0 /\ Return(t) /\ n \in Nat /\ fl[f].life \in Nat
      /\ dsp' = dsp \cup {p} /\ pds' = pds + 1
      /\ UNCHANGED <<drivers, used, cb, inflight, orphans, lives, notifs>>
  <2>1. fl[f] \in Session /\ n \in Nat
    BY SetupAssumption DEF Types
  <2>2. fl[f].life \in Nat
    BY <2>1 DEF Session
  <2>3. fl[f].phase = "open" /\ fl[f].tgid_frpc # 0
    BY DEF StartPd, ThreadInv, FileInv, Open
  <2>4. fl' = [fl EXCEPT ![f] = r]
    BY <1>0 DEF Types
  <2> QED
    BY <1>0, <2>1, <2>2, <2>3, <2>4 DEF StartPd
<1>2. /\ r \in Session
      /\ r.phase = fl[f].phase /\ r.life = fl[f].life
      /\ (r.set <=> fl[f].set) /\ r.tgid_frpc = fl[f].tgid_frpc
      /\ (r.domain <=> fl[f].domain) /\ r.upid = n
      /\ (r.exit_notif <=> fl[f].exit_notif)
      /\ r.queue = fl[f].queue /\ r.count = fl[f].count /\ r.wakes = fl[f].wakes
  <2>1. fl[f] \in Session /\ n \in Nat
    BY <1>1
  <2>2. r \in Session
    BY <2>1, SessionField
  <2> QED
    BY <2>1, <2>2 DEF Session
<1> HIDE DEF r
<1>3. /\ fl' \in [Files -> Session] /\ fl'[f] = r
      /\ \A g \in Files \ {f} : fl'[g] = fl[g]
  BY <1>1, <1>2, Store
<1>4. /\ thr' \in ThreadTypes /\ thr'[t].pc = "idle" /\ thr'[t].f = NULL
      /\ \A u \in Threads \ {t} : thr'[u] = thr[u]
  BY <1>1, ReturnFacts
<1>5. pds' \in Nat
  BY <1>1 DEF Types
<1>6. Types'
  BY <1>1, <1>3, <1>4, <1>5 DEF Types, ThreadTypes
<1>7. ThreadInv'
  BY <1>1, <1>2, <1>3, <1>4 DEF ThreadInv, Open
<1>8. FileInv'
  BY <1>1, <1>2, <1>3 DEF FileInv
<1>9. IdInv'
  BY <1>1, <1>2, <1>3, KeepIds DEF Holder
<1>10. PdInv'
  <2> SUFFICES ASSUME ~orphans, NEW q \in dsp'
               PROVE  \E g \in Files :
                        /\ fl'[g].phase \in {"open", "close"} /\ fl'[g].tgid_frpc # 0
                        /\ q.pid = fl'[g].tgid_frpc /\ q.life = fl'[g].life
    BY <1>1 DEF PdInv
  <2>1. CASE q = p
    BY <1>1, <1>2, <1>3, <2>1
  <2>2. CASE q \in dsp
    BY <1>2, <1>3, <2>2 DEF PdInv
  <2> QED
    BY <1>1, <2>1, <2>2
<1>11. NotifCounted'
  BY <1>2, <1>3, KeepCounts
<1> QED
  BY <1>6, <1>7, <1>8, <1>9, <1>10, <1>11

IdleCb == [pc |-> "idle", f |-> NULL, upid |-> 0]

\* What the notification queue does to a session: queue, counter and wakeups
\* change together.
LEMMA QueueStep ==
    ASSUME IndInv, NEW f \in Files, NEW r \in Session,
           fl' = [fl EXCEPT ![f] = r], fl[f].phase # "free",
           thr' \in ThreadTypes, ThreadInv', cb' = cb \/ cb' = IdleCb,
           UNCHANGED <<drivers, used, external, lives>>,
           r.phase = fl[f].phase, r.life = fl[f].life, r.set <=> fl[f].set,
           r.tgid_frpc = fl[f].tgid_frpc, r.domain <=> fl[f].domain,
           r.upid = fl[f].upid, r.exit_notif <=> fl[f].exit_notif,
           r.count = Len(r.queue) + r.wakes,
           r.phase = "open" /\ ~r.exit_notif => r.wakes = 0
    PROVE  IndInv'
<1> USE DEF IndInv
<1>1. /\ fl' \in [Files -> Session] /\ fl'[f] = r
      /\ \A g \in Files \ {f} : fl'[g] = fl[g]
  BY Store
<1>2. Types'
  BY <1>1 DEF Types, ThreadTypes, external, IdleCb
<1>3. FileInv'
  BY <1>1 DEF FileInv, external
<1>4. IdInv'
  BY <1>1, KeepIds DEF Holder
<1>5. PdInv'
  BY <1>1, KeepPds DEF external
<1>6. NotifCounted'
  BY <1>1 DEF NotifCounted, Open
<1> QED
  BY <1>2, <1>3, <1>4, <1>5, <1>6

\* A waiter takes the oldest notification.
LEMMA TakeNotifStep ==
    ASSUME IndInv, NEW t \in Threads, TakeNotif(t) PROVE IndInv'
<1> USE DEF IndInv
<1> PICK f \in Files : f = thr[t].f
  BY DEF TakeNotif, ThreadInv
<1>0. /\ fl[f] \in Session /\ fl[f].phase = "open"
      /\ UNCHANGED <<drivers, used, cb, external, lives, notifs>>
  BY DEF TakeNotif, Types, ThreadInv, Open
<1>1. CASE Goto(t, "wait") /\ UNCHANGED fl
  <2>1. "wait" \in ThreadPcs
    BY DEF ThreadPcs
  <2> QED
    BY <1>0, <1>1, <2>1, GotoFacts, ThreadOnly DEF Open
<1>2. CASE /\ fl[f].queue # <<>> /\ Return(t)
           /\ fl' = [fl EXCEPT ![f].queue = Tail(@), ![f].count = @ - 1]
  <2> DEFINE q == Tail(fl[f].queue)
             n == fl[f].count - 1
             r == [fl[f] EXCEPT !.queue = q, !.count = n]
  <2>1. /\ fl[f].queue \in Seq(Nat) /\ fl[f].wakes \in Nat
        /\ fl[f].count = Len(fl[f].queue) + fl[f].wakes
        /\ fl[f].phase = "open" /\ ~fl[f].exit_notif => fl[f].wakes = 0
    BY <1>0 DEF Session, NotifCounted, Open
  <2>2. /\ q \in Seq(Nat) /\ Len(q) = Len(fl[f].queue) - 1 /\ Len(fl[f].queue) \in Nat \ {0}
    BY <1>2, <2>1, HeadTailProperties, LenProperties, EmptySeq
  <2>3. n \in Nat /\ n = Len(q) + fl[f].wakes
    <3> HIDE DEF q, IndInv
    <3>1. PICK l, w \in Nat : l = Len(fl[f].queue) /\ w = fl[f].wakes
      BY <2>1, <2>2
    <3>2. l # 0 /\ n = (l + w) - 1 /\ Len(q) + fl[f].wakes = (l - 1) + w
      BY <2>1, <2>2, <3>1, Zenon
    <3> HIDE DEF n
    <3>3. (l + w) - 1 = (l - 1) + w /\ (l # 0 => (l + w) - 1 \in Nat)
      OBVIOUS
    <3> QED
      BY <3>2, <3>3, Zenon
  <2>4. fl' = [fl EXCEPT ![f] = r]
    BY <1>2 DEF Types
  <2> HIDE DEF q, n
  <2>5. r \in Session
    BY <1>0, <2>2, <2>3, SessionField
  <2>6. /\ r.phase = fl[f].phase /\ r.life = fl[f].life
        /\ (r.set <=> fl[f].set) /\ r.tgid_frpc = fl[f].tgid_frpc
        /\ (r.domain <=> fl[f].domain) /\ r.upid = fl[f].upid
        /\ (r.exit_notif <=> fl[f].exit_notif)
        /\ r.queue = q /\ r.count = n /\ r.wakes = fl[f].wakes
    BY <1>0, <2>5 DEF Session
  <2> HIDE DEF r
  <2>7. /\ thr' \in ThreadTypes /\ thr'[t].pc = "idle" /\ thr'[t].f = NULL
        /\ \A u \in Threads \ {t} : thr'[u] = thr[u]
    BY <1>2, ReturnFacts
  <2>8. fl'[f] = r /\ \A g \in Files \ {f} : fl'[g] = fl[g]
    BY <2>4, <2>5, Store
  <2>9. ThreadInv'
    BY <2>6, <2>7, <2>8 DEF ThreadInv, Open
  <2>10. /\ r.count = Len(r.queue) + r.wakes
         /\ r.phase = "open" /\ ~r.exit_notif => r.wakes = 0
    BY <2>1, <2>3, <2>6
  <2>11. cb' = cb /\ fl[f].phase # "free" /\ UNCHANGED <<drivers, used, external, lives>>
    BY <1>0
  <2>12. IndInv
    OBVIOUS
  <2> HIDE DEF IndInv
  <2> QED
    BY <2>4, <2>5, <2>6, <2>7, <2>9, <2>10, <2>11, <2>12, QueueStep
<1> QED
  BY <1>1, <1>2 DEF TakeNotif

\* The flag has been raised, so the wakeup may be counted.
LEMMA NotifWakeCountStep ==
    ASSUME IndInv, NEW t \in Threads, NotifWakeCount(t) PROVE IndInv'
<1> USE DEF IndInv
<1> PICK f \in Files : f = thr[t].f
  BY DEF NotifWakeCount, ThreadInv
<1> DEFINE n == fl[f].count + 1
           m == fl[f].wakes + 1
           r == [fl[f] EXCEPT !.count = n, !.wakes = m]
<1>1. /\ fl[f] \in Session /\ fl[f].phase = "open" /\ fl[f].exit_notif /\ Return(t)
      /\ fl' = [fl EXCEPT ![f] = r]
      /\ UNCHANGED <<drivers, used, cb, external, lives, notifs>>
  BY DEF NotifWakeCount, Types, ThreadInv, Open
<1>2. /\ n \in Nat /\ m \in Nat /\ n = Len(fl[f].queue) + m
  <2>1. fl[f].queue \in Seq(Nat) /\ fl[f].wakes \in Nat /\ fl[f].count \in Nat
    BY <1>1 DEF Session
  <2>2. fl[f].count = Len(fl[f].queue) + fl[f].wakes
    BY <1>1 DEF NotifCounted
  <2>3. Len(fl[f].queue) \in Nat
    BY <2>1, LenProperties
  <2> HIDE DEF IndInv
  <2>4. PICK l, c, w \in Nat :
           l = Len(fl[f].queue) /\ c = fl[f].count /\ w = fl[f].wakes
    BY <2>1, <2>3
  <2>5. c = l + w /\ n = c + 1 /\ m = w + 1
    BY <2>2, <2>4
  <2> HIDE DEF n, m
  <2>6. n \in Nat /\ m \in Nat /\ n = l + m
    BY <2>5
  <2> QED
    BY <2>4, <2>6
<1> HIDE DEF n, m
<1>3. r \in Session
  BY <1>1, <1>2, SessionField
<1>4. /\ r.phase = fl[f].phase /\ r.life = fl[f].life
      /\ (r.set <=> fl[f].set) /\ r.tgid_frpc = fl[f].tgid_frpc
      /\ (r.domain <=> fl[f].domain) /\ r.upid = fl[f].upid
      /\ (r.exit_notif <=> fl[f].exit_notif)
      /\ r.queue = fl[f].queue /\ r.count = n /\ r.wakes = m
  BY <1>1, <1>3 DEF Session
<1> HIDE DEF r
<1>5. /\ thr' \in ThreadTypes /\ thr'[t].pc = "idle" /\ thr'[t].f = NULL
      /\ \A u \in Threads \ {t} : thr'[u] = thr[u]
  BY <1>1, ReturnFacts
<1>6. fl'[f] = r /\ \A g \in Files \ {f} : fl'[g] = fl[g]
  BY <1>1, <1>3, Store
<1>7. ThreadInv'
  BY <1>4, <1>5, <1>6 DEF ThreadInv, Open
<1> QED
  BY <1>1, <1>2, <1>3, <1>4, <1>5, <1>7, QueueStep

\* fastrpc_queue_pd_status: one notification at the end of the queue.
LEMMA QueuedFacts ==
    ASSUME NEW k \in Session, NEW n \in Nat
    PROVE  /\ Queued(k, n) \in Session
           /\ Queued(k, n).phase = k.phase /\ Queued(k, n).life = k.life
           /\ (Queued(k, n).set <=> k.set) /\ Queued(k, n).tgid_frpc = k.tgid_frpc
           /\ (Queued(k, n).domain <=> k.domain) /\ Queued(k, n).upid = k.upid
           /\ (Queued(k, n).exit_notif <=> k.exit_notif)
           /\ Queued(k, n).wakes = k.wakes /\ Queued(k, n).count = k.count + 1
           /\ Len(Queued(k, n).queue) = Len(k.queue) + 1
           /\ Len(k.queue) \in Nat /\ k.wakes \in Nat /\ k.count \in Nat
<1> DEFINE q == Append(k.queue, n)
           c == k.count + 1
           r == [k EXCEPT !.queue = q, !.count = c]
<1>1. k.queue \in Seq(Nat) /\ k.count \in Nat /\ k.wakes \in Nat
  BY DEF Session
<1>2. /\ q \in Seq(Nat) /\ Len(q) = Len(k.queue) + 1 /\ Len(k.queue) \in Nat
  BY <1>1, AppendProperties, LenProperties
<1>3. c \in Nat
  BY <1>1
<1>4. Queued(k, n) = r
  BY DEF Queued
<1> HIDE DEF q
<1>5. r \in Session
  BY <1>2, <1>3, SessionField
<1>6. /\ r.phase = k.phase /\ r.life = k.life /\ (r.set <=> k.set)
      /\ r.tgid_frpc = k.tgid_frpc /\ (r.domain <=> k.domain) /\ r.upid = k.upid
      /\ (r.exit_notif <=> k.exit_notif) /\ r.wakes = k.wakes
      /\ r.count = c /\ r.queue = q
  BY DEF Session
<1> HIDE DEF r
<1> QED
  BY <1>1, <1>2, <1>3, <1>4, <1>5, <1>6

\* The status callback queues its notification.
LEMMA NotifQueueStep == ASSUME IndInv, NotifQueue PROVE IndInv'
<1> USE DEF IndInv
<1>0. /\ cb.pc = "queue" /\ cb' = IdleCb /\ cb.upid \in Nat
      /\ UNCHANGED <<drivers, used, thr, external, lives>>
  BY DEF NotifQueue, IdleCb, Types
<1>1. CASE UNCHANGED fl
  <2>1. Types'
    BY <1>0, <1>1 DEF Types, IdleCb, external
  <2>2. ThreadInv' /\ FileInv' /\ NotifCounted'
    BY <1>0, <1>1 DEF ThreadInv, Open, FileInv, NotifCounted, external
  <2>3. IdInv' /\ PdInv'
    BY <1>0, <1>1 DEF IdInv, Holder, PdInv, IdleCb, external
  <2> QED
    BY <2>1, <2>2, <2>3
<1>2. CASE fl[cb.f].phase # "free" /\ fl' = [fl EXCEPT ![cb.f] = Queued(@, cb.upid)]
  <2>1. CASE cb.f \notin Files
    <3>1. fl' = fl
      BY <1>2, <2>1 DEF Types
    <3> QED
      BY <1>1, <3>1
  <2>2. CASE cb.f \in Files
    <3> PICK f \in Files : f = cb.f
      BY <2>2
    <3> DEFINE r == Queued(fl[f], cb.upid)
    <3>1. fl[f] \in Session /\ fl' = [fl EXCEPT ![f] = r] /\ fl[f].phase # "free"
      BY <1>2 DEF Types
    <3>2. /\ r \in Session
          /\ r.phase = fl[f].phase /\ r.life = fl[f].life
          /\ (r.set <=> fl[f].set) /\ r.tgid_frpc = fl[f].tgid_frpc
          /\ (r.domain <=> fl[f].domain) /\ r.upid = fl[f].upid
          /\ (r.exit_notif <=> fl[f].exit_notif)
          /\ r.wakes = fl[f].wakes /\ r.count = fl[f].count + 1
          /\ Len(r.queue) = Len(fl[f].queue) + 1
          /\ Len(fl[f].queue) \in Nat /\ fl[f].wakes \in Nat /\ fl[f].count \in Nat
      BY <1>0, <3>1, QueuedFacts
    <3> HIDE DEF r
    <3>3. /\ r.count = Len(r.queue) + r.wakes
          /\ r.phase = "open" /\ ~r.exit_notif => r.wakes = 0
      <4>1. /\ fl[f].count = Len(fl[f].queue) + fl[f].wakes
            /\ fl[f].phase = "open" /\ ~fl[f].exit_notif => fl[f].wakes = 0
        BY <3>1 DEF NotifCounted, Open
      <4>2. /\ r.count = fl[f].count + 1 /\ Len(r.queue) = Len(fl[f].queue) + 1
            /\ r.wakes = fl[f].wakes
            /\ r.phase = fl[f].phase /\ (r.exit_notif <=> fl[f].exit_notif)
            /\ Len(fl[f].queue) \in Nat /\ fl[f].wakes \in Nat
        BY <3>2
      <4> HIDE DEF IndInv
      <4>3. r.count = Len(r.queue) + r.wakes
        <5>1. PICK n \in Nat, w \in Nat : n = Len(fl[f].queue) /\ w = fl[f].wakes
          BY <4>2
        <5>2. r.count = (n + w) + 1 /\ Len(r.queue) + r.wakes = (n + 1) + w
          BY <4>1, <4>2, <5>1, Zenon
        <5>3. (n + w) + 1 = (n + 1) + w
          OBVIOUS
        <5> QED
          BY <5>2, <5>3, Zenon
      <4>4. r.phase = "open" /\ ~r.exit_notif => r.wakes = 0
        BY <4>1, <4>2
      <4> QED
        BY <4>3, <4>4
    <3>4. fl'[f] = r /\ \A g \in Files \ {f} : fl'[g] = fl[g]
      BY <3>1, <3>2, Store
    <3>5. ThreadInv'
      <4>1. /\ r.phase = fl[f].phase /\ (r.set <=> fl[f].set)
            /\ r.tgid_frpc = fl[f].tgid_frpc /\ (r.domain <=> fl[f].domain)
            /\ (r.exit_notif <=> fl[f].exit_notif)
        BY <3>2
      <4>2. \A g \in Files : /\ fl'[g].phase = fl[g].phase /\ (fl'[g].set <=> fl[g].set)
                             /\ fl'[g].tgid_frpc = fl[g].tgid_frpc
                             /\ (fl'[g].domain <=> fl[g].domain)
                             /\ (fl'[g].exit_notif <=> fl[g].exit_notif)
        BY <3>4, <4>1
      <4>3. ThreadInv /\ thr' = thr
        BY <1>0
      <4> HIDE DEF IndInv
      <4> QED
        BY <4>2, <4>3 DEF ThreadInv, Open
    <3>6. thr' \in ThreadTypes
      BY <1>0 DEF Types, ThreadTypes
    <3> QED
      BY <1>0, <3>1, <3>2, <3>3, <3>5, <3>6, QueueStep
  <2> QED
    BY <2>1, <2>2
<1> QED
  BY <1>1, <1>2 DEF NotifQueue

\* fastrpc_notify_drivers: every session told has one more notification, of
\* the restart, at the end of its queue.
LEMMA RestartNotifyStep == ASSUME IndInv, RestartNotify PROVE IndInv'
<1> USE DEF IndInv
<1>1. PICK told \in SUBSET {f \in drivers : fl[f].domain} :
         fl' = [f \in Files |-> IF f \in told THEN Queued(fl[f], 0) ELSE fl[f]]
  BY DEF RestartNotify
<1>2. /\ UNCHANGED <<drivers, used, thr, cb, inflight, pds, orphans, lives>>
      /\ dsp' = {}
  BY DEF RestartNotify
<1>3. \A g \in Files :
        /\ fl[g] \in Session
        /\ \/ g \in told /\ fl'[g] = Queued(fl[g], 0)
           \/ g \notin told /\ fl'[g] = fl[g]
  BY <1>1 DEF Types
<1>4. \A g \in Files :
        /\ fl'[g] \in Session
        /\ fl'[g].phase = fl[g].phase /\ fl'[g].life = fl[g].life
        /\ (fl'[g].set <=> fl[g].set) /\ fl'[g].tgid_frpc = fl[g].tgid_frpc
        /\ (fl'[g].domain <=> fl[g].domain) /\ fl'[g].upid = fl[g].upid
        /\ (fl'[g].exit_notif <=> fl[g].exit_notif) /\ fl'[g].wakes = fl[g].wakes
  BY <1>3, QueuedFacts
<1>5. Types'
  <2>1. fl' \in [Files -> Session]
    BY <1>1, <1>4
  <2> QED
    BY <1>2, <2>1 DEF Types
<1>6. ThreadInv'
  BY <1>2, <1>4 DEF ThreadInv, Open
<1>7. FileInv'
  BY <1>2, <1>4 DEF FileInv
<1>8. IdInv'
  BY <1>2, <1>4, KeepIds DEF Holder
<1>9. PdInv'
  BY <1>2, <1>4, KeepPds
<1>10. NotifCounted'
  <2> SUFFICES ASSUME NEW g \in Files, fl[g].phase # "free"
               PROVE  fl'[g].count = Len(fl'[g].queue) + fl'[g].wakes
    BY <1>4 DEF NotifCounted, Open
  <2>1. fl[g].count = Len(fl[g].queue) + fl[g].wakes
    BY DEF NotifCounted
  <2>2. CASE fl'[g] = fl[g]
    BY <2>1, <2>2
  <2>3. CASE fl'[g] = Queued(fl[g], 0)
    <3>1. /\ fl'[g].wakes = fl[g].wakes /\ fl'[g].count = fl[g].count + 1
          /\ Len(fl'[g].queue) = Len(fl[g].queue) + 1
          /\ Len(fl[g].queue) \in Nat /\ fl[g].wakes \in Nat /\ fl[g].count \in Nat
      BY <1>3, <2>3, QueuedFacts
    <3> HIDE DEF IndInv
    <3> QED
      BY <2>1, <3>1
  <2> QED
    BY <1>3, <2>2, <2>3
<1> QED
  BY <1>5, <1>6, <1>7, <1>8, <1>9, <1>10

\* fastrpc_notif_find_process: the callback gets hold of a session on the list.
LEMMA NotifFindStep ==
    ASSUME IndInv, NEW u \in Upids, NotifFind(u) PROVE IndInv'
<1> USE DEF IndInv
<1>1. UNCHANGED <<fl, drivers, used, thr, dsp, pds, orphans, lives, notifs>>
  BY DEF NotifFind
<1>2. u \in Nat
  BY SetupAssumption
<1>3. \/ cb' = cb
      \/ \E f \in drivers : cb' = [pc |-> "queue", f |-> f, upid |-> u]
  BY DEF NotifFind
<1>4. Types'
  BY <1>1, <1>2, <1>3 DEF Types
<1>5. ThreadInv' /\ FileInv' /\ IdInv'
  BY <1>1 DEF ThreadInv, FileInv, IdInv, Holder, Open
<1>6. PdInv' /\ NotifCounted'
  BY <1>1 DEF PdInv, NotifCounted, Open
<1> QED
  BY <1>4, <1>5, <1>6

\* The DSP reports the status of a process.
LEMMA DspStatusStep == ASSUME IndInv, NEW p \in dsp, DspStatus(p) PROVE IndInv'
<1> USE DEF IndInv
<1>1. UNCHANGED <<fl, drivers, used, thr, cb, dsp, pds, orphans, lives, notifs>>
  BY DEF DspStatus
<1>2. Types' /\ ThreadInv' /\ FileInv' /\ IdInv'
  BY <1>1 DEF Types, ThreadInv, FileInv, IdInv, Holder, Open
<1>3. PdInv' /\ NotifCounted'
  BY <1>1 DEF PdInv, NotifCounted, Open
<1> QED
  BY <1>2, <1>3

-----------------------------------------------------------------------------
(* The life of a session.                                                  *)

\* The fields of a session that does not exist.
LEMMA FreeFileFacts ==
    /\ FreeFile \in Session /\ FreeFile.phase = "free" /\ ~FreeFile.set
    /\ FreeFile.tgid_frpc = 0 /\ ~FreeFile.domain /\ FreeFile.upid = 0
    /\ ~FreeFile.exit_notif /\ FreeFile.queue = <<>> /\ Len(FreeFile.queue) = 0
    /\ FreeFile.count = 0 /\ FreeFile.wakes = 0
  BY DEF FreeFile, Session, FilePhases

\* hfastrpc_open: nobody holds the address of a session that is free.
LEMMA OpenFileStep == ASSUME IndInv, NEW f \in Files, OpenFile(f) PROVE IndInv'
<1> USE DEF IndInv
<1> DEFINE r == [FreeFile EXCEPT !.phase = "open", !.life = lives + 1]
<1>1. /\ fl' = [fl EXCEPT ![f] = r] /\ fl[f].phase = "free" /\ lives + 1 \in Nat
      /\ drivers' = drivers \cup {f} /\ lives' = lives + 1
      /\ UNCHANGED <<used, thr, cb, external, notifs>>
  BY DEF OpenFile, Types
<1>2. /\ r \in Session /\ r.phase = "open" /\ ~r.set /\ r.tgid_frpc = 0 /\ ~r.domain
      /\ r.upid = 0 /\ r.queue = <<>> /\ Len(r.queue) = 0 /\ r.count = 0 /\ r.wakes = 0
  <2>1. PICK n \in Nat : n = lives + 1
    BY <1>1
  <2> DEFINE k == [FreeFile EXCEPT !.phase = "open"]
  <2>2. k \in Session /\ k.phase = "open"
    <3>1. "open" \in FilePhases
      BY DEF FilePhases
    <3>2. k \in Session
      BY <3>1, FreeFileFacts, SessionField
    <3> QED
      BY <3>2, FreeFileFacts DEF Session
  <2>3. /\ ~k.set /\ k.tgid_frpc = 0 /\ ~k.domain /\ k.upid = 0 /\ k.queue = <<>>
        /\ k.count = 0 /\ k.wakes = 0
    BY FreeFileFacts DEF Session
  <2>4. r = [k EXCEPT !.life = n]
    BY <2>1, FreeFileFacts DEF Session
  <2> HIDE DEF k, IndInv, r
  <2>5. r \in Session
    BY <2>2, <2>4 DEF Session
  <2>6. /\ r.phase = "open" /\ ~r.set /\ r.tgid_frpc = 0 /\ ~r.domain
        /\ r.upid = 0 /\ r.queue = <<>> /\ r.count = 0 /\ r.wakes = 0
    BY <2>2, <2>3, <2>4 DEF Session
  <2> QED
    BY <2>5, <2>6
<1> HIDE DEF r
<1>3. /\ fl' \in [Files -> Session] /\ fl'[f] = r
      /\ \A g \in Files \ {f} : fl'[g] = fl[g]
  BY <1>1, <1>2, Store
<1>4. Types'
  BY <1>1, <1>3 DEF Types, external
<1>5. ThreadInv'
  BY <1>1, <1>2, <1>3 DEF ThreadInv, Open
<1>6. FileInv'
  BY <1>1, <1>2, <1>3 DEF FileInv, external
<1>7. IdInv'
  BY <1>1, <1>2, <1>3, KeepIds DEF Holder, FileInv
<1>8. PdInv'
  BY <1>1, <1>2, <1>3, KeepPds DEF external
<1>9. NotifCounted'
  BY <1>1, <1>2, <1>3 DEF NotifCounted, Open
<1> QED
  BY <1>4, <1>5, <1>6, <1>7, <1>8, <1>9

\* What the steps of hfastrpc_file_free have in common: no thread is inside
\* the session, its phase and perhaps its wakeups are stored.
LEMMA ReleaseFacts ==
    ASSUME IndInv, NEW f \in Files, NEW ph \in FilePhases \ {"free", "open"},
           NEW w \in Nat, fl[f].phase # "free",
           fl[f].phase # "open" \/ \A t \in Threads : thr[t].f # f,
           \/ fl' = [fl EXCEPT ![f].phase = ph] /\ w = 0
           \/ /\ fl' = [fl EXCEPT ![f].phase = ph, ![f].count = @ + 1,
                                  ![f].wakes = @ + 1]
              /\ w = 1,
           UNCHANGED <<thr, cb, pds, lives>>
    PROVE  /\ fl' \in [Files -> Session] /\ ThreadInv'
           /\ NotifCounted'
           /\ fl'[f].phase = ph /\ fl'[f].life = fl[f].life
           /\ (fl'[f].set <=> fl[f].set) /\ fl'[f].tgid_frpc = fl[f].tgid_frpc
           /\ (fl'[f].domain <=> fl[f].domain) /\ fl'[f].upid = fl[f].upid
           /\ \A g \in Files \ {f} : fl'[g] = fl[g]
<1> USE DEF IndInv
<1>0. /\ fl[f] \in Session /\ fl[f].count \in Nat /\ fl[f].wakes \in Nat
      /\ fl[f].queue \in Seq(Nat)
  BY DEF Types, Session
<1>1. PICK r \in Session :
        /\ fl' = [fl EXCEPT ![f] = r] /\ r.phase = ph /\ r.life = fl[f].life
        /\ (r.set <=> fl[f].set) /\ r.tgid_frpc = fl[f].tgid_frpc
        /\ (r.domain <=> fl[f].domain) /\ r.upid = fl[f].upid
        /\ (r.exit_notif <=> fl[f].exit_notif) /\ r.queue = fl[f].queue
        /\ r.count = fl[f].count + w /\ r.wakes = fl[f].wakes + w
  <2>1. CASE fl' = [fl EXCEPT ![f].phase = ph] /\ w = 0
    <3> DEFINE r == [fl[f] EXCEPT !.phase = ph]
    <3>1. r \in Session
      BY <1>0, SessionField
    <3>2. fl' = [fl EXCEPT ![f] = r]
      BY <2>1 DEF Types
    <3>3. /\ r.phase = ph /\ r.life = fl[f].life
          /\ (r.set <=> fl[f].set) /\ r.tgid_frpc = fl[f].tgid_frpc
          /\ (r.domain <=> fl[f].domain) /\ r.upid = fl[f].upid
          /\ (r.exit_notif <=> fl[f].exit_notif) /\ r.queue = fl[f].queue
          /\ r.count = fl[f].count /\ r.wakes = fl[f].wakes
      BY <1>0 DEF Session
    <3> HIDE DEF r
    <3>4. r.count = fl[f].count + w /\ r.wakes = fl[f].wakes + w
      BY <1>0, <2>1, <3>3
    <3> QED
      BY <3>1, <3>2, <3>3, <3>4
  <2>2. CASE /\ fl' = [fl EXCEPT ![f].phase = ph, ![f].count = @ + 1,
                                 ![f].wakes = @ + 1]
             /\ w = 1
    <3>0. fl[f].count + 1 \in Nat /\ fl[f].wakes + 1 \in Nat
      <4> HIDE DEF IndInv
      <4> QED
        BY <1>0
    <3> PICK n \in Nat, m \in Nat : n = fl[f].count + 1 /\ m = fl[f].wakes + 1
      BY <3>0
    <3> DEFINE r == [fl[f] EXCEPT !.phase = ph, !.count = n, !.wakes = m]
    <3>1. r \in Session
      BY <1>0, SessionField
    <3>2. fl' = [fl EXCEPT ![f] = r]
      BY <2>2 DEF Types
    <3>3. /\ r.phase = ph /\ r.life = fl[f].life
          /\ (r.set <=> fl[f].set) /\ r.tgid_frpc = fl[f].tgid_frpc
          /\ (r.domain <=> fl[f].domain) /\ r.upid = fl[f].upid
          /\ (r.exit_notif <=> fl[f].exit_notif) /\ r.queue = fl[f].queue
          /\ r.count = n /\ r.wakes = m
      BY <1>0 DEF Session
    <3> HIDE DEF r
    <3>4. r.count = fl[f].count + w /\ r.wakes = fl[f].wakes + w
      BY <2>2, <3>3
    <3> QED
      BY <3>1, <3>2, <3>3, <3>4
  <2> QED
    BY <2>1, <2>2
<1>2. /\ fl' \in [Files -> Session] /\ fl'[f] = r
      /\ \A g \in Files \ {f} : fl'[g] = fl[g]
  BY <1>1, Store
<1>3. ThreadInv'
  BY <1>1, <1>2 DEF ThreadInv, Open
<1>4. NotifCounted'
  <2>1. r.count = Len(r.queue) + r.wakes
    <3>1. fl[f].count = Len(fl[f].queue) + fl[f].wakes /\ Len(fl[f].queue) \in Nat
      BY <1>0, LenProperties DEF NotifCounted
    <3> PICK l, c, x \in Nat :
            l = Len(fl[f].queue) /\ c = fl[f].count /\ x = fl[f].wakes
      BY <1>0, <3>1
    <3>2. c = l + x /\ r.count = c + w /\ r.wakes = x + w /\ Len(r.queue) = l
      BY <1>1, <3>1
    <3> HIDE DEF IndInv
    <3> QED
      BY <3>2
  <2> QED
    BY <1>1, <1>2, <2>1 DEF NotifCounted, Open
<1> QED
  BY <1>1, <1>2, <1>3, <1>4

\* File release, from the last reference to the end of the list's.
LEMMA ReleaseStartStep ==
    ASSUME IndInv, NEW f \in Files, ReleaseStart(f) \/ DummyWake(f) \/ ClosePd(f)
    PROVE  IndInv'
<1> USE DEF IndInv
<1>1. PICK ph \in {"close", "wake", "putid"} :
        /\ \/ fl[f].phase = "open" /\ ph = "close"
           \/ fl[f].phase = "close" /\ ph = "wake"
           \/ fl[f].phase = "wake" /\ ph = "putid"
        /\ fl[f].phase # "open" \/ \A t \in Threads : thr[t].f # f
        /\ \/ fl' = [fl EXCEPT ![f].phase = ph]
           \/ fl' = [fl EXCEPT ![f].phase = ph, ![f].count = @ + 1, ![f].wakes = @ + 1]
  BY DEF ReleaseStart, DummyWake, ClosePd, ReleaseStep
<1>2. UNCHANGED <<drivers, used, thr, cb, pds, lives>>
  BY DEF ReleaseStart, DummyWake, ClosePd, external
<1>3. /\ fl' \in [Files -> Session] /\ ThreadInv'
      /\ NotifCounted'
      /\ fl'[f].phase = ph /\ fl'[f].life = fl[f].life
      /\ (fl'[f].set <=> fl[f].set) /\ fl'[f].tgid_frpc = fl[f].tgid_frpc
      /\ (fl'[f].domain <=> fl[f].domain) /\ fl'[f].upid = fl[f].upid
      /\ \A g \in Files \ {f} : fl'[g] = fl[g]
  <2>1. ph \in FilePhases \ {"free", "open"} /\ fl[f].phase # "free"
    BY <1>1 DEF FilePhases
  <2>2. 0 \in Nat /\ 1 \in Nat
    OBVIOUS
  <2> HIDE DEF IndInv
  <2> QED
    BY <1>1, <1>2, <2>1, <2>2, ReleaseFacts
<1>4. Types'
  BY <1>2, <1>3 DEF Types
<1>5. FileInv'
  BY <1>1, <1>2, <1>3 DEF FileInv
<1>6. IdInv'
  BY <1>1, <1>2, <1>3, KeepIds DEF Holder
<1>7. PdInv'
  <2>1. CASE ph = "close"
    <3>1. dsp' = dsp /\ orphans' = orphans
      BY <1>1, <2>1 DEF ReleaseStart, DummyWake, ClosePd, ReleaseStep, external
    <3> QED
      BY <1>1, <1>3, <2>1, <3>1, KeepPds
  <2>2. CASE ph = "putid"
    <3>1. dsp' = dsp /\ orphans' = orphans
      BY <1>1, <2>2 DEF ReleaseStart, DummyWake, ClosePd, ReleaseStep, external
    <3> QED
      BY <1>1, <1>3, <2>2, <3>1, KeepPds
  <2>3. CASE ph = "wake"
    <3>1. \/ dsp' = {p \in dsp : p.life # fl[f].life} /\ orphans' = orphans
          \/ orphans' = TRUE
      BY <1>1, <2>3 DEF ReleaseStart, DummyWake, ClosePd, ReleaseStep
    <3>2. CASE orphans' = TRUE
      BY <3>2 DEF PdInv
    <3>3. CASE dsp' = {p \in dsp : p.life # fl[f].life} /\ orphans' = orphans
      BY <1>3, <3>3 DEF PdInv
    <3> QED
      BY <3>1, <3>2, <3>3
  <2> QED
    BY <1>1, <2>1, <2>2, <2>3
<1> QED
  BY <1>3, <1>4, <1>5, <1>6, <1>7

\* put_unique_hlos_process_id: the session's id, and no other, is free again.
LEMMA PutIdStep == ASSUME IndInv, NEW f \in Files, PutId(f) PROVE IndInv'
<1> USE DEF IndInv
<1>1. /\ fl[f].phase = "putid" /\ fl' = [fl EXCEPT ![f].phase = "unlink"]
      /\ used' = used \ {fl[f].tgid_frpc}
      /\ UNCHANGED <<drivers, thr, cb, external, lives, notifs>>
  BY DEF PutId, ReleaseStep
<1>2. /\ fl' \in [Files -> Session] /\ ThreadInv'
      /\ NotifCounted'
      /\ fl'[f].phase = "unlink" /\ fl'[f].life = fl[f].life
      /\ (fl'[f].set <=> fl[f].set) /\ fl'[f].tgid_frpc = fl[f].tgid_frpc
      /\ (fl'[f].domain <=> fl[f].domain) /\ fl'[f].upid = fl[f].upid
      /\ \A g \in Files \ {f} : fl'[g] = fl[g]
  <2>1. "unlink" \in FilePhases \ {"free", "open"} /\ 0 \in Nat
    BY DEF FilePhases
  <2> HIDE DEF IndInv
  <2> QED
    BY <1>1, <2>1, ReleaseFacts DEF external
<1>3. Types'
  BY <1>1, <1>2 DEF Types, external
<1>4. FileInv'
  BY <1>1, <1>2 DEF FileInv, external
<1>5. IdInv'
  <2>1. ~Holder(f)' /\ \A g \in Files \ {f} : Holder(g)' <=> Holder(g)
    BY <1>2 DEF Holder
  <2>2. \A g \in Files \ {f} : Holder(g) => fl[g].tgid_frpc # fl[f].tgid_frpc
    BY <1>1 DEF IdInv, Holder
  <2> QED
    BY <1>1, <1>2, <2>1, <2>2 DEF IdInv
<1>6. PdInv'
  BY <1>1, <1>2, KeepPds DEF external
<1> QED
  BY <1>2, <1>3, <1>4, <1>5, <1>6

\* The session leaves the list of its driver.
LEMMA UnlinkStep == ASSUME IndInv, NEW f \in Files, Unlink(f) PROVE IndInv'
<1> USE DEF IndInv
<1>1. /\ fl[f].phase = "unlink" /\ fl' = [fl EXCEPT ![f].phase = "kfree"]
      /\ drivers' = drivers \ {f}
      /\ UNCHANGED <<used, thr, cb, external, lives, notifs>>
  BY DEF Unlink, ReleaseStep
<1>2. /\ fl' \in [Files -> Session] /\ ThreadInv'
      /\ NotifCounted'
      /\ fl'[f].phase = "kfree" /\ fl'[f].life = fl[f].life
      /\ (fl'[f].set <=> fl[f].set) /\ fl'[f].tgid_frpc = fl[f].tgid_frpc
      /\ (fl'[f].domain <=> fl[f].domain) /\ fl'[f].upid = fl[f].upid
      /\ \A g \in Files \ {f} : fl'[g] = fl[g]
  <2>1. "kfree" \in FilePhases \ {"free", "open"} /\ 0 \in Nat
    BY DEF FilePhases
  <2> HIDE DEF IndInv
  <2> QED
    BY <1>1, <2>1, ReleaseFacts DEF external
<1>3. Types'
  BY <1>1, <1>2 DEF Types, external
<1>4. FileInv'
  BY <1>1, <1>2 DEF FileInv, external
<1>5. IdInv'
  BY <1>1, <1>2, KeepIds DEF Holder
<1>6. PdInv'
  BY <1>1, <1>2, KeepPds DEF external
<1> QED
  BY <1>2, <1>3, <1>4, <1>5, <1>6

\* kfree: the session is off the list and holds no id.
LEMMA KfreeStep == ASSUME IndInv, NEW f \in Files, Kfree(f) PROVE IndInv'
<1> USE DEF IndInv
<1>1. /\ fl[f].phase = "kfree" /\ fl' = [fl EXCEPT ![f] = FreeFile]
      /\ UNCHANGED <<drivers, used, thr, cb, external, lives, notifs>>
  BY DEF Kfree
<1>2. /\ fl' \in [Files -> Session] /\ fl'[f] = FreeFile
      /\ \A g \in Files \ {f} : fl'[g] = fl[g]
  BY <1>1, FreeFileFacts, Store
<1>3. Types'
  BY <1>1, <1>2 DEF Types, external
<1>4. ThreadInv'
  BY <1>1, <1>2 DEF ThreadInv, Open
<1>5. FileInv'
  BY <1>1, <1>2, FreeFileFacts DEF FileInv, external
<1>6. IdInv'
  BY <1>1, <1>2, FreeFileFacts, KeepIds DEF Holder
<1>7. PdInv'
  BY <1>1, <1>2, FreeFileFacts, KeepPds DEF external
<1>8. NotifCounted'
  BY <1>1, <1>2, FreeFileFacts DEF NotifCounted, Open
<1> QED
  BY <1>3, <1>4, <1>5, <1>6, <1>7, <1>8

-----------------------------------------------------------------------------
(* The invariant and what follows from it.                                 *)

\* Nothing is open at the start.
LEMMA InitInv == Init => IndInv
<1> SUFFICES ASSUME Init PROVE IndInv
  OBVIOUS
<1> USE DEF Init
<1>1. \A f \in Files : fl[f] = FreeFile
  OBVIOUS
<1>2. \A t \in Threads : thr[t].pc = "idle" /\ thr[t].f = NULL /\ thr[t] = IdleThread
  BY DEF IdleThread
<1>3. Types
  <2>1. fl \in [Files -> Session]
    BY FreeFileFacts
  <2>2. IdleThread \in [pc : ThreadPcs, f : Files \cup {NULL}, attrs : PdTypes \cup {NULL}]
    BY DEF IdleThread, ThreadPcs
  <2> QED
    BY <2>1, <2>2 DEF Types
<1>4. ThreadInv
  BY <1>2 DEF ThreadInv
<1>5. FileInv /\ IdInv
  BY <1>1, FreeFileFacts DEF FileInv, IdInv, Holder
<1>6. PdInv
  BY DEF PdInv
<1>7. NotifCounted
  BY <1>1, FreeFileFacts DEF NotifCounted, Open
<1> QED
  BY <1>3, <1>4, <1>5, <1>6, <1>7 DEF IndInv

\* Every step preserves the invariant.
LEMMA NextInv == IndInv /\ [Next]_vars => IndInv'
<1> SUFFICES ASSUME IndInv, [Next]_vars PROVE IndInv'
  OBVIOUS
<1>1. CASE \E f \in Files : OpenFile(f) \/ ReleaseStart(f) \/ Release(f)
  BY <1>1, OpenFileStep, ReleaseStartStep, PutIdStep, UnlinkStep, KfreeStep DEF Release
<1>2. CASE \E t \in Threads : Step(t) \/ WaitInterrupted(t)
  BY <1>2, QuietStep, GetIdStep, SetDomainStep, StartPdStep, TakeNotifStep,
     NotifWakeCountStep DEF Step
<1>3. CASE \E t \in Threads, f \in Files :
             \/ GetInfo(t, f) \/ WaitNotif(t, f) \/ NotifWake(t, f)
             \/ \E a \in PdTypes : InitProcess(t, f, a)
  BY <1>3, GetInfoStep, WaitNotifStep, NotifWakeStep, InitProcessStep
<1>4. CASE \E p \in dsp : DspStatus(p)
  BY <1>4, DspStatusStep
<1>5. CASE \E u \in Upids : NotifFind(u)
  BY <1>5, NotifFindStep
<1>6. CASE NotifQueue \/ RestartNotify
  BY <1>6, NotifQueueStep, RestartNotifyStep
<1>7. CASE UNCHANGED vars
  <2> USE <1>7 DEF vars, IndInv
  <2>1. Types' /\ ThreadInv' /\ FileInv' /\ IdInv'
    BY DEF Types, ThreadInv, FileInv, IdInv, Holder, Open
  <2>2. PdInv' /\ NotifCounted'
    BY DEF PdInv, NotifCounted, Open
  <2> QED
    BY <2>1, <2>2
<1> QED
  BY <1>1, <1>2, <1>3, <1>4, <1>5, <1>6, <1>7 DEF Next

(* The invariant holds in every reachable state of the driver's sessions.  *)
THEOREM Invariance == Spec => []IndInv
<1> QED
  BY InitInv, NextInv, PTL DEF Spec

(* The ids in use are exactly those of the sessions between set-up and     *)
(* put_unique_hlos_process_id, one each, however set-ups and releases race *)
(* and fail and whatever the size of the table.                            *)
THEOREM IdsAreExact == Spec => []IdsExact
<1>1. IndInv => IdsExact
  <2> SUFFICES ASSUME IndInv PROVE IdsExact
    OBVIOUS
  <2> DEFINE H == {f \in Files : fl[f].tgid_frpc # 0
                                  /\ fl[f].phase \notin {"unlink", "kfree"}}
  <2>1. IdInv /\ \A f \in Files : f \in H <=> Holder(f)
    BY DEF IndInv, Holder
  <2>2. used = {fl[f].tgid_frpc : f \in H}
    <3>1. \A i \in used : \E f \in H : fl[f].tgid_frpc = i
      BY <2>1 DEF IdInv
    <3>2. \A f \in H : fl[f].tgid_frpc \in used
      BY <2>1 DEF IdInv
    <3> HIDE DEF H
    <3> QED
      BY <3>1, <3>2
  <2>3. Cardinality(used) = Cardinality(H)
    <3> DEFINE g == [f \in H |-> fl[f].tgid_frpc]
    <3>1. g \in Bijection(H, used)
      <4>1. \A f, h \in H : g[f] = g[h] => f = h
        BY <2>1 DEF IdInv
      <4>2. g \in [H -> used]
        BY <2>2
      <4>3. \A i \in used : \E f \in H : g[f] = i
        BY <2>2
      <4> HIDE DEF g, H
      <4> QED
        BY <4>1, <4>2, <4>3, Fun_IsBij
    <3>2. IsFiniteSet(used)
      <4>1. IsFiniteSet(1 .. MAX_FRPC_TGID - 1)
        BY SetupAssumption, FS_Interval
      <4> QED
        BY <2>1, <4>1, FS_Subset DEF IdInv
    <3> HIDE DEF g, H
    <3>3. ExistsBijection(H, used)
      BY <3>1 DEF ExistsBijection
    <3>4. ExistsBijection(used, H)
      BY <3>3, Fun_ExistsBijSymmetric
    <3> QED
      BY <3>2, <3>4, FS_Bijection
  <2> QED
    BY <2>2, <2>3 DEF IdsExact
<1> QED
  BY <1>1, Invariance, PTL

(* Unless a close failed, the DSP never has two processes of different     *)
(* sessions under one guest pid.                                           *)
THEOREM PidsAreUnique == Spec => []PidsUnique
<1>1. IndInv => PidsUnique
  BY DEF IndInv, PdInv, IdInv, Holder, PidsUnique
<1> QED
  BY <1>1, Invariance, PTL

(* The counter the waiting threads look at is the length of the queue plus *)
(* the wakeups that tell them to go.                                       *)
THEOREM NotifsCounted == Spec => []NotifCounted
<1>1. IndInv => NotifCounted
  BY DEF IndInv
<1> QED
  BY <1>1, Invariance, PTL
=============================================================================

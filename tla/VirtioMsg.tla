----------------------------- MODULE VirtioMsg -----------------------------
(***************************************************************************)
(* The message layer between the guest drivers and their virtio backend:   *)
(* virt_alloc_msg, virt_free_msg and virt_fastrpc_close                    *)
(* (fastrpc_common.c), the transmit and receive buffers                    *)
(* (virtio_fastrpc_queue.c), the receive callback (virtio_fastrpc_base.c)  *)
(* and the commands and invocations of the virtio driver that exchange     *)
(* messages through them (virtio_fastrpc_core.c).                          *)
(*                                                                         *)
(* A message lives exactly as long as its entry of msgtable, so the        *)
(* message and its entry are one record, named by its msgid.  One session  *)
(* is opened, used and released again and again.                           *)
(*                                                                         *)
(* The backend is external: it takes requests in any order, gives the      *)
(* transmit buffer back, answers each request at most once into a receive  *)
(* buffer that the guest has made available, and answers CLOSE only when   *)
(* the session has no other request left.                                  *)
(***************************************************************************)
EXTENDS Integers, Sequences, FiniteSets, SequencesExt

CONSTANTS
    Threads,    \* ioctl threads of the process
    Ids,        \* 0..FASTRPC_MSG_MAX-1
    Bufs,       \* the transmit buffers, and as many receive buffers
    Ops,        \* what a thread may ask for, a subset of AllOps
    MaxFails,   \* failures of a queue, an argument copy or an allocation
    NULL

\* "ctl": open, control, get_dsp_info; "map": mmap, munmap, mem_map, mem_unmap
AllOps == {"ctl", "map", "unmap_fd", "invoke", "async", "get_async"}

\* An answer in the receive queue.
Answers == [rx : Bufs, id : Ids, err : BOOLEAN, old : BOOLEAN]

ASSUME ConstAssumption ==
    /\ Ids \subseteq Nat /\ Ops \subseteq AllOps /\ MaxFails \in Nat
    /\ NULL \notin Threads \cup Bufs \cup Ids
    /\ NULL \notin Answers

VARIABLES
    msg,     \* msgtable and the messages in it
    thr,     \* ioctl threads, and the one that releases the file
    imutex,  \* owner of internal_map_mutex
    tx,      \* transmit buffers: never used, given back, lost; requests in the ring
    rx,      \* receive buffers: available to the backend, lost, not given back
    ring,    \* answers in the receive queue, oldest first
    irq,     \* the receive queue's interrupt is pending
    cb,      \* recv_done: pc and the answer in hand
    backend, \* requests the backend has taken
    queue,   \* clst.async_queue, head first
    async_queue_job_count,
    phase,   \* of the session: "open", "closing" or "closed"
    init,    \* dsp_proc_init of the session
    fails,   \* failures so far
    unclosed \* history: a session was released that the backend had not closed

vars == <<msg, thr, imutex, tx, rx, ring, irq, cb, backend, queue,
          async_queue_job_count, phase, init, fails, unclosed>>

NoMsg == [live |-> FALSE, kind |-> "none", tx |-> NULL, rx |-> NULL,
          work |-> FALSE, list |-> "none", pid |-> NULL, err |-> FALSE, own |-> TRUE]
Idle == [pc |-> "idle", op |-> "none", m |-> NULL]

Init ==
    /\ msg = [i \in Ids |-> NoMsg]
    /\ thr = [t \in Threads |-> Idle]
    /\ imutex = NULL
    /\ tx = [fresh |-> Bufs, used |-> {}, lost |-> {}, avail |-> {}]
    /\ rx = [avail |-> Bufs, lost |-> {}, failed |-> {}]
    /\ ring = <<>> /\ irq = FALSE
    /\ cb = [pc |-> "idle", rsp |-> NULL]
    /\ backend = {}
    /\ queue = <<>> /\ async_queue_job_count = 0
    /\ phase = "open" /\ init = FALSE
    /\ fails = 0 /\ unclosed = FALSE

Goto(t, pc) == thr' = [thr EXCEPT ![t].pc = pc]
Return(t) == thr' = [thr EXCEPT ![t] = Idle]
\* Fault: the mutex is not dropped.
Unlock_Forgets(t) == UNCHANGED imutex
\* The mutex is dropped on every way out of the ioctls that took it.
Unlock(t) == imutex' = IF imutex = t THEN NULL ELSE imutex
\* What a finished message is followed by: the rest of the destructor in
\* file release, the end of virt_fastrpc_close, or the return to user space.
After(t) ==
    IF phase = "closing" THEN thr' = [thr EXCEPT ![t].pc = "dtor", ![t].m = NULL]
    ELSE Return(t)

-----------------------------------------------------------------------------
(* Entering an ioctl.                                                       *)

SavedIn(t, l) == {i \in Ids : msg[i].live /\ msg[i].list = l /\ msg[i].pid = t}

Enter(t, op, pc) ==
    /\ phase = "open" /\ thr[t].pc = "idle" /\ op \in Ops
    /\ thr' = [thr EXCEPT ![t] = [Idle EXCEPT !.op = op, !.pc = pc]]
    /\ UNCHANGED <<msg, imutex, tx, rx, ring, irq, cb, backend, queue,
                   async_queue_job_count, phase, init, fails, unclosed>>

\* INIT, CONTROL and GET_DSP_INFO, past the checks that refuse them, and the
\* ioctls whose command is sent under internal_map_mutex, after INIT only.
StartCtl(t) == Enter(t, "ctl", "alloc")
StartMap(t) == init /\ \E op \in {"map", "unmap_fd"} : Enter(t, op, "mutex")

\* munmap_fd looks for its interrupted predecessor under the mutex and waits
\* for that one's answer instead of sending anything.
LockMap(t) ==
    /\ thr[t].pc = "mutex" /\ imutex = NULL
    /\ imutex' = t
    /\ IF thr[t].op = "unmap_fd" /\ SavedIn(t, "cmds") # {}
       THEN \E i \in SavedIn(t, "cmds") :
              /\ msg' = [msg EXCEPT ![i].list = "held"]
              /\ thr' = [thr EXCEPT ![t].pc = "wait", ![t].m = i]
       ELSE Goto(t, "alloc") /\ UNCHANGED msg
    /\ UNCHANGED <<tx, rx, ring, irq, cb, backend, queue,
                   async_queue_job_count, phase, init, fails, unclosed>>

\* context_alloc, when no invocation of this thread is on the interrupted list.
\* An invocation does not ask for INIT.
StartInvoke(t) ==
    /\ SavedIn(t, "interrupted") = {}
    /\ \E op \in {"invoke", "async"} : Enter(t, op, "alloc")

\* context_restore_interrupted.  A call with other scalars gets EINVAL and
\* changes nothing.
Restore(t) ==
    /\ phase = "open" /\ thr[t].pc = "idle"
    /\ \E i \in SavedIn(t, "interrupted") :
         /\ msg' = [msg EXCEPT ![i].list = "held"]
         /\ thr' = [thr EXCEPT ![t] = [Idle EXCEPT !.op = "invoke", !.pc = "wait", !.m = i]]
    /\ UNCHANGED <<imutex, tx, rx, ring, irq, cb, backend, queue,
                   async_queue_job_count, phase, init, fails, unclosed>>

\* vfastrpc_get_async_response
StartGetAsync(t) == Enter(t, "get_async", "awaitq")

\* get_args fails before it needs a message, so does a munmap_fd without map
\* entries.
NoMessage(t) ==
    /\ thr[t].pc = "alloc" /\ thr[t].op \in {"invoke", "async", "unmap_fd"}
    /\ Return(t) /\ Unlock(t)
    /\ UNCHANGED <<msg, tx, rx, ring, irq, cb, backend, queue,
                   async_queue_job_count, phase, init, fails, unclosed>>

-----------------------------------------------------------------------------
(* virt_alloc_msg, in two critical sections.                                *)

FreeIds == {i \in Ids : ~msg[i].live}

\* A failed virt_fastrpc_close is ignored by file release.
CloseFails(t) == unclosed' = (unclosed \/ thr[t].op = "close")

\* The first free entry.
Pick(ids) == {i \in ids : \A j \in ids : i <= j}

AllocId(t) ==
    /\ thr[t].pc = "alloc"
    /\ \E i \in Pick(FreeIds) :
         /\ msg' = [msg EXCEPT ![i] = [NoMsg EXCEPT !.live = TRUE, !.kind = thr[t].op,
                                       !.list = "held", !.pid = t]]
         /\ thr' = [thr EXCEPT ![t].pc = "gettx", ![t].m = i]
    /\ UNCHANGED <<imutex, tx, rx, ring, irq, cb, backend, queue,
                   async_queue_job_count, phase, init, fails, unclosed>>

\* "message queue is full": ENOMEM
AllocFull(t) ==
    /\ thr[t].pc = "alloc" /\ FreeIds = {}
    /\ After(t) /\ Unlock(t) /\ CloseFails(t)
    /\ UNCHANGED <<msg, tx, rx, ring, irq, cb, backend, queue,
                   async_queue_job_count, phase, init, fails>>

\* get_a_tx_buf: a buffer never used before, else one the backend gave back.
TxChoice == IF tx.fresh # {} THEN tx.fresh ELSE tx.used

GetTxBuf(t) ==
    /\ thr[t].pc = "gettx"
    /\ \E b \in TxChoice :
         /\ tx' = [tx EXCEPT !.fresh = @ \ {b}, !.used = @ \ {b}]
         /\ msg' = [msg EXCEPT ![thr[t].m].tx = b]
    /\ Goto(t, "send")
    /\ UNCHANGED <<imutex, rx, ring, irq, cb, backend, queue,
                   async_queue_job_count, phase, init, fails, unclosed>>

\* "can't get tx buffer": the message is freed again by virt_free_msg.
NoTxBuf(t) ==
    /\ thr[t].pc = "gettx" /\ TxChoice = {}
    /\ Goto(t, "freemsg") /\ CloseFails(t)
    /\ UNCHANGED <<msg, imutex, tx, rx, ring, irq, cb, backend, queue,
                   async_queue_job_count, phase, init, fails>>

-----------------------------------------------------------------------------
(* vfastrpc_txbuf_send                                                      *)

Send(t) ==
    LET i == thr[t].m
        async == thr[t].op = "async" IN
    /\ thr[t].pc = "send"
    /\ tx' = [tx EXCEPT !.avail = @ \cup {[tx |-> msg[i].tx, id |-> i, kind |-> msg[i].kind,
                                           old |-> FALSE]}]
    /\ msg' = [msg EXCEPT ![i].tx = NULL, ![i].list = IF async THEN "pending" ELSE @]
    /\ IF async THEN Return(t) ELSE Goto(t, "wait")
    /\ UNCHANGED <<imutex, rx, ring, irq, cb, backend, queue,
                   async_queue_job_count, phase, init, fails, unclosed>>

\* The message is freed, its transmit buffer is on no list any more.
LoseTx(t) ==
    LET i == thr[t].m IN
    /\ thr[t].pc = "send" /\ fails < MaxFails
    /\ fails' = fails + 1
    /\ tx' = [tx EXCEPT !.lost = @ \cup {msg[i].tx}]
    /\ msg' = [msg EXCEPT ![i].tx = NULL]
    /\ Goto(t, "freemsg") /\ CloseFails(t)
    /\ UNCHANGED <<imutex, rx, ring, irq, cb, backend, queue,
                   async_queue_job_count, phase, init>>

\* virtqueue_add_outbuf fails, or get_args cannot copy an argument into the
\* message it has.
SendFail(t) == LoseTx(t)
CopyFail(t) == thr[t].op \in {"invoke", "async"} /\ LoseTx(t)

-----------------------------------------------------------------------------
(* Waiting for the answer, and giving the message and its buffer back.      *)

\* The completion is taken and the answer read.
Answered(t) ==
    LET i == thr[t].m IN
    /\ thr[t].pc = "wait" /\ msg[i].work
    /\ msg' = [msg EXCEPT ![i].work = FALSE]
    /\ Goto(t, IF msg[i].rx = NULL THEN "freemsg" ELSE "freerx")
    /\ UNCHANGED <<imutex, tx, rx, ring, irq, cb, backend, queue,
                   async_queue_job_count, phase, fails>>

\* put_args of an invocation; the result of a command, INIT's among them; that
\* of CLOSE.
PutArgs(t) == thr[t].op = "invoke" /\ Answered(t) /\ UNCHANGED <<init, unclosed>>
CmdDone(t) ==
    /\ thr[t].op \in {"ctl", "map", "unmap_fd"} /\ Answered(t)
    /\ \/ UNCHANGED init
       \/ thr[t].op = "ctl" /\ ~msg[thr[t].m].err /\ init' = TRUE
    /\ UNCHANGED unclosed
CloseDone(t) ==
    /\ thr[t].op = "close" /\ Answered(t)
    /\ unclosed' = (unclosed \/ msg[thr[t].m].err)
    /\ UNCHANGED init

\* A signal ends the wait; the message is kept on a list.
Save(t, l) ==
    LET i == thr[t].m IN
    /\ thr[t].pc = "wait" /\ ~msg[i].work
    /\ msg' = [msg EXCEPT ![i].list = l]
    /\ Return(t) /\ Unlock(t)
    /\ UNCHANGED <<tx, rx, ring, irq, cb, backend, queue,
                   async_queue_job_count, phase, init, unclosed>>

\* context_save_interrupted
SaveInvoke(t) == thr[t].op = "invoke" /\ Save(t, "interrupted") /\ UNCHANGED fails

\* save_interrupted_cmds, whose kzalloc may fail and leave a message that
\* nothing refers to.
SaveCmd(t) ==
    /\ thr[t].op = "unmap_fd"
    /\ \/ Save(t, "cmds") /\ UNCHANGED fails
       \/ Save(t, "leaked") /\ fails < MaxFails /\ fails' = fails + 1

\* Fault: the answer's buffer is not given back to the backend.
FreeRx_Forgets(t) ==
    /\ thr[t].pc = "freerx"
    /\ Goto(t, "freemsg")
    /\ UNCHANGED <<msg, imutex, tx, rx, ring, irq, cb, backend, queue,
                   async_queue_job_count, phase, init, fails, unclosed>>

\* vfastrpc_rxbuf_send; when virtqueue_add_inbuf fails the buffer is on no list
\* any more.
FreeRx(t) ==
    LET i == thr[t].m IN
    /\ thr[t].pc = "freerx"
    /\ \/ /\ rx' = [rx EXCEPT !.avail = @ \cup {msg[i].rx}]
          /\ UNCHANGED fails
       \/ /\ fails < MaxFails
          /\ fails' = fails + 1
          /\ rx' = [rx EXCEPT !.failed = @ \cup {msg[i].rx}]
    /\ msg' = [msg EXCEPT ![i].rx = NULL]
    /\ Goto(t, "freemsg")
    /\ UNCHANGED <<imutex, tx, ring, irq, cb, backend, queue,
                   async_queue_job_count, phase, init, unclosed>>

Old(r, i) == IF r.id = i THEN [r EXCEPT !.old = TRUE] ELSE r

\* virt_free_msg.  An answer stored since the message's rxbuf was read goes with
\* it; what the backend still has to answer is from now on not this id's.
FreeMsg(t) ==
    LET i == thr[t].m IN
    /\ thr[t].pc = "freemsg"
    /\ msg' = [msg EXCEPT ![i] = NoMsg]
    /\ rx' = [rx EXCEPT !.lost = @ \cup ({msg[i].rx} \ {NULL})]
    /\ tx' = [tx EXCEPT !.avail = {Old(r, i) : r \in @}]
    /\ backend' = {Old(r, i) : r \in backend}
    /\ ring' = [k \in DOMAIN ring |-> Old(ring[k], i)]
    /\ cb' = IF cb.rsp = NULL THEN cb ELSE [cb EXCEPT !.rsp = Old(@, i)]
    /\ After(t) /\ Unlock(t)
    /\ UNCHANGED <<irq, queue, async_queue_job_count, phase, init, fails, unclosed>>

-----------------------------------------------------------------------------
(* vfastrpc_wait_on_async_queue                                             *)

\* wait_event_interruptible sees a count other than zero ...
AsyncWake(t) ==
    /\ thr[t].pc = "awaitq" /\ async_queue_job_count # 0
    /\ Goto(t, "take")
    /\ UNCHANGED <<msg, imutex, tx, rx, ring, irq, cb, backend, queue,
                   async_queue_job_count, phase, init, fails, unclosed>>

\* ... or a signal.
AsyncInterrupted(t) ==
    /\ thr[t].pc = "awaitq" /\ async_queue_job_count = 0
    /\ Return(t)
    /\ UNCHANGED <<msg, imutex, tx, rx, ring, irq, cb, backend, queue,
                   async_queue_job_count, phase, init, fails, unclosed>>

\* Fault: the job stays in the queue until its context is freed.
AsyncTake_Leaves(t) ==
    /\ thr[t].pc = "take"
    /\ IF queue = <<>>
       THEN Goto(t, "awaitq") /\ UNCHANGED <<msg, async_queue_job_count>>
       ELSE /\ async_queue_job_count' = async_queue_job_count - 1
            /\ msg' = [msg EXCEPT ![Head(queue)].list = "held", ![Head(queue)].pid = t]
            /\ thr' = [thr EXCEPT ![t].pc = "freerx", ![t].m = Head(queue)]
    /\ UNCHANGED <<imutex, tx, rx, ring, irq, cb, backend, queue, phase, init,
                   fails, unclosed>>

\* The first job of the queue, put_args and then context_free.  When another
\* waiter was faster: "Invalid async job wake up", and wait again.
AsyncTake(t) ==
    /\ thr[t].pc = "take"
    /\ IF queue = <<>>
       THEN Goto(t, "awaitq") /\ UNCHANGED <<msg, queue, async_queue_job_count>>
       ELSE /\ queue' = Tail(queue)
            /\ async_queue_job_count' = async_queue_job_count - 1
            /\ msg' = [msg EXCEPT ![Head(queue)].list = "held", ![Head(queue)].pid = t]
            /\ thr' = [thr EXCEPT ![t].pc = "freerx", ![t].m = Head(queue)]
    /\ UNCHANGED <<imutex, tx, rx, ring, irq, cb, backend, phase, init, fails,
                   unclosed>>

-----------------------------------------------------------------------------
(* recv_done, the callback of the receive queue.                            *)

\* virtqueue_get_buf; without a buffer the callback returns.
CbGet ==
    /\ cb.pc = "next" \/ (cb.pc = "idle" /\ irq)
    /\ irq' = IF cb.pc = "idle" THEN FALSE ELSE irq
    /\ IF ring = <<>>
       THEN cb' = [pc |-> "idle", rsp |-> NULL] /\ UNCHANGED ring
       ELSE cb' = [pc |-> "recv", rsp |-> Head(ring)] /\ ring' = Tail(ring)
    /\ UNCHANGED <<msg, thr, imutex, tx, rx, backend, queue,
                   async_queue_job_count, phase, init, fails, unclosed>>

\* vfastrpc_queue_completed_async_job: once per context, at the head.
Queue(i) ==
    /\ queue' = <<i>> \o queue
    /\ async_queue_job_count' = async_queue_job_count + 1

\* recv_single.  The entry that msgid names gets the answer, whoever it belongs
\* to now; an empty entry ends the loop, and the receive buffer is lost.
CbRecv ==
    LET r == cb.rsp
        i == r.id IN
    /\ cb.pc = "recv"
    /\ IF msg[i].live
       THEN /\ cb' = [pc |-> "next", rsp |-> NULL]
            /\ rx' = [rx EXCEPT !.lost = @ \cup ({msg[i].rx} \ {NULL})]
            /\ msg' = [msg EXCEPT ![i].rx = r.rx, ![i].err = r.err, ![i].own = ~r.old,
                                  ![i].work = (@ \/ msg[i].kind # "async")]
            /\ IF msg[i].kind = "async" THEN Queue(i)
               ELSE UNCHANGED <<queue, async_queue_job_count>>
       ELSE /\ cb' = [pc |-> "idle", rsp |-> NULL]
            /\ rx' = [rx EXCEPT !.lost = @ \cup {r.rx}]
            /\ UNCHANGED <<msg, queue, async_queue_job_count>>
    /\ UNCHANGED <<thr, imutex, tx, ring, irq, backend, phase, init, fails, unclosed>>

\* A length other than the answer's header says ends the loop too.
CbMismatch ==
    /\ cb.pc = "recv" /\ fails < MaxFails
    /\ fails' = fails + 1
    /\ cb' = [pc |-> "idle", rsp |-> NULL]
    /\ rx' = [rx EXCEPT !.failed = @ \cup {cb.rsp.rx}]
    /\ UNCHANGED <<msg, thr, imutex, tx, ring, irq, backend, queue,
                   async_queue_job_count, phase, init, unclosed>>

-----------------------------------------------------------------------------
(* vfastrpc_file_free, called when no ioctl of the file is running any more *)
(* (the kernel calls release with the last reference).                      *)

\* Nothing of the session is on the way to the backend or back.
Silent == tx.avail = {} /\ backend = {} /\ ring = <<>> /\ cb.rsp = NULL

\* Fault: CLOSE is left out.
Release_NoClose(t) ==
    /\ phase = "open" /\ \A u \in Threads : thr[u].pc = "idle"
    /\ phase' = "closing"
    /\ thr' = [thr EXCEPT ![t] = [Idle EXCEPT !.op = "close", !.pc = "dtor"]]
    /\ unclosed' = (unclosed \/ (~init /\ ~Silent))
    /\ UNCHANGED <<msg, imutex, tx, rx, ring, irq, cb, backend, queue,
                   async_queue_job_count, init, fails>>

\* CLOSE is sent for a session that was initialised; any other is freed at
\* once, whatever the backend has of it.
Release(t) ==
    /\ phase = "open" /\ \A u \in Threads : thr[u].pc = "idle"
    /\ phase' = "closing"
    /\ thr' = [thr EXCEPT ![t] = [Idle EXCEPT !.op = "close",
                                              !.pc = IF init THEN "alloc" ELSE "dtor"]]
    /\ unclosed' = (unclosed \/ (~init /\ ~Silent))
    /\ UNCHANGED <<msg, imutex, tx, rx, ring, irq, cb, backend, queue,
                   async_queue_job_count, init, fails>>

\* The contexts and commands that release still has to free, in its order:
\* interrupted calls, then pending ones, then interrupted commands.
ToFree ==
    LET on(l) == {i \in Ids : msg[i].live /\ msg[i].list = l}
    IN  CASE on("interrupted") # {} -> on("interrupted")
          [] on("interrupted") = {} /\ on("pending") # {} -> on("pending")
          [] OTHER -> on("cmds")

\* vfastrpc_context_list_dtor and vfastrpc_interrupted_cmd_list_free
FreeNext(t) ==
    /\ thr[t].pc = "dtor"
    /\ \E i \in ToFree :
         /\ msg' = [msg EXCEPT ![i].list = "held", ![i].pid = t]
         /\ thr' = [thr EXCEPT ![t].m = i,
                               ![t].pc = IF msg[i].rx = NULL THEN "freemsg" ELSE "freerx"]
    /\ UNCHANGED <<imutex, tx, rx, ring, irq, cb, backend, queue,
                   async_queue_job_count, phase, init, fails, unclosed>>

\* kfree(vfl), its async queue with it.
ReleaseEnd(t) ==
    /\ thr[t].pc = "dtor" /\ ToFree = {}
    /\ phase' = "closed"
    /\ Return(t)
    /\ queue' = <<>> /\ async_queue_job_count' = 0
    /\ UNCHANGED <<msg, imutex, tx, rx, ring, irq, cb, backend, init, fails,
                   unclosed>>

\* vfastrpc_file_alloc.  Nothing is claimed of a driver with a session that the
\* backend has not closed: such a session is the last.
Open ==
    /\ phase = "closed" /\ ~unclosed
    /\ phase' = "open" /\ init' = FALSE
    /\ UNCHANGED <<msg, thr, imutex, tx, rx, ring, irq, cb, backend, queue,
                   async_queue_job_count, fails, unclosed>>

-----------------------------------------------------------------------------
(* The backend (external).                                                  *)

BeTake ==
    \E r \in tx.avail :
        /\ tx' = [tx EXCEPT !.avail = @ \ {r}, !.used = @ \cup {r.tx}]
        /\ backend' = backend \cup {[id |-> r.id, kind |-> r.kind, old |-> r.old]}
        /\ UNCHANGED <<msg, thr, imutex, rx, ring, irq, cb, queue,
                       async_queue_job_count, phase, init, fails, unclosed>>

\* CLOSE fails, or it succeeds when everything else of the session is done.
Drained == tx.avail = {} /\ \A r \in backend : r.kind = "close"
Outcomes(r) == IF r.kind = "close" /\ ~Drained THEN {TRUE} ELSE BOOLEAN

BeReply(i) ==
    \E r \in backend : \E b \in rx.avail : \E err \in Outcomes(r) :
        /\ r.id = i
        /\ backend' = backend \ {r}
        /\ rx' = [rx EXCEPT !.avail = @ \ {b}]
        /\ ring' = Append(ring, [rx |-> b, id |-> i, err |-> err, old |-> r.old])
        /\ irq' = TRUE
        /\ UNCHANGED <<msg, thr, imutex, tx, cb, queue,
                       async_queue_job_count, phase, init, fails, unclosed>>

\* A call that CLOSE ended may be dropped without an answer.
BeDrop ==
    \E r \in backend :
        /\ r.kind # "close" /\ \E c \in backend : c.kind = "close"
        /\ backend' = backend \ {r}
        /\ UNCHANGED <<msg, thr, imutex, tx, rx, ring, irq, cb, queue,
                       async_queue_job_count, phase, init, fails, unclosed>>

-----------------------------------------------------------------------------
Start(t) ==
    \/ StartCtl(t) \/ StartMap(t) \/ StartInvoke(t) \/ Restore(t)
    \/ StartGetAsync(t) \/ Release(t)
\* The steps of a thread that nothing but their guard can hold up.
Proceed(t) ==
    \/ AllocId(t) \/ AllocFull(t) \/ GetTxBuf(t) \/ NoTxBuf(t)
    \/ NoMessage(t) \/ Send(t) \/ SendFail(t) \/ CopyFail(t)
    \/ PutArgs(t) \/ CmdDone(t) \/ CloseDone(t) \/ FreeRx(t) \/ FreeMsg(t) \/ AsyncTake(t)
    \/ FreeNext(t) \/ ReleaseEnd(t)
Step(t) == LockMap(t) \/ Proceed(t)
Signal(t) == SaveInvoke(t) \/ SaveCmd(t) \/ AsyncInterrupted(t)

Next ==
    \/ \E t \in Threads : Start(t) \/ Step(t) \/ Signal(t) \/ AsyncWake(t)
    \/ CbGet \/ CbRecv \/ CbMismatch \/ Open
    \/ BeTake \/ BeDrop \/ (\E i \in Ids : BeReply(i))

Spec == Init /\ [][Next]_vars

\* Threads run, the interrupt is delivered, mutex waiters are served in turn,
\* and the backend works on what it has been given.
FairSpec ==
    /\ Spec
    /\ \A t \in Threads : WF_vars(Proceed(t)) /\ SF_vars(LockMap(t))
    /\ WF_vars(CbGet) /\ WF_vars(CbRecv)
    /\ WF_vars(BeTake) /\ \A i \in Ids : SF_vars(BeReply(i))

-----------------------------------------------------------------------------
(* Properties.                                                              *)

Lists == {"none", "held", "pending", "interrupted", "cmds", "leaked"}
Kinds == AllOps \cup {"close", "none"}

MsgType == [live : BOOLEAN, kind : Kinds, tx : Bufs \cup {NULL}, rx : Bufs \cup {NULL},
            work : BOOLEAN, list : Lists, pid : Threads \cup {NULL}, err : BOOLEAN,
            own : BOOLEAN]
ThrType == [pc : {"idle", "mutex", "alloc", "gettx", "send", "wait", "freerx", "freemsg",
                  "awaitq", "take", "dtor"},
            op : Kinds, m : Ids \cup {NULL}]
Requests == [tx : Bufs, id : Ids, kind : Kinds, old : BOOLEAN]
Taken == [id : Ids, kind : Kinds, old : BOOLEAN]

\* Every variable has its type.
TypeOK ==
    /\ msg \in [Ids -> MsgType]
    /\ thr \in [Threads -> ThrType]
    /\ imutex \in Threads \cup {NULL}
    /\ tx \in [fresh : SUBSET Bufs, used : SUBSET Bufs, lost : SUBSET Bufs,
               avail : SUBSET Requests]
    /\ rx \in [avail : SUBSET Bufs, lost : SUBSET Bufs, failed : SUBSET Bufs]
    /\ ring \in Seq(Answers) /\ irq \in BOOLEAN
    /\ cb \in [pc : {"idle", "next", "recv"}, rsp : Answers \cup {NULL}]
    /\ backend \in SUBSET Taken
    /\ queue \in Seq(Ids) /\ async_queue_job_count \in Nat
    /\ phase \in {"open", "closing", "closed"} /\ init \in BOOLEAN
    /\ fails \in 0..MaxFails /\ unclosed \in BOOLEAN

\* The places a transmit, a receive buffer can be in.
TxPlaces(b) ==
    {<<p>> : p \in {q \in {"fresh", "used", "lost"} : b \in tx[q]}}
    \cup {<<"ring", r.id, r.old>> : r \in {r \in tx.avail : r.tx = b}}
    \cup {<<"msg", i>> : i \in {i \in Ids : msg[i].tx = b}}
RxPlaces(b) ==
    {<<p>> : p \in {q \in {"avail", "lost", "failed"} : b \in rx[q]}}
    \cup {<<"ring", k>> : k \in {k \in DOMAIN ring : ring[k].rx = b}}
    \cup {<<"cb">> : r \in {r \in {cb.rsp} \ {NULL} : r.rx = b}}
    \cup {<<"msg", i>> : i \in {i \in Ids : msg[i].rx = b}}

\* A buffer is never in the hands of two owners, so no message is written into a
\* buffer that the backend reads or fills.  Each failure of a queue, of a length
\* or of a copy costs at most one buffer, and a receive buffer goes astray in no
\* other way as long as every session with requests on the way is closed by the
\* backend (get_a_tx_buf, vfastrpc_txbuf_send, vfastrpc_rxbuf_send, recv_done).
BuffersAccounted ==
    /\ \A b \in Bufs : Cardinality(TxPlaces(b)) = 1 /\ Cardinality(RxPlaces(b)) = 1
    /\ Cardinality(tx.lost) + Cardinality(rx.failed) <= fails
    /\ rx.lost # {} => unclosed

\* msgid is a bare table index.  Still an answer only ever reaches the message it
\* answers, and each live message has one holder, a thread or a list
\* (recv_single, virt_free_msg, context_free, save_interrupted_cmds).  That ends
\* when a session is released whose CLOSE failed or which, never initialised,
\* sends none although a call of it is unanswered.
ReplyToOwn ==
    \/ unclosed
    \/ /\ \A i \in Ids : msg[i].own
       /\ \A i \in Ids : msg[i].live =>
            Cardinality({t \in Threads : thr[t].m = i})
              = IF msg[i].list = "held" THEN 1 ELSE 0
       /\ \A t \in Threads : thr[t].m # NULL => msg[thr[t].m].live
       /\ cb.rsp # NULL => msg[cb.rsp.id].live /\ ~cb.rsp.old

\* The counter that wakes the threads in vfastrpc_wait_on_async_queue counts the
\* queue's entries; each is a different answered job that nobody has taken
\* (until release, which frees the jobs and then the queue).
JobsOnce ==
    \/ phase # "open"
    \/ /\ async_queue_job_count = Len(queue)
       /\ IsInjective(queue)
       /\ \A k \in DOMAIN queue :
            LET j == msg[queue[k]]
            IN  j.live /\ j.kind = "async" /\ j.rx # NULL
                /\ j.list = "pending"

RxExhausted == rx.avail = {}

\* A thread inside an ioctl other than the wait for asynchronous jobs leaves it,
\* and a release ends, unless the receive buffers are all kept for good by
\* answers that the application does not fetch (wait_for_completion in the
\* commands, vfastrpc_file_free).
CallsReturn ==
    \A t \in Threads :
        (thr[t].pc \notin {"idle", "awaitq", "take"})
            ~> (thr[t].pc \in {"idle", "awaitq"} \/ []RxExhausted)
====

---------------------------- MODULE HybridInvoke ----------------------------
(***************************************************************************)
(* Remote invocations of the hybrid FastRPC driver on one DSP domain       *)
(* (hybrid_fastrpc_core.c, hybrid_fastrpc_vdev.c).                         *)
(*                                                                         *)
(* Every ioctl thread allocates an invoke context, publishes it in the     *)
(* channel's context table, links it on its session's pending list, sends  *)
(* the request and sleeps on the context's completion.  The response       *)
(* handler runs in the transport's callback, the subsystem-restart         *)
(* notifier in a work queue, file release when the last reference of the   *)
(* session's file is dropped.  One action is one critical section (hlock,  *)
(* ctxlock, smd_mutex) or one access to the shared fields of a context.    *)
(*                                                                         *)
(* A context is an address of Ctx; addresses are reused after kfree, and   *)
(* so are table slots.  Only the job number in the context id tells two    *)
(* generations of a slot apart.                                            *)
(***************************************************************************)
EXTENDS Integers, FiniteSets

CONSTANTS
    Ctx,          \* addresses an invoke context can have
    Sessions,     \* open files of the device (fastrpc_file) on this domain
    Threads,      \* ioctl threads
    SessionOf,    \* the session each thread issues its ioctls on
    Scs,          \* "scalars" words: the shape of a call's arguments
    CallTypes,    \* pairs <<handle class, asynchronous?>> callers use
    CtxMax,       \* FASTRPC_CTX_MAX, entries of the context table
    Reserved,     \* NUM_KERNEL_AND_STATIC_ONLY_CONTEXTS
    MaxPending,   \* MAX_PENDING_CTX_PER_SESSION
    CounterMod,   \* 2^32, the range of num_active_ctxs
    InterimFlags, \* response flags the DSP may send before the final one
    CloseMayFail, \* may the backend fail to close a session's DSP process?
    MaxCalls,     \* bound: contexts ever published
    MaxSsr,       \* bound: subsystem restarts
    MaxFails,     \* bound: failed context allocations per session
    NULL

(* The handle class of a call: issued by the driver, by user space on a    *)
(* static handle, or by user space on a dynamic handle.                    *)
Kinds == {"kernel", "static", "user"}

ASSUME ConstAssumption ==
    /\ SessionOf \in [Threads -> Sessions]
    /\ CallTypes \subseteq Kinds \X BOOLEAN
    /\ <<"kernel", TRUE>> \notin CallTypes
    /\ CtxMax \in Nat \ {0}
    /\ Reserved \in 0 .. CtxMax
    /\ MaxPending \in Nat
    /\ CounterMod \in Nat \ {0}
    /\ InterimFlags \subseteq {"USER_EARLY", "EARLY", "POLL", "BAD"}
    /\ CloseMayFail \in BOOLEAN
    /\ MaxCalls \in Nat /\ MaxSsr \in Nat /\ MaxFails \in Nat
    /\ NULL \notin Ctx

\* The system has finitely many threads.
ASSUME FiniteAssumption == IsFiniteSet(Threads)

Slots == 0 .. CtxMax - 1

Flags == {"NORMAL", "COMPLETE", "USER_EARLY", "EARLY", "POLL", "BAD"}

PollWords == {"zero", "early_wakeup", "poll_response"}

Errs == {"none", "ok", "restart", "reset", "quota", "nomem", "fault",
         "nokey", "comm", "badr", "inval", "unset"}

PCs == {"idle", "open", "alloc", "link", "args", "send", "switch", "try",
        "poll", "pollmode", "block", "save", "put", "unslot", "unlink",
        "return"}

VARIABLES
    ctxtable,   \* chan->ctxtable
    jobid,      \* me->jobid[domain]
    ctx,        \* the invoke contexts, by address
    fl,         \* the sessions
    thr,        \* the ioctl threads
    chan,       \* ssrcount, subsystemstate, sessions still to be notified
    requests,   \* requests the DSP is working on
    responses,  \* responses on their way to the driver
    calls,      \* history: contexts published so far
    finished,   \* history: calls whose result the DSP has delivered
    stale       \* history: calls that went out to a DSP process although the
                \* restart notifier had completed their context already

vars == <<ctxtable, jobid, ctx, fl, thr, chan, requests, responses, calls,
          finished, stale>>

\* ctxid = jobid << 16 | index << 6 | async << 4
CtxId(job, idx, async) == [job |-> job, idx |-> idx, async |-> async]

NoId == CtxId(0, 0, FALSE)

FreeCtx ==
    [live |-> FALSE, id |-> NoId, fl |-> NULL, pid |-> NULL, sc |-> NULL,
     kind |-> NULL, done |-> FALSE, rv |-> "init", flags |-> "NORMAL",
     work |-> 0, list |-> "none", queued |-> 0, poll |-> "zero",
     call |-> 0, ans |-> 0]

IdleThread ==
    [pc |-> "idle", cur |-> NULL, kind |-> NULL, sc |-> NULL,
     async |-> FALSE, err |-> "none", call |-> 0]

ClosedSession ==
    [phase |-> "closed", ssr |-> 0, active |-> 0, init |-> FALSE, pd |-> 0,
     dtor |-> NULL, fails |-> 0]

Init ==
    /\ ctxtable = [i \in Slots |-> NULL]
    /\ jobid = 1
    /\ ctx = [c \in Ctx |-> FreeCtx]
    /\ fl = [s \in Sessions |-> ClosedSession]
    /\ thr = [t \in Threads |-> IdleThread]
    /\ chan = [ssr |-> 0, state |-> "up", notified |-> FALSE, notify |-> {}]
    /\ requests = {}
    /\ responses = {}
    /\ calls = 0
    /\ finished = {}
    /\ stale = {}

-----------------------------------------------------------------------------
(* Helpers.                                                                *)

Linked(c, s) == ctx[c].fl = s /\ ctx[c].list \in {"pending", "interrupted"}

\* num_active_ctxs-- on an unsigned 32-bit counter
Dec(n) == IF n = 0 THEN CounterMod - 1 ELSE n - 1
Inc(n) == IF n + 1 = CounterMod THEN 0 ELSE n + 1

\* Calls that may use the whole table and are exempt from the quota.
Privileged(kind) == kind \in {"kernel", "static"}

\* Fault: every call scans from entry 0.
ScanRange_All(kind) == Slots

\* Table slots the scan in context_alloc looks at for a call of this class.
ScanRange(kind) == IF Privileged(kind) THEN Slots ELSE Reserved .. CtxMax - 1

FreeSlots(kind) == {i \in ScanRange(kind) : ctxtable[i] = NULL}

Goto(t, pc) == thr' = [thr EXCEPT ![t].pc = pc]
Fail(t, pc, err) == thr' = [thr EXCEPT ![t].pc = pc, ![t].err = err]

\* Fault: the pid is not compared.
InterruptedOf_AnyPid(t) ==
    {c \in Ctx : Linked(c, SessionOf[t]) /\ ctx[c].list = "interrupted"}

\* The interrupted context a new invocation of thread t would resume.
InterruptedOf(t) ==
    {c \in Ctx : /\ Linked(c, SessionOf[t])
                 /\ ctx[c].list = "interrupted"
                 /\ ctx[c].pid = t}

-----------------------------------------------------------------------------
(* hfastrpc_internal_invoke and context_alloc: up to the send.             *)

\* Fault: the request of an interrupted call is sent again.
InvokeResume_Resends(t, kind, sc) ==
    /\ thr[t].pc = "idle" /\ fl[SessionOf[t]].phase = "open"
    /\ kind # "kernel"
    /\ \E c \in InterruptedOf(t) :
        /\ ctx' = [ctx EXCEPT ![c].list = "pending"]
        /\ thr' = [thr EXCEPT ![t] =
               [pc |-> "args", cur |-> c, kind |-> kind, sc |-> sc,
                async |-> FALSE, err |-> "none", call |-> ctx[c].call]]
    /\ UNCHANGED <<ctxtable, jobid, fl, chan, requests, responses, calls,
                   finished, stale>>

\* context_restore_interrupted finds a context of this thread: resume it, or
\* refuse a call whose scalars differ.
InvokeResume(t, kind, sc) ==
    /\ thr[t].pc = "idle" /\ fl[SessionOf[t]].phase = "open"
    /\ kind # "kernel"
    /\ \E c \in InterruptedOf(t) :
        IF ctx[c].sc = sc
        THEN /\ ctx' = [ctx EXCEPT ![c].list = "pending"]
             /\ thr' = [thr EXCEPT ![t] =
                    [pc |-> "switch", cur |-> c, kind |-> kind, sc |-> sc,
                     async |-> FALSE, err |-> "none", call |-> ctx[c].call]]
        ELSE /\ Fail(t, "return", "inval")
             /\ UNCHANGED ctx
    /\ UNCHANGED <<ctxtable, jobid, fl, chan, requests, responses, calls,
                   finished, stale>>

\* Fault: no quota check.
InvokeNew_NoQuota(t, kind, sc, async) ==
    /\ thr[t].pc = "idle" /\ fl[SessionOf[t]].phase = "open"
    /\ kind # "kernel" => InterruptedOf(t) = {}
    /\ calls < MaxCalls
    /\ thr' = [thr EXCEPT ![t] =
           [IdleThread EXCEPT !.pc = "alloc", !.kind = kind, !.sc = sc,
                              !.async = async]]
    /\ UNCHANGED <<ctxtable, jobid, ctx, fl, chan, requests, responses, calls,
                   finished, stale>>

\* A call with nothing to resume: context_alloc checks the quota under hlock.
InvokeNew(t, kind, sc, async) ==
    LET over == /\ fl[SessionOf[t]].active > MaxPending
                /\ ~Privileged(kind)
    IN  /\ thr[t].pc = "idle" /\ fl[SessionOf[t]].phase = "open"
        /\ kind # "kernel" => InterruptedOf(t) = {}
        /\ calls < MaxCalls
        /\ thr' = [thr EXCEPT ![t] =
               [pc |-> IF over THEN "return" ELSE "alloc", cur |-> NULL,
                kind |-> kind, sc |-> sc, async |-> async,
                err |-> IF over THEN "quota" ELSE "none", call |-> 0]]
        /\ UNCHANGED <<ctxtable, jobid, ctx, fl, chan, requests, responses,
                       calls, finished, stale>>

\* kzalloc fails: there is no context to free.
AllocNoMem(t) ==
    /\ thr[t].pc = "alloc"
    /\ Fail(t, "return", "nomem")
    /\ UNCHANGED <<ctxtable, jobid, ctx, fl, chan, requests, responses, calls,
                   finished, stale>>

\* context_free of a context that was never linked: hlist_add_fake made its
\* node look hashed, so the counter is decremented all the same.
FreeUnlinked(s) ==
    /\ fl[s].fails < MaxFails
    /\ fl' = [fl EXCEPT ![s].active = Dec(@), ![s].fails = @ + 1]

\* Copying the arguments in, or building the overlap table, fails.
AllocFault(t) ==
    /\ thr[t].pc = "alloc"
    /\ FreeUnlinked(SessionOf[t])
    /\ Fail(t, "return", "fault")
    /\ UNCHANGED <<ctxtable, jobid, ctx, chan, requests, responses, calls,
                   finished, stale>>

\* Under ctxlock: a new job number and the first free slot of the scan.
ContextPublish(t) ==
    /\ thr[t].pc = "alloc"
    /\ calls < MaxCalls
    /\ \E c \in Ctx, i \in FreeSlots(thr[t].kind) :
        /\ ~ctx[c].live
        /\ \A j \in FreeSlots(thr[t].kind) : i <= j
        /\ ctxtable' = [ctxtable EXCEPT ![i] = c]
        /\ ctx' = [ctx EXCEPT ![c] =
               [FreeCtx EXCEPT !.live = TRUE,
                               !.id = CtxId(jobid + 1, i, thr[t].async),
                               !.fl = SessionOf[t], !.pid = t,
                               !.sc = thr[t].sc, !.kind = thr[t].kind,
                               !.list = "fake", !.call = calls + 1]]
        /\ thr' = [thr EXCEPT ![t].pc = "link", ![t].cur = c,
                              ![t].call = calls + 1]
    /\ jobid' = jobid + 1
    /\ calls' = calls + 1
    /\ UNCHANGED <<fl, chan, requests, responses, finished, stale>>

\* No free slot: -ENOKEY, and the context is freed before it was linked.
ContextNoSlot(t) ==
    /\ thr[t].pc = "alloc"
    /\ FreeSlots(thr[t].kind) = {}
    /\ jobid' = jobid + 1
    /\ FreeUnlinked(SessionOf[t])
    /\ Fail(t, "return", "nokey")
    /\ UNCHANGED <<ctxtable, ctx, chan, requests, responses, calls, finished, stale>>

\* Under hlock: onto the session's pending list.
ContextLink(t) ==
    /\ thr[t].pc = "link"
    /\ ctx' = [ctx EXCEPT ![thr[t].cur].list = "pending"]
    /\ fl' = [fl EXCEPT ![SessionOf[t]].active = Inc(@)]
    /\ Goto(t, "args")
    /\ UNCHANGED <<ctxtable, jobid, chan, requests, responses, calls, finished, stale>>

\* get_args fails (mapping, buffer or copy error).
GetArgsFail(t) ==
    /\ thr[t].pc = "args"
    /\ Fail(t, "unslot", "fault")
    /\ UNCHANGED <<ctxtable, jobid, ctx, fl, chan, requests, responses, calls,
                   finished, stale>>

\* get_args succeeds and resets the poll word; hfastrpc_invoke_send compares
\* the restart counts under smd_mutex and drops the mutex again.
CheckSsr(t) ==
    /\ thr[t].pc = "args"
    /\ ctx' = [ctx EXCEPT ![thr[t].cur].poll = "zero"]
    /\ IF fl[SessionOf[t]].ssr # chan.ssr
       THEN Fail(t, "unslot", "reset")
       ELSE Goto(t, "send")
    /\ UNCHANGED <<ctxtable, jobid, fl, chan, requests, responses, calls,
                   finished, stale>>

\* Where a thread goes once the message is out: an asynchronous call returns.
AfterSend(t) ==
    thr' = [thr EXCEPT ![t] = IF @.async THEN IdleThread
                              ELSE [@ EXCEPT !.pc = "switch"]]

\* The DSP process of session s runs in the present life of the subsystem.
PdExists(s) == fl[s].init /\ fl[s].pd = chan.ssr

Request(t) ==
    [id |-> ctx[thr[t].cur].id, call |-> thr[t].call, c |-> thr[t].cur,
     fl |-> SessionOf[t], sent |-> {}, polled |-> FALSE]

Response(r, flag) == [id |-> r.id, call |-> r.call, flag |-> flag]

\* fastrpc_transport_send (external) accepts the message, which it cannot do
\* once the channel of a stopped subsystem is gone.  A subsystem that is
\* stopping loses it; a DSP without a process for the session answers at once.
\* The context may be one the restart notifier has completed: an INIT of
\* another thread that refreshes the session's restart count lets it pass the
\* check of hfastrpc_invoke_send.
TransportSend(t) ==
    /\ thr[t].pc = "send"
    /\ chan.state # "down"
    /\ IF chan.state = "up" /\ PdExists(SessionOf[t])
       THEN /\ requests' = requests \cup {Request(t)}
            /\ stale' = IF ctx[thr[t].cur].done THEN stale \cup {thr[t].call}
                                               ELSE stale
       ELSE UNCHANGED <<requests, stale>>
    /\ IF chan.state = "up" /\ ~PdExists(SessionOf[t])
       THEN /\ responses' = responses \cup {Response(Request(t), "NORMAL")}
            /\ finished' = finished \cup {thr[t].call}
       ELSE UNCHANGED <<responses, finished>>
    /\ AfterSend(t)
    /\ UNCHANGED <<ctxtable, jobid, ctx, fl, chan, calls>>

\* fastrpc_transport_send fails.
TransportFail(t) ==
    /\ thr[t].pc = "send"
    /\ Fail(t, "unslot", "comm")
    /\ UNCHANGED <<ctxtable, jobid, ctx, fl, chan, requests, responses, calls,
                   finished, stale>>

-----------------------------------------------------------------------------
(* hfastrpc_wait_for_completion.                                           *)

\* Fault: the loop is left after the first wakeup.
LoopTest_Once(done) == "put"

\* The test at the end of the loop: leave when the work is done.
LoopTest(done) == IF done THEN "put" ELSE "switch"

\* switch (ctx->rsp_flags)
WaitSwitch(t) ==
    LET f == ctx[thr[t].cur].flags
    IN  /\ thr[t].pc = "switch"
        /\ CASE f \in {"NORMAL", "COMPLETE"} -> Goto(t, "block")
             [] f = "USER_EARLY" -> Goto(t, "try")
             [] f = "EARLY" -> Goto(t, "poll")
             [] f = "POLL" -> Goto(t, "pollmode")
             [] OTHER -> Fail(t, "unslot", "badr")
        /\ UNCHANGED <<ctxtable, jobid, ctx, fl, chan, requests, responses,
                       calls, finished, stale>>

\* USER_EARLY_SIGNAL: try_wait_for_completion for a while, then sleep.
WaitTry(t) ==
    /\ thr[t].pc = "try"
    /\ \/ /\ ctx[thr[t].cur].work > 0
          /\ ctx' = [ctx EXCEPT ![thr[t].cur].work = @ - 1]
          /\ Goto(t, LoopTest(ctx[thr[t].cur].done))
       \/ /\ Goto(t, "block")
          /\ UNCHANGED ctx
    /\ UNCHANGED <<ctxtable, jobid, fl, chan, requests, responses, calls,
                   finished, stale>>

\* EARLY_RESPONSE: poll_for_remote_response until the word changes or the
\* time is up.
WaitPoll(t) ==
    LET c == thr[t].cur
    IN  /\ thr[t].pc = "poll"
        /\ IF ctx[c].poll # "zero"
           THEN /\ ctx' = [ctx EXCEPT ![c].done = TRUE,
                       ![c].rv = IF ctx[c].poll = "poll_response"
                                 THEN "dsp" ELSE @]
                /\ Goto(t, "put")
           ELSE /\ Goto(t, IF ctx[c].done THEN "put" ELSE "block")
                /\ UNCHANGED ctx
        /\ UNCHANGED <<ctxtable, jobid, fl, chan, requests, responses, calls,
                       finished, stale>>

\* POLL_MODE: fl->poll_timeout is zero in this driver, so the poll times out
\* and the flags fall back to a normal response.
WaitPollMode(t) ==
    /\ thr[t].pc = "pollmode"
    /\ ctx' = [ctx EXCEPT ![thr[t].cur].flags = "NORMAL"]
    /\ Goto(t, LoopTest(ctx[thr[t].cur].done))
    /\ UNCHANGED <<ctxtable, jobid, fl, chan, requests, responses, calls,
                   finished, stale>>

\* wait_for_completion{,_interruptible} takes one completion.
WaitBlock(t) ==
    /\ thr[t].pc = "block"
    /\ ctx[thr[t].cur].work > 0
    /\ ctx' = [ctx EXCEPT ![thr[t].cur].work = @ - 1]
    /\ Goto(t, LoopTest(ctx[thr[t].cur].done))
    /\ UNCHANGED <<ctxtable, jobid, fl, chan, requests, responses, calls,
                   finished, stale>>

\* Fault: an interrupted call is freed, not saved.
WaitInterrupted_Frees(t) ==
    /\ thr[t].pc = "block"
    /\ thr[t].kind # "kernel"
    /\ ctx[thr[t].cur].work = 0
    /\ Fail(t, "unslot", "restart")
    /\ UNCHANGED <<ctxtable, jobid, ctx, fl, chan, requests, responses, calls,
                   finished, stale>>

\* A signal ends the sleep of a user call when nothing has been completed.
WaitInterrupted(t) ==
    /\ thr[t].pc = "block"
    /\ thr[t].kind # "kernel"
    /\ ctx[thr[t].cur].work = 0
    /\ Fail(t, "save", "restart")
    /\ UNCHANGED <<ctxtable, jobid, ctx, fl, chan, requests, responses, calls,
                   finished, stale>>

-----------------------------------------------------------------------------
(* The end of hfastrpc_internal_invoke and context_free.                   *)

\* Fault: an interrupted context is no longer counted.
SaveInterrupted_Uncounts(t) ==
    /\ thr[t].pc = "save"
    /\ ctx' = [ctx EXCEPT ![thr[t].cur].list = "interrupted"]
    /\ fl' = [fl EXCEPT ![SessionOf[t]].active = Dec(@)]
    /\ thr' = [thr EXCEPT ![t].pc = "return", ![t].cur = NULL]
    /\ UNCHANGED <<ctxtable, jobid, chan, requests, responses, calls,
                   finished, stale>>

\* context_save_interrupted
SaveInterrupted(t) ==
    /\ thr[t].pc = "save"
    /\ ctx' = [ctx EXCEPT ![thr[t].cur].list = "interrupted"]
    /\ thr' = [thr EXCEPT ![t].pc = "return", ![t].cur = NULL]
    /\ UNCHANGED <<ctxtable, jobid, fl, chan, requests, responses, calls,
                   finished, stale>>

\* put_args copies the outputs back, then the context's retval is the result.
PutArgs(t) ==
    LET rv == ctx[thr[t].cur].rv
    IN  /\ thr[t].pc = "put"
        /\ \/ Fail(t, "unslot", "fault")
           \/ Fail(t, "unslot", CASE rv = "dsp" -> "ok"
                                  [] rv = "reset" -> "reset"
                                  [] OTHER -> "unset")
        /\ UNCHANGED <<ctxtable, jobid, ctx, fl, chan, requests, responses,
                       calls, finished, stale>>

ClearSlot(c) ==
    ctxtable' = [i \in Slots |-> IF ctxtable[i] = c THEN NULL ELSE ctxtable[i]]

\* Fault: the table entry survives its context.
FreeSlot_KeepsEntry(t) ==
    /\ thr[t].pc = "unslot"
    /\ Goto(t, "unlink")
    /\ UNCHANGED <<ctxtable, jobid, ctx, fl, chan, requests, responses, calls,
                   finished, stale>>

\* context_free, under ctxlock
FreeSlot(t) ==
    /\ thr[t].pc = "unslot"
    /\ ClearSlot(thr[t].cur)
    /\ Goto(t, "unlink")
    /\ UNCHANGED <<jobid, ctx, fl, chan, requests, responses, calls, finished, stale>>

\* context_free, under hlock, then kfree
FreeLink(t) ==
    LET c == thr[t].cur
        s == SessionOf[t]
    IN  /\ thr[t].pc = "unlink"
        /\ fl' = [fl EXCEPT ![s].active = IF ctx[c].list = "none" THEN @
                                          ELSE Dec(@)]
        /\ ctx' = [ctx EXCEPT ![c] = FreeCtx]
        /\ thr' = [thr EXCEPT ![t].pc = "return", ![t].cur = NULL]
        /\ UNCHANGED <<ctxtable, jobid, chan, requests, responses, calls,
                       finished, stale>>

\* A restart since the session was opened overrides whatever the result was.
Result(t) ==
    IF fl[SessionOf[t]].ssr # chan.ssr THEN "reset" ELSE thr[t].err

\* The ioctl returns Result(t).
InvokeReturn(t) ==
    /\ thr[t].pc = "return"
    /\ thr' = [thr EXCEPT ![t] = IdleThread]
    /\ UNCHANGED <<ctxtable, jobid, ctx, fl, chan, requests, responses, calls,
                   finished, stale>>

-----------------------------------------------------------------------------
(* fastrpc_handle_rpc_response and context_notify_user, under ctxlock.     *)

IsFinal(flag) == flag \in {"NORMAL", "COMPLETE"}

\* fastrpc_queue_completed_async_job: is_early_wakeup guards the insertion.
QueueAsync(k) == IF k.queued = 0 THEN 1 ELSE k.queued

\* Fault: COMPLETE_SIGNAL does not complete the work.
NotifyUser_NoComplete(k, m) ==
    [k EXCEPT !.rv = "dsp", !.flags = m.flag, !.ans = m.call,
              !.done = k.done \/ IsFinal(m.flag),
              !.work = IF m.flag \in {"NORMAL", "USER_EARLY", "EARLY"}
                       THEN @ + 1 ELSE @]

NotifyUser(k, m) ==
    [k EXCEPT !.rv = "dsp",
              !.flags = m.flag,
              !.ans = m.call,
              !.done = k.done \/ IsFinal(m.flag),
              !.queued = IF k.id.async /\ (IsFinal(m.flag) \/ m.flag = "EARLY")
                         THEN QueueAsync(k) ELSE @,
              !.work = IF \/ IsFinal(m.flag)
                          \/ m.flag \in {"USER_EARLY", "EARLY"} /\ ~k.id.async
                       THEN @ + 1 ELSE @]

\* Fault: only the slot is looked at.
Accepts_SlotOnly(c, m) == c # NULL

\* The response is for the context now in its slot.  (The DSP speaks the
\* driver's protocol: a response that carries a version carries version 2.)
Accepts(c, m) == c # NULL /\ ctx[c].id = m.id

HandleResponse(m) ==
    LET c == ctxtable[m.id.idx]
    IN  /\ m \in responses
        /\ responses' = responses \ {m}
        /\ IF Accepts(c, m)
           THEN ctx' = [ctx EXCEPT ![c] = NotifyUser(@, m)]
           ELSE UNCHANGED ctx
        /\ UNCHANGED <<ctxtable, jobid, fl, thr, chan, requests, calls,
                       finished, stale>>

-----------------------------------------------------------------------------
(* fastrpc_restart_notifier_cb.                                            *)

\* QCOM_SSR_BEFORE_SHUTDOWN.  The DSP stops working on its requests.
SsrBeforeShutdown ==
    /\ chan.state = "up" /\ chan.ssr < MaxSsr
    /\ chan' = [chan EXCEPT !.ssr = @ + 1, !.state = "restarting"]
    /\ requests' = {}
    /\ UNCHANGED <<ctxtable, jobid, ctx, fl, thr, responses, calls, finished, stale>>

\* QCOM_SSR_AFTER_SHUTDOWN.  The transport's channel is gone.
SsrAfterShutdown ==
    /\ chan.state = "restarting"
    /\ chan' = [chan EXCEPT !.state = "down"]
    /\ responses' = {}
    /\ UNCHANGED <<ctxtable, jobid, ctx, fl, thr, requests, calls, finished, stale>>

\* QCOM_SSR_BEFORE_POWERUP: fastrpc_notify_drivers takes the drivers' hlock.
SsrBeforePowerup ==
    /\ chan.state = "down" /\ ~chan.notified
    /\ chan' = [chan EXCEPT !.notified = TRUE,
                    !.notify = {s \in Sessions : fl[s].phase # "closed"}]
    /\ UNCHANGED <<ctxtable, jobid, ctx, fl, thr, requests, responses, calls,
                   finished, stale>>

\* Fault: the interrupted list is not walked.
NotifyUsers_PendingOnly(s) ==
    /\ s \in chan.notify
    /\ chan' = [chan EXCEPT !.notify = @ \ {s}]
    /\ ctx' = [c \in Ctx |->
           IF Linked(c, s) /\ ctx[c].list = "pending"
           THEN [ctx[c] EXCEPT !.done = TRUE, !.rv = "reset", !.work = @ + 1]
           ELSE ctx[c]]
    /\ UNCHANGED <<ctxtable, jobid, fl, thr, requests, responses, calls,
                   finished, stale>>

\* Fault: the sleepers are marked but not woken.
NotifyUsers_NoWake(s) ==
    /\ s \in chan.notify
    /\ chan' = [chan EXCEPT !.notify = @ \ {s}]
    /\ ctx' = [c \in Ctx |->
           IF Linked(c, s)
           THEN [ctx[c] EXCEPT !.done = TRUE, !.rv = "reset"]
           ELSE ctx[c]]
    /\ UNCHANGED <<ctxtable, jobid, fl, thr, requests, responses, calls,
                   finished, stale>>

\* fastrpc_notify_users, under the session's hlock
NotifyUsers(s) ==
    /\ s \in chan.notify
    /\ chan' = [chan EXCEPT !.notify = @ \ {s}]
    /\ ctx' = [c \in Ctx |->
           IF Linked(c, s)
           THEN [ctx[c] EXCEPT !.done = TRUE, !.rv = "reset", !.work = @ + 1]
           ELSE ctx[c]]
    /\ UNCHANGED <<ctxtable, jobid, fl, thr, requests, responses, calls,
                   finished, stale>>

\* QCOM_SSR_AFTER_POWERUP
SsrAfterPowerup ==
    /\ chan.state = "down" /\ chan.notified /\ chan.notify = {}
    /\ chan' = [chan EXCEPT !.state = "up", !.notified = FALSE]
    /\ UNCHANGED <<ctxtable, jobid, ctx, fl, thr, requests, responses, calls,
                   finished, stale>>

-----------------------------------------------------------------------------
(* Session lifecycle, as far as invocations see it.                        *)

\* hfastrpc_open links the file under the drivers' hlock; hfastrpc_get_info
\* binds it to the domain and copies the restart count.
FileOpen(s) ==
    /\ fl[s].phase = "closed" /\ chan.notify = {}
    /\ fl' = [fl EXCEPT ![s] = [ClosedSession EXCEPT !.phase = "open",
                                                     !.ssr = chan.ssr]]
    /\ UNCHANGED <<ctxtable, jobid, ctx, thr, chan, requests, responses, calls,
                   finished, stale>>

\* hfastrpc_init_process, whatever the other threads of the session do and
\* however often: hfastrpc_channel_open refuses while the subsystem is not up
\* and refreshes the session's restart count under smd_mutex; the OPEN message
\* goes to the backend.
InitProcess(t) ==
    /\ thr[t].pc = "idle" /\ fl[SessionOf[t]].phase = "open"
    /\ chan.state = "up"
    /\ fl' = [fl EXCEPT ![SessionOf[t]].ssr = chan.ssr]
    /\ thr' = [thr EXCEPT ![t] = [IdleThread EXCEPT !.pc = "open"]]
    /\ UNCHANGED <<ctxtable, jobid, ctx, chan, requests, responses, calls,
                   finished, stale>>

\* The PD type check, the send or the backend fails.
InitFails(t) ==
    /\ thr[t].pc = "open"
    /\ thr' = [thr EXCEPT ![t] = IdleThread]
    /\ UNCHANGED <<ctxtable, jobid, ctx, fl, chan, requests, responses, calls,
                   finished, stale>>

\* The newest life of the subsystem in which session s got a process.
Later(s, life) == IF fl[s].init /\ fl[s].pd > life THEN fl[s].pd ELSE life

\* The backend's answer to OPEN.  By then the subsystem may have gone down
\* and the DSP process with it.
InitOpened(t) ==
    /\ thr[t].pc = "open"
    /\ \E life \in 0 .. chan.ssr :
        /\ chan.state = "up" \/ life < chan.ssr
        /\ fl' = [fl EXCEPT ![SessionOf[t]].init = TRUE,
                             ![SessionOf[t]].pd = Later(SessionOf[t], life)]
    /\ thr' = [thr EXCEPT ![t] = IdleThread]
    /\ UNCHANGED <<ctxtable, jobid, ctx, chan, requests, responses, calls,
                   finished, stale>>

\* hfastrpc_release: no thread is inside an ioctl of this file any more.
FileFreeStart(s) ==
    /\ fl[s].phase = "open"
    /\ \A t \in Threads : SessionOf[t] = s => thr[t].pc = "idle"
    /\ fl' = [fl EXCEPT ![s].phase = IF fl[s].init THEN "dspclose" ELSE "dtor"]
    /\ UNCHANGED <<ctxtable, jobid, ctx, thr, chan, requests, responses, calls,
                   finished, stale>>

\* virt_fastrpc_close: the backend tears the DSP process down, or fails to
\* and leaves its calls running without an owner.
FileFreeDsp(s) ==
    /\ fl[s].phase = "dspclose"
    /\ fl' = [fl EXCEPT ![s].phase = "dtor"]
    /\ \/ requests' = {r \in requests : r.fl # s}
       \/ /\ CloseMayFail
          /\ requests' = {IF r.fl = s THEN [r EXCEPT !.fl = NULL] ELSE r :
                             r \in requests}
    /\ UNCHANGED <<ctxtable, jobid, ctx, thr, chan, responses, calls, finished, stale>>

\* hfastrpc_context_list_dtor takes a context off its list, the interrupted
\* ones first ...
DtorUnlink(s) ==
    /\ fl[s].phase = "dtor" /\ fl[s].dtor = NULL
    /\ \E c \in Ctx :
        /\ Linked(c, s)
        /\ \/ ctx[c].list = "interrupted"
           \/ \A d \in Ctx : Linked(d, s) => ctx[d].list = "pending"
        /\ ctx' = [ctx EXCEPT ![c].list = "none"]
        /\ fl' = [fl EXCEPT ![s].dtor = c]
    /\ UNCHANGED <<ctxtable, jobid, thr, chan, requests, responses, calls,
                   finished, stale>>

\* ... and frees it.
DtorFree(s) ==
    LET c == fl[s].dtor
    IN  /\ fl[s].phase = "dtor" /\ c # NULL
        /\ ClearSlot(c)
        /\ ctx' = [ctx EXCEPT ![c] = FreeCtx]
        /\ fl' = [fl EXCEPT ![s].dtor = NULL]
        /\ UNCHANGED <<jobid, thr, chan, requests, responses, calls, finished, stale>>

\* The file leaves the drivers' list under hlock and is freed.
FileFreeEnd(s) ==
    /\ fl[s].phase = "dtor" /\ fl[s].dtor = NULL
    /\ \A c \in Ctx : ~Linked(c, s)
    /\ chan.notify = {}
    /\ fl' = [fl EXCEPT ![s] = ClosedSession]
    /\ UNCHANGED <<ctxtable, jobid, ctx, thr, chan, requests, responses, calls,
                   finished, stale>>

-----------------------------------------------------------------------------
(* The DSP (external): modelled by the responses the driver handles.       *)

\* A hint, an early response, or flags the driver does not expect.
DspInterim(r, flag) ==
    /\ r \in requests /\ flag \notin r.sent
    /\ requests' = (requests \ {r})
                   \cup {[r EXCEPT !.sent = @ \cup {flag}]}
    /\ responses' = responses \cup {Response(r, flag)}
    /\ UNCHANGED <<ctxtable, jobid, ctx, fl, thr, chan, calls, finished, stale>>

\* After an early response the result is signalled through the poll word in
\* the context's metadata buffer.
DspPoll(r) ==
    /\ r \in requests /\ "EARLY" \in r.sent /\ ~r.polled
    /\ \E w \in PollWords \ {"zero"} :
        ctx' = [ctx EXCEPT ![r.c].poll =
                    IF ctx[r.c].call = r.call THEN w ELSE @]
    /\ requests' = (requests \ {r}) \cup {[r EXCEPT !.polled = TRUE]}
    /\ finished' = finished \cup {r.call}
    /\ UNCHANGED <<ctxtable, jobid, fl, thr, chan, responses, calls, stale>>

\* The final response; after an early one it is a COMPLETE_SIGNAL.
DspFinish(r) ==
    /\ r \in requests
    /\ requests' = requests \ {r}
    /\ responses' = responses \cup
           {Response(r, IF r.sent = {} THEN "NORMAL" ELSE "COMPLETE")}
    /\ finished' = finished \cup {r.call}
    /\ UNCHANGED <<ctxtable, jobid, ctx, fl, thr, chan, calls, stale>>

-----------------------------------------------------------------------------
Invoke(t) ==
    \E k \in CallTypes, sc \in Scs :
        InvokeResume(t, k[1], sc) \/ InvokeNew(t, k[1], sc, k[2])

\* What a thread inside an invocation does of its own accord.
ThreadStep(t) ==
    \/ AllocNoMem(t) \/ AllocFault(t)
    \/ ContextPublish(t) \/ ContextNoSlot(t) \/ ContextLink(t)
    \/ GetArgsFail(t) \/ CheckSsr(t) \/ TransportSend(t) \/ TransportFail(t)
    \/ WaitSwitch(t) \/ WaitTry(t) \/ WaitPoll(t) \/ WaitPollMode(t)
    \/ WaitBlock(t)
    \/ SaveInterrupted(t) \/ PutArgs(t)
    \/ FreeSlot(t) \/ FreeLink(t) \/ InvokeReturn(t)

Ssr ==
    \/ SsrAfterShutdown \/ SsrBeforePowerup \/ SsrAfterPowerup
    \/ \E s \in Sessions : NotifyUsers(s)

FileFree(s) ==
    FileFreeDsp(s) \/ DtorUnlink(s) \/ DtorFree(s) \/ FileFreeEnd(s)

Next ==
    \/ \E t \in Threads :
           \/ Invoke(t) \/ ThreadStep(t) \/ WaitInterrupted(t)
           \/ InitProcess(t) \/ InitFails(t) \/ InitOpened(t)
    \/ \E m \in responses : HandleResponse(m)
    \/ SsrBeforeShutdown \/ Ssr
    \/ \E s \in Sessions :
           FileOpen(s) \/ FileFreeStart(s) \/ FileFree(s)
    \/ \E r \in requests : \E flag \in InterimFlags : DspInterim(r, flag)
    \/ \E r \in requests : DspPoll(r) \/ DspFinish(r)

Spec == Init /\ [][Next]_vars

(* Scheduling: kernel threads, interrupt callbacks and the notifier's work  *)
(* queue are run eventually; callers, signals, restarts and file releases   *)
(* need not happen.                                                         *)
DriverFairness ==
    /\ \A t \in Threads : WF_vars(ThreadStep(t))
    /\ WF_vars(\E m \in responses : HandleResponse(m))
    /\ WF_vars(Ssr)

\* Nothing is assumed of the DSP: it may hang until it is restarted.
FairSpec == Spec /\ DriverFairness

-----------------------------------------------------------------------------
(* Properties.                                                             *)

Ids == [job : Nat, idx : Slots, async : BOOLEAN]

CtxType ==
    [live : BOOLEAN, id : Ids,
     fl : Sessions \cup {NULL}, pid : Threads \cup {NULL},
     sc : Scs \cup {NULL}, kind : Kinds \cup {NULL}, done : BOOLEAN,
     rv : {"init", "dsp", "reset"}, flags : Flags, work : Nat,
     list : {"none", "fake", "pending", "interrupted"}, queued : Nat,
     poll : PollWords, call : Nat, ans : Nat]

ThreadType ==
    [pc : PCs, cur : Ctx \cup {NULL}, kind : Kinds \cup {NULL},
     sc : Scs \cup {NULL}, async : BOOLEAN, err : Errs, call : Nat]

SessionType ==
    [phase : {"closed", "open", "dspclose", "dtor"}, ssr : Nat,
     active : 0 .. CounterMod - 1, init : BOOLEAN, pd : Nat,
     dtor : Ctx \cup {NULL}, fails : Nat]

RequestType ==
    [id : Ids, call : Nat, c : Ctx, fl : Sessions \cup {NULL}, sent : SUBSET Flags,
     polled : BOOLEAN]

ResponseType == [id : Ids, call : Nat, flag : Flags]

\* Every variable has the shape of the structure it stands for.
TypeOK ==
    /\ ctxtable \in [Slots -> Ctx \cup {NULL}]
    /\ jobid \in Nat
    /\ ctx \in [Ctx -> CtxType]
    /\ fl \in [Sessions -> SessionType]
    /\ thr \in [Threads -> ThreadType]
    /\ chan \in [ssr : Nat, state : {"up", "restarting", "down"},
                 notified : BOOLEAN, notify : SUBSET Sessions]
    /\ requests \subseteq RequestType
    /\ responses \subseteq ResponseType
    /\ calls \in Nat
    /\ finished \subseteq Nat /\ stale \subseteq Nat

\* The program points at which a thread holds a context.
Holding == PCs \ {"idle", "open", "alloc", "return"}

\* A slot never points to a freed context, to a context of another slot, or
\* to one whose session is gone (ctxtable against context_free and release).
TableIsLive ==
    \A i \in Slots : ctxtable[i] # NULL =>
        /\ ctx[ctxtable[i]].live
        /\ ctx[ctxtable[i]].id.idx = i
        /\ fl[ctx[ctxtable[i]].fl].phase # "closed"

\* Nobody frees a context another owner still uses: each live context has
\* exactly one owner among the threads, the destructor of its session, the
\* interrupted list and (asynchronous calls) the pending list; what a thread
\* or the destructor holds is live (context_free against restore, release).
SingleOwner ==
    /\ \A t \in Threads : thr[t].pc \in Holding =>
        LET c == thr[t].cur
        IN  /\ c # NULL /\ ctx[c].live /\ ctx[c].fl = SessionOf[t]
            /\ ctx[c].pid = t
            /\ ctx[c].list = IF thr[t].pc = "link" THEN "fake" ELSE "pending"
            /\ \A u \in Threads \ {t} : thr[u].cur # c
    /\ \A s \in Sessions : fl[s].dtor # NULL =>
        /\ ctx[fl[s].dtor].live /\ ctx[fl[s].dtor].list = "none"
        /\ ctx[fl[s].dtor].fl = s
    /\ \A c \in Ctx : ctx[c].live =>
        \/ ctx[c].list = "interrupted"
        \/ ctx[c].list = "pending" /\ ctx[c].id.async
        \/ \E t \in Threads : thr[t].cur = c
        \/ \E s \in Sessions : fl[s].dtor = c

\* A response only ever reaches the context of the call it answers, however
\* late it is and whoever has the slot (and the address) by then.
ResponseToOwnCall == \A c \in Ctx : ctx[c].ans \in {0, ctx[c].call}

\* A sleeping caller is owed a wakeup: its request is at the DSP, its final
\* response is on the way, or the restart notifier still has to visit it.
NotificationDue(s) ==
    chan.state # "up" /\ (~chan.notified \/ s \in chan.notify)

NoLostWakeup ==
    \A t \in Threads :
        thr[t].pc = "block" /\ ctx[thr[t].cur].work = 0 =>
            \/ \E r \in requests : r.call = thr[t].call
            \/ \E m \in responses : m.call = thr[t].call /\ IsFinal(m.flag)
            \/ NotificationDue(SessionOf[t])

\* num_active_ctxs counts the linked contexts, less one (modulo 2^32) for
\* every allocation that failed after kzalloc.
ActiveAccounting ==
    \A s \in Sessions : fl[s].phase = "open" =>
        fl[s].active = (Cardinality({c \in Ctx : Linked(c, s)}) - fl[s].fails)
                       % CounterMod

\* The quota check and the increment are separate critical sections: the
\* session's dynamic-handle calls exceed the quota by at most one per thread,
\* plus one per failed allocation.
QuotaOvershootBounded ==
    \A s \in Sessions :
        Cardinality({c \in Ctx : Linked(c, s) /\ ctx[c].kind = "user"})
            <= MaxPending + fl[s].fails
               + Cardinality({t \in Threads : SessionOf[t] = s})

\* While a DSP process works on a call, the call's buffers are not recycled:
\* its context is neither freed nor reused before the result is delivered.  Four
\* things in the history of the call itself take the protection away, and
\* nothing else does: the result came through the poll word, closing the DSP
\* process failed, the DSP sent flags the driver does not know, or the call
\* went out after the restart notifier had completed its context (stale).
DspOwnsBuffers ==
    \A r \in requests :
        \/ r.polled
        \/ r.fl = NULL
        \/ "BAD" \in r.sent
        \/ r.call \in stale
        \/ ctx[r.c].live /\ ctx[r.c].call = r.call

\* A kernel or static call is refused a slot only when kernel and static
\* calls themselves hold every reserved entry.
ReserveServesStatic ==
    [][\A t \in Threads :
          /\ thr[t].pc = "alloc" /\ Privileged(thr[t].kind)
          /\ thr'[t].err = "nokey"
          => \A i \in 0 .. Reserved - 1 :
                ctxtable[i] # NULL /\ Privileged(ctx[ctxtable[i]].kind)]_vars

\* A call returns success only if the DSP delivered the result of this very
\* call: hints and early responses, spurious wakeups, signals, restarts and
\* the answers to earlier users of the slot never pass for a result.  Only a
\* call that went out with its context completed already (stale) may.
SuccessIsGenuine ==
    \A t \in Threads :
        thr[t].pc = "return" /\ Result(t) = "ok" =>
            thr[t].call \in finished \cup stale

\* Every invocation comes to an end unless the DSP sits on its request.
HeldByDsp(t) == \E r \in requests : r.call = thr[t].call

InvocationReturns ==
    \A t \in Threads :
        thr[t].pc \notin {"idle", "open"} ~>
            (thr[t].pc = "idle" \/ HeldByDsp(t))

\* Even if the DSP hangs, a restart releases every sleeping caller.
RestartReleases ==
    \A t \in Threads :
        thr[t].pc = "block" /\ chan.state = "restarting"
            ~> thr[t].pc # "block"

-----------------------------------------------------------------------------
(* The execution of a call, as RemoteCalls sees it.                        *)

\* The calls a thread is on its way to the send with, and those the DSP works
\* on.
Prepared ==
    {thr[t].call : t \in {u \in Threads : thr[u].pc \in {"link", "args", "send"}}}
Running == {r.call : r \in {q \in requests : ~q.polled}}

\* How far call n has come.
Status(n) ==
    IF n > calls THEN "new"
    ELSE IF n \in Prepared THEN "prepared"
    ELSE IF n \in Running THEN "running"
    ELSE IF n \in finished THEN "finished"
    ELSE "dropped"

Executions ==
    INSTANCE RemoteCalls WITH Calls <- 1 .. MaxCalls,
                              power <- IF chan.state = "up" THEN "up" ELSE "down",
                              status <- [n \in 1 .. MaxCalls |-> Status(n)]

\* The DSP executes a call at most once, whatever signals, resumed system
\* calls, restarts and late messages come in between: a resumed call goes on
\* behind the send (context_restore_interrupted), and what was refused or taken
\* away by a restart or a release never runs again.
ExecutedAtMostOnce == Executions!Spec
=============================================================================

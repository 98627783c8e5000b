-------------------------- MODULE HybridInvoke_proofs --------------------------
(***************************************************************************)
(* Remote invocations of the hybrid driver, proved for every number of     *)
(* contexts, sessions, threads and table entries.                          *)
(*                                                                         *)
(* First the types and the ownership of invoke contexts.  SingleOwner is   *)
(* not inductive: to know that freeing a context leaves the other owners   *)
(* alone one must know that a thread's context carries its pid, that a     *)
(* linked context belongs to a session whose file is not freed, and that   *)
(* threads of a session under destruction are idle.  OwnInv adds these     *)
(* facts, one conjunct per kind of owner.  Most actions leave every field  *)
(* OwnInv mentions alone; lemma Quiet disposes of those at once.           *)
(*                                                                         *)
(* Then the calls: what a sleeping caller is owed, what the DSP still      *)
(* works on, which results are genuine, whom the reserved table entries    *)
(* serve, and what num_active_ctxs counts.  CallInv joins the threads      *)
(* (ThreadInv), the contexts (CtxInv) and the messages (MsgInv) by the     *)
(* number of the call, which is never reused; ChanInv says what a restart  *)
(* takes with it and BufferInv for whom the DSP works.  AccountInv and     *)
(* QuotaInv, the last part, count contexts and callers, and need finite    *)
(* sets.                                                                   *)
(***************************************************************************)
EXTENDS HybridInvoke, FiniteSetTheorems, TLAPS

\* Storing a value of its type in a field of a context keeps its type.
LEMMA CtxField ==
    ASSUME NEW k \in CtxType
    PROVE  /\ \A l \in {"none", "fake", "pending", "interrupted"} :
                  [k EXCEPT !.list = l] \in CtxType
           /\ \A w \in Nat : [k EXCEPT !.work = w] \in CtxType
           /\ \A p \in PollWords : [k EXCEPT !.poll = p] \in CtxType
           /\ \A f \in Flags : [k EXCEPT !.flags = f] \in CtxType
           /\ \A v \in {"init", "dsp", "reset"} :
                  [k EXCEPT !.done = TRUE, !.rv = v] \in CtxType
<1>1. \A l \in {"none", "fake", "pending", "interrupted"} : [k EXCEPT !.list = l] \in CtxType
  BY DEF CtxType
<1>2. \A w \in Nat : [k EXCEPT !.work = w] \in CtxType
  BY DEF CtxType
<1>3. \A p \in PollWords : [k EXCEPT !.poll = p] \in CtxType
  BY DEF CtxType
<1>4. \A f \in Flags : [k EXCEPT !.flags = f] \in CtxType
  BY DEF CtxType
<1>5. \A v \in {"init", "dsp", "reset"} : [k EXCEPT !.done = TRUE, !.rv = v] \in CtxType
  BY DEF CtxType
<1> QED
  BY <1>1, <1>2, <1>3, <1>4, <1>5

\* The same for the threads ...
LEMMA ThreadField ==
    ASSUME NEW h \in ThreadType, NEW pc \in PCs
    PROVE  /\ [h EXCEPT !.pc = pc] \in ThreadType
           /\ \A err \in Errs : [h EXCEPT !.pc = pc, !.err = err] \in ThreadType
           /\ [h EXCEPT !.pc = pc, !.cur = NULL] \in ThreadType
           /\ \A c \in Ctx, n \in Nat : 
              [h EXCEPT !.pc = pc, !.cur = c, !.call = n] \in ThreadType
  BY DEF ThreadType

\* ... and for the sessions.
LEMMA SessionField ==
    ASSUME NEW f \in SessionType
    PROVE  /\ \A n \in 0 .. CounterMod - 1 :
                /\ [f EXCEPT !.active = n] \in SessionType
                /\ [f EXCEPT !.active = n, !.fails = @ + 1] \in SessionType
           /\ \A p \in {"closed", "open", "dspclose", "dtor"} :
                 [f EXCEPT !.phase = p] \in SessionType
           /\ \A c \in Ctx \cup {NULL} : [f EXCEPT !.dtor = c] \in SessionType
           /\ \A n, d \in Nat, b \in BOOLEAN :
                 [f EXCEPT !.ssr = n, !.init = b, !.pd = d] \in SessionType
<1>1. ASSUME NEW n \in 0 .. CounterMod - 1
      PROVE  /\ [f EXCEPT !.active = n] \in SessionType
             /\ [f EXCEPT !.active = n, !.fails = @ + 1] \in SessionType
  <2>1. [f EXCEPT !.active = n] \in SessionType
    BY DEF SessionType
  <2>2. f.fails + 1 \in Nat
    BY DEF SessionType
  <2> DEFINE e == f.fails + 1
  <2>3. [f EXCEPT !.active = n, !.fails = @ + 1] = [f EXCEPT !.active = n, !.fails = e]
    OBVIOUS
  <2> HIDE DEF e
  <2>4. [f EXCEPT !.active = n, !.fails = e] \in SessionType
    BY <2>2 DEF SessionType, e
  <2> QED BY <2>1, <2>3, <2>4
<1>2. ASSUME NEW p \in {"closed", "open", "dspclose", "dtor"}
      PROVE  [f EXCEPT !.phase = p] \in SessionType
  BY DEF SessionType
<1>3. ASSUME NEW c \in Ctx \cup {NULL} PROVE [f EXCEPT !.dtor = c] \in SessionType
  BY DEF SessionType
<1>4. ASSUME NEW n \in Nat, NEW d \in Nat, NEW b \in BOOLEAN
      PROVE  [f EXCEPT !.ssr = n, !.init = b, !.pd = d] \in SessionType
  BY DEF SessionType
<1> QED BY <1>1, <1>2, <1>3, <1>4

\* Moving a thread to a program point keeps the threads well typed.
LEMMA GotoType ==
    ASSUME thr \in [Threads -> ThreadType], NEW t \in Threads, NEW pc \in PCs,
           Goto(t, pc)
    PROVE  thr' \in [Threads -> ThreadType]
  BY ThreadField DEF Goto

\* So does leaving with an error.
LEMMA FailType ==
    ASSUME thr \in [Threads -> ThreadType], NEW t \in Threads, NEW pc \in PCs,
           NEW err \in Errs, Fail(t, pc, err)
    PROVE  thr' \in [Threads -> ThreadType]
  BY ThreadField DEF Fail

\* The initial records of contexts, threads and sessions are well typed.
LEMMA Constants ==
    /\ FreeCtx \in CtxType /\ IdleThread \in ThreadType /\ ClosedSession \in SessionType
    /\ NoId \in Ids
<1>1. NoId \in Ids
  BY ConstAssumption DEF NoId, CtxId, Ids, Slots
<1>2. FreeCtx \in CtxType
  BY <1>1 DEF FreeCtx, CtxType, Flags, PollWords
<1>3. IdleThread \in ThreadType
  BY DEF IdleThread, ThreadType, PCs, Errs
<1>4. ClosedSession \in SessionType
  BY ConstAssumption DEF ClosedSession, SessionType
<1> QED BY <1>1, <1>2, <1>3, <1>4

\* A context is well typed after context_notify_user.
LEMMA NotifyType ==
    ASSUME NEW k \in CtxType, NEW m \in ResponseType
    PROVE  NotifyUser(k, m) \in CtxType
<1> DEFINE q == IF k.id.async /\ (IsFinal(m.flag) \/ m.flag = "EARLY")
                THEN QueueAsync(k) ELSE k.queued
           w == IF \/ IsFinal(m.flag)
                   \/ m.flag \in {"USER_EARLY", "EARLY"} /\ ~k.id.async
                THEN k.work + 1 ELSE k.work
           d == k.done \/ IsFinal(m.flag)
<1>1. k.queued \in Nat /\ k.work \in Nat /\ m.flag \in Flags /\ m.call \in Nat
  BY DEF CtxType, ResponseType
<1>2. q \in Nat /\ w \in Nat
  BY <1>1 DEF QueueAsync
<1>3. d \in BOOLEAN
  OBVIOUS
<1>4. NotifyUser(k, m) = [k EXCEPT !.rv = "dsp", !.flags = m.flag,
          !.ans = m.call, !.done = d, !.queued = q, !.work = w]
  BY DEF NotifyUser
<1> HIDE DEF q, w, d
<1> QED
  BY <1>1, <1>2, <1>3, <1>4 DEF CtxType

\* A thread past context_alloc has the address of a context.
HoldInv == \A t \in Threads : thr[t].pc \in Holding => thr[t].cur \in Ctx

\* num_active_ctxs wraps around and stays in its range.
LEMMA Counting ==
    ASSUME NEW n \in 0 .. CounterMod - 1
    PROVE  Dec(n) \in 0 .. CounterMod - 1 /\ Inc(n) \in 0 .. CounterMod - 1
  BY ConstAssumption DEF Dec, Inc

\* Freeing a context that was never linked keeps the sessions well typed.
LEMMA FreeUnlinkedType ==
    ASSUME fl \in [Sessions -> SessionType], NEW s \in Sessions, FreeUnlinked(s)
    PROVE  fl' \in [Sessions -> SessionType]
<1>1. Dec(fl[s].active) \in 0 .. CounterMod - 1
  BY Counting DEF SessionType
<1> QED
  BY <1>1, SessionField DEF FreeUnlinked

\* hfastrpc_init_process moves its own thread between two points at which it
\* holds no context, and touches the restart count and the DSP process of its
\* session, nothing else.
LEMMA InitShape ==
    ASSUME TypeOK, NEW t \in Threads, InitProcess(t) \/ InitFails(t) \/ InitOpened(t)
    PROVE  /\ thr[t].pc \in {"idle", "open"} /\ thr'[t].pc \in {"idle", "open"}
           /\ thr'[t].cur = NULL /\ thr'[t].err = "none"
           /\ thr'[t].pc = "open" => fl[SessionOf[t]].phase = "open"
           /\ \A u \in Threads \ {t} : thr'[u] = thr[u]
           /\ \A s \in Sessions : /\ fl'[s].phase = fl[s].phase /\ fl'[s].dtor = fl[s].dtor
                                  /\ fl'[s].active = fl[s].active /\ fl'[s].fails = fl[s].fails
           /\ UNCHANGED <<ctxtable, jobid, ctx, chan, requests, responses, calls, finished, stale>>
           /\ thr' \in [Threads -> ThreadType] /\ fl' \in [Sessions -> SessionType]
<1>a. /\ thr \in [Threads -> ThreadType] /\ fl \in [Sessions -> SessionType] /\ chan.ssr \in Nat
      /\ SessionOf[t] \in Sessions
  BY ConstAssumption DEF TypeOK
<1>b. UNCHANGED <<ctxtable, jobid, ctx, chan, requests, responses, calls, finished, stale>>
  BY DEF InitProcess, InitFails, InitOpened
<1>1. [IdleThread EXCEPT !.pc = "open"] \in ThreadType
  BY Constants DEF ThreadType, PCs
<1>2. /\ thr[t].pc \in {"idle", "open"} /\ thr'[t].pc \in {"idle", "open"}
      /\ thr'[t].cur = NULL /\ thr'[t].err = "none"
      /\ thr'[t].pc = "open" => fl[SessionOf[t]].phase = "open"
      /\ \A u \in Threads \ {t} : thr'[u] = thr[u]
  BY <1>a DEF InitProcess, InitFails, InitOpened, IdleThread
<1>3. thr' \in [Threads -> ThreadType]
  BY <1>a, <1>1, Constants DEF InitProcess, InitFails, InitOpened
<1>4. \E n, d \in Nat, b \in BOOLEAN :
         fl' = [fl EXCEPT ![SessionOf[t]] = [fl[SessionOf[t]] EXCEPT !.ssr = n, !.init = b, !.pd = d]]
  <2> DEFINE q == fl[SessionOf[t]]
  <2>1. q.ssr \in Nat /\ q.init \in BOOLEAN /\ q.pd \in Nat /\ q \in SessionType
    BY <1>a DEF SessionType
  <2>2. CASE InitProcess(t)
    <3>1. fl' = [fl EXCEPT ![SessionOf[t]] = [q EXCEPT !.ssr = chan.ssr]]
      BY <2>2 DEF InitProcess
    <3>2. [q EXCEPT !.ssr = chan.ssr] = [q EXCEPT !.ssr = chan.ssr, !.init = q.init, !.pd = q.pd]
      BY <2>1 DEF SessionType
    <3> QED
      BY <1>a, <2>1, <3>1, <3>2
  <2>3. CASE InitFails(t)
    <3>1. fl' = [fl EXCEPT ![SessionOf[t]] = q]
      BY <1>a, <2>3 DEF InitFails
    <3>2. q = [q EXCEPT !.ssr = q.ssr, !.init = q.init, !.pd = q.pd]
      BY <2>1 DEF SessionType
    <3> QED
      BY <2>1, <3>1, <3>2
  <2>4. CASE InitOpened(t)
    <3>1. PICK life \in 0 .. chan.ssr :
            fl' = [fl EXCEPT ![SessionOf[t]].init = TRUE,
                             ![SessionOf[t]].pd = Later(SessionOf[t], life)]
      BY <2>4 DEF InitOpened
    <3> DEFINE d == Later(SessionOf[t], life)
    <3>2. d \in Nat
      BY <1>a, <2>1 DEF Later
    <3>3. fl' = [fl EXCEPT ![SessionOf[t]] = [q EXCEPT !.init = TRUE, !.pd = d]]
      BY <1>a, <3>1
    <3> HIDE DEF d
    <3>4. [q EXCEPT !.init = TRUE, !.pd = d] = [q EXCEPT !.ssr = q.ssr, !.init = TRUE, !.pd = d]
      BY <2>1 DEF SessionType
    <3> QED
      BY <2>1, <3>2, <3>3, <3>4
  <2> QED
    BY <2>2, <2>3, <2>4
<1>5. PICK n \in Nat, d \in Nat, b \in BOOLEAN :
         fl' = [fl EXCEPT ![SessionOf[t]] = [fl[SessionOf[t]] EXCEPT !.ssr = n, !.init = b, !.pd = d]]
  BY <1>4
<1>6. fl' \in [Sessions -> SessionType]
  BY <1>a, <1>5, SessionField
<1>7. \A s \in Sessions : /\ fl'[s].phase = fl[s].phase /\ fl'[s].dtor = fl[s].dtor
                          /\ fl'[s].active = fl[s].active /\ fl'[s].fails = fl[s].fails
  BY <1>a, <1>5 DEF SessionType
<1> QED
  BY <1>b, <1>2, <1>3, <1>6, <1>7

\* Every step keeps every variable well typed, given that threads hold real
\* contexts where they dereference them.
LEMMA TypeStep == ASSUME TypeOK, HoldInv, [Next]_vars PROVE TypeOK'
<1> USE ConstAssumption DEF TypeOK
<1>1. CASE UNCHANGED vars
  BY <1>1 DEF vars
<1>2. ASSUME NEW t \in Threads, NEW kind \in Kinds, NEW sc \in Scs,
             InvokeResume(t, kind, sc)
      PROVE  TypeOK'
  <2>1. PICK c \in InterruptedOf(t) :
            IF ctx[c].sc = sc
            THEN /\ ctx' = [ctx EXCEPT ![c].list = "pending"]
                 /\ thr' = [thr EXCEPT ![t] =
                        [pc |-> "switch", cur |-> c, kind |-> kind, sc |-> sc,
                         async |-> FALSE, err |-> "none", call |-> ctx[c].call]]
            ELSE Fail(t, "return", "inval") /\ UNCHANGED ctx
    BY <1>2 DEF InvokeResume
  <2>2. c \in Ctx /\ ctx[c].call \in Nat
    BY DEF InterruptedOf, CtxType
  <2>3. [ctx[c] EXCEPT !.list = "pending"] \in CtxType
    BY <2>2, CtxField
  <2>4. [pc |-> "switch", cur |-> c, kind |-> kind, sc |-> sc, async |-> FALSE,
         err |-> "none", call |-> ctx[c].call] \in ThreadType
    BY <2>2 DEF ThreadType, PCs, Errs
  <2>5. CASE ctx[c].sc = sc
    <3>1. ctx' = [ctx EXCEPT ![c] = [ctx[c] EXCEPT !.list = "pending"]]
      BY <2>1, <2>5
    <3>2. ctx' \in [Ctx -> CtxType]
      BY <2>2, <2>3, <3>1
    <3>3. thr' \in [Threads -> ThreadType]
      BY <2>1, <2>4, <2>5
    <3> QED
      BY <1>2, <3>2, <3>3 DEF InvokeResume
  <2>6. CASE ctx[c].sc # sc
    <3>1. Fail(t, "return", "inval") /\ UNCHANGED ctx
      BY <2>1, <2>6
    <3>2. thr' \in [Threads -> ThreadType]
      BY <3>1, FailType DEF PCs, Errs
    <3> QED
      BY <1>2, <3>1, <3>2 DEF InvokeResume
  <2> QED
    BY <2>5, <2>6
<1>3. ASSUME NEW t \in Threads, NEW kind \in Kinds, NEW sc \in Scs,
             NEW async \in BOOLEAN, InvokeNew(t, kind, sc, async)
      PROVE  TypeOK'
  BY <1>3 DEF InvokeNew, ThreadType, PCs, Errs
<1>4. ASSUME NEW t \in Threads, AllocNoMem(t) PROVE TypeOK'
  BY <1>4, FailType DEF AllocNoMem, PCs, Errs
<1>5. ASSUME NEW t \in Threads, AllocFault(t) PROVE TypeOK'
  BY <1>5, FailType, FreeUnlinkedType DEF AllocFault, PCs, Errs
<1>6. ASSUME NEW t \in Threads, ContextPublish(t) PROVE TypeOK'
  <2>1. PICK c \in Ctx, i \in FreeSlots(thr[t].kind) :
            /\ ctxtable' = [ctxtable EXCEPT ![i] = c]
            /\ ctx' = [ctx EXCEPT ![c] =
                   [FreeCtx EXCEPT !.live = TRUE,
                                   !.id = CtxId(jobid + 1, i, thr[t].async),
                                   !.fl = SessionOf[t], !.pid = t,
                                   !.sc = thr[t].sc, !.kind = thr[t].kind,
                                   !.list = "fake", !.call = calls + 1]]
            /\ thr' = [thr EXCEPT ![t].pc = "link", ![t].cur = c,
                                  ![t].call = calls + 1]
    BY <1>6 DEF ContextPublish
  <2>2. i \in Slots
    BY DEF FreeSlots, ScanRange, Slots
  <2>3. /\ thr[t].async \in BOOLEAN /\ thr[t].sc \in Scs \cup {NULL}
        /\ thr[t].kind \in Kinds \cup {NULL} /\ SessionOf[t] \in Sessions
        /\ calls + 1 \in Nat /\ jobid + 1 \in Nat
    BY DEF ThreadType
  <2>4. CtxId(jobid + 1, i, thr[t].async) \in Ids
    BY <2>2, <2>3 DEF CtxId, Ids
  <2>5. \A id \in Ids, n \in Nat :
            [FreeCtx EXCEPT !.live = TRUE, !.id = id, !.fl = SessionOf[t],
                            !.pid = t, !.sc = thr[t].sc, !.kind = thr[t].kind,
                            !.list = "fake", !.call = n] \in CtxType
    BY <2>3, Constants DEF CtxType
  <2>6. ctx' \in [Ctx -> CtxType]
    BY <2>1, <2>3, <2>4, <2>5
  <2>7. thr' \in [Threads -> ThreadType]
    BY <2>1, <2>3, ThreadField DEF PCs
  <2> QED
    BY <1>6, <2>1, <2>2, <2>3, <2>6, <2>7 DEF ContextPublish
<1>7. ASSUME NEW t \in Threads, ContextNoSlot(t) PROVE TypeOK'
  BY <1>7, FailType, FreeUnlinkedType DEF ContextNoSlot, PCs, Errs
<1>8. ASSUME NEW t \in Threads, ContextLink(t) PROVE TypeOK'
  <2>1. Inc(fl[SessionOf[t]].active) \in 0 .. CounterMod - 1
    BY Counting DEF SessionType
  <2>2. fl' \in [Sessions -> SessionType]
    BY <1>8, <2>1, SessionField DEF ContextLink
  <2>3. ctx' \in [Ctx -> CtxType]
    BY <1>8, CtxField DEF ContextLink, HoldInv, Holding, PCs
  <2>4. thr' \in [Threads -> ThreadType]
    BY <1>8, GotoType DEF ContextLink, PCs
  <2> QED
    BY <1>8, <2>2, <2>3, <2>4 DEF ContextLink
<1>9. ASSUME NEW t \in Threads, GetArgsFail(t) PROVE TypeOK'
  BY <1>9, FailType DEF GetArgsFail, PCs, Errs
<1>10. ASSUME NEW t \in Threads, CheckSsr(t) PROVE TypeOK'
  BY <1>10, FailType, GotoType, CtxField
     DEF CheckSsr, PCs, Errs, PollWords, HoldInv, Holding
<1>11. ASSUME NEW t \in Threads, TransportSend(t) PROVE TypeOK'
  <2>1. Request(t) \in RequestType
    <3>1. thr[t].cur \in Ctx
      BY <1>11 DEF TransportSend, HoldInv, Holding, PCs
    <3>2. ctx[thr[t].cur].id \in Ids /\ thr[t].call \in Nat
      BY <3>1 DEF CtxType, ThreadType
    <3> QED
      BY <3>1, <3>2 DEF Request, RequestType
  <2>2. Response(Request(t), "NORMAL") \in ResponseType /\ thr[t].call \in Nat
    BY <2>1 DEF Response, RequestType, ResponseType, Flags, ThreadType
  <2>3. thr' \in [Threads -> ThreadType]
    BY <1>11, Constants, ThreadField DEF TransportSend, AfterSend, PCs
  <2> QED
    BY <1>11, <2>1, <2>2, <2>3 DEF TransportSend
<1>12. ASSUME NEW t \in Threads, TransportFail(t) PROVE TypeOK'
  BY <1>12, FailType DEF TransportFail, PCs, Errs
<1>13. ASSUME NEW t \in Threads, WaitSwitch(t) PROVE TypeOK'
  BY <1>13, FailType, GotoType DEF WaitSwitch, PCs, Errs
<1>14. ASSUME NEW t \in Threads, WaitTry(t) PROVE TypeOK'
  <2>1. thr[t].cur \in Ctx /\ ctx[thr[t].cur].work \in Nat
    BY <1>14 DEF WaitTry, HoldInv, Holding, PCs, CtxType
  <2>2. ctx[thr[t].cur].work > 0 => ctx[thr[t].cur].work - 1 \in Nat
    BY <2>1
  <2>3. ctx' \in [Ctx -> CtxType]
    <3>1. ASSUME NEW n \in Nat PROVE [ctx[thr[t].cur] EXCEPT !.work = n] \in CtxType
      BY <2>1, CtxField
    <3> QED
      BY <1>14, <2>1, <2>2, <3>1 DEF WaitTry
  <2>4. thr' \in [Threads -> ThreadType]
    BY <1>14, GotoType DEF WaitTry, LoopTest, PCs
  <2> QED
    BY <1>14, <2>3, <2>4 DEF WaitTry
<1>15. ASSUME NEW t \in Threads, WaitPoll(t) PROVE TypeOK'
  <2>1. thr[t].cur \in Ctx /\ ctx[thr[t].cur].rv \in {"init", "dsp", "reset"}
    BY <1>15 DEF WaitPoll, HoldInv, Holding, PCs, CtxType
  <2>2. ctx' \in [Ctx -> CtxType]
    <3>1. ASSUME NEW v \in {"init", "dsp", "reset"}
          PROVE  [ctx[thr[t].cur] EXCEPT !.done = TRUE, !.rv = v] \in CtxType
      BY <2>1, CtxField
    <3> DEFINE k == ctx[thr[t].cur]
               v == IF k.poll = "poll_response" THEN "dsp" ELSE k.rv
    <3>2. \/ ctx' = [ctx EXCEPT ![thr[t].cur] = [k EXCEPT !.done = TRUE, !.rv = v]]
          \/ UNCHANGED ctx
      <4>1. \/ UNCHANGED ctx
            \/ ctx' = [ctx EXCEPT ![thr[t].cur].done = TRUE,
                         ![thr[t].cur].rv = IF k.poll = "poll_response"
                                            THEN "dsp" ELSE @]
        BY <1>15 DEF WaitPoll
      <4>2. k \in CtxType
        BY <2>1
      <4>3. [k EXCEPT !.done = TRUE].rv = k.rv
        BY <4>2 DEF CtxType
      <4> QED
        BY <2>1, <4>1, <4>2, <4>3
    <3>3. v \in {"init", "dsp", "reset"}
      BY <2>1
    <3> HIDE DEF v
    <3> QED
      BY <2>1, <3>1, <3>2, <3>3
  <2>3. thr' \in [Threads -> ThreadType]
    BY <1>15, GotoType DEF WaitPoll, PCs
  <2> QED
    BY <1>15, <2>2, <2>3 DEF WaitPoll
<1>16. ASSUME NEW t \in Threads, WaitPollMode(t) PROVE TypeOK'
  BY <1>16, GotoType, CtxField
     DEF WaitPollMode, PCs, LoopTest, Flags, HoldInv, Holding
<1>17. ASSUME NEW t \in Threads, WaitBlock(t) PROVE TypeOK'
  <2>1. thr[t].cur \in Ctx /\ ctx[thr[t].cur].work \in Nat
    BY <1>17 DEF WaitBlock, HoldInv, Holding, PCs, CtxType
  <2>2. ctx[thr[t].cur].work > 0 => ctx[thr[t].cur].work - 1 \in Nat
    BY <2>1
  <2>3. ctx' \in [Ctx -> CtxType]
    BY <1>17, <2>1, <2>2, CtxField DEF WaitBlock
  <2>4. thr' \in [Threads -> ThreadType]
    BY <1>17, GotoType DEF WaitBlock, LoopTest, PCs
  <2> QED
    BY <1>17, <2>3, <2>4 DEF WaitBlock
<1>18. ASSUME NEW t \in Threads, SaveInterrupted(t) PROVE TypeOK'
  BY <1>18, ThreadField, CtxField DEF SaveInterrupted, PCs, HoldInv, Holding
<1>19. ASSUME NEW t \in Threads, PutArgs(t) PROVE TypeOK'
  BY <1>19, FailType DEF PutArgs, PCs, Errs
<1>20. ASSUME NEW t \in Threads, FreeSlot(t) PROVE TypeOK'
  BY <1>20, GotoType DEF FreeSlot, ClearSlot, PCs
<1>21. ASSUME NEW t \in Threads, FreeLink(t) PROVE TypeOK'
  <2>1. /\ Dec(fl[SessionOf[t]].active) \in 0 .. CounterMod - 1
        /\ fl[SessionOf[t]].active \in 0 .. CounterMod - 1
    BY Counting DEF SessionType
  <2>2. fl' \in [Sessions -> SessionType]
    BY <1>21, <2>1, SessionField DEF FreeLink
  <2>3. ctx' \in [Ctx -> CtxType] /\ thr' \in [Threads -> ThreadType]
    BY <1>21, Constants, ThreadField DEF FreeLink, PCs
  <2> QED
    BY <1>21, <2>2, <2>3 DEF FreeLink
<1>22. ASSUME NEW t \in Threads, InvokeReturn(t) PROVE TypeOK'
  BY <1>22, Constants DEF InvokeReturn
<1>23. ASSUME NEW t \in Threads, WaitInterrupted(t) PROVE TypeOK'
  BY <1>23, FailType DEF WaitInterrupted, PCs, Errs
<1>24. ASSUME NEW m \in responses, HandleResponse(m) PROVE TypeOK'
  BY <1>24, NotifyType DEF HandleResponse, Accepts, ResponseType, Ids
<1>25. ASSUME SsrBeforeShutdown PROVE TypeOK'
  <2>1. chan' \in [ssr : Nat, state : {"up", "restarting", "down"},
                   notified : BOOLEAN, notify : SUBSET Sessions]
    <3>1. chan.ssr + 1 \in Nat
      OBVIOUS
    <3>2. chan' = [chan EXCEPT !.ssr = chan.ssr + 1, !.state = "restarting"]
      BY <1>25 DEF SsrBeforeShutdown
    <3> QED
      BY <3>1, <3>2
  <2> QED
    BY <1>25, <2>1 DEF SsrBeforeShutdown
<1>26. ASSUME SsrAfterShutdown PROVE TypeOK'
  BY <1>26 DEF SsrAfterShutdown
<1>27. ASSUME SsrBeforePowerup PROVE TypeOK'
  BY <1>27 DEF SsrBeforePowerup
<1>28. ASSUME SsrAfterPowerup PROVE TypeOK'
  BY <1>28 DEF SsrAfterPowerup
<1>29. ASSUME NEW s \in Sessions, NotifyUsers(s) PROVE TypeOK'
  <2>1. \A c \in Ctx :
            [ctx[c] EXCEPT !.done = TRUE, !.rv = "reset", !.work = @ + 1] \in CtxType
    <3>1. ASSUME NEW k \in CtxType, NEW n \in Nat
          PROVE  [k EXCEPT !.done = TRUE, !.rv = "reset", !.work = n] \in CtxType
      BY DEF CtxType
    <3>2. \A c \in Ctx : ctx[c] \in CtxType /\ ctx[c].work + 1 \in Nat
      BY DEF CtxType
    <3> QED
      BY <3>1, <3>2
  <2>2. ctx' \in [Ctx -> CtxType]
    BY <1>29, <2>1 DEF NotifyUsers
  <2> QED
    BY <1>29, <2>2 DEF NotifyUsers
<1>30. ASSUME NEW s \in Sessions, FileOpen(s) PROVE TypeOK'
  <2>1. [ClosedSession EXCEPT !.phase = "open", !.ssr = chan.ssr] \in SessionType
    BY Constants DEF SessionType
  <2> QED
    BY <1>30, <2>1 DEF FileOpen
<1>31. ASSUME NEW t \in Threads, InitProcess(t) \/ InitFails(t) \/ InitOpened(t)
       PROVE  TypeOK'
  BY <1>31, InitShape
<1>32. ASSUME NEW s \in Sessions, FileFreeStart(s) PROVE TypeOK'
  BY <1>32, SessionField DEF FileFreeStart
<1>33. ASSUME NEW s \in Sessions, FileFreeDsp(s) PROVE TypeOK'
  <2>1. fl' \in [Sessions -> SessionType]
    BY <1>33, SessionField DEF FileFreeDsp
  <2>2. \A r \in RequestType : [r EXCEPT !.fl = NULL] \in RequestType
    BY DEF RequestType
  <2>3. requests' \subseteq RequestType
    BY <1>33, <2>2 DEF FileFreeDsp
  <2> QED
    BY <1>33, <2>1, <2>3 DEF FileFreeDsp
<1>34. ASSUME NEW s \in Sessions, DtorUnlink(s) PROVE TypeOK'
  <2>1. PICK c \in Ctx : /\ ctx' = [ctx EXCEPT ![c].list = "none"]
                         /\ fl' = [fl EXCEPT ![s].dtor = c]
    BY <1>34 DEF DtorUnlink
  <2>2. ctx' \in [Ctx -> CtxType]
    BY <2>1, CtxField
  <2>3. fl' \in [Sessions -> SessionType]
    BY <2>1, SessionField
  <2> QED
    BY <1>34, <2>2, <2>3 DEF DtorUnlink
<1>35. ASSUME NEW s \in Sessions, DtorFree(s) PROVE TypeOK'
  BY <1>35, Constants, SessionField DEF DtorFree, ClearSlot
<1>36. ASSUME NEW s \in Sessions, FileFreeEnd(s) PROVE TypeOK'
  BY <1>36, Constants DEF FileFreeEnd
<1>37. ASSUME NEW r \in requests, NEW flag \in InterimFlags, DspInterim(r, flag)
       PROVE  TypeOK'
  <2>1. r \in RequestType /\ flag \in Flags
    BY DEF Flags
  <2>2. r.sent \cup {flag} \in SUBSET Flags
    BY <2>1 DEF RequestType
  <2>3. \A x \in SUBSET Flags : [r EXCEPT !.sent = x] \in RequestType
    BY <2>1 DEF RequestType
  <2>4. Response(r, flag) \in ResponseType
    BY <2>1 DEF Response, RequestType, ResponseType
  <2> QED
    BY <1>37, <2>2, <2>3, <2>4 DEF DspInterim
<1>38. ASSUME NEW r \in requests, DspPoll(r) PROVE TypeOK'
  <2>1. r \in RequestType /\ r.c \in Ctx /\ r.call \in Nat
    BY DEF RequestType
  <2>2. [r EXCEPT !.polled = TRUE] \in RequestType
    BY <2>1 DEF RequestType
  <2>3. PICK w \in PollWords \ {"zero"} :
            ctx' = [ctx EXCEPT ![r.c].poll =
                        IF ctx[r.c].call = r.call THEN w ELSE @]
    BY <1>38 DEF DspPoll
  <2>4. ctx[r.c].poll \in PollWords
    BY <2>1 DEF CtxType
  <2>5. ctx' \in [Ctx -> CtxType]
    BY <2>1, <2>3, <2>4, CtxField
  <2> QED
    BY <1>38, <2>1, <2>2, <2>5 DEF DspPoll
<1>39. ASSUME NEW r \in requests, DspFinish(r) PROVE TypeOK'
  <2>1. \A f \in Flags : Response(r, f) \in ResponseType
    BY DEF Response, RequestType, ResponseType
  <2>2. r.call \in Nat
    BY DEF RequestType
  <2> QED
    BY <1>39, <2>1, <2>2 DEF DspFinish, Flags
<1> QED
  BY <1>1, <1>2, <1>3, <1>4, <1>5, <1>6, <1>7, <1>8, <1>9, <1>10, <1>11, <1>12,
     <1>13, <1>14, <1>15, <1>16, <1>17, <1>18, <1>19, <1>20, <1>21, <1>22,
     <1>23, <1>24, <1>25, <1>26, <1>27, <1>28, <1>29, <1>30, <1>31, <1>32,
     <1>33, <1>34, <1>35, <1>36, <1>37, <1>38, <1>39
     DEF Next, Invoke, ThreadStep, Ssr, FileFree

-----------------------------------------------------------------------------
(* Ownership.                                                              *)

\* The program points at which a thread holds a context on the pending list.
Working == Holding \ {"link"}

\* What a thread inside an invocation can rely on.
ThreadOwns(t) ==
    /\ thr[t].pc \in Holding =>
        LET c == thr[t].cur
        IN  /\ c \in Ctx /\ ctx[c].live /\ ctx[c].fl = SessionOf[t]
            /\ ctx[c].pid = t /\ ctx[c].call = thr[t].call
            /\ ctx[c].list = IF thr[t].pc = "link" THEN "fake" ELSE "pending"
            /\ thr[t].async => ctx[c].id.async
    /\ thr[t].pc \notin Holding => thr[t].cur = NULL
    /\ thr[t].pc # "idle" => fl[SessionOf[t]].phase = "open"

\* What the destructor of a session can rely on.
DtorOwns(s) ==
    fl[s].dtor # NULL =>
        /\ fl[s].phase = "dtor"
        /\ ctx[fl[s].dtor].live /\ ctx[fl[s].dtor].list = "none"
        /\ ctx[fl[s].dtor].fl = s

\* A live context has an owner and an open file; a free one is on no list.
Owned(c) ==
    IF ctx[c].live
    THEN /\ ctx[c].fl \in Sessions /\ fl[ctx[c].fl].phase # "closed"
         /\ \/ ctx[c].list = "interrupted"
            \/ ctx[c].list = "pending" /\ ctx[c].id.async
            \/ \E t \in Threads : thr[t].cur = c
            \/ \E s \in Sessions : fl[s].dtor = c
    ELSE ctx[c].list = "none"

OwnInv ==
    /\ \A t \in Threads : ThreadOwns(t)
    /\ \A s \in Sessions : DtorOwns(s)
    /\ \A c \in Ctx : Owned(c)

\* The fields of a context that OwnInv mentions are the same in k and l.
Same(k, l) ==
    /\ l.live = k.live /\ l.id = k.id /\ l.fl = k.fl /\ l.pid = k.pid
    /\ l.list = k.list /\ l.call = k.call

SameCtx == \A c \in Ctx : Same(ctx[c], ctx'[c])

\* The fields of a session that OwnInv mentions do not change.
SameFl == \A s \in Sessions : fl'[s].phase = fl[s].phase /\ fl'[s].dtor = fl[s].dtor

\* The thread neither acquires nor releases a context.
Moves(t) ==
    /\ thr'[t].cur = thr[t].cur
    /\ thr[t].pc \in Working <=> thr'[t].pc \in Working
    /\ thr[t].pc = "link" <=> thr'[t].pc = "link"
    /\ thr[t].pc \in Holding =>
           thr'[t].async = thr[t].async /\ thr'[t].call = thr[t].call
    /\ thr'[t].pc # "idle" =>
           thr[t].pc # "idle" \/ fl[SessionOf[t]].phase = "open"

\* Where the program points stand.
LEMMA HoldingFacts ==
    /\ Working \subseteq Holding /\ "link" \in Holding /\ "link" \notin Working
    /\ Holding = Working \cup {"link"}
    /\ "idle" \notin Holding /\ "return" \notin Holding /\ "alloc" \notin Holding
    /\ "open" \notin Holding
    /\ "args" \in Working /\ "send" \in Working /\ "switch" \in Working
    /\ "try" \in Working /\ "poll" \in Working /\ "pollmode" \in Working
    /\ "block" \in Working /\ "save" \in Working /\ "put" \in Working
    /\ "unslot" \in Working /\ "unlink" \in Working
  BY DEF Working, Holding, PCs

\* A step that changes no field OwnInv mentions preserves it.
LEMMA Quiet ==
    ASSUME TypeOK, OwnInv, SameCtx, SameFl, \A t \in Threads : Moves(t)
    PROVE  OwnInv'
<1> USE ConstAssumption, HoldingFacts DEF OwnInv
<1>1. ASSUME NEW t \in Threads PROVE ThreadOwns(t)'
  BY DEF ThreadOwns, SameCtx, SameFl, Same, Moves, TypeOK
<1>2. ASSUME NEW s \in Sessions PROVE DtorOwns(s)'
  <2>1. fl[s].dtor \in Ctx \cup {NULL}
    BY DEF TypeOK, SessionType
  <2> QED
    BY <2>1 DEF DtorOwns, SameCtx, SameFl, Same
<1>3. ASSUME NEW c \in Ctx PROVE Owned(c)'
  BY DEF Owned, SameCtx, SameFl, Same, Moves
<1> QED
  BY <1>1, <1>2, <1>3

\* What Goto and Fail do to the threads.
LEMMA GotoMoves ==
    ASSUME thr \in [Threads -> ThreadType], NEW t \in Threads, NEW pc, NEW err,
           Goto(t, pc) \/ Fail(t, pc, err)
    PROVE  /\ \A u \in Threads \ {t} : thr'[u] = thr[u]
           /\ thr'[t].pc = pc /\ thr'[t].cur = thr[t].cur
           /\ thr'[t].async = thr[t].async /\ thr'[t].call = thr[t].call
  BY DEF Goto, Fail, ThreadType

\* A thread that stays within its invocation keeps its context.
LEMMA WorkMoves ==
    ASSUME thr \in [Threads -> ThreadType], NEW t \in Threads, 
           thr[t].pc \in Working, NEW pc \in Working, NEW err,
           Goto(t, pc) \/ Fail(t, pc, err)
    PROVE  \A u \in Threads : Moves(u)
<1>1. /\ \A u \in Threads \ {t} : thr'[u] = thr[u]
      /\ thr'[t].pc = pc /\ thr'[t].cur = thr[t].cur
      /\ thr'[t].async = thr[t].async /\ thr'[t].call = thr[t].call
  BY DEF Goto, Fail, ThreadType
<1> QED
  BY <1>1, HoldingFacts DEF Moves

\* A call refused before it has a context acquires none.
LEMMA IdleMoves ==
    ASSUME thr \in [Threads -> ThreadType], NEW t \in Threads, NEW err,
           thr[t].pc \in {"idle", "alloc"}, fl[SessionOf[t]].phase = "open",
           Fail(t, "return", err)
    PROVE  \A u \in Threads : Moves(u)
<1>1. /\ \A u \in Threads \ {t} : thr'[u] = thr[u]
      /\ thr'[t].pc = "return" /\ thr'[t].cur = thr[t].cur
  BY DEF Fail, ThreadType
<1> QED
  BY <1>1, HoldingFacts DEF Moves

\* The wait loop, the response handler and the restart notifier write only
\* fields of a context that do not decide who owns it.
LEMMA CtxSame ==
    ASSUME NEW k \in CtxType
    PROVE  /\ \A w : Same(k, [k EXCEPT !.work = w])
           /\ \A w : Same(k, [k EXCEPT !.poll = w])
           /\ \A w : Same(k, [k EXCEPT !.flags = w])
           /\ \A v : Same(k, [k EXCEPT !.done = TRUE, !.rv = v])
           /\ \A v, w : Same(k, [k EXCEPT !.done = TRUE, !.rv = v, !.work = w])
           /\ \A m : Same(k, NotifyUser(k, m))
           /\ Same(k, k)
  BY DEF CtxType, Same, NotifyUser

\* Every step preserves ownership.
LEMMA OwnStep == ASSUME TypeOK, OwnInv, [Next]_vars PROVE OwnInv'
<1> USE ConstAssumption
<1>a. /\ ctx \in [Ctx -> CtxType] /\ thr \in [Threads -> ThreadType]
      /\ fl \in [Sessions -> SessionType]
      /\ \A c \in Ctx : ctx[c] \in CtxType
      /\ \A s \in Sessions : fl[s].dtor \in Ctx \cup {NULL}
  BY DEF TypeOK, SessionType
<1>b. ASSUME UNCHANGED ctx PROVE SameCtx
  BY <1>b DEF SameCtx, Same
<1>c. ASSUME UNCHANGED fl PROVE SameFl
  BY <1>c DEF SameFl
<1>d. ASSUME UNCHANGED thr PROVE \A u \in Threads : Moves(u)
  BY <1>d DEF Moves
<1>e. \A t \in Threads : ThreadOwns(t) /\ SessionOf[t] \in Sessions
  BY DEF OwnInv
<1>1. CASE UNCHANGED vars
  BY <1>1, <1>b, <1>c, <1>d, Quiet DEF vars
<1>2. ASSUME NEW t \in Threads, NEW kind \in Kinds, NEW sc \in Scs,
             InvokeResume(t, kind, sc)
      PROVE  OwnInv'
  <2>1. PICK c \in InterruptedOf(t) :
            IF ctx[c].sc = sc
            THEN /\ ctx' = [ctx EXCEPT ![c].list = "pending"]
                 /\ thr' = [thr EXCEPT ![t] =
                        [pc |-> "switch", cur |-> c, kind |-> kind, sc |-> sc,
                         async |-> FALSE, err |-> "none", call |-> ctx[c].call]]
            ELSE Fail(t, "return", "inval") /\ UNCHANGED ctx
    BY <1>2 DEF InvokeResume
  <2>2. /\ fl' = fl /\ thr[t].pc = "idle" /\ fl[SessionOf[t]].phase = "open"
        /\ c \in Ctx /\ ctx[c].fl = SessionOf[t] /\ ctx[c].pid = t
        /\ ctx[c].list = "interrupted"
    BY <1>2 DEF InvokeResume, InterruptedOf, Linked
  <2>3. CASE ctx[c].sc # sc
    BY <2>1, <2>2, <2>3, <1>a, <1>b, <1>c, IdleMoves, Quiet
  <2>4. CASE ctx[c].sc = sc
    <3>1. /\ \A d \in Ctx \ {c} : ctx'[d] = ctx[d]
          /\ ctx'[c] = [ctx[c] EXCEPT !.list = "pending"]
      BY <1>a, <2>1, <2>2, <2>4
    <3>2. /\ ctx'[c].live = ctx[c].live /\ ctx'[c].fl = ctx[c].fl
          /\ ctx'[c].pid = ctx[c].pid /\ ctx'[c].call = ctx[c].call
          /\ ctx'[c].id = ctx[c].id /\ ctx'[c].list = "pending"
      BY <1>a, <2>2, <3>1 DEF CtxType
    <3>3. /\ \A u \in Threads \ {t} : thr'[u] = thr[u]
          /\ thr'[t].pc = "switch" /\ thr'[t].cur = c /\ thr'[t].async = FALSE
          /\ thr'[t].call = ctx[c].call
      BY <1>a, <2>1, <2>4
    <3>4. ctx[c].live
      BY <2>2 DEF OwnInv, Owned
    <3>5. ASSUME NEW u \in Threads PROVE ThreadOwns(u)'
      <4>1. CASE u = t
        BY <4>1, <2>2, <3>2, <3>3, <3>4, HoldingFacts DEF ThreadOwns
      <4>2. CASE u # t
        <5>1. thr[u].cur # c
          BY <1>e, <2>2 DEF ThreadOwns
        <5> QED
          BY <4>2, <5>1, <1>e, <2>2, <3>1, <3>3 DEF ThreadOwns
      <4> QED
        BY <4>1, <4>2
    <3>6. ASSUME NEW s \in Sessions PROVE DtorOwns(s)'
      BY <1>a, <2>2, <3>1, <3>2 DEF DtorOwns, OwnInv
    <3>7. ASSUME NEW d \in Ctx PROVE Owned(d)'
      <4>1. thr[t].cur = NULL
        BY <1>e, <2>2, HoldingFacts DEF ThreadOwns
      <4>2. Owned(d) /\ Owned(c)
        BY <2>2 DEF OwnInv
      <4>3. CASE d = c
        BY <4>2, <4>3, <2>2, <3>2, <3>3, <3>4 DEF Owned
      <4>4. CASE d # c
        BY <4>1, <4>2, <4>4, <2>2, <3>1, <3>3 DEF Owned
      <4> QED
        BY <4>3, <4>4
    <3> QED
      BY <3>5, <3>6, <3>7 DEF OwnInv
  <2> QED
    BY <2>3, <2>4
<1>6. ASSUME NEW t \in Threads, ContextPublish(t) PROVE OwnInv'
  <2>1. PICK c \in Ctx, i \in FreeSlots(thr[t].kind) :
            /\ ~ctx[c].live
            /\ ctx' = [ctx EXCEPT ![c] =
                   [FreeCtx EXCEPT !.live = TRUE,
                                   !.id = CtxId(jobid + 1, i, thr[t].async),
                                   !.fl = SessionOf[t], !.pid = t,
                                   !.sc = thr[t].sc, !.kind = thr[t].kind,
                                   !.list = "fake", !.call = calls + 1]]
            /\ thr' = [thr EXCEPT ![t].pc = "link", ![t].cur = c,
                                  ![t].call = calls + 1]
    BY <1>6 DEF ContextPublish
  <2>2. fl' = fl /\ thr[t].pc = "alloc" /\ fl[SessionOf[t]].phase = "open"
    BY <1>6, <1>e DEF ContextPublish, ThreadOwns
  <2>3. /\ \A d \in Ctx \ {c} : ctx'[d] = ctx[d]
        /\ ctx'[c].live /\ ctx'[c].fl = SessionOf[t] /\ ctx'[c].pid = t
        /\ ctx'[c].list = "fake" /\ ctx'[c].call = calls + 1
        /\ ctx'[c].id = CtxId(jobid + 1, i, thr[t].async)
    BY <1>a, <2>1 DEF FreeCtx
  <2>4. /\ \A u \in Threads \ {t} : thr'[u] = thr[u]
        /\ thr'[t].pc = "link" /\ thr'[t].cur = c /\ thr'[t].call = calls + 1
        /\ thr'[t].async = thr[t].async
    BY <1>a, <2>1 DEF ThreadType
  <2>5. ctx'[c].id.async = thr[t].async
    BY <2>3 DEF CtxId
  <2>6. ASSUME NEW u \in Threads PROVE ThreadOwns(u)'
    <3>1. CASE u = t
      BY <3>1, <2>2, <2>3, <2>4, <2>5, HoldingFacts DEF ThreadOwns
    <3>2. CASE u # t
      <4>1. thr[u].pc \in Holding => thr[u].cur # c
        BY <1>e, <2>1 DEF ThreadOwns
      <4> QED
        BY <3>2, <4>1, <1>e, <2>2, <2>3, <2>4 DEF ThreadOwns
    <3> QED
      BY <3>1, <3>2
  <2>7. ASSUME NEW s \in Sessions PROVE DtorOwns(s)'
    BY <1>a, <2>1, <2>2, <2>3 DEF DtorOwns, OwnInv
  <2>8. ASSUME NEW d \in Ctx PROVE Owned(d)'
    <3>1. thr[t].cur = NULL
      BY <1>e, <2>2, HoldingFacts DEF ThreadOwns
    <3>2. CASE d = c
      BY <3>2, <1>e, <2>2, <2>3, <2>4 DEF Owned
    <3>3. CASE d # c
      BY <3>1, <3>3, <2>2, <2>3, <2>4 DEF Owned, OwnInv
    <3> QED
      BY <3>2, <3>3
  <2> QED
    BY <2>6, <2>7, <2>8 DEF OwnInv
<1>8. ASSUME NEW t \in Threads, ContextLink(t) PROVE OwnInv'
  <2> DEFINE c == thr[t].cur
  <2>1. thr[t].pc = "link" /\ c \in Ctx
    BY <1>8, <1>e, HoldingFacts DEF ContextLink, ThreadOwns
  <2>2. /\ \A d \in Ctx \ {c} : ctx'[d] = ctx[d]
        /\ ctx'[c].live = ctx[c].live /\ ctx'[c].fl = ctx[c].fl
        /\ ctx'[c].pid = ctx[c].pid /\ ctx'[c].call = ctx[c].call
        /\ ctx'[c].id = ctx[c].id /\ ctx'[c].list = "pending"
    BY <1>a, <1>8, <2>1 DEF ContextLink, CtxType
  <2>3. /\ \A u \in Threads \ {t} : thr'[u] = thr[u]
        /\ thr'[t].pc = "args" /\ thr'[t].cur = c /\ thr'[t].call = thr[t].call
        /\ thr'[t].async = thr[t].async
    BY <1>a, <1>8, GotoMoves DEF ContextLink
  <2>4. SameFl
    BY <1>a, <1>8 DEF ContextLink, SameFl, SessionType
  <2>5. ASSUME NEW u \in Threads PROVE ThreadOwns(u)'
    BY <1>e, <2>1, <2>2, <2>3, <2>4, HoldingFacts DEF ThreadOwns, SameFl
  <2>6. ASSUME NEW s \in Sessions PROVE DtorOwns(s)'
    BY <1>a, <1>e, <2>1, <2>2, <2>4, HoldingFacts
       DEF DtorOwns, OwnInv, SameFl, ThreadOwns
  <2>7. ASSUME NEW d \in Ctx PROVE Owned(d)'
    <3>1. Owned(d) /\ \A u \in Threads : thr'[u].cur = thr[u].cur
      BY <2>3 DEF OwnInv
    <3>2. CASE d = c
      <4>1. ctx[c].live
        BY <1>e, <2>1, HoldingFacts DEF ThreadOwns
      <4>2. ctx[c].fl \in Sessions /\ fl[ctx[c].fl].phase # "closed"
        BY <3>1, <3>2, <4>1 DEF Owned
      <4>3. /\ ctx'[c].live /\ ctx'[c].fl \in Sessions /\ fl'[ctx'[c].fl].phase # "closed"
            /\ \E u \in Threads : thr'[u].cur = c
        BY <2>2, <2>3, <2>4, <4>1, <4>2 DEF SameFl
      <4> QED
        BY <3>2, <4>3 DEF Owned
    <3>3. CASE d # c
      BY <2>2, <2>4, <3>1, <3>3 DEF Owned, SameFl
    <3> QED
      BY <3>2, <3>3
  <2> QED
    BY <2>5, <2>6, <2>7 DEF OwnInv
<1>3. ASSUME NEW t \in Threads, NEW kind \in Kinds, NEW sc \in Scs,
             NEW async \in BOOLEAN, InvokeNew(t, kind, sc, async)
      PROVE  OwnInv'
  <2>1. /\ thr[t].pc = "idle" /\ fl[SessionOf[t]].phase = "open"
        /\ thr[t].cur = NULL /\ UNCHANGED <<ctx, fl>>
    BY <1>3, <1>e, HoldingFacts DEF InvokeNew, ThreadOwns
  <2>2. /\ \A u \in Threads \ {t} : thr'[u] = thr[u]
        /\ thr'[t].pc \in {"return", "alloc"} /\ thr'[t].cur = NULL
    BY <1>3, <1>a DEF InvokeNew
  <2>3. \A u \in Threads : Moves(u)
    BY <2>1, <2>2, HoldingFacts DEF Moves
  <2> QED
    BY <2>1, <2>3, <1>b, <1>c, Quiet
<1>4. ASSUME NEW t \in Threads, AllocNoMem(t) PROVE OwnInv'
  <2>1. \A u \in Threads : Moves(u)
    BY <1>4, <1>a, <1>e, IdleMoves DEF AllocNoMem, ThreadOwns
  <2> QED
    BY <1>4, <1>b, <1>c, <2>1, Quiet DEF AllocNoMem
<1>f. ASSUME NEW s \in Sessions, FreeUnlinked(s) PROVE SameFl
  BY <1>a, <1>f DEF FreeUnlinked, SameFl, SessionType
<1>5. ASSUME NEW t \in Threads, AllocFault(t) PROVE OwnInv'
  <2>1. \A u \in Threads : Moves(u)
    BY <1>5, <1>a, <1>e, IdleMoves DEF AllocFault, ThreadOwns
  <2> QED
    BY <1>5, <1>b, <1>e, <1>f, <2>1, Quiet DEF AllocFault
<1>7. ASSUME NEW t \in Threads, ContextNoSlot(t) PROVE OwnInv'
  <2>1. \A u \in Threads : Moves(u)
    BY <1>7, <1>a, <1>e, IdleMoves DEF ContextNoSlot, ThreadOwns
  <2> QED
    BY <1>7, <1>b, <1>e, <1>f, <2>1, Quiet DEF ContextNoSlot
<1>9. ASSUME NEW t \in Threads, GetArgsFail(t) PROVE OwnInv'
  <2>1. \A u \in Threads : Moves(u)
    BY <1>9, <1>a, WorkMoves, HoldingFacts DEF GetArgsFail
  <2>2. SameCtx
    BY <1>9, <1>b DEF GetArgsFail
  <2> QED
    BY <1>9, <1>c, <2>1, <2>2, Quiet DEF GetArgsFail
<1>10. ASSUME NEW t \in Threads, CheckSsr(t) PROVE OwnInv'
  <2>1. \A u \in Threads : Moves(u)
    BY <1>10, <1>a, WorkMoves, HoldingFacts DEF CheckSsr
  <2>2. SameCtx
    <3>1. thr[t].cur \in Ctx
      BY <1>10, <1>e, HoldingFacts DEF CheckSsr, ThreadOwns
    <3>2. ctx' = [ctx EXCEPT ![thr[t].cur].poll = "zero"]
      BY <1>10 DEF CheckSsr
    <3> QED
      BY <1>a, <3>1, <3>2, CtxSame DEF SameCtx
  <2> QED
    BY <1>10, <1>c, <2>1, <2>2, Quiet DEF CheckSsr
<1>11. ASSUME NEW t \in Threads, TransportSend(t) PROVE OwnInv'
  <2>1. /\ thr[t].pc = "send" /\ UNCHANGED <<ctx, fl>>
        /\ thr' = [thr EXCEPT ![t] = IF @.async THEN IdleThread
                                     ELSE [@ EXCEPT !.pc = "switch"]]
    BY <1>11 DEF TransportSend, AfterSend
  <2>2. CASE ~thr[t].async
    <3>1. Goto(t, "switch")
      BY <1>a, <2>1, <2>2 DEF Goto
    <3>2. \A u \in Threads : Moves(u)
      BY <1>a, <2>1, <3>1, WorkMoves, HoldingFacts
    <3> QED
      BY <2>1, <3>2, <1>b, <1>c, Quiet
  <2>3. CASE thr[t].async
    <3>1. /\ \A u \in Threads \ {t} : thr'[u] = thr[u]
          /\ thr'[t].pc = "idle" /\ thr'[t].cur = NULL
      BY <1>a, <2>1, <2>3 DEF IdleThread
    <3>2. /\ ctx[thr[t].cur].list = "pending" /\ ctx[thr[t].cur].id.async
          /\ thr[t].cur \in Ctx
      BY <1>e, <2>1, <2>3, HoldingFacts DEF ThreadOwns
    <3>3. ASSUME NEW u \in Threads PROVE ThreadOwns(u)'
      BY <1>e, <2>1, <3>1, HoldingFacts DEF ThreadOwns
    <3>4. ASSUME NEW s \in Sessions PROVE DtorOwns(s)'
      BY <2>1 DEF DtorOwns, OwnInv
    <3>5. ASSUME NEW d \in Ctx PROVE Owned(d)'
      BY <2>1, <3>1, <3>2 DEF Owned, OwnInv
    <3> QED
      BY <3>3, <3>4, <3>5 DEF OwnInv
  <2> QED
    BY <2>2, <2>3
<1>12. ASSUME NEW t \in Threads, TransportFail(t) PROVE OwnInv'
  <2>1. \A u \in Threads : Moves(u)
    BY <1>12, <1>a, WorkMoves, HoldingFacts DEF TransportFail
  <2>2. SameCtx
    BY <1>12, <1>b DEF TransportFail
  <2> QED
    BY <1>12, <1>c, <2>1, <2>2, Quiet DEF TransportFail
<1>13. ASSUME NEW t \in Threads, WaitSwitch(t) PROVE OwnInv'
  <2>1. \A u \in Threads : Moves(u)
    BY <1>13, <1>a, WorkMoves, HoldingFacts DEF WaitSwitch
  <2>2. SameCtx
    BY <1>13, <1>b DEF WaitSwitch
  <2> QED
    BY <1>13, <1>c, <2>1, <2>2, Quiet DEF WaitSwitch
<1>14. ASSUME NEW t \in Threads, WaitTry(t) PROVE OwnInv'
  <2>1. \A u \in Threads : Moves(u)
    BY <1>14, <1>a, WorkMoves, HoldingFacts DEF WaitTry, LoopTest
  <2>2. SameCtx
    <3>1. thr[t].cur \in Ctx
      BY <1>14, <1>e, HoldingFacts DEF WaitTry, ThreadOwns
    <3>2. ctx' = [ctx EXCEPT ![thr[t].cur].work = @ - 1] \/ UNCHANGED ctx
      BY <1>14 DEF WaitTry
    <3>3. CASE ctx' = [ctx EXCEPT ![thr[t].cur].work = @ - 1]
      BY <1>a, <3>1, <3>3, CtxSame DEF SameCtx
    <3> QED
      BY <1>b, <3>2, <3>3
  <2> QED
    BY <1>14, <1>c, <2>1, <2>2, Quiet DEF WaitTry
<1>15. ASSUME NEW t \in Threads, WaitPoll(t) PROVE OwnInv'
  <2>1. \A u \in Threads : Moves(u)
    BY <1>15, <1>a, WorkMoves, HoldingFacts DEF WaitPoll
  <2>2. SameCtx
    <3>1. thr[t].cur \in Ctx
      BY <1>15, <1>e, HoldingFacts DEF WaitPoll, ThreadOwns
    <3> DEFINE k == ctx[thr[t].cur]
    <3>2. \/ UNCHANGED ctx
          \/ ctx' = [ctx EXCEPT ![thr[t].cur].done = TRUE,
                       ![thr[t].cur].rv = IF k.poll = "poll_response"
                                          THEN "dsp" ELSE @]
      BY <1>15 DEF WaitPoll
    <3> DEFINE v == IF k.poll = "poll_response" THEN "dsp" ELSE k.rv
    <3>3. ASSUME NEW d \in Ctx PROVE Same(ctx[d], ctx'[d])
      <4>1. Same(ctx[d], ctx[d]) /\ Same(ctx[d], [ctx[d] EXCEPT !.done = TRUE, !.rv = v])
        BY <1>a, CtxSame
      <4>2. ctx'[d] = ctx[d] \/ ctx'[d] = [ctx[d] EXCEPT !.done = TRUE, !.rv = v]
        BY <1>a, <3>1, <3>2
      <4> QED
        BY <4>1, <4>2
    <3> QED
      BY <3>3 DEF SameCtx
  <2> QED
    BY <1>15, <1>c, <2>1, <2>2, Quiet DEF WaitPoll
<1>16. ASSUME NEW t \in Threads, WaitPollMode(t) PROVE OwnInv'
  <2>1. \A u \in Threads : Moves(u)
    BY <1>16, <1>a, WorkMoves, HoldingFacts DEF WaitPollMode, LoopTest
  <2>2. SameCtx
    <3>1. thr[t].cur \in Ctx
      BY <1>16, <1>e, HoldingFacts DEF WaitPollMode, ThreadOwns
    <3>2. ctx' = [ctx EXCEPT ![thr[t].cur].flags = "NORMAL"]
      BY <1>16 DEF WaitPollMode
    <3> QED
      BY <1>a, <3>1, <3>2, CtxSame DEF SameCtx
  <2> QED
    BY <1>16, <1>c, <2>1, <2>2, Quiet DEF WaitPollMode
<1>17. ASSUME NEW t \in Threads, WaitBlock(t) PROVE OwnInv'
  <2>1. \A u \in Threads : Moves(u)
    BY <1>17, <1>a, WorkMoves, HoldingFacts DEF WaitBlock, LoopTest
  <2>2. SameCtx
    <3>1. thr[t].cur \in Ctx
      BY <1>17, <1>e, HoldingFacts DEF WaitBlock, ThreadOwns
    <3>2. ctx' = [ctx EXCEPT ![thr[t].cur].work = @ - 1]
      BY <1>17 DEF WaitBlock
    <3> QED
      BY <1>a, <3>1, <3>2, CtxSame DEF SameCtx
  <2> QED
    BY <1>17, <1>c, <2>1, <2>2, Quiet DEF WaitBlock
<1>18. ASSUME NEW t \in Threads, SaveInterrupted(t) PROVE OwnInv'
  <2> DEFINE c == thr[t].cur
  <2>1. thr[t].pc = "save" /\ c \in Ctx /\ fl' = fl
    BY <1>18, <1>e, HoldingFacts DEF SaveInterrupted, ThreadOwns
  <2>2. /\ \A d \in Ctx \ {c} : ctx'[d] = ctx[d]
        /\ ctx'[c].live = ctx[c].live /\ ctx'[c].fl = ctx[c].fl
        /\ ctx'[c].list = "interrupted"
    BY <1>a, <1>18, <2>1 DEF SaveInterrupted, CtxType
  <2>3. /\ \A u \in Threads \ {t} : thr'[u] = thr[u]
        /\ thr'[t].pc = "return" /\ thr'[t].cur = NULL
    BY <1>a, <1>18 DEF SaveInterrupted, ThreadType
  <2>4. ctx[c].live /\ ctx[c].fl = SessionOf[t] /\ ctx[c].list = "pending" /\ ctx[c].pid = t
    BY <1>e, <2>1, HoldingFacts DEF ThreadOwns
  <2>5. ASSUME NEW u \in Threads PROVE ThreadOwns(u)'
    <3>1. CASE u = t
      BY <3>1, <1>e, <2>1, <2>3, HoldingFacts DEF ThreadOwns
    <3>2. CASE u # t
      <4>1. thr[u].pc \in Holding => thr[u].cur # c
        BY <1>e, <2>4, <3>2 DEF ThreadOwns
      <4> QED
        BY <3>2, <4>1, <1>e, <2>1, <2>2, <2>3 DEF ThreadOwns
    <3> QED
      BY <3>1, <3>2
  <2>6. ASSUME NEW s \in Sessions PROVE DtorOwns(s)'
    BY <1>a, <2>1, <2>2, <2>4 DEF DtorOwns, OwnInv
  <2>7. ASSUME NEW d \in Ctx PROVE Owned(d)'
    <3>1. Owned(d)
      BY DEF OwnInv
    <3>2. CASE d = c
      BY <3>1, <3>2, <2>1, <2>2, <2>4 DEF Owned
    <3>3. CASE d # c
      BY <3>1, <3>3, <2>1, <2>2, <2>3 DEF Owned
    <3> QED
      BY <3>2, <3>3
  <2> QED
    BY <2>5, <2>6, <2>7 DEF OwnInv
<1>19. ASSUME NEW t \in Threads, PutArgs(t) PROVE OwnInv'
  <2>1. \A u \in Threads : Moves(u)
    BY <1>19, <1>a, WorkMoves, HoldingFacts DEF PutArgs
  <2>2. SameCtx
    BY <1>19, <1>b DEF PutArgs
  <2> QED
    BY <1>19, <1>c, <2>1, <2>2, Quiet DEF PutArgs
<1>20. ASSUME NEW t \in Threads, FreeSlot(t) PROVE OwnInv'
  <2>1. \A u \in Threads : Moves(u)
    BY <1>20, <1>a, WorkMoves, HoldingFacts DEF FreeSlot
  <2>2. SameCtx
    BY <1>20, <1>b DEF FreeSlot
  <2> QED
    BY <1>20, <1>c, <2>1, <2>2, Quiet DEF FreeSlot
<1>21. ASSUME NEW t \in Threads, FreeLink(t) PROVE OwnInv'
  <2> DEFINE c == thr[t].cur
  <2>1. thr[t].pc = "unlink" /\ c \in Ctx
    BY <1>21, <1>e, HoldingFacts DEF FreeLink, ThreadOwns
  <2>2. /\ \A d \in Ctx \ {c} : ctx'[d] = ctx[d]
        /\ ctx'[c].live = FALSE /\ ctx'[c].list = "none"
    BY <1>a, <1>21, <2>1 DEF FreeLink, FreeCtx
  <2>3. /\ \A u \in Threads \ {t} : thr'[u] = thr[u]
        /\ thr'[t].pc = "return" /\ thr'[t].cur = NULL
    BY <1>a, <1>21 DEF FreeLink, ThreadType
  <2>4. SameFl
    BY <1>a, <1>21 DEF FreeLink, SameFl, SessionType
  <2>5. ctx[c].live /\ ctx[c].fl = SessionOf[t] /\ ctx[c].list = "pending" /\ ctx[c].pid = t
    BY <1>e, <2>1, HoldingFacts DEF ThreadOwns
  <2>6. ASSUME NEW u \in Threads PROVE ThreadOwns(u)'
    <3>1. CASE u = t
      BY <3>1, <1>e, <2>1, <2>3, <2>4, HoldingFacts DEF ThreadOwns, SameFl
    <3>2. CASE u # t
      <4>1. thr[u].pc \in Holding => thr[u].cur # c
        BY <1>e, <2>5, <3>2 DEF ThreadOwns
      <4> QED
        BY <3>2, <4>1, <1>e, <2>2, <2>3, <2>4 DEF ThreadOwns, SameFl
    <3> QED
      BY <3>1, <3>2
  <2>7. ASSUME NEW s \in Sessions PROVE DtorOwns(s)'
    BY <1>a, <2>2, <2>4, <2>5 DEF DtorOwns, OwnInv, SameFl
  <2>8. ASSUME NEW d \in Ctx PROVE Owned(d)'
    BY <2>1, <2>2, <2>3, <2>4 DEF Owned, OwnInv, SameFl
  <2> QED
    BY <2>6, <2>7, <2>8 DEF OwnInv
<1>22. ASSUME NEW t \in Threads, InvokeReturn(t) PROVE OwnInv'
  <2>1. /\ \A u \in Threads \ {t} : thr'[u] = thr[u]
        /\ thr[t].pc = "return" /\ thr'[t].pc = "idle"
        /\ thr'[t].cur = NULL /\ thr[t].cur = NULL
    BY <1>22, <1>a, <1>e, HoldingFacts DEF InvokeReturn, IdleThread, ThreadOwns
  <2>2. \A u \in Threads : Moves(u)
    BY <2>1, HoldingFacts DEF Moves
  <2> QED
    BY <1>22, <1>b, <1>c, <2>2, Quiet DEF InvokeReturn
<1>23. ASSUME NEW t \in Threads, WaitInterrupted(t) PROVE OwnInv'
  <2>1. \A u \in Threads : Moves(u)
    BY <1>23, <1>a, WorkMoves, HoldingFacts DEF WaitInterrupted
  <2>2. SameCtx
    BY <1>23, <1>b DEF WaitInterrupted
  <2> QED
    BY <1>23, <1>c, <2>1, <2>2, Quiet DEF WaitInterrupted
<1>24. ASSUME NEW m \in responses, HandleResponse(m) PROVE OwnInv'
  <2>1. \A c \in Ctx : ctx'[c] = ctx[c] \/ ctx'[c] = NotifyUser(ctx[c], m)
    BY <1>24, <1>a DEF HandleResponse
  <2>2. ASSUME NEW c \in Ctx PROVE Same(ctx[c], ctx'[c])
    <3>1. Same(ctx[c], ctx[c]) /\ Same(ctx[c], NotifyUser(ctx[c], m))
      BY <1>a, CtxSame
    <3> QED
      BY <2>1, <3>1
  <2>3. SameCtx
    BY <2>2 DEF SameCtx
  <2> QED
    BY <1>24, <1>c, <1>d, <2>3, Quiet DEF HandleResponse
<1>25. ASSUME \/ SsrBeforeShutdown \/ SsrAfterShutdown
              \/ SsrBeforePowerup \/ SsrAfterPowerup
       PROVE  OwnInv'
  BY <1>25, <1>b, <1>c, <1>d, Quiet
     DEF SsrBeforeShutdown, SsrAfterShutdown, SsrBeforePowerup, SsrAfterPowerup
<1>29. ASSUME NEW s \in Sessions, NotifyUsers(s) PROVE OwnInv'
  <2>1. \A c \in Ctx : \/ ctx'[c] = ctx[c]
                       \/ ctx'[c] = [ctx[c] EXCEPT !.done = TRUE, !.rv = "reset",
                                                   !.work = ctx[c].work + 1]
    BY <1>29 DEF NotifyUsers
  <2>2. ASSUME NEW c \in Ctx PROVE Same(ctx[c], ctx'[c])
    <3> DEFINE w == ctx[c].work + 1
    <3>1. /\ Same(ctx[c], ctx[c])
          /\ Same(ctx[c], [ctx[c] EXCEPT !.done = TRUE, !.rv = "reset", !.work = w])
      BY <1>a, CtxSame
    <3> QED
      BY <2>1, <3>1
  <2>3. SameCtx
    BY <2>2 DEF SameCtx
  <2> QED
    BY <1>29, <1>c, <1>d, <2>3, Quiet DEF NotifyUsers
<1>30. ASSUME NEW s \in Sessions, FileOpen(s) PROVE OwnInv'
  <2>1. /\ fl[s].phase = "closed" /\ fl'[s].phase = "open" /\ fl'[s].dtor = NULL
        /\ \A q \in Sessions \ {s} : fl'[q] = fl[q]
        /\ UNCHANGED <<ctx, thr>>
    BY <1>30, <1>a DEF FileOpen, ClosedSession
  <2>2. fl[s].dtor = NULL
    BY <2>1 DEF OwnInv, DtorOwns
  <2>3. ASSUME NEW u \in Threads PROVE ThreadOwns(u)'
    BY <1>e, <2>1 DEF ThreadOwns
  <2>4. ASSUME NEW q \in Sessions PROVE DtorOwns(q)'
    BY <2>1 DEF DtorOwns, OwnInv
  <2>5. ASSUME NEW d \in Ctx PROVE Owned(d)'
    BY <2>1, <2>2 DEF Owned, OwnInv
  <2> QED
    BY <2>3, <2>4, <2>5 DEF OwnInv
<1>31. ASSUME NEW t \in Threads, InitProcess(t) \/ InitFails(t) \/ InitOpened(t)
       PROVE  OwnInv'
  <2>1. SameFl /\ SameCtx
    BY <1>31, <1>b, InitShape DEF SameFl
  <2>2. \A u \in Threads : Moves(u)
    BY <1>31, <1>e, InitShape, HoldingFacts DEF Moves, ThreadOwns
  <2> QED
    BY <2>1, <2>2, Quiet
<1>32. ASSUME NEW s \in Sessions, FileFreeStart(s) \/ FileFreeDsp(s) PROVE OwnInv'
  <2>1. /\ fl[s].phase \in {"open", "dspclose"}
        /\ fl'[s].phase \in {"dspclose", "dtor"} /\ fl'[s].dtor = fl[s].dtor
        /\ \A q \in Sessions \ {s} : fl'[q] = fl[q]
        /\ UNCHANGED <<ctx, thr>>
    BY <1>32, <1>a DEF FileFreeStart, FileFreeDsp, SessionType
  <2>2. \A t \in Threads : SessionOf[t] = s => thr[t].pc = "idle"
    BY <1>32, <1>e DEF FileFreeStart, FileFreeDsp, ThreadOwns
  <2>3. ASSUME NEW u \in Threads PROVE ThreadOwns(u)'
    BY <1>e, <2>1, <2>2, HoldingFacts DEF ThreadOwns
  <2>4. ASSUME NEW q \in Sessions PROVE DtorOwns(q)'
    BY <2>1 DEF DtorOwns, OwnInv
  <2>5. ASSUME NEW d \in Ctx PROVE Owned(d)'
    BY <2>1 DEF Owned, OwnInv
  <2> QED
    BY <2>3, <2>4, <2>5 DEF OwnInv
<1>34. ASSUME NEW s \in Sessions, DtorUnlink(s) PROVE OwnInv'
  <2>1. PICK c \in Ctx : /\ Linked(c, s)
                         /\ ctx' = [ctx EXCEPT ![c].list = "none"]
                         /\ fl' = [fl EXCEPT ![s].dtor = c]
    BY <1>34 DEF DtorUnlink
  <2>2. /\ fl[s].phase = "dtor" /\ fl[s].dtor = NULL /\ fl'[s].dtor = c
        /\ \A q \in Sessions : fl'[q].phase = fl[q].phase
        /\ \A q \in Sessions \ {s} : fl'[q] = fl[q]
        /\ thr' = thr
    <3>1. /\ fl[s].phase = "dtor" /\ fl[s].dtor = NULL /\ thr' = thr
      BY <1>34 DEF DtorUnlink
    <3>2. fl'[s].dtor = c /\ fl'[s].phase = fl[s].phase
      BY <1>a, <2>1 DEF SessionType
    <3>3. \A q \in Sessions \ {s} : fl'[q] = fl[q]
      BY <1>a, <2>1
    <3> QED
      BY <3>1, <3>2, <3>3
  <2>3. /\ ctx[c].fl = s /\ ctx[c].live /\ ctx[c].list # "none"
    BY <2>1 DEF Linked, OwnInv, Owned
  <2>4. /\ \A d \in Ctx \ {c} : ctx'[d] = ctx[d]
        /\ ctx'[c].live = ctx[c].live /\ ctx'[c].fl = s /\ ctx'[c].list = "none"
    <3>1. ctx' = [ctx EXCEPT ![c].list = "none"] /\ ctx[c].fl = s
      BY <2>1, <2>3
    <3>2. \A d \in Ctx \ {c} : ctx'[d] = ctx[d]
      BY <1>a, <3>1
    <3>3. ctx'[c].live = ctx[c].live /\ ctx'[c].fl = ctx[c].fl /\ ctx'[c].list = "none"
      BY <1>a, <3>1 DEF CtxType
    <3> QED
      BY <3>1, <3>2, <3>3
  <2>5. ASSUME NEW u \in Threads PROVE ThreadOwns(u)'
    <3>1. thr[u].pc \in Holding => thr[u].cur # c
      BY <1>e, <2>2, <2>3, HoldingFacts DEF ThreadOwns
    <3> QED
      BY <3>1, <1>e, <2>2, <2>4 DEF ThreadOwns
  <2>6. ASSUME NEW q \in Sessions PROVE DtorOwns(q)'
    <3>1. CASE q = s
      BY <3>1, <2>2, <2>3, <2>4 DEF DtorOwns
    <3>2. CASE q # s
      <4>1. DtorOwns(q) /\ fl[q].dtor \in Ctx \cup {NULL} /\ fl'[q] = fl[q]
        BY <1>a, <2>2, <3>2 DEF OwnInv
      <4> QED
        BY <3>2, <4>1, <2>3, <2>4 DEF DtorOwns
    <3> QED
      BY <3>1, <3>2
  <2>7. ASSUME NEW d \in Ctx PROVE Owned(d)'
    BY <2>2, <2>3, <2>4 DEF Owned, OwnInv
  <2> QED
    BY <2>5, <2>6, <2>7 DEF OwnInv
<1>35. ASSUME NEW s \in Sessions, DtorFree(s) PROVE OwnInv'
  <2> DEFINE c == fl[s].dtor
  <2>1. /\ fl[s].phase = "dtor" /\ c \in Ctx /\ fl'[s].dtor = NULL /\ c # NULL
        /\ \A q \in Sessions : fl'[q].phase = fl[q].phase
        /\ \A q \in Sessions \ {s} : fl'[q] = fl[q]
        /\ thr' = thr
    BY <1>35, <1>a DEF DtorFree, SessionType
  <2>2. /\ \A d \in Ctx \ {c} : ctx'[d] = ctx[d]
        /\ ctx'[c].live = FALSE /\ ctx'[c].list = "none"
    BY <1>35, <1>a, <2>1 DEF DtorFree, FreeCtx
  <2>3. ctx[c].fl = s /\ ctx[c].list = "none"
    BY <2>1 DEF DtorOwns, OwnInv
  <2>4. ASSUME NEW u \in Threads PROVE ThreadOwns(u)'
    <3>1. thr[u].pc \in Holding => thr[u].cur # c
      BY <1>e, <2>3 DEF ThreadOwns
    <3> QED
      BY <3>1, <1>e, <2>1, <2>2 DEF ThreadOwns
  <2>5. ASSUME NEW q \in Sessions PROVE DtorOwns(q)'
    BY <1>a, <2>1, <2>2, <2>3 DEF DtorOwns, OwnInv
  <2>6. ASSUME NEW d \in Ctx PROVE Owned(d)'
    BY <2>1, <2>2 DEF Owned, OwnInv
  <2> QED
    BY <2>4, <2>5, <2>6 DEF OwnInv
<1>36. ASSUME NEW s \in Sessions, FileFreeEnd(s) PROVE OwnInv'
  <2>1. /\ fl[s].phase = "dtor" /\ fl[s].dtor = NULL /\ fl'[s].dtor = NULL
        /\ fl'[s].phase = "closed"
        /\ \A q \in Sessions \ {s} : fl'[q] = fl[q]
        /\ \A c \in Ctx : ~Linked(c, s)
        /\ UNCHANGED <<ctx, thr>>
    BY <1>36, <1>a DEF FileFreeEnd, ClosedSession
  <2>2. ASSUME NEW u \in Threads PROVE ThreadOwns(u)'
    BY <1>e, <2>1 DEF ThreadOwns
  <2>3. ASSUME NEW q \in Sessions PROVE DtorOwns(q)'
    BY <2>1 DEF DtorOwns, OwnInv
  <2>4. ASSUME NEW d \in Ctx, ctx[d].live PROVE ctx[d].fl # s
    <3> SUFFICES ASSUME ctx[d].fl = s PROVE FALSE
      OBVIOUS
    <3>1. \/ \E t \in Threads : thr[t].cur = d
          \/ \E q \in Sessions : fl[q].dtor = d
      BY <2>1, <2>4 DEF Linked, OwnInv, Owned
    <3>2. ~\E t \in Threads : thr[t].cur = d
      BY <1>e, <2>1, HoldingFacts DEF ThreadOwns
    <3>3. ~\E q \in Sessions : fl[q].dtor = d
      BY <2>1 DEF OwnInv, DtorOwns
    <3> QED
      BY <3>1, <3>2, <3>3
  <2>5. ASSUME NEW d \in Ctx PROVE Owned(d)'
    BY <2>1, <2>4 DEF Owned, OwnInv
  <2> QED
    BY <2>2, <2>3, <2>5 DEF OwnInv
<1>37. ASSUME NEW r \in requests, NEW flag \in InterimFlags,
              DspInterim(r, flag)
       PROVE  OwnInv'
  BY <1>37, <1>b, <1>c, <1>d, Quiet DEF DspInterim
<1>38. ASSUME NEW r \in requests, DspPoll(r) PROVE OwnInv'
  <2>1. PICK w \in PollWords :
            ctx' = [ctx EXCEPT ![r.c].poll =
                        IF ctx[r.c].call = r.call THEN w ELSE @]
    BY <1>38 DEF DspPoll
  <2>2. ASSUME NEW c \in Ctx PROVE Same(ctx[c], ctx'[c])
    <3> DEFINE v == IF ctx[r.c].call = r.call THEN w ELSE ctx[r.c].poll
    <3>1. Same(ctx[c], ctx[c]) /\ Same(ctx[c], [ctx[c] EXCEPT !.poll = v])
      BY <1>a, CtxSame
    <3>2. ctx'[c] = ctx[c] \/ ctx'[c] = [ctx[c] EXCEPT !.poll = v]
      BY <1>a, <2>1
    <3> QED
      BY <3>1, <3>2
  <2>3. SameCtx
    BY <2>2 DEF SameCtx
  <2> QED
    BY <1>38, <1>c, <1>d, <2>3, Quiet DEF DspPoll
<1>39. ASSUME NEW r \in requests, DspFinish(r) PROVE OwnInv'
  BY <1>39, <1>b, <1>c, <1>d, Quiet DEF DspFinish
<1> QED
  BY <1>1, <1>2, <1>3, <1>4, <1>5, <1>6, <1>7, <1>8, <1>9, <1>10, <1>11, <1>12,
     <1>13, <1>14, <1>15, <1>16, <1>17, <1>18, <1>19, <1>20, <1>21, <1>22, <1>23, <1>24,
     <1>25, <1>29, <1>30, <1>31, <1>32, <1>34, <1>35, <1>36, <1>37, <1>38, <1>39
     DEF Next, Invoke, ThreadStep, Ssr, FileFree

-----------------------------------------------------------------------------
(* The inductive invariant and the theorems.                               *)

IndInv == TypeOK /\ OwnInv

\* The driver starts with an empty table, no contexts and no open sessions.
LEMMA InitInv == Init => IndInv
<1> SUFFICES ASSUME Init PROVE TypeOK /\ OwnInv
  BY DEF IndInv
<1> USE ConstAssumption DEF Init
<1>1. TypeOK
  BY Constants DEF TypeOK
<1>2. ASSUME NEW t \in Threads PROVE ThreadOwns(t)
  BY HoldingFacts DEF ThreadOwns, IdleThread
<1>3. ASSUME NEW s \in Sessions PROVE DtorOwns(s)
  BY DEF DtorOwns, ClosedSession
<1>4. ASSUME NEW c \in Ctx PROVE Owned(c)
  BY DEF Owned, FreeCtx
<1> QED
  BY <1>1, <1>2, <1>3, <1>4 DEF OwnInv

\* A step of any actor preserves types and ownership together.
LEMMA StepInv == IndInv /\ [Next]_vars => IndInv'
<1> SUFFICES ASSUME TypeOK, OwnInv, [Next]_vars PROVE TypeOK' /\ OwnInv'
  BY DEF IndInv
<1>1. HoldInv
  BY DEF HoldInv, OwnInv, ThreadOwns
<1> QED
  BY <1>1, TypeStep, OwnStep

\* Types and ownership hold in every reachable state of the driver.
THEOREM Invariance == Spec => []IndInv
<1> QED
  BY InitInv, StepInv, PTL DEF Spec

\* The contexts, sessions, threads, table and messages keep the shapes of the
\* structures of the driver; in particular num_active_ctxs stays in its range
\* although failed allocations decrement it.
THEOREM TypeCorrect == Spec => []TypeOK
<1>1. IndInv => TypeOK
  BY DEF IndInv
<1> QED
  BY <1>1, Invariance, PTL

\* Two threads that hold the same context are the same thread: the context
\* carries the pid of its owner.
LEMMA OwnersDiffer ==
    ASSUME OwnInv, NEW t \in Threads, NEW u \in Threads \ {t}, thr[t].pc \in Holding
    PROVE  thr[u].cur # thr[t].cur
<1>1. ThreadOwns(t) /\ ThreadOwns(u)
  BY DEF OwnInv
<1> QED
  BY <1>1, ConstAssumption DEF ThreadOwns

\* Every live invoke context has an owner and no thread shares its context
\* with another thread or with the destructor of a session, for any number
\* of sessions, threads, contexts and table entries: context_free never runs
\* twice on a context and never under the feet of its user.
THEOREM SingleOwnership == Spec => []SingleOwner
<1>1. ASSUME IndInv PROVE SingleOwner
  <2> USE <1>1, ConstAssumption DEF IndInv
  <2>1. ASSUME NEW t \in Threads, thr[t].pc \in Holding
        PROVE  LET c == thr[t].cur
               IN  /\ c # NULL /\ ctx[c].live /\ ctx[c].fl = SessionOf[t]
                   /\ ctx[c].pid = t
                   /\ ctx[c].list = IF thr[t].pc = "link" THEN "fake" ELSE "pending"
                   /\ \A u \in Threads \ {t} : thr[u].cur # c
    BY <2>1, OwnersDiffer DEF OwnInv, ThreadOwns
  <2>2. ASSUME NEW s \in Sessions, fl[s].dtor # NULL
        PROVE  /\ ctx[fl[s].dtor].live /\ ctx[fl[s].dtor].list = "none"
               /\ ctx[fl[s].dtor].fl = s
    BY <2>2 DEF OwnInv, DtorOwns
  <2>3. ASSUME NEW c \in Ctx, ctx[c].live
        PROVE  \/ ctx[c].list = "interrupted"
               \/ ctx[c].list = "pending" /\ ctx[c].id.async
               \/ \E t \in Threads : thr[t].cur = c
               \/ \E s \in Sessions : fl[s].dtor = c
    BY <2>3 DEF OwnInv, Owned
  <2> QED
    BY <2>1, <2>2, <2>3 DEF SingleOwner
<1> QED
  BY <1>1, Invariance, PTL

-----------------------------------------------------------------------------
(* The context table and the context ids.                                  *)
(*                                                                         *)
(* TableInv: a table entry always points to a live context whose id names  *)
(* that entry, because context_free clears the entry before it frees the   *)
(* context.  JobInv: job numbers only grow, so the id of a late response   *)
(* matches a live context only if that context is the one it was sent for. *)
(* Together they give ResponseToOwnCall, which neither does alone.         *)

TableInv ==
    /\ \A i \in Slots : ctxtable[i] # NULL =>
           ctx[ctxtable[i]].live /\ ctx[ctxtable[i]].id.idx = i
    /\ \A t \in Threads : thr[t].pc = "unlink" =>
           \A i \in Slots : ctxtable[i] # thr[t].cur

Messages == requests \cup responses

JobInv ==
    /\ \A c \in Ctx : ctx[c].live => ctx[c].id.job <= jobid
    /\ \A c, d \in Ctx :
           ctx[c].live /\ ctx[d].live /\ ctx[c].id = ctx[d].id => c = d
    /\ \A m \in Messages : m.id.job <= jobid
    /\ \A c \in Ctx, m \in Messages :
           ctx[c].live /\ ctx[c].id = m.id => m.call = ctx[c].call

-----------------------------------------------------------------------------
(* Steps that touch neither the table nor any id.                          *)

\* The fields of a context the two invariants mention are the same.
Keeps(k, l) ==
    l.live = k.live /\ l.id = k.id /\ l.call = k.call /\ l.ans = k.ans

KeepsCtx == \A c \in Ctx : Keeps(ctx[c], ctx'[c])

\* Messages are only lost, or sent on behalf of earlier ones.
KeepsMessages ==
    \A m \in Messages' : \E r \in Messages : m.id = r.id /\ m.call = r.call

\* No thread enters the second half of context_free.
KeepsThreads ==
    \A t \in Threads :
        thr'[t].pc = "unlink" => thr[t].pc = "unlink" /\ thr'[t].cur = thr[t].cur

Frame ==
    /\ ctxtable' = ctxtable /\ jobid' \in {jobid, jobid + 1}
    /\ KeepsCtx /\ KeepsMessages /\ KeepsThreads

\* Moving a thread anywhere else keeps it out of context_free.
LEMMA KeepsGoto ==
    ASSUME TypeOK, NEW t \in Threads, NEW pc, NEW err, pc # "unlink",
           Goto(t, pc) \/ Fail(t, pc, err)
    PROVE  KeepsThreads
<1>1. thr \in [Threads -> ThreadType]
  BY DEF TypeOK
<1> QED
  BY <1>1, GotoMoves DEF KeepsThreads

\* Fields of a context that are neither its id nor its answer.
LEMMA KeepsField ==
    ASSUME NEW k \in CtxType
    PROVE  /\ \A w : Keeps(k, [k EXCEPT !.work = w])
           /\ \A w : Keeps(k, [k EXCEPT !.poll = w])
           /\ \A w : Keeps(k, [k EXCEPT !.flags = w])
           /\ \A w : Keeps(k, [k EXCEPT !.list = w])
           /\ \A v : Keeps(k, [k EXCEPT !.done = TRUE, !.rv = v])
           /\ \A v, w : Keeps(k, [k EXCEPT !.done = TRUE, !.rv = v, !.work = w])
           /\ Keeps(k, k)
  BY DEF CtxType, Keeps

\* Which steps leave table, ids and messages alone: all but the five below.
LEMMA FrameStep ==
    ASSUME TypeOK, OwnInv, [Next]_vars
    PROVE  \/ Frame
           \/ \E t \in Threads : \/ ContextPublish(t) \/ TransportSend(t)
                                 \/ FreeSlot(t) \/ FreeLink(t)
           \/ \E m \in responses : HandleResponse(m)
           \/ \E s \in Sessions : DtorFree(s)
<1> USE ConstAssumption
<1>a. /\ ctx \in [Ctx -> CtxType] /\ \A c \in Ctx : ctx[c] \in CtxType
      /\ thr \in [Threads -> ThreadType]
      /\ \A t \in Threads : thr[t].pc \in Holding => thr[t].cur \in Ctx
  BY DEF TypeOK, OwnInv, ThreadOwns
<1>b. ASSUME UNCHANGED ctx PROVE KeepsCtx
  BY <1>b DEF KeepsCtx, Keeps
<1>c. ASSUME requests' \subseteq requests, responses' \subseteq responses
      PROVE  KeepsMessages
  BY <1>c DEF KeepsMessages, Messages
<1>d. ASSUME UNCHANGED thr PROVE KeepsThreads
  BY <1>d DEF KeepsThreads
<1>e. ASSUME UNCHANGED <<ctxtable, jobid, requests, responses>>, KeepsCtx, KeepsThreads
      PROVE  Frame
  BY <1>c, <1>e DEF Frame
<1>1. CASE UNCHANGED vars
  BY <1>1, <1>b, <1>d, <1>e DEF vars
<1>2. ASSUME NEW t \in Threads, NEW kind \in Kinds, NEW sc \in Scs,
             InvokeResume(t, kind, sc)
      PROVE  Frame
  <2>1. PICK c \in Ctx :
            IF ctx[c].sc = sc
            THEN /\ ctx' = [ctx EXCEPT ![c].list = "pending"]
                 /\ thr' = [thr EXCEPT ![t] =
                        [pc |-> "switch", cur |-> c, kind |-> kind, sc |-> sc,
                         async |-> FALSE, err |-> "none", call |-> ctx[c].call]]
            ELSE Fail(t, "return", "inval") /\ UNCHANGED ctx
    BY <1>2 DEF InvokeResume, InterruptedOf
  <2>2. KeepsThreads
    <3>1. CASE ctx[c].sc = sc
      BY <1>a, <2>1, <3>1 DEF KeepsThreads
    <3>2. CASE ctx[c].sc # sc
      BY <2>1, <3>2, KeepsGoto
    <3> QED
      BY <3>1, <3>2
  <2>3. KeepsCtx
    <3>1. CASE ctx[c].sc = sc
      <4>1. ctx' = [ctx EXCEPT ![c].list = "pending"]
        BY <2>1, <3>1
      <4> QED
        BY <1>a, <4>1, KeepsField DEF KeepsCtx
    <3>2. CASE ctx[c].sc # sc
      BY <1>b, <2>1, <3>2
    <3> QED
      BY <3>1, <3>2
  <2> QED
    BY <1>2, <1>e, <2>2, <2>3 DEF InvokeResume
<1>3. ASSUME NEW t \in Threads, NEW kind \in Kinds, NEW sc \in Scs,
             NEW async \in BOOLEAN, InvokeNew(t, kind, sc, async)
      PROVE  Frame
  <2>1. KeepsThreads
    BY <1>3, <1>a DEF InvokeNew, KeepsThreads
  <2> QED
    BY <1>3, <1>b, <1>e, <2>1 DEF InvokeNew
<1>4. ASSUME NEW t \in Threads,
             \/ AllocNoMem(t) \/ AllocFault(t) \/ GetArgsFail(t)
             \/ TransportFail(t) \/ WaitInterrupted(t) \/ PutArgs(t)
      PROVE  Frame
  <2>1. KeepsThreads
    BY <1>4, KeepsGoto
       DEF AllocNoMem, AllocFault, GetArgsFail, TransportFail, WaitInterrupted, PutArgs
  <2> QED
    BY <1>4, <1>b, <1>e, <2>1
       DEF AllocNoMem, AllocFault, GetArgsFail, TransportFail, WaitInterrupted, PutArgs
<1>5. ASSUME NEW t \in Threads, ContextNoSlot(t) PROVE Frame
  <2>1. KeepsThreads
    BY <1>5, KeepsGoto DEF ContextNoSlot
  <2> QED
    BY <1>5, <1>b, <1>c, <2>1 DEF ContextNoSlot, Frame
<1>6. ASSUME NEW t \in Threads, ContextLink(t) PROVE Frame
  <2>1. KeepsThreads
    BY <1>6, KeepsGoto DEF ContextLink
  <2>2. KeepsCtx
    <3>1. thr[t].cur \in Ctx
      BY <1>6, <1>a, HoldingFacts DEF ContextLink
    <3> QED
      BY <1>6, <1>a, <3>1, KeepsField DEF ContextLink, KeepsCtx
  <2> QED
    BY <1>6, <1>e, <2>1, <2>2 DEF ContextLink
<1>7. ASSUME NEW t \in Threads, CheckSsr(t) PROVE Frame
  <2>1. KeepsThreads
    BY <1>7, KeepsGoto DEF CheckSsr
  <2>2. KeepsCtx
    <3>1. thr[t].cur \in Ctx
      BY <1>7, <1>a, HoldingFacts DEF CheckSsr
    <3> QED
      BY <1>7, <1>a, <3>1, KeepsField DEF CheckSsr, KeepsCtx
  <2> QED
    BY <1>7, <1>e, <2>1, <2>2 DEF CheckSsr
<1>8. ASSUME NEW t \in Threads, WaitSwitch(t) PROVE Frame
  <2>1. KeepsThreads
    BY <1>8, KeepsGoto DEF WaitSwitch
  <2> QED
    BY <1>8, <1>b, <1>e, <2>1 DEF WaitSwitch
<1>9. ASSUME NEW t \in Threads, WaitTry(t) PROVE Frame
  <2>1. KeepsThreads
    BY <1>9, KeepsGoto DEF WaitTry, LoopTest
  <2>2. KeepsCtx
    <3>1. thr[t].cur \in Ctx
      BY <1>9, <1>a, HoldingFacts DEF WaitTry
    <3>2. ctx' = [ctx EXCEPT ![thr[t].cur].work = @ - 1] \/ UNCHANGED ctx
      BY <1>9 DEF WaitTry
    <3>3. CASE ctx' = [ctx EXCEPT ![thr[t].cur].work = @ - 1]
      BY <1>a, <3>1, <3>3, KeepsField DEF KeepsCtx
    <3> QED
      BY <1>b, <3>2, <3>3
  <2> QED
    BY <1>9, <1>e, <2>1, <2>2 DEF WaitTry
<1>10. ASSUME NEW t \in Threads, WaitPoll(t) PROVE Frame
  <2>1. KeepsThreads
    BY <1>10, KeepsGoto DEF WaitPoll
  <2>2. KeepsCtx
    <3>1. thr[t].cur \in Ctx
      BY <1>10, <1>a, HoldingFacts DEF WaitPoll
    <3> DEFINE k == ctx[thr[t].cur]
    <3>2. \/ UNCHANGED ctx
          \/ ctx' = [ctx EXCEPT ![thr[t].cur].done = TRUE,
                       ![thr[t].cur].rv = IF k.poll = "poll_response"
                                          THEN "dsp" ELSE @]
      BY <1>10 DEF WaitPoll
    <3> DEFINE v == IF k.poll = "poll_response" THEN "dsp" ELSE k.rv
    <3>3. ASSUME NEW d \in Ctx PROVE Keeps(ctx[d], ctx'[d])
      <4>1. /\ Keeps(ctx[d], ctx[d])
            /\ Keeps(ctx[d], [ctx[d] EXCEPT !.done = TRUE, !.rv = v])
        BY <1>a, KeepsField
      <4>2. ctx'[d] = ctx[d] \/ ctx'[d] = [ctx[d] EXCEPT !.done = TRUE, !.rv = v]
        BY <1>a, <3>1, <3>2
      <4> QED
        BY <4>1, <4>2
    <3> QED
      BY <3>3 DEF KeepsCtx
  <2> QED
    BY <1>10, <1>e, <2>1, <2>2 DEF WaitPoll
<1>11. ASSUME NEW t \in Threads, WaitPollMode(t) PROVE Frame
  <2>1. KeepsThreads
    BY <1>11, KeepsGoto DEF WaitPollMode, LoopTest
  <2>2. KeepsCtx
    <3>1. thr[t].cur \in Ctx
      BY <1>11, <1>a, HoldingFacts DEF WaitPollMode
    <3> QED
      BY <1>11, <1>a, <3>1, KeepsField DEF WaitPollMode, KeepsCtx
  <2> QED
    BY <1>11, <1>e, <2>1, <2>2 DEF WaitPollMode
<1>12. ASSUME NEW t \in Threads, WaitBlock(t) PROVE Frame
  <2>1. KeepsThreads
    BY <1>12, KeepsGoto DEF WaitBlock, LoopTest
  <2>2. KeepsCtx
    <3>1. thr[t].cur \in Ctx
      BY <1>12, <1>a, HoldingFacts DEF WaitBlock
    <3> QED
      BY <1>12, <1>a, <3>1, KeepsField DEF WaitBlock, KeepsCtx
  <2> QED
    BY <1>12, <1>e, <2>1, <2>2 DEF WaitBlock
<1>13. ASSUME NEW t \in Threads, SaveInterrupted(t) PROVE Frame
  <2>1. KeepsThreads
    BY <1>13, <1>a DEF SaveInterrupted, KeepsThreads, ThreadType
  <2>2. KeepsCtx
    <3>1. thr[t].cur \in Ctx
      BY <1>13, <1>a, HoldingFacts DEF SaveInterrupted
    <3> QED
      BY <1>13, <1>a, <3>1, KeepsField DEF SaveInterrupted, KeepsCtx
  <2> QED
    BY <1>13, <1>e, <2>1, <2>2 DEF SaveInterrupted
<1>14. ASSUME NEW t \in Threads, InvokeReturn(t) PROVE Frame
  <2>1. KeepsThreads
    BY <1>14, <1>a DEF InvokeReturn, KeepsThreads, IdleThread
  <2> QED
    BY <1>14, <1>b, <1>e, <2>1 DEF InvokeReturn
<1>15. ASSUME \/ SsrBeforeShutdown \/ SsrAfterShutdown
              \/ SsrBeforePowerup \/ SsrAfterPowerup
       PROVE  Frame
  BY <1>15, <1>b, <1>c, <1>d
     DEF SsrBeforeShutdown, SsrAfterShutdown, SsrBeforePowerup, SsrAfterPowerup, Frame
<1>16. ASSUME NEW s \in Sessions, NotifyUsers(s) PROVE Frame
  <2>1. \A c \in Ctx : \/ ctx'[c] = ctx[c]
                       \/ ctx'[c] = [ctx[c] EXCEPT !.done = TRUE, !.rv = "reset",
                                                   !.work = ctx[c].work + 1]
    BY <1>16 DEF NotifyUsers
  <2>2. ASSUME NEW c \in Ctx PROVE Keeps(ctx[c], ctx'[c])
    <3> DEFINE w == ctx[c].work + 1
    <3>1. /\ Keeps(ctx[c], ctx[c])
          /\ Keeps(ctx[c], [ctx[c] EXCEPT !.done = TRUE, !.rv = "reset", !.work = w])
      BY <1>a, KeepsField
    <3> QED
      BY <2>1, <3>1
  <2>3. KeepsCtx
    BY <2>2 DEF KeepsCtx
  <2> QED
    BY <1>16, <1>d, <1>e, <2>3 DEF NotifyUsers
<1>17. ASSUME NEW s \in Sessions, FileOpen(s) \/ FileFreeStart(s) \/ FileFreeEnd(s)
       PROVE  Frame
  BY <1>17, <1>b, <1>d, <1>e DEF FileOpen, FileFreeStart, FileFreeEnd
<1>17a. ASSUME NEW t \in Threads, InitProcess(t) \/ InitFails(t) \/ InitOpened(t)
        PROVE  Frame
  <2>1. KeepsThreads
    BY <1>17a, InitShape, HoldingFacts DEF KeepsThreads
  <2> QED
    BY <1>17a, <1>b, <1>e, <2>1, InitShape
<1>18. ASSUME NEW s \in Sessions, FileFreeDsp(s) PROVE Frame
  <2>1. requests \subseteq RequestType
    BY DEF TypeOK
  <2>2. \/ requests' = {r \in requests : r.fl # s}
        \/ requests' = {IF r.fl = s THEN [r EXCEPT !.fl = NULL] ELSE r : r \in requests}
    BY <1>18 DEF FileFreeDsp
  <2>3. ASSUME NEW m \in requests' PROVE \E r \in requests : m.id = r.id /\ m.call = r.call
    <3>1. CASE m \in requests
      BY <3>1
    <3>2. CASE m \notin requests
      <4>1. PICK r \in requests : m = [r EXCEPT !.fl = NULL]
        BY <2>2, <3>2
      <4> QED
        BY <2>1, <4>1 DEF RequestType
    <3> QED
      BY <3>1, <3>2
  <2>4. KeepsMessages
    BY <1>18, <2>3 DEF FileFreeDsp, KeepsMessages, Messages
  <2> QED
    BY <1>18, <1>b, <1>d, <2>4 DEF FileFreeDsp, Frame
<1>19. ASSUME NEW s \in Sessions, DtorUnlink(s) PROVE Frame
  <2>1. KeepsCtx
    <3>1. PICK c \in Ctx : ctx' = [ctx EXCEPT ![c].list = "none"]
      BY <1>19 DEF DtorUnlink
    <3> QED
      BY <1>a, <3>1, KeepsField DEF KeepsCtx
  <2> QED
    BY <1>19, <1>d, <1>e, <2>1 DEF DtorUnlink
<1>20. ASSUME NEW r \in requests, NEW flag \in InterimFlags, DspInterim(r, flag)
       PROVE  Frame
  <2>1. [r EXCEPT !.sent = @ \cup {flag}].id = r.id
        /\ [r EXCEPT !.sent = @ \cup {flag}].call = r.call
    BY DEF TypeOK, RequestType
  <2>2. Response(r, flag).id = r.id /\ Response(r, flag).call = r.call
    BY DEF Response
  <2>3. KeepsMessages
    BY <1>20, <2>1, <2>2 DEF DspInterim, KeepsMessages, Messages
  <2> QED
    BY <1>20, <1>b, <1>d, <2>3 DEF DspInterim, Frame
<1>21. ASSUME NEW r \in requests, DspPoll(r) PROVE Frame
  <2>1. PICK w \in PollWords :
            ctx' = [ctx EXCEPT ![r.c].poll =
                        IF ctx[r.c].call = r.call THEN w ELSE @]
    BY <1>21 DEF DspPoll
  <2>2. ASSUME NEW c \in Ctx PROVE Keeps(ctx[c], ctx'[c])
    <3> DEFINE v == IF ctx[r.c].call = r.call THEN w ELSE ctx[r.c].poll
    <3>1. Keeps(ctx[c], ctx[c]) /\ Keeps(ctx[c], [ctx[c] EXCEPT !.poll = v])
      BY <1>a, KeepsField
    <3>2. ctx'[c] = ctx[c] \/ ctx'[c] = [ctx[c] EXCEPT !.poll = v]
      BY <1>a, <2>1
    <3> QED
      BY <3>1, <3>2
  <2>3. [r EXCEPT !.polled = TRUE].id = r.id /\ [r EXCEPT !.polled = TRUE].call = r.call
    BY DEF TypeOK, RequestType
  <2>4. KeepsMessages
    BY <1>21, <2>3 DEF DspPoll, KeepsMessages, Messages
  <2> QED
    BY <1>21, <1>d, <2>2, <2>4 DEF DspPoll, Frame, KeepsCtx
<1>22. ASSUME NEW r \in requests, DspFinish(r) PROVE Frame
  <2>1. \A flag : Response(r, flag).id = r.id /\ Response(r, flag).call = r.call
    BY DEF Response
  <2>2. KeepsMessages
    BY <1>22, <2>1 DEF DspFinish, KeepsMessages, Messages
  <2> QED
    BY <1>22, <1>b, <1>d, <2>2 DEF DspFinish, Frame
<1> QED
  BY <1>1, <1>2, <1>3, <1>4, <1>5, <1>6, <1>7, <1>8, <1>9, <1>10, <1>11, <1>12,
     <1>13, <1>14, <1>15, <1>16, <1>17, <1>17a, <1>18, <1>19, <1>20, <1>21, <1>22
     DEF Next, Invoke, ThreadStep, Ssr, FileFree

\* What the response handler leaves alone in every context.
LEMMA HandleKeeps ==
    ASSUME TypeOK, NEW m \in responses, HandleResponse(m)
    PROVE  /\ \A c \in Ctx : /\ ctx'[c].live = ctx[c].live
                             /\ ctx'[c].id = ctx[c].id
                             /\ ctx'[c].call = ctx[c].call
           /\ \A c \in Ctx : \/ ctx'[c].ans = ctx[c].ans
                             \/ /\ ctx'[c].ans = m.call
                                /\ c = ctxtable[m.id.idx]
                                /\ ctx[c].id = m.id
<1>1. ctx \in [Ctx -> CtxType] /\ \A c \in Ctx : ctx[c] \in CtxType
  BY DEF TypeOK
<1>2. \A c \in Ctx : \/ ctx'[c] = ctx[c]
                     \/ /\ ctx'[c] = NotifyUser(ctx[c], m)
                        /\ c = ctxtable[m.id.idx] /\ ctx[c].id = m.id
  BY <1>1 DEF HandleResponse, Accepts
<1>3. \A c \in Ctx : /\ Same(ctx[c], NotifyUser(ctx[c], m))
                     /\ NotifyUser(ctx[c], m).ans = m.call
  BY <1>1 DEF CtxType, NotifyUser, Same
<1> QED
  BY <1>2, <1>3 DEF Same

\* What context_alloc does when it publishes a context.
LEMMA PublishFacts ==
    ASSUME TypeOK, NEW t \in Threads, ContextPublish(t)
    PROVE  \E c \in Ctx, i \in Slots :
               /\ ~ctx[c].live /\ ctxtable[i] = NULL
               /\ ctxtable' = [ctxtable EXCEPT ![i] = c]
               /\ \A d \in Ctx \ {c} : ctx'[d] = ctx[d]
               /\ ctx'[c].live /\ ctx'[c].ans = 0
               /\ ctx'[c].id = CtxId(jobid + 1, i, thr[t].async)
               /\ \A u \in Threads \ {t} : thr'[u] = thr[u]
               /\ thr'[t].pc = "link"
<1>1. PICK c \in Ctx, i \in FreeSlots(thr[t].kind) :
          /\ ~ctx[c].live
          /\ ctxtable' = [ctxtable EXCEPT ![i] = c]
          /\ ctx' = [ctx EXCEPT ![c] =
                 [FreeCtx EXCEPT !.live = TRUE,
                                 !.id = CtxId(jobid + 1, i, thr[t].async),
                                 !.fl = SessionOf[t], !.pid = t,
                                 !.sc = thr[t].sc, !.kind = thr[t].kind,
                                 !.list = "fake", !.call = calls + 1]]
          /\ thr' = [thr EXCEPT ![t].pc = "link", ![t].cur = c,
                                ![t].call = calls + 1]
  BY DEF ContextPublish
<1>2. i \in Slots /\ ctxtable[i] = NULL
  BY ConstAssumption DEF FreeSlots, ScanRange, Slots
<1>3. /\ \A d \in Ctx \ {c} : ctx'[d] = ctx[d]
      /\ ctx'[c].live /\ ctx'[c].ans = 0
      /\ ctx'[c].id = CtxId(jobid + 1, i, thr[t].async)
  BY <1>1 DEF TypeOK, FreeCtx
<1>4. /\ \A u \in Threads \ {t} : thr'[u] = thr[u]
      /\ thr'[t].pc = "link"
  BY <1>1 DEF TypeOK, ThreadType
<1> QED
  BY <1>1, <1>2, <1>3, <1>4

\* The context a thread is about to free is live and its own.
LEMMA FreeFacts ==
    ASSUME TypeOK, OwnInv, NEW t \in Threads, thr[t].pc \in Holding
    PROVE  /\ thr[t].cur \in Ctx /\ thr[t].cur # NULL /\ ctx[thr[t].cur].live
           /\ ctx[thr[t].cur].call = thr[t].call
           /\ \A u \in Threads \ {t} : thr[u].cur # thr[t].cur
  BY ConstAssumption, OwnersDiffer DEF OwnInv, ThreadOwns

\* Table entries point to live contexts that know their entry, and the entry
\* of a context is gone before the context is.
LEMMA TableStep == ASSUME TypeOK, OwnInv, TableInv, [Next]_vars PROVE TableInv'
<1> USE ConstAssumption
<1>a. /\ ctxtable \in [Slots -> Ctx \cup {NULL}]
      /\ thr \in [Threads -> ThreadType] /\ ctx \in [Ctx -> CtxType]
      /\ \A i \in Slots : ctxtable[i] # NULL => ctxtable[i] \in Ctx
  BY DEF TypeOK
<1>1. CASE Frame
  BY <1>1, <1>a DEF Frame, KeepsCtx, Keeps, KeepsThreads, TableInv
<1>2. ASSUME NEW t \in Threads, ContextPublish(t) PROVE TableInv'
  <2>1. PICK c \in Ctx, i \in Slots :
               /\ ~ctx[c].live /\ ctxtable[i] = NULL
               /\ ctxtable' = [ctxtable EXCEPT ![i] = c]
               /\ \A d \in Ctx \ {c} : ctx'[d] = ctx[d]
               /\ ctx'[c].live /\ ctx'[c].ans = 0
               /\ ctx'[c].id = CtxId(jobid + 1, i, thr[t].async)
               /\ \A u \in Threads \ {t} : thr'[u] = thr[u]
               /\ thr'[t].pc = "link"
    BY <1>2, PublishFacts
  <2>2. ctx'[c].id.idx = i
    BY <2>1 DEF CtxId
  <2>3. ASSUME NEW j \in Slots, ctxtable'[j] # NULL
        PROVE  ctx'[ctxtable'[j]].live /\ ctx'[ctxtable'[j]].id.idx = j
    <3>1. CASE j = i
      BY <3>1, <1>a, <2>1, <2>2
    <3>2. CASE j # i
      BY <2>3, <3>2, <1>a, <2>1 DEF TableInv
    <3> QED
      BY <3>1, <3>2
  <2>4. ASSUME NEW u \in Threads, thr'[u].pc = "unlink", NEW j \in Slots
        PROVE  ctxtable'[j] # thr'[u].cur
    <3>1. u # t /\ thr'[u] = thr[u] /\ thr[u].pc \in Holding
      BY <2>1, <2>4, HoldingFacts
    <3>2. thr[u].cur # c
      BY <3>1, <2>1, FreeFacts
    <3> QED
      BY <3>1, <3>2, <2>1, <2>4, <1>a DEF TableInv
  <2> QED
    BY <2>3, <2>4 DEF TableInv
<1>3. ASSUME NEW t \in Threads, TransportSend(t) PROVE TableInv'
  <2>1. KeepsThreads
    BY <1>3, <1>a DEF TransportSend, AfterSend, KeepsThreads, IdleThread, ThreadType
  <2> QED
    BY <1>3, <2>1 DEF TransportSend, KeepsThreads, TableInv
<1>4. ASSUME NEW t \in Threads, FreeSlot(t) PROVE TableInv'
  <2>1. /\ \A i \in Slots : ctxtable'[i] = IF ctxtable[i] = thr[t].cur THEN NULL
                                           ELSE ctxtable[i]
        /\ ctx' = ctx /\ thr[t].pc = "unslot"
    BY <1>4 DEF FreeSlot, ClearSlot
  <2>2. /\ \A u \in Threads \ {t} : thr'[u] = thr[u]
        /\ thr'[t].cur = thr[t].cur
    BY <1>4, <1>a, GotoMoves DEF FreeSlot
  <2>3. thr[t].cur \in Ctx /\ thr[t].cur # NULL
    BY <2>1, FreeFacts, HoldingFacts
  <2>4. ASSUME NEW u \in Threads, thr'[u].pc = "unlink", NEW j \in Slots
        PROVE  ctxtable'[j] # thr'[u].cur
    <3>1. CASE u = t
      BY <3>1, <2>1, <2>2, <2>3
    <3>2. CASE u # t
      <4>1. thr[u].cur # NULL
        BY <2>2, <2>4, <3>2, FreeFacts, HoldingFacts
      <4> QED
        BY <3>2, <4>1, <2>1, <2>2, <2>4 DEF TableInv
    <3> QED
      BY <3>1, <3>2
  <2> QED
    BY <2>1, <2>4 DEF TableInv
<1>5. ASSUME NEW t \in Threads, FreeLink(t) PROVE TableInv'
  <2>1. /\ ctxtable' = ctxtable /\ thr[t].pc = "unlink"
        /\ \A d \in Ctx \ {thr[t].cur} : ctx'[d] = ctx[d]
        /\ \A u \in Threads \ {t} : thr'[u] = thr[u]
        /\ thr'[t].pc = "return"
    BY <1>5, <1>a DEF FreeLink, ThreadType
  <2> QED
    BY <2>1, <1>a DEF TableInv
<1>6. ASSUME NEW m \in responses, HandleResponse(m) PROVE TableInv'
  <2>1. ctxtable' = ctxtable /\ thr' = thr
    BY <1>6 DEF HandleResponse
  <2> QED
    BY <1>6, <1>a, <2>1, HandleKeeps DEF TableInv
<1>7. ASSUME NEW s \in Sessions, DtorFree(s) PROVE TableInv'
  <2>1. /\ \A i \in Slots : ctxtable'[i] = IF ctxtable[i] = fl[s].dtor THEN NULL
                                           ELSE ctxtable[i]
        /\ \A d \in Ctx \ {fl[s].dtor} : ctx'[d] = ctx[d]
        /\ thr' = thr
    BY <1>7, <1>a DEF DtorFree, ClearSlot
  <2>2. ASSUME NEW u \in Threads, thr[u].pc = "unlink" PROVE thr[u].cur # NULL
    BY <2>2, FreeFacts, HoldingFacts
  <2> QED
    BY <1>a, <2>1, <2>2 DEF TableInv
<1> QED
  BY <1>1, <1>2, <1>3, <1>4, <1>5, <1>6, <1>7, FrameStep

\* Ids are never reused among live contexts and messages in flight.
LEMMA JobStep == ASSUME TypeOK, OwnInv, JobInv, [Next]_vars PROVE JobInv'
<1> USE ConstAssumption
<1>a. /\ jobid \in Nat
      /\ \A c \in Ctx : ctx[c].id \in Ids /\ ctx[c].id.job \in Nat
      /\ \A m \in Messages : m.id \in Ids /\ m.id.job \in Nat
      /\ thr \in [Threads -> ThreadType] /\ ctx \in [Ctx -> CtxType]
  BY DEF TypeOK, CtxType, Ids, Messages, RequestType, ResponseType
<1>1. CASE Frame
  BY <1>1, <1>a DEF Frame, KeepsCtx, Keeps, KeepsMessages, JobInv
<1>2. ASSUME NEW t \in Threads, ContextPublish(t) PROVE JobInv'
  <2>1. PICK c \in Ctx, i \in Slots :
               /\ ~ctx[c].live /\ ctxtable[i] = NULL
               /\ ctxtable' = [ctxtable EXCEPT ![i] = c]
               /\ \A d \in Ctx \ {c} : ctx'[d] = ctx[d]
               /\ ctx'[c].live /\ ctx'[c].ans = 0
               /\ ctx'[c].id = CtxId(jobid + 1, i, thr[t].async)
               /\ \A u \in Threads \ {t} : thr'[u] = thr[u]
               /\ thr'[t].pc = "link"
    BY <1>2, PublishFacts
  <2>2. ctx'[c].id.job = jobid + 1
    BY <2>1 DEF CtxId
  <2>3. jobid' = jobid + 1 /\ Messages' = Messages
    BY <1>2 DEF ContextPublish, Messages
  <2>4. \A d \in Ctx : ctx'[d].live => ctx'[d].id.job <= jobid'
    BY <1>a, <2>1, <2>2, <2>3 DEF JobInv
  <2>5. ASSUME NEW d \in Ctx, NEW e \in Ctx, ctx'[d].live, ctx'[e].live,
               ctx'[d].id = ctx'[e].id
        PROVE  d = e
    <3>1. ASSUME NEW x \in Ctx \ {c}, ctx'[x].live PROVE ctx'[x].id.job < jobid + 1
      BY <1>a, <2>1, <3>1 DEF JobInv
    <3>2. CASE d = c \/ e = c
      BY <2>2, <2>5, <3>1, <3>2, <1>a
    <3>3. CASE d # c /\ e # c
      BY <2>1, <2>5, <3>3 DEF JobInv
    <3> QED
      BY <3>2, <3>3
  <2>6. \A m \in Messages' : m.id.job <= jobid'
    BY <1>a, <2>3 DEF JobInv
  <2>7. ASSUME NEW d \in Ctx, NEW m \in Messages', ctx'[d].live, ctx'[d].id = m.id
        PROVE  m.call = ctx'[d].call
    <3>1. d # c
      BY <1>a, <2>2, <2>3, <2>7 DEF JobInv
    <3> QED
      BY <2>1, <2>3, <2>7, <3>1 DEF JobInv
  <2> QED
    BY <2>4, <2>5, <2>6, <2>7 DEF JobInv
<1>3. ASSUME NEW t \in Threads, TransportSend(t) PROVE JobInv'
  <2> DEFINE c == thr[t].cur
  <2>1. /\ c \in Ctx /\ ctx[c].live /\ ctx[c].call = thr[t].call
        /\ UNCHANGED <<ctx, jobid>>
    BY <1>3, FreeFacts, HoldingFacts DEF TransportSend
  <2>2. ASSUME NEW m \in Messages', m \notin Messages
        PROVE  m.id = ctx[c].id /\ m.call = ctx[c].call
    BY <1>3, <2>1, <2>2 DEF TransportSend, Messages, Request, Response
  <2>3. \A m \in Messages' : m.id.job <= jobid'
    BY <2>1, <2>2 DEF JobInv
  <2>4. ASSUME NEW d \in Ctx, NEW m \in Messages', ctx'[d].live, ctx'[d].id = m.id
        PROVE  m.call = ctx'[d].call
    <3>1. CASE m \in Messages
      BY <2>1, <2>4, <3>1 DEF JobInv
    <3>2. CASE m \notin Messages
      <4>1. d = c
        BY <2>1, <2>2, <2>4, <3>2 DEF JobInv
      <4> QED
        BY <2>1, <2>2, <3>2, <4>1
    <3> QED
      BY <3>1, <3>2
  <2> QED
    BY <2>1, <2>3, <2>4 DEF JobInv
<1>4. ASSUME NEW t \in Threads, FreeSlot(t) PROVE JobInv'
  BY <1>4 DEF FreeSlot, JobInv, Messages
<1>5. ASSUME NEW t \in Threads, FreeLink(t) PROVE JobInv'
  <2>1. /\ UNCHANGED <<jobid, requests, responses>>
        /\ \A d \in Ctx : ctx'[d] = ctx[d] \/ ~ctx'[d].live
    BY <1>5, <1>a DEF FreeLink, FreeCtx
  <2> QED
    BY <2>1 DEF JobInv, Messages
<1>6. ASSUME NEW m \in responses, HandleResponse(m) PROVE JobInv'
  <2>1. UNCHANGED jobid /\ Messages' \subseteq Messages
    BY <1>6 DEF HandleResponse, Messages
  <2> QED
    BY <1>6, <2>1, HandleKeeps DEF JobInv
<1>7. ASSUME NEW s \in Sessions, DtorFree(s) PROVE JobInv'
  <2>1. /\ UNCHANGED <<jobid, requests, responses>>
        /\ \A d \in Ctx : ctx'[d] = ctx[d] \/ ~ctx'[d].live
    BY <1>7, <1>a DEF DtorFree, FreeCtx
  <2> QED
    BY <2>1 DEF JobInv, Messages
<1> QED
  BY <1>1, <1>2, <1>3, <1>4, <1>5, <1>6, <1>7, FrameStep

\* A response is stored only in the context of its own call.
LEMMA AnswerStep ==
    ASSUME TypeOK, OwnInv, TableInv, JobInv, ResponseToOwnCall, [Next]_vars
    PROVE  ResponseToOwnCall'
<1> USE ConstAssumption
<1>a. ctx \in [Ctx -> CtxType]
  BY DEF TypeOK
<1>1. CASE Frame
  BY <1>1 DEF Frame, KeepsCtx, Keeps, ResponseToOwnCall
<1>2. ASSUME NEW t \in Threads, ContextPublish(t) PROVE ResponseToOwnCall'
  BY <1>2, PublishFacts DEF ResponseToOwnCall
<1>3. ASSUME NEW t \in Threads, TransportSend(t) \/ FreeSlot(t)
      PROVE  ResponseToOwnCall'
  BY <1>3 DEF TransportSend, FreeSlot, ResponseToOwnCall
<1>4. ASSUME NEW t \in Threads, FreeLink(t) PROVE ResponseToOwnCall'
  BY <1>4, <1>a DEF FreeLink, FreeCtx, ResponseToOwnCall
<1>5. ASSUME NEW s \in Sessions, DtorFree(s) PROVE ResponseToOwnCall'
  BY <1>5, <1>a DEF DtorFree, FreeCtx, ResponseToOwnCall
<1>6. ASSUME NEW m \in responses, HandleResponse(m) PROVE ResponseToOwnCall'
  <2>1. m \in Messages /\ m.id.idx \in Slots
    BY DEF Messages, TypeOK, ResponseType, Ids
  <2>2. ASSUME NEW c \in Ctx, c = ctxtable[m.id.idx], ctx[c].id = m.id
        PROVE  m.call = ctx[c].call
    BY <2>1, <2>2 DEF TableInv, JobInv
  <2> QED
    BY <1>6, <2>2, HandleKeeps DEF ResponseToOwnCall
<1> QED
  BY <1>1, <1>2, <1>3, <1>4, <1>5, <1>6, FrameStep

-----------------------------------------------------------------------------
(* The inductive invariant and the theorems.                               *)

IdInv == IndInv /\ TableInv /\ JobInv /\ ResponseToOwnCall

\* The table is empty and no message is under way.
LEMMA InitId == Init => IdInv
<1> SUFFICES ASSUME Init PROVE IndInv /\ TableInv /\ JobInv /\ ResponseToOwnCall
  BY DEF IdInv
<1>1. IndInv
  BY InitInv
<1>2. TableInv
  BY DEF Init, TableInv, IdleThread
<1>3. JobInv
  BY DEF Init, JobInv, FreeCtx, Messages
<1>4. ResponseToOwnCall
  BY DEF Init, FreeCtx, ResponseToOwnCall
<1> QED
  BY <1>1, <1>2, <1>3, <1>4

\* A step of any actor preserves ownership, table and ids together.
LEMMA IdStep == IdInv /\ [Next]_vars => IdInv'
  BY StepInv, TableStep, JobStep, AnswerStep DEF IdInv, IndInv

\* The invariant holds in every reachable state of the driver.
THEOREM IdInvariance == Spec => []IdInv
<1> QED
  BY InitId, IdStep, PTL DEF Spec

\* The context table never points to freed memory: each entry is empty or
\* holds a live context of this entry whose file is still open, whatever
\* threads, restarts and file releases do in between.
THEOREM TableSafe == Spec => []TableIsLive
<1>1. ASSUME IdInv PROVE TableIsLive
  <2>1. \A i \in Slots : ctxtable[i] # NULL => ctxtable[i] \in Ctx
    BY <1>1 DEF IdInv, IndInv, TypeOK
  <2>2. \A c \in Ctx : ctx[c].live => fl[ctx[c].fl].phase # "closed"
    BY <1>1 DEF IdInv, IndInv, OwnInv, Owned
  <2> QED
    BY <1>1, <2>1, <2>2 DEF IdInv, TableInv, TableIsLive
<1> QED
  BY <1>1, IdInvariance, PTL

\* fastrpc_handle_rpc_response delivers a response to the call it answers or
\* to nobody, however late it arrives and however often the slot and the
\* context's memory have been reused since.
THEOREM ResponseMatches == Spec => []ResponseToOwnCall
<1>1. IdInv => ResponseToOwnCall
  BY DEF IdInv
<1> QED
  BY <1>1, IdInvariance, PTL

-----------------------------------------------------------------------------
(* The calls of a session.                                                 *)

\* The program points of hfastrpc_wait_for_completion.
Waiting == {"switch", "try", "poll", "pollmode", "block", "save"}

NoMessage(call) == \A m \in Messages : m.call # call

\* The DSP works on the request, and the driver knows that it does: the result
\* has not come through the poll word, the DSP's flags were understood and the
\* context was not completed before the call went out.
Protected(r) == ~r.polled /\ "BAD" \notin r.sent /\ r.call \notin stale

\* The DSP works on the call and may write its buffers.
Busy(call) == \E r \in requests : r.call = call /\ Protected(r)

\* Somebody will complete the context, or has completed it for good.
Owed(c) ==
    \/ \E r \in requests : r.call = ctx[c].call
    \/ \E m \in responses : m.call = ctx[c].call /\ IsFinal(m.flag)
    \/ NotificationDue(ctx[c].fl)
    \/ ctx[c].done /\ ctx[c].work > 0

ThreadInv(t) ==
    LET c == thr[t].cur
    IN  /\ thr[t].pc \in {"link", "args", "send"} => NoMessage(thr[t].call)
        /\ thr[t].pc \in Waiting => Owed(c)
        /\ thr[t].pc = "put" => ctx[c].done
        /\ thr[t].pc = "link" => ~ctx[c].done /\ ctx[c].kind = thr[t].kind
        /\ thr[t].pc = "send" => ctx[c].poll = "zero"
        /\ thr[t].pc \in {"link", "args", "send"} => ctx[c].flags # "BAD"
        /\ thr[t].pc \in {"unslot", "unlink"} => ~Busy(thr[t].call)
        /\ thr[t].err = "ok" => /\ thr[t].pc \in {"unslot", "unlink", "return"}
                                /\ thr[t].call \in finished \cup stale
        /\ thr[t].pc = "alloc" => thr[t].err # "nokey"

\* A live context, against the messages of its call, the table and the reserve.
LiveInv(c) ==
    /\ ctx[c].call \in 1 .. calls
    /\ \A m \in Messages : m.call = ctx[c].call => m.id = ctx[c].id
    /\ \A r \in requests : r.call = ctx[c].call =>
           /\ r.c = c
           /\ r.fl = ctx[c].fl \/ (r.fl = NULL /\ fl[ctx[c].fl].phase = "dtor")
    /\ \/ ctxtable[ctx[c].id.idx] = c
       \/ \E t \in Threads : thr[t].pc = "unlink" /\ thr[t].cur = c
    /\ ctx[c].list = "interrupted" /\ fl[ctx[c].fl].phase = "open" => Owed(c)
    /\ ~Privileged(ctx[c].kind) => ctx[c].id.idx >= Reserved
    /\ \/ ctx[c].flags = "BAD" \/ ctx[c].done \/ ctx[c].poll # "zero"
       => ~Busy(ctx[c].call)
    /\ ctx[c].done => \/ ctx[c].call \in finished \cup stale
                      \/ ctx[c].rv = "reset" /\ NoMessage(ctx[c].call)
    /\ ctx[c].poll # "zero" => ctx[c].call \in finished

CtxInv(c) == IF ctx[c].live THEN LiveInv(c) ELSE ctx[c].call = 0

UniqueCalls ==
    \A c, d \in Ctx : ctx[c].live /\ ctx[d].live /\ ctx[c].call = ctx[d].call => c = d

\* A restart takes the DSP's processes, then the messages, with it.
ChanInv ==
    /\ chan.notified => chan.state = "down"
    /\ chan.notify # {} => chan.notified
    /\ chan.state # "up" => requests = {}
    /\ chan.state = "down" => responses = {}
    /\ \A s \in Sessions : fl[s].init =>
           fl[s].pd <= chan.ssr /\ (chan.state # "up" => fl[s].pd # chan.ssr)

MsgInv ==
    /\ \A m \in Messages : m.call \in 1 .. calls
    /\ \A r, q \in requests : r.call = q.call => r = q
    /\ \A r \in requests, m \in responses : r.call = m.call => ~IsFinal(m.flag)
    /\ \A r \in requests : r.polled => r.call \in finished
    /\ \A m \in responses : IsFinal(m.flag) => m.call \in finished
    /\ \A m \in responses : m.flag = "BAD" => ~Busy(m.call)

\* Who the DSP works for: an initialised session that is not torn down, and a
\* context that is not freed.
BufferInv ==
    \A r \in requests :
        /\ r.fl # NULL => fl[r.fl].phase \in {"open", "dspclose"} /\ fl[r.fl].init
        /\ Protected(r) /\ r.fl # NULL => ctx[r.c].live /\ ctx[r.c].call = r.call

CallInv ==
    /\ IdInv
    /\ \A t \in Threads : ThreadInv(t)
    /\ \A c \in Ctx : CtxInv(c)
    /\ UniqueCalls /\ ChanInv /\ MsgInv /\ BufferInv

\* A thread changed nothing in a context that the others rely on.
Settled(c) ==
    /\ ctx'[c].live = ctx[c].live /\ ctx'[c].id = ctx[c].id
    /\ ctx'[c].fl = ctx[c].fl /\ ctx'[c].kind = ctx[c].kind
    /\ ctx'[c].call = ctx[c].call
    /\ ctx'[c].flags \in {ctx[c].flags, "NORMAL"}
    /\ ctx'[c].poll \in {ctx[c].poll, "zero"}
    /\ ctx[c].done => ctx'[c].done
    /\ ctx'[c].done => ctx[c].done \/ ctx[c].poll # "zero"
    /\ ctx'[c].rv = ctx[c].rv \/ ctx[c].poll # "zero"
    /\ ctx'[c].list = "interrupted" => Owed(c)'

\* A step of one thread that leaves messages, table and sessions alone keeps
\* the invariant if the thread itself does.
LEMMA ThreadFrame ==
    ASSUME CallInv, IdInv', NEW t \in Threads, thr[t].pc # "unlink",
           UNCHANGED <<requests, responses, chan, calls, finished, stale, ctxtable>>,
           \A s \in Sessions :
               /\ fl'[s].phase = fl[s].phase
               /\ \/ fl'[s].pd = fl[s].pd /\ fl'[s].init = fl[s].init
                  \/ /\ fl'[s].init /\ fl'[s].pd <= chan.ssr
                     /\ chan.state # "up" => fl'[s].pd # chan.ssr,
           \A u \in Threads \ {t} : thr'[u] = thr[u],
           \A c \in Ctx : \/ ctx'[c] = ctx[c]
                          \/ Settled(c) /\ \A u \in Threads \ {t} : thr[u].cur # c,
           ThreadInv(t)'
    PROVE  CallInv'
<1>a. /\ \A c \in Ctx : ctx[c].live => ctx[c].fl \in Sessions
      /\ \A u \in Threads : /\ thr[u].pc \in Holding => thr[u].cur \in Ctx
                            /\ SessionOf[u] \in Sessions
      /\ \A r \in requests : r.fl \in Sessions \cup {NULL} /\ r.c \in Ctx
  BY ConstAssumption DEF CallInv, IdInv, IndInv, OwnInv, Owned, ThreadOwns, TypeOK, RequestType
<1>b. Messages' = Messages
  BY DEF Messages
<1>c. /\ \A call : NoMessage(call)' <=> NoMessage(call)
      /\ \A r : Protected(r)' <=> Protected(r)
      /\ \A call : Busy(call)' <=> Busy(call)
      /\ \A s : NotificationDue(s)' <=> NotificationDue(s)
  BY <1>b DEF NoMessage, Protected, Busy, NotificationDue
<1>d. \A c \in Ctx : ctx'[c] = ctx[c] => (Owed(c)' <=> Owed(c))
  BY <1>c DEF Owed
<1>1. ASSUME NEW u \in Threads \ {t} PROVE ThreadInv(u)'
  <2>1. ThreadInv(u) /\ thr'[u] = thr[u]
    BY DEF CallInv
  <2>2. thr[u].pc \in Holding => ctx'[thr[u].cur] = ctx[thr[u].cur]
    BY <1>a
  <2>3. /\ \A p \in Waiting : p \in Holding
        /\ {"link", "args", "send", "put", "unslot", "unlink"} \subseteq Holding
    BY HoldingFacts DEF Waiting
  <2> QED
    BY <1>a, <1>c, <1>d, <2>1, <2>2, <2>3 DEF ThreadInv
<1>2. ASSUME NEW c \in Ctx PROVE CtxInv(c)'
  <2>0. CtxInv(c)
    BY DEF CallInv
  <2>1. \A u \in Threads : thr[u].pc = "unlink" => thr'[u] = thr[u]
    OBVIOUS
  <2>2. CASE ctx'[c] = ctx[c]
    BY <1>a, <1>b, <1>c, <1>d, <2>0, <2>1, <2>2 DEF CtxInv, LiveInv
  <2>3. CASE Settled(c)
    BY <1>a, <1>b, <1>c, <2>0, <2>1, <2>3 DEF CtxInv, LiveInv, Settled
  <2> QED
    BY <2>2, <2>3
<1>3. UniqueCalls'
  <2>1. \A c \in Ctx : ctx'[c].live = ctx[c].live /\ ctx'[c].call = ctx[c].call
    BY DEF Settled
  <2> QED
    BY <2>1 DEF UniqueCalls, CallInv
<1>4. ChanInv' /\ MsgInv'
  BY <1>b, <1>c DEF ChanInv, MsgInv, CallInv
<1>5. BufferInv'
  <2>1. \A c \in Ctx : ctx'[c].live = ctx[c].live /\ ctx'[c].call = ctx[c].call
    BY DEF Settled
  <2> QED
    BY <1>a, <1>c, <2>1 DEF BufferInv, CallInv
<1> QED
  BY <1>1, <1>2, <1>3, <1>4, <1>5 DEF CallInv

\* What Goto and Fail do to a thread.
LEMMA MoveFacts ==
    ASSUME TypeOK, NEW t \in Threads, NEW pc, NEW err
    PROVE  /\ Goto(t, pc) =>
                /\ \A u \in Threads \ {t} : thr'[u] = thr[u]
                /\ thr'[t].pc = pc /\ thr'[t].cur = thr[t].cur /\ thr'[t].err = thr[t].err
                /\ thr'[t].call = thr[t].call /\ thr'[t].kind = thr[t].kind
           /\ Fail(t, pc, err) =>
                /\ \A u \in Threads \ {t} : thr'[u] = thr[u]
                /\ thr'[t].pc = pc /\ thr'[t].cur = thr[t].cur /\ thr'[t].err = err
                /\ thr'[t].call = thr[t].call /\ thr'[t].kind = thr[t].kind
  BY DEF Goto, Fail, ThreadType, TypeOK

\* What the invariant gives the thread that is about to move.
LEMMA Mine ==
    ASSUME CallInv, NEW t \in Threads
    PROVE  /\ TypeOK /\ ThreadInv(t) /\ SessionOf[t] \in Sessions
           /\ thr[t].pc \in Holding =>
                /\ thr[t].cur \in Ctx /\ ctx[thr[t].cur] \in CtxType
                /\ ctx[thr[t].cur].live /\ CtxInv(thr[t].cur) /\ LiveInv(thr[t].cur)
                /\ ctx[thr[t].cur].call = thr[t].call
                /\ ctx[thr[t].cur].fl = SessionOf[t]
                /\ ctx[thr[t].cur].list = IF thr[t].pc = "link" THEN "fake" ELSE "pending"
                /\ \A u \in Threads \ {t} : thr[u].cur # thr[t].cur
  BY ConstAssumption, OwnersDiffer
     DEF CallInv, IdInv, IndInv, OwnInv, ThreadOwns, TypeOK, CtxInv

\* Nothing but the threads changes.
Apart == UNCHANGED <<ctxtable, ctx, chan, requests, responses, calls, finished, stale>>

\* Messages and contexts are the same, so are the facts about them.
LEMMA ApartFacts ==
    ASSUME Apart
    PROVE  /\ \A call : NoMessage(call)' <=> NoMessage(call)
           /\ \A call : Busy(call)' <=> Busy(call)
           /\ \A c : Owed(c)' <=> Owed(c)
  BY DEF Apart, NoMessage, Messages, Protected, Busy, Owed, NotificationDue

\* A thread moves on and everything else stays.
LEMMA MoveStep ==
    ASSUME CallInv, IdInv', NEW t \in Threads, thr[t].pc # "unlink", Apart,
           \A s \in Sessions : /\ fl'[s].phase = fl[s].phase /\ fl'[s].pd = fl[s].pd
                               /\ fl'[s].init = fl[s].init,
           \A u \in Threads \ {t} : thr'[u] = thr[u],
           ThreadInv(t)'
    PROVE  CallInv'
  BY ThreadFrame DEF Apart

\* The ends of an invocation: nothing is held any more.
LEMMA LeaveStep ==
    ASSUME CallInv, IdInv', NEW t \in Threads, thr[t].pc # "unlink", Apart,
           \A s \in Sessions : /\ fl'[s].phase = fl[s].phase /\ fl'[s].pd = fl[s].pd
                               /\ fl'[s].init = fl[s].init,
           \A u \in Threads \ {t} : thr'[u] = thr[u],
           thr'[t].pc \in {"idle", "open", "return", "alloc"}, thr'[t].err \notin {"ok", "nokey"}
    PROVE  CallInv'
<1>1. ThreadInv(t)'
  BY DEF ThreadInv, Waiting
<1> QED
  BY <1>1, MoveStep

\* Steps of a thread that has no context, or that gives up before the message
\* is sent.
LEMMA BeforeSend ==
    ASSUME CallInv, IdInv', NEW t \in Threads
    PROVE  /\ \A kind \in Kinds, sc \in Scs, async \in BOOLEAN :
                InvokeNew(t, kind, sc, async) => CallInv'
           /\ AllocNoMem(t) \/ AllocFault(t) \/ ContextNoSlot(t) => CallInv'
           /\ GetArgsFail(t) \/ TransportFail(t) \/ InvokeReturn(t) => CallInv'
<1>a. TypeOK /\ ThreadInv(t) /\ thr \in [Threads -> ThreadType] /\ fl \in [Sessions -> SessionType]
  BY Mine DEF TypeOK
<1>1. ASSUME NEW kind \in Kinds, NEW sc \in Scs, NEW async \in BOOLEAN,
             InvokeNew(t, kind, sc, async)
      PROVE  CallInv'
  <2>1. /\ \A u \in Threads \ {t} : thr'[u] = thr[u]
        /\ thr'[t].pc \in {"return", "alloc"} /\ thr'[t].err \notin {"ok", "nokey"}
    BY <1>1, <1>a DEF InvokeNew
  <2>2. Apart /\ fl' = fl /\ thr[t].pc # "unlink"
    BY <1>1 DEF InvokeNew, Apart
  <2> QED
    BY <2>1, <2>2, LeaveStep
<1>b. ASSUME FreeUnlinked(SessionOf[t])
      PROVE  \A s \in Sessions : /\ fl'[s].phase = fl[s].phase /\ fl'[s].pd = fl[s].pd
                                 /\ fl'[s].init = fl[s].init
  BY <1>a, <1>b DEF FreeUnlinked, SessionType
<1>2. ASSUME AllocNoMem(t) PROVE CallInv'
  <2>1. Apart /\ fl' = fl /\ Fail(t, "return", "nomem") /\ thr[t].pc # "unlink"
    BY <1>2 DEF AllocNoMem, Apart
  <2> QED
    BY <1>a, <2>1, MoveFacts, LeaveStep
<1>3. ASSUME AllocFault(t) PROVE CallInv'
  <2>1. Apart /\ Fail(t, "return", "fault") /\ thr[t].pc # "unlink"
    BY <1>3 DEF AllocFault, Apart
  <2>2. FreeUnlinked(SessionOf[t])
    BY <1>3 DEF AllocFault
  <2> QED
    BY <1>a, <1>b, <2>1, <2>2, MoveFacts, LeaveStep
<1>4. ASSUME ContextNoSlot(t) PROVE CallInv'
  <2>1. Apart /\ Fail(t, "return", "nokey") /\ thr[t].pc # "unlink"
    BY <1>4 DEF ContextNoSlot, Apart
  <2>2. FreeUnlinked(SessionOf[t])
    BY <1>4 DEF ContextNoSlot
  <2>3. ThreadInv(t)'
    BY <1>a, <2>1, MoveFacts DEF ThreadInv, Waiting
  <2> QED
    BY <1>a, <1>b, <2>1, <2>2, <2>3, MoveFacts, MoveStep
<1>5. ASSUME GetArgsFail(t) \/ TransportFail(t) PROVE CallInv'
  <2>1. PICK err \in {"fault", "comm"} : Fail(t, "unslot", err)
    BY <1>5 DEF GetArgsFail, TransportFail
  <2>2. Apart /\ fl' = fl /\ thr[t].pc \in {"args", "send"}
    BY <1>5 DEF GetArgsFail, TransportFail, Apart
  <2>3. ~Busy(thr[t].call)
    BY <1>a, <2>2 DEF ThreadInv, NoMessage, Busy, Messages
  <2>4. ThreadInv(t)'
    BY <1>a, <2>1, <2>2, <2>3, MoveFacts, ApartFacts DEF ThreadInv, Waiting
  <2> QED
    BY <1>a, <2>1, <2>2, <2>4, MoveFacts, MoveStep
<1>6. ASSUME InvokeReturn(t) PROVE CallInv'
  <2>1. Apart /\ fl' = fl /\ thr[t].pc # "unlink"
    BY <1>6 DEF InvokeReturn, Apart
  <2>2. /\ \A u \in Threads \ {t} : thr'[u] = thr[u]
        /\ thr'[t].pc = "idle" /\ thr'[t].err = "none"
    BY <1>6, <1>a DEF InvokeReturn, IdleThread
  <2> QED
    BY <2>1, <2>2, LeaveStep
<1> QED
  BY <1>1, <1>2, <1>3, <1>4, <1>5, <1>6

\* Only this thread and its own context change.
Inside(t) ==
    /\ UNCHANGED <<ctxtable, chan, requests, responses, calls, finished, stale>>
    /\ \A s \in Sessions : /\ fl'[s].phase = fl[s].phase /\ fl'[s].pd = fl[s].pd
                           /\ fl'[s].init = fl[s].init
    /\ \A u \in Threads \ {t} : thr'[u] = thr[u]
    /\ \A d \in Ctx \ {thr[t].cur} : ctx'[d] = ctx[d]

\* The messages are the same.
LEMMA InsideFacts ==
    ASSUME NEW t \in Threads, Inside(t)
    PROVE  /\ \A call : NoMessage(call)' <=> NoMessage(call)
           /\ \A call : Busy(call)' <=> Busy(call)
           /\ \A s : NotificationDue(s)' <=> NotificationDue(s)
  BY DEF Inside, NoMessage, Messages, Protected, Busy, NotificationDue

\* A thread works on its own context.
LEMMA InsideStep ==
    ASSUME CallInv, IdInv', NEW t \in Threads, thr[t].pc \in Holding \ {"unlink"},
           Inside(t), NEW c \in Ctx, c = thr[t].cur, Settled(c), ThreadInv(t)'
    PROVE  CallInv'
<1>1. \A u \in Threads \ {t} : thr[u].cur # c
  BY Mine
<1>2. \A d \in Ctx : \/ ctx'[d] = ctx[d]
                     \/ Settled(d) /\ \A u \in Threads \ {t} : thr[u].cur # d
  BY <1>1 DEF Inside
<1> QED
  BY <1>2, ThreadFrame DEF Inside

\* A context of which nothing but its bookkeeping changed is still owed the
\* same.
LEMMA StillOwed ==
    ASSUME NEW t \in Threads, NEW c \in Ctx, Inside(t), Owed(c), ctx'[c].call = ctx[c].call,
           ctx'[c].fl = ctx[c].fl,
           ctx[c].done /\ ctx[c].work > 0 => ctx'[c].done /\ ctx'[c].work > 0
    PROVE  Owed(c)'
  BY InsideFacts DEF Owed, Inside

\* hfastrpc_wait_for_completion chooses how to wait.
LEMMA SwitchStep ==
    ASSUME CallInv, IdInv', NEW t \in Threads, WaitSwitch(t) PROVE CallInv'
<1>a. /\ TypeOK /\ ThreadInv(t) /\ thr[t].cur \in Ctx /\ LiveInv(thr[t].cur)
      /\ thr[t].pc = "switch" /\ thr[t].pc # "unlink"
  BY Mine, HoldingFacts DEF WaitSwitch
<1>b. Apart /\ fl' = fl
  BY DEF WaitSwitch, Apart
<1>c. Owed(thr[t].cur)
  BY <1>a DEF ThreadInv, Waiting
<1>1. \/ \E pc \in {"block", "try", "poll", "pollmode"} : Goto(t, pc)
      \/ ctx[thr[t].cur].flags = "BAD" /\ Fail(t, "unslot", "badr")
  <2>1. ctx[thr[t].cur].flags \in Flags
    BY <1>a DEF TypeOK, CtxType
  <2> QED
    BY <2>1 DEF WaitSwitch, Flags
<1>2. CASE \E pc \in {"block", "try", "poll", "pollmode"} : Goto(t, pc)
  <2>1. PICK pc \in {"block", "try", "poll", "pollmode"} : Goto(t, pc)
    BY <1>2
  <2>2. ThreadInv(t)'
    BY <1>a, <1>b, <1>c, <2>1, MoveFacts, ApartFacts DEF ThreadInv, Waiting
  <2> QED
    BY <1>a, <1>b, <2>1, <2>2, MoveFacts, MoveStep
<1>3. CASE ctx[thr[t].cur].flags = "BAD" /\ Fail(t, "unslot", "badr")
  <2>0. ctx[thr[t].cur].call = thr[t].call
    BY <1>a, Mine, HoldingFacts
  <2>1. ~Busy(thr[t].call)
    <3>1. ~Busy(ctx[thr[t].cur].call)
      BY <1>a, <1>3 DEF LiveInv
    <3> QED
      BY <2>0, <3>1
  <2>2. ThreadInv(t)'
    BY <1>a, <1>b, <1>3, <2>1, MoveFacts, ApartFacts DEF ThreadInv, Waiting
  <2> QED
    BY <1>a, <1>b, <1>3, <2>2, MoveFacts, MoveStep
<1> QED
  BY <1>1, <1>2, <1>3

\* A completion is taken, or the test at the end of the loop is made: the loop
\* is left when the work is done.
LEMMA LoopStep ==
    ASSUME CallInv, IdInv', NEW t \in Threads, thr[t].pc \in {"try", "block", "pollmode"},
           UNCHANGED <<ctxtable, fl, chan, requests, responses, calls, finished, stale>>,
           Goto(t, LoopTest(ctx[thr[t].cur].done)),
           \A d \in Ctx \ {thr[t].cur} : ctx'[d] = ctx[d],
           NEW k \in CtxType, k = ctx[thr[t].cur],
           NEW w, ctx'[thr[t].cur] = [k EXCEPT !.work = w]
                  \/ ctx'[thr[t].cur] = [k EXCEPT !.flags = "NORMAL"]
    PROVE  CallInv'
<1> PICK c \in Ctx : c = thr[t].cur
  BY Mine, HoldingFacts
<1>a. /\ TypeOK /\ ThreadInv(t) /\ LiveInv(c) /\ thr[t].pc \in Holding \ {"unlink"}
      /\ ctx[c].list = "pending"
  BY Mine, HoldingFacts
<1>b. thr[t].err # "ok"
  BY <1>a DEF ThreadInv, Waiting
<1>c. Owed(c)
  BY <1>a DEF ThreadInv, Waiting
<1>1. /\ ctx'[c].live = k.live /\ ctx'[c].id = k.id /\ ctx'[c].fl = k.fl
      /\ ctx'[c].kind = k.kind /\ ctx'[c].call = k.call /\ ctx'[c].poll = k.poll
      /\ ctx'[c].done = k.done /\ ctx'[c].rv = k.rv /\ ctx'[c].list = k.list
      /\ ctx'[c].flags \in {k.flags, "NORMAL"}
  BY DEF CtxType
<1>2. Settled(c)
  BY <1>1, <1>a DEF Settled
<1>3. /\ Inside(t) /\ thr'[t].cur = c /\ thr'[t].err = thr[t].err
      /\ thr'[t].pc = LoopTest(ctx[c].done)
  BY <1>a, MoveFacts DEF Inside
<1>4. CASE ctx[c].done
  <2>1. thr'[t].pc = "put"
    BY <1>3, <1>4 DEF LoopTest
  <2>2. ThreadInv(t)'
    BY <1>1, <1>3, <1>4, <1>b, <2>1 DEF ThreadInv, Waiting
  <2> QED
    BY <1>2, <1>3, <1>a, <2>2, InsideStep
<1>5. CASE ~ctx[c].done
  <2>1. thr'[t].pc = "switch"
    BY <1>3, <1>5 DEF LoopTest
  <2>2. Owed(c)'
    BY <1>1, <1>3, <1>5, <1>c, StillOwed
  <2>3. ThreadInv(t)'
    BY <1>1, <1>3, <1>b, <2>1, <2>2 DEF ThreadInv, Waiting
  <2> QED
    BY <1>2, <1>3, <1>a, <2>3, InsideStep
<1> QED
  BY <1>4, <1>5

\* The three ways through the loop, and the sleep that a signal ends.
LEMMA WaitStep ==
    ASSUME CallInv, IdInv', NEW t \in Threads,
           WaitTry(t) \/ WaitPollMode(t) \/ WaitBlock(t) \/ WaitInterrupted(t)
    PROVE  CallInv'
<1> PICK c \in Ctx : c = thr[t].cur
  BY Mine, HoldingFacts DEF WaitTry, WaitPollMode, WaitBlock, WaitInterrupted
<1>a. /\ TypeOK /\ ThreadInv(t) /\ ctx[c] \in CtxType
      /\ thr[t].pc \in {"try", "block", "pollmode"}
      /\ ctx \in [Ctx -> CtxType]
  BY Mine, HoldingFacts DEF WaitTry, WaitPollMode, WaitBlock, WaitInterrupted, TypeOK
<1>b. PICK k \in CtxType : k = ctx[c]
  BY <1>a
<1>c. UNCHANGED <<ctxtable, fl, chan, requests, responses, calls, finished, stale>>
  BY DEF WaitTry, WaitPollMode, WaitBlock, WaitInterrupted
<1>1. \/ /\ ctx' = [ctx EXCEPT ![c].work = @ - 1] \/ ctx' = [ctx EXCEPT ![c].flags = "NORMAL"]
         /\ Goto(t, LoopTest(ctx[c].done))
      \/ ctx' = ctx /\ (Goto(t, "block") \/ Fail(t, "save", "restart"))
  BY DEF WaitTry, WaitPollMode, WaitBlock, WaitInterrupted
<1>2. CASE /\ ctx' = [ctx EXCEPT ![c].work = @ - 1] \/ ctx' = [ctx EXCEPT ![c].flags = "NORMAL"]
           /\ Goto(t, LoopTest(ctx[c].done))
  <2>1. \A d \in Ctx \ {c} : ctx'[d] = ctx[d]
    BY <1>2, <1>a
  <2>2. PICK w : w = k.work - 1
    OBVIOUS
  <2>3. ctx'[c] = [k EXCEPT !.work = w] \/ ctx'[c] = [k EXCEPT !.flags = "NORMAL"]
    BY <1>2, <1>a, <1>b, <2>2
  <2> QED
    BY <1>2, <1>a, <1>b, <1>c, <2>1, <2>3, LoopStep
<1>3. CASE ctx' = ctx /\ (Goto(t, "block") \/ Fail(t, "save", "restart"))
  <2>1. Apart /\ fl' = fl /\ thr[t].pc # "unlink"
    BY <1>3, <1>a, <1>c DEF Apart
  <2>2. /\ \A u \in Threads \ {t} : thr'[u] = thr[u]
        /\ thr'[t].pc \in {"block", "save"} /\ thr'[t].cur = c
        /\ thr'[t].err \in {thr[t].err, "restart"}
    BY <1>3, <1>a, MoveFacts
  <2>3. Owed(c)
    BY <1>a DEF ThreadInv, Waiting
  <2>4. ThreadInv(t)'
    BY <1>a, <2>1, <2>2, <2>3, ApartFacts DEF ThreadInv, Waiting
  <2> QED
    BY <2>1, <2>2, <2>4, MoveStep
<1> QED
  BY <1>1, <1>2, <1>3

\* An early response: the word in the metadata is polled.
LEMMA PollStep ==
    ASSUME CallInv, IdInv', NEW t \in Threads, WaitPoll(t) PROVE CallInv'
<1> PICK c \in Ctx : c = thr[t].cur
  BY Mine, HoldingFacts DEF WaitPoll
<1>a. /\ TypeOK /\ ThreadInv(t) /\ ctx[c] \in CtxType /\ LiveInv(c)
      /\ thr[t].pc = "poll" /\ ctx[c].list = "pending" /\ ctx \in [Ctx -> CtxType]
      /\ thr[t].pc \in Holding \ {"unlink"}
  BY Mine, HoldingFacts DEF WaitPoll, TypeOK
<1>b. Owed(c) /\ thr[t].err # "ok"
  BY <1>a DEF ThreadInv, Waiting
<1>c. UNCHANGED <<ctxtable, fl, chan, requests, responses, calls, finished, stale>>
  BY DEF WaitPoll
<1>1. CASE ctx[c].poll # "zero"
  <2>k. PICK k \in CtxType : k = ctx[c]
    BY <1>a
  <2>1. PICK v : v = IF k.poll = "poll_response" THEN "dsp" ELSE k.rv
    OBVIOUS
  <2>2. ctx' = [ctx EXCEPT ![c].done = TRUE,
                       ![c].rv = IF ctx[c].poll = "poll_response" THEN "dsp" ELSE @]
    BY <1>1 DEF WaitPoll
  <2>3. ctx'[c] = [k EXCEPT !.done = TRUE, !.rv = v] /\ \A d \in Ctx \ {c} : ctx'[d] = ctx[d]
    BY <1>a, <2>1, <2>2, <2>k
  <2>4. /\ ctx'[c].live = k.live /\ ctx'[c].id = k.id /\ ctx'[c].fl = k.fl
        /\ ctx'[c].kind = k.kind /\ ctx'[c].call = k.call /\ ctx'[c].poll = k.poll
        /\ ctx'[c].done /\ ctx'[c].list = k.list /\ ctx'[c].flags = k.flags
    BY <2>3 DEF CtxType
  <2>5. Settled(c)
    BY <1>1, <1>a, <2>4, <2>k DEF Settled
  <2>6. /\ Goto(t, "put")
    BY <1>1 DEF WaitPoll
  <2>7. Inside(t) /\ thr'[t].cur = c /\ thr'[t].err = thr[t].err /\ thr'[t].pc = "put"
    BY <1>a, <1>c, <2>3, <2>6, MoveFacts DEF Inside
  <2>8. ThreadInv(t)'
    BY <1>b, <2>4, <2>7 DEF ThreadInv, Waiting
  <2> QED
    BY <1>a, <2>5, <2>7, <2>8, InsideStep
<1>2. CASE ctx[c].poll = "zero"
  <2>1. Apart /\ fl' = fl /\ thr[t].pc # "unlink"
    BY <1>2, <1>a, <1>c DEF WaitPoll, Apart
  <2>2. /\ \A u \in Threads \ {t} : thr'[u] = thr[u]
        /\ thr'[t].pc = IF ctx[c].done THEN "put" ELSE "block"
        /\ thr'[t].cur = c /\ thr'[t].err = thr[t].err
    BY <1>2, <1>a, MoveFacts DEF WaitPoll
  <2>3. ctx' = ctx
    BY <2>1 DEF Apart
  <2>4. ThreadInv(t)'
    BY <1>b, <2>1, <2>2, <2>3, ApartFacts DEF ThreadInv, Waiting
  <2> QED
    BY <2>1, <2>2, <2>4, MoveStep
<1> QED
  BY <1>1, <1>2

\* context_save_interrupted keeps the context for the restarted system call.
LEMMA SaveStep ==
    ASSUME CallInv, IdInv', NEW t \in Threads, SaveInterrupted(t) PROVE CallInv'
<1> PICK c \in Ctx : c = thr[t].cur
  BY Mine, HoldingFacts DEF SaveInterrupted
<1>a. /\ TypeOK /\ ThreadInv(t) /\ ctx[c] \in CtxType /\ LiveInv(c)
      /\ thr[t].pc = "save" /\ ctx \in [Ctx -> CtxType] /\ thr \in [Threads -> ThreadType]
      /\ thr[t].pc \in Holding \ {"unlink"}
  BY Mine, HoldingFacts DEF SaveInterrupted, TypeOK
<1>b. Owed(c) /\ thr[t].err # "ok"
  BY <1>a DEF ThreadInv, Waiting
<1>1. /\ ctx'[c] = [ctx[c] EXCEPT !.list = "interrupted"]
      /\ \A d \in Ctx \ {c} : ctx'[d] = ctx[d]
  BY <1>a DEF SaveInterrupted
<1>2. /\ ctx'[c].live = ctx[c].live /\ ctx'[c].id = ctx[c].id /\ ctx'[c].fl = ctx[c].fl
      /\ ctx'[c].kind = ctx[c].kind /\ ctx'[c].call = ctx[c].call /\ ctx'[c].poll = ctx[c].poll
      /\ ctx'[c].done = ctx[c].done /\ ctx'[c].rv = ctx[c].rv /\ ctx'[c].flags = ctx[c].flags
      /\ ctx'[c].work = ctx[c].work
  BY <1>1, <1>a DEF CtxType
<1>3. /\ \A u \in Threads \ {t} : thr'[u] = thr[u]
      /\ thr'[t].pc = "return" /\ thr'[t].err = thr[t].err
  BY <1>a DEF SaveInterrupted, ThreadType
<1>4. Inside(t)
  BY <1>1, <1>3 DEF SaveInterrupted, Inside
<1>5. Owed(c)'
  <2>1. ctx[c].done /\ ctx[c].work > 0 => ctx'[c].done /\ ctx'[c].work > 0
    BY <1>2
  <2> QED
    BY <1>2, <1>4, <1>b, <2>1, StillOwed
<1>6. Settled(c)
  BY <1>2, <1>5 DEF Settled
<1>7. ThreadInv(t)'
  BY <1>3, <1>b DEF ThreadInv, Waiting
<1> QED
  BY <1>4, <1>6, <1>7, <1>a, InsideStep

\* put_args and the result of the call.
LEMMA PutArgsStep ==
    ASSUME CallInv, IdInv', NEW t \in Threads, PutArgs(t) PROVE CallInv'
<1> PICK c \in Ctx : c = thr[t].cur
  BY Mine, HoldingFacts DEF PutArgs
<1>a. /\ TypeOK /\ ThreadInv(t) /\ LiveInv(c) /\ ctx[c].call = thr[t].call
      /\ thr[t].pc = "put" /\ thr[t].pc # "unlink"
  BY Mine, HoldingFacts DEF PutArgs
<1>b. Apart /\ fl' = fl /\ ctx[c].done /\ finished' = finished /\ stale' = stale
  BY <1>a DEF PutArgs, Apart, ThreadInv
<1>1. PICK err : Fail(t, "unslot", err) /\ (err = "ok" => ctx[c].rv = "dsp")
  <2>1. \E err \in {"fault", "ok", "reset", "unset"} :
           Fail(t, "unslot", err) /\ (err = "ok" => ctx[c].rv = "dsp")
    <3>1. CASE ctx[c].rv = "dsp"
      BY <3>1 DEF PutArgs
    <3>2. CASE ctx[c].rv # "dsp"
      BY <3>2 DEF PutArgs
    <3> QED
      BY <3>1, <3>2
  <2> QED
    BY <2>1
<1>2. ~Busy(thr[t].call) /\ (err = "ok" => thr[t].call \in finished \cup stale)
  BY <1>1, <1>a, <1>b DEF LiveInv
<1>3. /\ \A u \in Threads \ {t} : thr'[u] = thr[u]
      /\ thr'[t].pc = "unslot" /\ thr'[t].err = err /\ thr'[t].call = thr[t].call
  BY <1>1, <1>a, MoveFacts
<1>4. ThreadInv(t)'
  BY <1>2, <1>3, <1>b, ApartFacts DEF ThreadInv, Waiting
<1> QED
  BY <1>3, <1>4, <1>a, <1>b, MoveStep

\* get_args is done; the restart counts are compared.
LEMMA CheckStep ==
    ASSUME CallInv, IdInv', NEW t \in Threads, CheckSsr(t) PROVE CallInv'
<1> PICK c \in Ctx : c = thr[t].cur
  BY Mine, HoldingFacts DEF CheckSsr
<1>a. /\ TypeOK /\ ThreadInv(t) /\ ctx[c] \in CtxType /\ LiveInv(c)
      /\ thr[t].pc = "args" /\ ctx \in [Ctx -> CtxType] /\ ctx[c].list = "pending"
      /\ thr[t].pc \in Holding \ {"unlink"} /\ SessionOf[t] \in Sessions
  BY Mine, HoldingFacts DEF CheckSsr, TypeOK
<1>1. /\ ctx'[c] = [ctx[c] EXCEPT !.poll = "zero"]
      /\ \A d \in Ctx \ {c} : ctx'[d] = ctx[d]
  BY <1>a DEF CheckSsr
<1>2. /\ ctx'[c].live = ctx[c].live /\ ctx'[c].id = ctx[c].id /\ ctx'[c].fl = ctx[c].fl
      /\ ctx'[c].kind = ctx[c].kind /\ ctx'[c].call = ctx[c].call /\ ctx'[c].poll = "zero"
      /\ ctx'[c].done = ctx[c].done /\ ctx'[c].rv = ctx[c].rv /\ ctx'[c].flags = ctx[c].flags
      /\ ctx'[c].list = ctx[c].list
  BY <1>1, <1>a DEF CtxType
<1>3. /\ \A u \in Threads \ {t} : thr'[u] = thr[u]
      /\ thr'[t].cur = c /\ thr'[t].call = thr[t].call
      /\ \/ thr'[t].pc = "send" /\ thr'[t].err = thr[t].err
         \/ thr'[t].pc = "unslot" /\ thr'[t].err = "reset"
  BY <1>a, MoveFacts DEF CheckSsr
<1>4. Inside(t)
  BY <1>1, <1>3 DEF CheckSsr, Inside
<1>5. Settled(c)
  BY <1>2, <1>a DEF Settled
<1>6. NoMessage(thr[t].call) /\ ~Busy(thr[t].call) /\ thr[t].err # "ok"
  BY <1>a DEF ThreadInv, NoMessage, Busy, Messages
<1>7. ctx[c].flags # "BAD"
  BY <1>a DEF ThreadInv
<1>8. ThreadInv(t)'
  BY <1>2, <1>3, <1>4, <1>6, <1>7, <1>a, InsideFacts DEF ThreadInv, Waiting
<1> QED
  BY <1>4, <1>5, <1>8, <1>a, InsideStep

\* The context goes onto the pending list.
LEMMA LinkStep ==
    ASSUME CallInv, IdInv', NEW t \in Threads, ContextLink(t) PROVE CallInv'
<1> PICK c \in Ctx : c = thr[t].cur
  BY Mine, HoldingFacts DEF ContextLink
<1>a. /\ TypeOK /\ ThreadInv(t) /\ ctx[c] \in CtxType /\ LiveInv(c)
      /\ thr[t].pc = "link" /\ ctx \in [Ctx -> CtxType]
      /\ thr[t].pc \in Holding \ {"unlink"} /\ SessionOf[t] \in Sessions
      /\ fl \in [Sessions -> SessionType]
  BY Mine, HoldingFacts DEF ContextLink, TypeOK
<1>1. /\ ctx'[c] = [ctx[c] EXCEPT !.list = "pending"]
      /\ \A d \in Ctx \ {c} : ctx'[d] = ctx[d]
  BY <1>a DEF ContextLink
<1>2. /\ ctx'[c].live = ctx[c].live /\ ctx'[c].id = ctx[c].id /\ ctx'[c].fl = ctx[c].fl
      /\ ctx'[c].kind = ctx[c].kind /\ ctx'[c].call = ctx[c].call /\ ctx'[c].poll = ctx[c].poll
      /\ ctx'[c].done = ctx[c].done /\ ctx'[c].rv = ctx[c].rv /\ ctx'[c].flags = ctx[c].flags
      /\ ctx'[c].list = "pending"
  BY <1>1, <1>a DEF CtxType
<1>3. /\ \A u \in Threads \ {t} : thr'[u] = thr[u]
      /\ thr'[t].cur = c /\ thr'[t].call = thr[t].call
      /\ thr'[t].pc = "args" /\ thr'[t].err = thr[t].err
  BY <1>a, MoveFacts DEF ContextLink
<1>b. \A s \in Sessions : /\ fl'[s].phase = fl[s].phase /\ fl'[s].pd = fl[s].pd
                          /\ fl'[s].init = fl[s].init
  BY <1>a DEF ContextLink, SessionType
<1>4. Inside(t)
  BY <1>1, <1>3, <1>b DEF ContextLink, Inside
<1>5. Settled(c)
  BY <1>2 DEF Settled
<1>6. /\ NoMessage(thr[t].call) /\ ~ctx[c].done /\ thr[t].err # "ok"
      /\ ctx[c].flags # "BAD"
  BY <1>a DEF ThreadInv
<1>7. ThreadInv(t)'
  BY <1>2, <1>3, <1>4, <1>6, InsideFacts DEF ThreadInv, Waiting
<1> QED
  BY <1>4, <1>5, <1>7, <1>a, InsideStep

\* The restarted system call finds its context.
LEMMA ResumeStep ==
    ASSUME CallInv, IdInv', NEW t \in Threads, NEW kind \in Kinds, NEW sc \in Scs,
           InvokeResume(t, kind, sc)
    PROVE  CallInv'
<1>a. /\ TypeOK /\ ThreadInv(t) /\ ctx \in [Ctx -> CtxType] /\ thr \in [Threads -> ThreadType]
      /\ thr[t].pc = "idle"
      /\ UNCHANGED <<ctxtable, fl, chan, requests, responses, calls, finished, stale>>
  BY Mine DEF InvokeResume, TypeOK
<1>1. PICK c \in InterruptedOf(t) :
          IF ctx[c].sc = sc
          THEN /\ ctx' = [ctx EXCEPT ![c].list = "pending"]
               /\ thr' = [thr EXCEPT ![t] =
                      [pc |-> "switch", cur |-> c, kind |-> kind, sc |-> sc,
                       async |-> FALSE, err |-> "none", call |-> ctx[c].call]]
          ELSE Fail(t, "return", "inval") /\ UNCHANGED ctx
  BY DEF InvokeResume
<1>2. /\ c \in Ctx /\ ctx[c].fl = SessionOf[t] /\ ctx[c].list = "interrupted"
      /\ fl[SessionOf[t]].phase = "open" /\ ctx[c] \in CtxType
  BY <1>a DEF InvokeResume, InterruptedOf, Linked
<1>3. CASE ctx[c].sc # sc
  <2>1. Apart /\ fl' = fl /\ Fail(t, "return", "inval") /\ thr[t].pc # "unlink"
    BY <1>1, <1>3, <1>a DEF Apart
  <2> QED
    BY <1>a, <2>1, MoveFacts, LeaveStep
<1>4. CASE ctx[c].sc = sc
  <2>1. /\ ctx'[c] = [ctx[c] EXCEPT !.list = "pending"]
        /\ \A d \in Ctx \ {c} : ctx'[d] = ctx[d]
    BY <1>1, <1>2, <1>4, <1>a
  <2>2. /\ ctx'[c].live = ctx[c].live /\ ctx'[c].id = ctx[c].id /\ ctx'[c].fl = ctx[c].fl
        /\ ctx'[c].kind = ctx[c].kind /\ ctx'[c].call = ctx[c].call /\ ctx'[c].poll = ctx[c].poll
        /\ ctx'[c].done = ctx[c].done /\ ctx'[c].rv = ctx[c].rv /\ ctx'[c].flags = ctx[c].flags
        /\ ctx'[c].list = "pending" /\ ctx'[c].work = ctx[c].work
    BY <1>2, <2>1 DEF CtxType
  <2>3. /\ \A u \in Threads \ {t} : thr'[u] = thr[u]
        /\ thr'[t].pc = "switch" /\ thr'[t].cur = c /\ thr'[t].err = "none"
    BY <1>1, <1>4, <1>a
  <2>4. Settled(c)
    BY <2>2 DEF Settled
  <2>5. \A u \in Threads : thr[u].cur # c
    BY <1>2, ConstAssumption, HoldingFacts DEF CallInv, IdInv, IndInv, OwnInv, ThreadOwns
  <2>6. Owed(c)
    <3>1. ctx[c].live /\ CtxInv(c)
      BY <1>2 DEF CallInv, IdInv, IndInv, OwnInv, Owned
    <3> QED
      BY <1>2, <3>1 DEF CtxInv, LiveInv
  <2>7. Owed(c)'
    BY <1>a, <2>2, <2>6 DEF Owed, NotificationDue
  <2>8. ThreadInv(t)'
    BY <2>3, <2>7 DEF ThreadInv, Waiting
  <2> QED
    BY <1>a, <2>1, <2>3, <2>4, <2>5, <2>8, ThreadFrame
<1> QED
  BY <1>3, <1>4

\* The contexts and threads as the invariant describes them.
LEMMA Everybody ==
    ASSUME CallInv
    PROVE  /\ TypeOK /\ ChanInv /\ MsgInv /\ BufferInv /\ UniqueCalls
           /\ \A c \in Ctx : ctx[c] \in CtxType
           /\ \A c \in Ctx : CtxInv(c) /\ ctx[c].id.idx \in Slots
           /\ \A c \in Ctx : ctx[c].live =>
                /\ LiveInv(c) /\ ctx[c].fl \in Sessions
                /\ fl[ctx[c].fl].phase # "closed"
           /\ \A c \in Ctx : ctx[c].list # "none" => ctx[c].live
           /\ \A u \in Threads : /\ ThreadInv(u) /\ SessionOf[u] \in Sessions
                                 /\ thr[u].pc \notin Holding => thr[u].cur = NULL
           /\ \A u \in Threads : thr[u].pc # "idle" => fl[SessionOf[u]].phase = "open"
           /\ \A u \in Threads : thr[u].pc \in Holding =>
                /\ thr[u].cur \in Ctx /\ ctx[thr[u].cur].live
                /\ ctx[thr[u].cur].call = thr[u].call
                /\ ctx[thr[u].cur].fl = SessionOf[u]
                /\ ctx[thr[u].cur].list = IF thr[u].pc = "link" THEN "fake" ELSE "pending"
           /\ \A r \in requests : r.fl \in Sessions \cup {NULL} /\ r.c \in Ctx /\ r \in RequestType
  <1>1. TypeOK /\ OwnInv
    BY DEF CallInv, IdInv, IndInv
  <1>2. \A c \in Ctx : ctx[c] \in CtxType /\ ctx[c].id.idx \in Slots
    BY <1>1 DEF TypeOK, CtxType, Ids
  <1>3. \A u \in Threads : ThreadOwns(u) /\ SessionOf[u] \in Sessions
    BY <1>1, ConstAssumption DEF OwnInv
  <1>4. \A c \in Ctx : Owned(c)
    BY <1>1 DEF OwnInv
  <1>5. \A r \in requests : r.fl \in Sessions \cup {NULL} /\ r.c \in Ctx /\ r \in RequestType
    BY <1>1 DEF TypeOK, RequestType
  <1> QED
    BY <1>1, <1>2, <1>3, <1>4, <1>5 DEF CallInv, CtxInv, ThreadOwns, Owned

\* The program points at which ThreadInv speaks of a context.
LEMMA Points ==
    /\ Waiting \subseteq Holding
    /\ {"link", "args", "send", "put", "unslot", "unlink"} \subseteq Holding
    /\ "idle" \notin Holding /\ "return" \notin Holding /\ "alloc" \notin Holding
    /\ Waiting \cap {"link", "args", "send", "put", "unslot", "unlink"} = {}
  BY HoldingFacts DEF Waiting

\* context_free clears the table entry first.
LEMMA FreeSlotStep ==
    ASSUME CallInv, IdInv', NEW t \in Threads, FreeSlot(t) PROVE CallInv'
<1> PICK c \in Ctx : c = thr[t].cur
  BY Mine, HoldingFacts DEF FreeSlot
<1>a. /\ TypeOK /\ ThreadInv(t) /\ thr[t].pc = "unslot"
  BY Mine DEF FreeSlot
<1>b. /\ UNCHANGED <<ctx, fl, chan, requests, responses, calls, finished, stale>>
      /\ \A i \in Slots : ctxtable'[i] = IF ctxtable[i] = c THEN NULL ELSE ctxtable[i]
  BY DEF FreeSlot, ClearSlot
<1>c. /\ \A u \in Threads \ {t} : thr'[u] = thr[u]
      /\ thr'[t].pc = "unlink" /\ thr'[t].cur = c /\ thr'[t].err = thr[t].err
      /\ thr'[t].call = thr[t].call
  BY <1>a, MoveFacts DEF FreeSlot
<1>d. /\ \A call : NoMessage(call)' <=> NoMessage(call)
      /\ \A r : Protected(r)' <=> Protected(r)
      /\ \A call : Busy(call)' <=> Busy(call)
      /\ \A d : Owed(d)' <=> Owed(d)
  BY <1>b DEF NoMessage, Messages, Protected, Busy, Owed, NotificationDue
<1>1. ThreadInv(t)'
  BY <1>a, <1>b, <1>c, <1>d DEF ThreadInv, Waiting
<1>2. ASSUME NEW u \in Threads \ {t} PROVE ThreadInv(u)'
  BY <1>b, <1>c, <1>d, Everybody DEF ThreadInv
<1>3. ASSUME NEW d \in Ctx PROVE CtxInv(d)'
  <2>1. CASE ~ctx[d].live
    BY <1>b, <2>1, Everybody DEF CtxInv
  <2>2. CASE ctx[d].live
    <3>1. LiveInv(d) /\ ctx[d].id.idx \in Slots
      BY <2>2, Everybody
    <3>2. \/ ctxtable'[ctx[d].id.idx] = d
          \/ \E u \in Threads : thr'[u].pc = "unlink" /\ thr'[u].cur = d
      <4>1. CASE d = c
        BY <1>c, <4>1
      <4>2. CASE d # c
        BY <1>a, <1>b, <1>c, <3>1, <4>2 DEF LiveInv
      <4> QED
        BY <4>1, <4>2
    <3>3. LiveInv(d)'
      BY <1>b, <1>d, <3>1, <3>2 DEF LiveInv, Messages
    <3> QED
      BY <1>b, <2>2, <3>3 DEF CtxInv
  <2> QED
    BY <2>1, <2>2
<1>4. UniqueCalls' /\ ChanInv' /\ MsgInv' /\ BufferInv'
  BY <1>b, <1>d DEF CallInv, UniqueCalls, ChanInv, MsgInv, Messages, BufferInv
<1> QED
  BY <1>1, <1>2, <1>3, <1>4 DEF CallInv

\* A context is freed: nobody refers to it but the thread that frees it.
LEMMA FreeFrame ==
    ASSUME CallInv, IdInv', NEW c \in Ctx,
           UNCHANGED <<requests, responses, chan, calls, finished, stale>>,
           \A s \in Sessions : /\ fl'[s].phase = fl[s].phase /\ fl'[s].pd = fl[s].pd
                               /\ fl'[s].init = fl[s].init,
           \A d \in Ctx \ {c} : ctx'[d] = ctx[d],
           ~ctx'[c].live, ctx'[c].call = 0,
           \A i \in Slots : ctxtable'[i] = ctxtable[i] \/ ctxtable[i] = c,
           \A u \in Threads : \/ thr'[u] = thr[u] /\ thr[u].cur # c
                              \/ ThreadInv(u)' /\ thr[u].cur = c,
           \A r \in requests : Protected(r) => r.fl = NULL \/ r.c # c
    PROVE  CallInv'
<1>a. /\ \A call : NoMessage(call)' <=> NoMessage(call)
      /\ \A r : Protected(r)' <=> Protected(r)
      /\ \A call : Busy(call)' <=> Busy(call)
      /\ \A d \in Ctx \ {c} : Owed(d)' <=> Owed(d)
  BY DEF NoMessage, Messages, Protected, Busy, Owed, NotificationDue
<1>1. ASSUME NEW u \in Threads PROVE ThreadInv(u)'
  <2>1. CASE thr'[u] = thr[u] /\ thr[u].cur # c
    <3>1. ThreadInv(u) /\ SessionOf[u] \in Sessions /\ (thr[u].pc \in Holding => thr[u].cur \in Ctx \ {c})
      BY <2>1, Everybody
    <3> QED
      BY <1>a, <2>1, <3>1, Points DEF ThreadInv
  <2> QED
    BY <2>1
<1>2. ASSUME NEW d \in Ctx PROVE CtxInv(d)'
  <2>1. CASE d = c
    BY <2>1 DEF CtxInv
  <2>2. CASE d # c /\ ~ctx[d].live
    BY <2>2, Everybody DEF CtxInv
  <2>3. CASE d # c /\ ctx[d].live
    <3>1. /\ LiveInv(d) /\ ctx[d].id.idx \in Slots /\ ctx'[d] = ctx[d]
          /\ ctx[d].fl \in Sessions
      BY <2>3, Everybody
    <3>2. \/ ctxtable'[ctx[d].id.idx] = d
          \/ \E u \in Threads : thr'[u].pc = "unlink" /\ thr'[u].cur = d
      BY <2>3, <3>1 DEF LiveInv
    <3>3. LiveInv(d)'
      BY <1>a, <2>3, <3>1, <3>2 DEF LiveInv, Messages
    <3> QED
      BY <2>3, <3>1, <3>3 DEF CtxInv
  <2> QED
    BY <2>1, <2>2, <2>3
<1>3. UniqueCalls'
  BY DEF CallInv, UniqueCalls
<1>4. ChanInv' /\ MsgInv'
  BY <1>a DEF CallInv, ChanInv, MsgInv, Messages
<1>5. BufferInv'
  BY <1>a, Everybody DEF BufferInv
<1> QED
  BY <1>1, <1>2, <1>3, <1>4, <1>5 DEF CallInv

\* ... and then the context.
LEMMA FreeLinkStep ==
    ASSUME CallInv, IdInv', NEW t \in Threads, FreeLink(t) PROVE CallInv'
<1> PICK c \in Ctx : c = thr[t].cur
  BY Mine, HoldingFacts DEF FreeLink
<1>a. /\ TypeOK /\ ThreadInv(t) /\ thr[t].pc = "unlink" /\ ctx[c].live
      /\ ctx[c].call = thr[t].call /\ ctx \in [Ctx -> CtxType]
      /\ thr \in [Threads -> ThreadType] /\ fl \in [Sessions -> SessionType]
      /\ \A u \in Threads \ {t} : thr[u].cur # c
  BY Mine, HoldingFacts DEF FreeLink, TypeOK
<1>b. UNCHANGED <<ctxtable, chan, requests, responses, calls, finished, stale>>
  BY DEF FreeLink
<1>c. \A s \in Sessions : /\ fl'[s].phase = fl[s].phase /\ fl'[s].pd = fl[s].pd
                          /\ fl'[s].init = fl[s].init
  BY <1>a DEF FreeLink, SessionType
<1>d. /\ \A d \in Ctx \ {c} : ctx'[d] = ctx[d]
      /\ ~ctx'[c].live /\ ctx'[c].call = 0
  BY <1>a DEF FreeLink, FreeCtx
<1>e. /\ \A u \in Threads \ {t} : thr'[u] = thr[u]
      /\ thr'[t].pc = "return" /\ thr'[t].err = thr[t].err /\ thr'[t].call = thr[t].call
  BY <1>a DEF FreeLink, ThreadType
<1>1. ThreadInv(t)'
  BY <1>a, <1>b, <1>e DEF ThreadInv, Waiting
<1>2. ASSUME NEW r \in requests, Protected(r) PROVE r.fl = NULL \/ r.c # c
  <2>1. ~Busy(thr[t].call)
    BY <1>a DEF ThreadInv
  <2> QED
    BY <1>2, <1>a, <2>1, Everybody DEF BufferInv, Busy
<1> QED
  BY <1>1, <1>2, <1>a, <1>b, <1>c, <1>d, <1>e, FreeFrame

\* hfastrpc_context_list_dtor frees a context of a session that is closed.
LEMMA DtorFreeStep ==
    ASSUME CallInv, IdInv', NEW s \in Sessions, DtorFree(s) PROVE CallInv'
<1> PICK c \in Ctx : c = fl[s].dtor
  BY Everybody DEF DtorFree, TypeOK, SessionType
<1>a. /\ fl[s].phase = "dtor" /\ ctx[c].live /\ ctx[c].list = "none" /\ ctx[c].fl = s
      /\ ctx \in [Ctx -> CtxType] /\ fl \in [Sessions -> SessionType] /\ c # NULL
  BY ConstAssumption DEF DtorFree, CallInv, IdInv, IndInv, OwnInv, DtorOwns, TypeOK
<1>b. UNCHANGED <<thr, chan, requests, responses, calls, finished, stale>>
  BY DEF DtorFree
<1>c. \A q \in Sessions : /\ fl'[q].phase = fl[q].phase /\ fl'[q].pd = fl[q].pd
                          /\ fl'[q].init = fl[q].init
  BY <1>a DEF DtorFree, SessionType
<1>d. /\ \A d \in Ctx \ {c} : ctx'[d] = ctx[d]
      /\ ~ctx'[c].live /\ ctx'[c].call = 0
  BY <1>a DEF DtorFree, FreeCtx
<1>e. \A i \in Slots : ctxtable'[i] = ctxtable[i] \/ ctxtable[i] = c
  BY DEF DtorFree, ClearSlot
<1>1. \A u \in Threads : thr'[u] = thr[u] /\ thr[u].cur # c
  BY <1>a, <1>b, Everybody
<1>2. ASSUME NEW r \in requests, Protected(r) PROVE r.fl = NULL \/ r.c # c
  <2>1. LiveInv(c)
    BY <1>a, Everybody
  <2> QED
    BY <1>2, <1>a, <2>1, Everybody DEF BufferInv, LiveInv
<1> QED
  BY <1>1, <1>2, <1>b, <1>c, <1>d, <1>e, FreeFrame

\* The messages, the DSP's results and the state of the channel change: the
\* threads, contexts and sessions do not.
LEMMA MessageFrame ==
    ASSUME CallInv, IdInv', UNCHANGED <<ctxtable, ctx, fl, thr, calls, stale>>,
           finished \subseteq finished',
           \A m \in Messages' : \E n \in Messages : n.call = m.call /\ n.id = m.id,
           \A r \in requests' : \E q \in requests :
               /\ q.call = r.call /\ q.c = r.c /\ q.fl = r.fl /\ (Protected(r) => Protected(q)),
           \A c \in Ctx : ctx[c].live /\ Owed(c) => Owed(c)',
           MsgInv', ChanInv'
    PROVE  CallInv'
<1>a. /\ \A call : NoMessage(call) => NoMessage(call)'
      /\ \A r : Protected(r)' <=> Protected(r)
      /\ \A call : Busy(call)' => Busy(call)
  BY DEF NoMessage, Protected, Busy
<1>1. ASSUME NEW u \in Threads PROVE ThreadInv(u)'
  <2>1. /\ ThreadInv(u) /\ SessionOf[u] \in Sessions
        /\ thr[u].pc \in Holding => thr[u].cur \in Ctx /\ ctx[thr[u].cur].live
    BY Everybody
  <2> QED
    BY <1>a, <2>1, Points DEF ThreadInv
<1>2. ASSUME NEW c \in Ctx PROVE CtxInv(c)'
  <2>1. CASE ~ctx[c].live
    BY <2>1, Everybody DEF CtxInv
  <2>2. CASE ctx[c].live
    <3>1. LiveInv(c)
      BY <2>2, Everybody
    <3>2. /\ \A m \in Messages' : m.call = ctx[c].call => m.id = ctx[c].id
          /\ \A r \in requests' : r.call = ctx[c].call =>
                /\ r.c = c
                /\ r.fl = ctx[c].fl \/ (r.fl = NULL /\ fl[ctx[c].fl].phase = "dtor")
      <4>1. ASSUME NEW r \in requests', r.call = ctx[c].call
            PROVE  r.c = c /\ (r.fl = ctx[c].fl \/ (r.fl = NULL /\ fl[ctx[c].fl].phase = "dtor"))
        <5>1. PICK q \in requests : q.call = r.call /\ q.c = r.c /\ q.fl = r.fl
          OBVIOUS
        <5> QED
          BY <3>1, <4>1, <5>1 DEF LiveInv
      <4> QED
        BY <3>1, <4>1 DEF LiveInv
    <3>3. LiveInv(c)'
      BY <1>a, <2>2, <3>1, <3>2 DEF LiveInv
    <3> QED
      BY <2>2, <3>3 DEF CtxInv
  <2> QED
    BY <2>1, <2>2
<1>3. UniqueCalls'
  BY DEF CallInv, UniqueCalls
<1>4. BufferInv'
  BY <1>a DEF CallInv, BufferInv
<1> QED
  BY <1>1, <1>2, <1>3, <1>4 DEF CallInv

\* The subsystem stops: its requests are gone and every session is due a
\* notification until the notifier has run.
LEMMA ShutdownStep ==
    ASSUME CallInv, IdInv', SsrBeforeShutdown \/ SsrAfterShutdown PROVE CallInv'
<1>a. /\ TypeOK /\ ChanInv /\ MsgInv
      /\ UNCHANGED <<ctxtable, ctx, fl, thr, calls, finished, stale>>
      /\ requests' = {} /\ responses' \subseteq responses
  BY Everybody DEF SsrBeforeShutdown, SsrAfterShutdown, ChanInv
<1>b. /\ chan'.state \in {"restarting", "down"} /\ chan'.notified = FALSE
      /\ chan'.notify = {}
      /\ chan'.state = "down" => responses' = {}
      /\ chan'.ssr >= chan.ssr /\ chan.ssr \in Nat /\ chan'.ssr \in Nat
      /\ chan.state = "up" => chan'.ssr = chan.ssr + 1
      /\ chan.state # "up" => chan'.ssr = chan.ssr
  <2>1. chan.ssr \in Nat /\ chan.notify = {} /\ chan.notified = FALSE
    BY <1>a DEF SsrBeforeShutdown, SsrAfterShutdown, TypeOK, ChanInv
  <2>2. CASE SsrBeforeShutdown
    BY <1>a, <2>1, <2>2 DEF SsrBeforeShutdown, TypeOK
  <2>3. CASE SsrAfterShutdown
    BY <1>a, <2>1, <2>3 DEF SsrAfterShutdown, TypeOK
  <2> QED
    BY <2>2, <2>3
<1>c. \A s \in Sessions : fl[s].init => /\ fl[s].pd <= chan'.ssr /\ fl[s].pd # chan'.ssr
                                        /\ fl[s].pd \in Nat
  <2>1. \A s \in Sessions : fl[s].pd \in Nat
    BY <1>a DEF TypeOK, SessionType
  <2> QED
    BY <1>a, <1>b, <2>1 DEF ChanInv
<1>1. ChanInv'
  BY <1>a, <1>b, <1>c DEF ChanInv
<1>2. MsgInv'
  BY <1>a DEF MsgInv, Messages, Busy
<1>3. \A c \in Ctx : Owed(c)'
  BY <1>b DEF Owed, NotificationDue
<1>4. \A m \in Messages' : \E n \in Messages : n.call = m.call /\ n.id = m.id
  BY <1>a DEF Messages
<1> QED
  BY <1>1, <1>2, <1>3, <1>4, <1>a, MessageFrame

\* The notifier starts with every session that is open, and the subsystem
\* comes back when it has visited them all.
LEMMA PowerupStep ==
    ASSUME CallInv, IdInv', SsrBeforePowerup \/ SsrAfterPowerup PROVE CallInv'
<1>a. /\ TypeOK /\ ChanInv /\ MsgInv
      /\ UNCHANGED <<ctxtable, ctx, fl, thr, calls, finished, stale, requests, responses>>
      /\ requests = {} /\ responses = {} /\ chan'.ssr = chan.ssr /\ chan.state = "down"
  BY Everybody DEF SsrBeforePowerup, SsrAfterPowerup, ChanInv, TypeOK
<1>b. ChanInv'
  <2>1. CASE SsrBeforePowerup
    BY <1>a, <2>1 DEF ChanInv, SsrBeforePowerup, TypeOK
  <2>2. CASE SsrAfterPowerup
    BY <1>a, <2>2 DEF ChanInv, SsrAfterPowerup, TypeOK
  <2> QED
    BY <2>1, <2>2
<1>1. MsgInv'
  BY <1>a DEF MsgInv, Messages, Busy
<1>2. ASSUME NEW c \in Ctx, ctx[c].live, Owed(c) PROVE Owed(c)'
  <2>1. CASE SsrBeforePowerup
    <3>1. ctx[c].fl \in chan'.notify /\ chan'.state = "down"
      BY <1>2, <1>a, <2>1, Everybody DEF SsrBeforePowerup, TypeOK
    <3> QED
      BY <1>a, <3>1 DEF Owed, NotificationDue
  <2>2. CASE SsrAfterPowerup
    BY <1>2, <1>a, <2>2 DEF SsrAfterPowerup, Owed, NotificationDue
  <2> QED
    BY <2>1, <2>2
<1> QED
  BY <1>1, <1>2, <1>a, <1>b, MessageFrame DEF Messages

\* What the DSP sends is about the call it works on.
LEMMA DspStep ==
    ASSUME CallInv, IdInv', NEW r \in requests,
           DspFinish(r) \/ \E flag \in InterimFlags : DspInterim(r, flag)
    PROVE  CallInv'
<1>a. /\ TypeOK /\ ChanInv /\ MsgInv /\ r \in RequestType
      /\ UNCHANGED <<ctxtable, ctx, fl, thr, chan, calls, stale>>
  BY Everybody DEF DspInterim, DspFinish
<1>b. chan.state = "up"
  BY <1>a DEF ChanInv
<1>c. InterimFlags \subseteq {"USER_EARLY", "EARLY", "POLL", "BAD"}
  BY ConstAssumption
<1>1. PICK flag, q :
        /\ responses' = responses \cup {Response(r, flag)}
        /\ \/ /\ requests' = requests \ {r} /\ finished' = finished \cup {r.call}
              /\ IsFinal(flag)
           \/ /\ requests' = (requests \ {r}) \cup {q} /\ finished' = finished
              /\ flag \in InterimFlags /\ ~IsFinal(flag)
              /\ q.id = r.id /\ q.call = r.call /\ q.c = r.c /\ q.fl = r.fl
              /\ q.polled = r.polled /\ q.sent = r.sent \cup {flag}
  <2>1. CASE DspFinish(r)
    BY <2>1 DEF DspFinish, IsFinal
  <2>2. ASSUME NEW flag \in InterimFlags, DspInterim(r, flag)
        PROVE  /\ responses' = responses \cup {Response(r, flag)}
               /\ flag \in InterimFlags /\ ~IsFinal(flag) /\ finished' = finished
               /\ \E q : /\ requests' = (requests \ {r}) \cup {q}
                         /\ q.id = r.id /\ q.call = r.call /\ q.c = r.c /\ q.fl = r.fl
                         /\ q.polled = r.polled /\ q.sent = r.sent \cup {flag}
    <3>1. PICK q : q = [r EXCEPT !.sent = @ \cup {flag}]
      OBVIOUS
    <3>2. /\ q.id = r.id /\ q.call = r.call /\ q.c = r.c /\ q.fl = r.fl
          /\ q.polled = r.polled /\ q.sent = r.sent \cup {flag}
      BY <1>a, <3>1 DEF RequestType
    <3> QED
      BY <1>c, <2>2, <3>1, <3>2 DEF DspInterim, IsFinal
  <2> QED
    BY <2>1, <2>2
<1>d. PICK m : m = Response(r, flag)
  OBVIOUS
<1>2. /\ responses' = responses \cup {m}
      /\ m.id = r.id /\ m.call = r.call /\ m.flag = flag
  BY <1>1, <1>d DEF Response
<1>3. MsgInv'
  <2>1. \A n \in Messages' : n.call \in 1 .. calls
    BY <1>1, <1>2, <1>a DEF MsgInv, Messages
  <2>2. /\ \A p, q2 \in requests' : p.call = q2.call => p = q2
        /\ \A p \in requests' : p.polled => p.call \in finished'
    BY <1>1, <1>a DEF MsgInv
  <2>3. \A p \in requests', n \in responses' : p.call = n.call => ~IsFinal(n.flag)
    BY <1>1, <1>2, <1>a DEF MsgInv
  <2>4. \A n \in responses' : IsFinal(n.flag) => n.call \in finished'
    BY <1>1, <1>2, <1>a DEF MsgInv
  <2>5. ASSUME NEW n \in responses', n.flag = "BAD" PROVE ~Busy(n.call)'
    <3>1. CASE n \in responses
      BY <1>1, <1>a, <2>5, <3>1 DEF MsgInv, Busy, Protected
    <3>2. CASE n = m
      <4>1. flag = "BAD" /\ ~IsFinal(flag)
        BY <1>2, <2>5, <3>2 DEF IsFinal
      <4> QED
        BY <1>1, <1>2, <1>a, <2>2, <3>2, <4>1 DEF Busy, Protected
    <3> QED
      BY <1>2, <3>1, <3>2
  <2> QED
    BY <1>a, <2>1, <2>2, <2>3, <2>4, <2>5 DEF MsgInv
<1>4. ChanInv'
  BY <1>a, <1>b DEF ChanInv
<1>5. \A n \in Messages' : \E k \in Messages : k.call = n.call /\ k.id = n.id
  BY <1>1, <1>2 DEF Messages
<1>6. \A p \in requests' : \E k \in requests :
          /\ k.call = p.call /\ k.c = p.c /\ k.fl = p.fl /\ (Protected(p) => Protected(k))
  BY <1>1 DEF Protected
<1>7. \A c \in Ctx : Owed(c) => Owed(c)'
  BY <1>1, <1>2, <1>a DEF Owed, NotificationDue
<1> QED
  BY <1>1, <1>3, <1>4, <1>5, <1>6, <1>7, <1>a, MessageFrame

\* A context was written from outside, by the response handler, the notifier
\* or the DSP: its identity is the same and the rest still agrees with the
\* messages.
Written(c) ==
    /\ ctx'[c].live = ctx[c].live /\ ctx'[c].id = ctx[c].id /\ ctx'[c].fl = ctx[c].fl
    /\ ctx'[c].kind = ctx[c].kind /\ ctx'[c].call = ctx[c].call
    /\ ctx'[c].list = ctx[c].list /\ (ctx[c].done => ctx'[c].done)
    /\ \A t \in Threads : thr[t].cur = c =>
           /\ thr[t].pc # "link"
           /\ thr[t].pc = "send" => ctx'[c].poll = "zero"
           /\ thr[t].pc \in {"args", "send"} => ctx'[c].flags # "BAD"
    /\ \/ ctx'[c].flags = "BAD" \/ ctx'[c].done \/ ctx'[c].poll # "zero"
       => ~Busy(ctx[c].call)'
    /\ ctx'[c].done => \/ ctx[c].call \in finished' \cup stale
                       \/ ctx'[c].rv = "reset" /\ NoMessage(ctx[c].call)'
    /\ ctx'[c].poll # "zero" => ctx[c].call \in finished'

\* Contexts are written from outside while messages are lost or replaced.
LEMMA WriteFrame ==
    ASSUME CallInv, IdInv', UNCHANGED <<ctxtable, fl, thr, calls, stale>>,
           finished \subseteq finished',
           \A m \in Messages' : \E n \in Messages : n.call = m.call /\ n.id = m.id,
           \A r \in requests' : \E q \in requests :
               /\ q.call = r.call /\ q.c = r.c /\ q.fl = r.fl /\ (Protected(r) => Protected(q)),
           \A c \in Ctx : ctx'[c] = ctx[c] \/ (ctx[c].live /\ Written(c)),
           \A c \in Ctx : /\ ctx[c].live /\ ctx[c].list \in {"pending", "interrupted"}
                          /\ ctxtable[ctx[c].id.idx] = c /\ Owed(c)
                          => Owed(c)',
           MsgInv', ChanInv'
    PROVE  CallInv'
<1>a. /\ \A call : NoMessage(call) => NoMessage(call)'
      /\ \A r : Protected(r)' <=> Protected(r)
      /\ \A call : Busy(call)' => Busy(call)
  BY DEF NoMessage, Protected, Busy
<1>b. \A c \in Ctx : /\ ctx'[c].live = ctx[c].live /\ ctx'[c].id = ctx[c].id
                     /\ ctx'[c].fl = ctx[c].fl /\ ctx'[c].kind = ctx[c].kind
                     /\ ctx'[c].call = ctx[c].call /\ ctx'[c].list = ctx[c].list
                     /\ ctx[c].done => ctx'[c].done
  BY DEF Written
<1>1. ASSUME NEW u \in Threads PROVE ThreadInv(u)'
  <2>1. CASE thr[u].pc \notin Holding
    BY <2>1, Everybody, Points DEF ThreadInv
  <2>2. CASE thr[u].pc \in Holding
    <3>1. PICK c \in Ctx : c = thr[u].cur
      BY <2>2, Everybody
    <3>2. /\ ThreadInv(u) /\ SessionOf[u] \in Sessions /\ ctx[c].live /\ LiveInv(c)
          /\ \A v \in Threads \ {u} : thr[v].cur # c
          /\ ctx[c].list = IF thr[u].pc = "link" THEN "fake" ELSE "pending"
      BY <2>2, <3>1, Mine
    <3>3. thr[u].pc \in Waiting => Owed(c)'
      <4>1. thr[u].pc \in Waiting => ctx[c].list = "pending" /\ ctxtable[ctx[c].id.idx] = c
        BY <3>2, Points DEF LiveInv
      <4> QED
        BY <3>1, <3>2, <4>1 DEF ThreadInv
    <3>4. /\ thr[u].pc = "link" => ~ctx'[c].done /\ ctx'[c].kind = thr[u].kind
          /\ thr[u].pc = "put" => ctx'[c].done
          /\ thr[u].pc = "send" => ctx'[c].poll = "zero"
          /\ thr[u].pc \in {"link", "args", "send"} => ctx'[c].flags # "BAD"
      BY <1>b, <3>1, <3>2 DEF ThreadInv, Written
    <3> QED
      BY <1>a, <3>1, <3>2, <3>3, <3>4 DEF ThreadInv
  <2> QED
    BY <2>1, <2>2
<1>2. ASSUME NEW c \in Ctx PROVE CtxInv(c)'
  <2>1. CASE ~ctx[c].live
    BY <1>b, <2>1, Everybody DEF CtxInv
  <2>2. CASE ctx[c].live
    <3>1. LiveInv(c) /\ ctx[c].fl \in Sessions
      BY <2>2, Everybody
    <3>2. /\ \A m \in Messages' : m.call = ctx[c].call => m.id = ctx[c].id
          /\ \A r \in requests' : r.call = ctx[c].call =>
                /\ r.c = c
                /\ r.fl = ctx[c].fl \/ (r.fl = NULL /\ fl[ctx[c].fl].phase = "dtor")
      <4>1. ASSUME NEW r \in requests', r.call = ctx[c].call
            PROVE  r.c = c /\ (r.fl = ctx[c].fl \/ (r.fl = NULL /\ fl[ctx[c].fl].phase = "dtor"))
        <5>1. PICK q \in requests : q.call = r.call /\ q.c = r.c /\ q.fl = r.fl
          OBVIOUS
        <5> QED
          BY <3>1, <4>1, <5>1 DEF LiveInv
      <4> QED
        BY <3>1, <4>1 DEF LiveInv
    <3>3. ctx[c].list = "interrupted" /\ fl[ctx[c].fl].phase = "open" => Owed(c)'
      <4>1. ctx[c].list = "interrupted" => ctxtable[ctx[c].id.idx] = c
        BY <3>1, Everybody, Points DEF LiveInv
      <4> QED
        BY <2>2, <3>1, <4>1 DEF LiveInv
    <3>4. /\ \/ ctx'[c].flags = "BAD" \/ ctx'[c].done \/ ctx'[c].poll # "zero"
             => ~Busy(ctx[c].call)'
          /\ ctx'[c].done => \/ ctx[c].call \in finished' \cup stale
                             \/ ctx'[c].rv = "reset" /\ NoMessage(ctx[c].call)'
          /\ ctx'[c].poll # "zero" => ctx[c].call \in finished'
      <4>1. CASE ctx'[c] = ctx[c]
        BY <1>a, <3>1, <4>1 DEF LiveInv
      <4>2. CASE Written(c)
        BY <4>2 DEF Written
      <4> QED
        BY <4>1, <4>2
    <3>5. LiveInv(c)'
      BY <1>b, <3>1, <3>2, <3>3, <3>4 DEF LiveInv
    <3> QED
      BY <1>b, <2>2, <3>5 DEF CtxInv
  <2> QED
    BY <2>1, <2>2
<1>3. UniqueCalls'
  BY <1>b DEF CallInv, UniqueCalls
<1>4. BufferInv'
  BY <1>a, <1>b, Everybody DEF BufferInv
<1> QED
  BY <1>1, <1>2, <1>3, <1>4 DEF CallInv

\* fastrpc_notify_users completes every pending and interrupted call of the
\* session: nothing of the old life of the subsystem is left by then.
LEMMA NotifyStep ==
    ASSUME CallInv, IdInv', NEW s \in Sessions, NotifyUsers(s) PROVE CallInv'
<1>a. /\ TypeOK /\ ChanInv /\ MsgInv /\ s \in chan.notify
      /\ UNCHANGED <<ctxtable, fl, thr, calls, finished, stale, requests, responses>>
      /\ chan.state = "down" /\ chan.notified
  BY Everybody DEF NotifyUsers, ChanInv
<1>b. requests = {} /\ responses = {} /\ Messages' = {}
  BY <1>a DEF ChanInv, Messages
<1>c. /\ chan'.state = "down" /\ chan'.notified /\ chan'.notify = chan.notify \ {s}
      /\ chan'.ssr = chan.ssr
  BY <1>a DEF NotifyUsers, TypeOK
<1>1. ChanInv'
  BY <1>a, <1>c DEF ChanInv
<1>2. MsgInv'
  BY <1>a, <1>b DEF MsgInv, Busy
<1>3. ASSUME NEW c \in Ctx, Linked(c, s)
      PROVE  ctx[c].live /\ Written(c) /\ Owed(c)'
  <2>1. PICK k \in CtxType : k = ctx[c]
    BY Everybody
  <2>2. ctx'[c] = [k EXCEPT !.done = TRUE, !.rv = "reset", !.work = k.work + 1]
    BY <1>3, <2>1 DEF NotifyUsers
  <2>3. /\ ctx'[c].live = k.live /\ ctx'[c].id = k.id /\ ctx'[c].fl = k.fl
        /\ ctx'[c].kind = k.kind /\ ctx'[c].call = k.call /\ ctx'[c].poll = k.poll
        /\ ctx'[c].done /\ ctx'[c].list = k.list /\ ctx'[c].flags = k.flags
        /\ ctx'[c].rv = "reset" /\ ctx'[c].work > 0
    BY <2>2 DEF CtxType
  <2>4. k.list \in {"pending", "interrupted"} /\ ctx[c].live
    BY <1>3, <2>1, Everybody DEF Linked
  <2>5. LiveInv(c)
    BY <2>4, Everybody
  <2>6. \A t \in Threads : thr[t].cur = c =>
           /\ thr[t].pc # "link" /\ (thr[t].pc = "send" => k.poll = "zero")
           /\ thr[t].pc \in {"args", "send"} => k.flags # "BAD"
    BY <2>1, <2>4, Everybody, Points DEF ThreadInv
  <2>7. ~Busy(k.call)' /\ NoMessage(k.call)'
    BY <1>a, <1>b DEF Busy, NoMessage
  <2>8. Written(c)
    BY <1>a, <2>1, <2>3, <2>5, <2>6, <2>7 DEF Written, LiveInv
  <2>9. Owed(c)'
    BY <2>3 DEF Owed
  <2> QED
    BY <2>4, <2>8, <2>9
<1>4. \A c \in Ctx : ~Linked(c, s) => ctx'[c] = ctx[c]
  BY DEF NotifyUsers
<1>5. ASSUME NEW c \in Ctx, ctx[c].live, ctx[c].list \in {"pending", "interrupted"}, Owed(c)
      PROVE  Owed(c)'
  <2>1. CASE Linked(c, s)
    BY <1>3, <2>1
  <2>2. CASE ~Linked(c, s)
    <3>1. ctx[c].fl # s /\ ctx'[c] = ctx[c]
      BY <1>4, <1>5, <2>2 DEF Linked
    <3> QED
      BY <1>5, <1>a, <1>b, <1>c, <3>1 DEF Owed, NotificationDue
  <2> QED
    BY <2>1, <2>2
<1>6. \A c \in Ctx : ctx'[c] = ctx[c] \/ (ctx[c].live /\ Written(c))
  BY <1>3, <1>4
<1> QED
  BY <1>1, <1>2, <1>5, <1>6, <1>a, <1>b, WriteFrame

\* fastrpc_handle_rpc_response finds the context of the call, because the id
\* is the call's own as long as the context is live.
LEMMA HandleStep ==
    ASSUME CallInv, IdInv', NEW m \in responses, HandleResponse(m) PROVE CallInv'
<1>a. /\ TypeOK /\ ChanInv /\ MsgInv
      /\ UNCHANGED <<ctxtable, fl, thr, calls, finished, stale, requests, chan>>
      /\ responses' = responses \ {m} /\ m \in Messages
      /\ m.id.idx \in Slots /\ ctx \in [Ctx -> CtxType]
  BY Everybody DEF HandleResponse, TypeOK, ResponseType, Ids, Messages
<1>b. Messages' \subseteq Messages
  BY <1>a DEF Messages
<1>c. ChanInv'
  BY <1>a DEF ChanInv
<1>d. MsgInv'
  BY <1>a, <1>b DEF MsgInv, Busy, Protected
<1>1. ASSUME NEW c \in Ctx, c = ctxtable[m.id.idx], ctx[c].id = m.id
      PROVE  /\ ctx[c].live /\ Written(c) /\ (IsFinal(m.flag) => Owed(c)')
             /\ ctx[c].done /\ ctx[c].work > 0 => ctx'[c].done /\ ctx'[c].work > 0
  <2>1. ctx[c].live /\ ctx[c].call = m.call
    BY <1>1, <1>a, ConstAssumption DEF CallInv, IdInv, TableInv, JobInv
  <2>2. PICK k \in CtxType : k = ctx[c]
    BY Everybody
  <2>3. ctx'[c] = NotifyUser(k, m)
    BY <1>1, <1>a, <2>2, ConstAssumption DEF HandleResponse, Accepts
  <2>4. /\ ctx'[c].live = k.live /\ ctx'[c].id = k.id /\ ctx'[c].fl = k.fl
        /\ ctx'[c].kind = k.kind /\ ctx'[c].call = k.call /\ ctx'[c].poll = k.poll
        /\ k.done \/ IsFinal(m.flag) => ctx'[c].done
        /\ ctx'[c].done => k.done \/ IsFinal(m.flag)
        /\ ctx'[c].list = k.list /\ ctx'[c].flags = m.flag
        /\ ctx'[c].rv = "dsp"
    BY <2>3 DEF NotifyUser, CtxType
  <2>5. /\ k.work \in Nat /\ ctx'[c].work \in {k.work, k.work + 1}
        /\ IsFinal(m.flag) => ctx'[c].work = k.work + 1
    BY <2>3 DEF NotifyUser, CtxType
  <2>6. LiveInv(c)
    BY <2>1, Everybody
  <2>7. \A t \in Threads : thr[t].cur = c => thr[t].pc \notin {"link", "args", "send"}
    BY <1>a, <2>1, Everybody, Points DEF ThreadInv, NoMessage
  <2>8. m.flag = "BAD" => ~Busy(m.call)
    BY <1>a DEF MsgInv
  <2>9. Busy(m.call)' => Busy(m.call) /\ ~IsFinal(m.flag)
    BY <1>a DEF Busy, Protected, MsgInv
  <2>10. /\ \/ ctx'[c].flags = "BAD" \/ ctx'[c].done \/ ctx'[c].poll # "zero"
            => ~Busy(m.call)'
         /\ ctx'[c].done => m.call \in finished \cup stale
         /\ ctx'[c].poll # "zero" => m.call \in finished
    <3>1. ~NoMessage(m.call)
      BY <1>a DEF NoMessage
    <3>2. IsFinal(m.flag) => m.call \in finished
      BY <1>a DEF MsgInv
    <3> QED
      BY <2>1, <2>2, <2>4, <2>6, <2>8, <2>9, <3>1, <3>2 DEF LiveInv
  <2>11. Written(c)
    BY <1>a, <2>1, <2>2, <2>4, <2>7, <2>10 DEF Written
  <2>12. IsFinal(m.flag) => Owed(c)'
    BY <2>4, <2>5 DEF Owed
  <2> QED
    BY <2>1, <2>2, <2>4, <2>5, <2>11, <2>12
<1>2. ASSUME NEW c \in Ctx, ~(c = ctxtable[m.id.idx] /\ ctx[c].id = m.id)
      PROVE  ctx'[c] = ctx[c]
  BY <1>2, <1>a DEF HandleResponse, Accepts
<1>3. ASSUME NEW c \in Ctx, ctx[c].live, ctxtable[ctx[c].id.idx] = c, Owed(c)
      PROVE  Owed(c)'
  <2>1. CASE c = ctxtable[m.id.idx] /\ ctx[c].id = m.id
    <3>0. ctx'[c].call = ctx[c].call /\ ctx'[c].fl = ctx[c].fl
      BY <1>1, <2>1 DEF Written
    <3>1. CASE IsFinal(m.flag)
      BY <1>1, <2>1, <3>1
    <3>2. CASE ~IsFinal(m.flag)
      BY <1>1, <1>3, <1>a, <2>1, <3>0, <3>2 DEF Owed, NotificationDue
    <3> QED
      BY <3>1, <3>2
  <2>2. CASE ~(c = ctxtable[m.id.idx] /\ ctx[c].id = m.id)
    <3>1. m.call # ctx[c].call
      BY <1>3, <1>a, <2>2, Everybody DEF LiveInv
    <3>2. ctx'[c] = ctx[c]
      BY <1>2, <2>2
    <3> QED
      BY <1>3, <1>a, <3>1, <3>2 DEF Owed, NotificationDue
  <2> QED
    BY <2>1, <2>2
<1>4. \A c \in Ctx : ctx'[c] = ctx[c] \/ (ctx[c].live /\ Written(c))
  BY <1>1, <1>2
<1> QED
  BY <1>3, <1>4, <1>a, <1>b, <1>c, <1>d, WriteFrame

\* The DSP delivers a result through the poll word of the call's own buffer.
LEMMA DspPollStep ==
    ASSUME CallInv, IdInv', NEW r \in requests, DspPoll(r) PROVE CallInv'
<1>a. /\ TypeOK /\ ChanInv /\ MsgInv /\ r \in RequestType /\ r.c \in Ctx
      /\ UNCHANGED <<ctxtable, fl, thr, calls, stale, responses, chan>>
      /\ finished' = finished \cup {r.call} /\ r \in Messages /\ ctx \in [Ctx -> CtxType]
      /\ r.call \in 1 .. calls /\ chan.state = "up"
  BY Everybody DEF DspPoll, TypeOK, Messages, MsgInv, ChanInv
<1>b. PICK q : /\ q = [r EXCEPT !.polled = TRUE]
               /\ requests' = (requests \ {r}) \cup {q}
  BY DEF DspPoll
<1>c. /\ q.id = r.id /\ q.call = r.call /\ q.c = r.c /\ q.fl = r.fl /\ q.polled
      /\ ~Protected(q)
  BY <1>a, <1>b DEF RequestType, Protected
<1>d. MsgInv'
  <2>1. \A n \in Messages' : n.call \in 1 .. calls
    BY <1>a, <1>b, <1>c DEF MsgInv, Messages
  <2>2. /\ \A p \in requests' : p = q \/ p \in requests \ {r}
        /\ \A p \in requests \ {r} : p.call # q.call
    BY <1>a, <1>b, <1>c DEF MsgInv
  <2>4. \A p, p2 \in requests' : p.call = p2.call => p = p2
    BY <1>a, <2>2 DEF MsgInv
  <2>5. \A p \in requests' : p.polled => p.call \in finished'
    BY <1>a, <1>c, <2>2 DEF MsgInv
  <2>6. \A p \in requests', n \in responses' : p.call = n.call => ~IsFinal(n.flag)
    BY <1>a, <1>c, <2>2 DEF MsgInv
  <2>3. /\ \A n \in responses' : IsFinal(n.flag) => n.call \in finished'
        /\ \A n \in responses' : n.flag = "BAD" => ~Busy(n.call)'
    BY <1>a, <1>c, <2>2 DEF MsgInv, Busy, Protected
  <2> QED
    BY <1>a, <2>1, <2>3, <2>4, <2>5, <2>6 DEF MsgInv
<1>e. ChanInv'
  BY <1>a DEF ChanInv
<1>g. PICK c \in Ctx : c = r.c
  BY <1>a
<1>1. \A d \in Ctx \ {c} : ctx'[d] = ctx[d]
  BY <1>a, <1>g DEF DspPoll
<1>2. CASE ctx[c].call = r.call
  <2>1. PICK k \in CtxType : k = ctx[c]
    BY Everybody
  <2>2. PICK w : ctx'[c] = [k EXCEPT !.poll = w]
    BY <1>2, <1>a, <1>g, <2>1 DEF DspPoll
  <2>3. /\ ctx'[c].live = k.live /\ ctx'[c].id = k.id /\ ctx'[c].fl = k.fl
        /\ ctx'[c].kind = k.kind /\ ctx'[c].call = k.call /\ ctx'[c].rv = k.rv
        /\ ctx'[c].done = k.done /\ ctx'[c].list = k.list /\ ctx'[c].flags = k.flags
        /\ ctx'[c].work = k.work
    BY <2>2 DEF CtxType
  <2>4. ctx[c].live /\ LiveInv(c)
    BY <1>2, <1>a, Everybody DEF CtxInv
  <2>5. \A t \in Threads : thr[t].cur = c => thr[t].pc \notin {"link", "args", "send"}
    BY <1>2, <1>a, Everybody, Points DEF ThreadInv, NoMessage
  <2>6. ~Busy(r.call)' /\ r.call \in finished'
    BY <1>a, <1>b, <1>c DEF Busy, Protected, MsgInv
  <2>7. Written(c)
    BY <1>2, <2>1, <2>3, <2>4, <2>5, <2>6 DEF Written, LiveInv
  <2>8. ASSUME NEW d \in Ctx, Owed(d) PROVE Owed(d)'
    <3>1. /\ ctx'[d].call = ctx[d].call /\ ctx'[d].fl = ctx[d].fl
          /\ ctx'[d].done = ctx[d].done /\ ctx'[d].work = ctx[d].work
      BY <1>1, <2>1, <2>3
    <3>2. (\E p \in requests : p.call = ctx[d].call) => \E p \in requests' : p.call = ctx[d].call
      BY <1>b, <1>c
    <3> QED
      BY <1>a, <2>8, <3>1, <3>2 DEF Owed, NotificationDue
  <2>9. \A d \in Ctx : ctx'[d] = ctx[d] \/ (ctx[d].live /\ Written(d))
    BY <1>1, <2>4, <2>7
  <2> QED
    BY <1>a, <1>b, <1>c, <1>d, <1>e, <2>8, <2>9, WriteFrame DEF Messages
<1>3. CASE ctx[c].call # r.call
  <2>1. \A d \in Ctx : ctx'[d] = ctx[d]
    BY <1>1, <1>3, <1>a, <1>g DEF DspPoll, CtxType
  <2>2. \A d \in Ctx : Owed(d) => Owed(d)'
    BY <1>a, <1>b, <1>c, <2>1 DEF Owed, NotificationDue
  <2> QED
    BY <1>a, <1>b, <1>c, <1>d, <1>e, <2>1, <2>2, WriteFrame DEF Messages
<1> QED
  BY <1>2, <1>3

\* context_alloc publishes a context of a call no message speaks of.
LEMMA PublishStep ==
    ASSUME CallInv, IdInv', NEW t \in Threads, ContextPublish(t) PROVE CallInv'
<1>a. /\ TypeOK /\ ThreadInv(t) /\ thr[t].pc = "alloc" /\ calls \in Nat /\ calls' = calls + 1
      /\ ctx \in [Ctx -> CtxType] /\ thr \in [Threads -> ThreadType]
      /\ ctxtable \in [Slots -> Ctx \cup {NULL}]
      /\ UNCHANGED <<fl, chan, requests, responses, finished, stale>>
  BY Mine DEF ContextPublish, TypeOK
<1>1. PICK c \in Ctx, i \in FreeSlots(thr[t].kind) :
          /\ ~ctx[c].live
          /\ ctxtable' = [ctxtable EXCEPT ![i] = c]
          /\ ctx' = [ctx EXCEPT ![c] =
                 [FreeCtx EXCEPT !.live = TRUE,
                                 !.id = CtxId(jobid + 1, i, thr[t].async),
                                 !.fl = SessionOf[t], !.pid = t,
                                 !.sc = thr[t].sc, !.kind = thr[t].kind,
                                 !.list = "fake", !.call = calls + 1]]
          /\ thr' = [thr EXCEPT ![t].pc = "link", ![t].cur = c,
                                ![t].call = calls + 1]
  BY DEF ContextPublish
<1>2. /\ i \in Slots /\ ctxtable[i] = NULL
      /\ ~Privileged(thr[t].kind) => i >= Reserved
  BY ConstAssumption DEF FreeSlots, ScanRange, Slots
<1>3. /\ \A d \in Ctx \ {c} : ctx'[d] = ctx[d]
      /\ ctx'[c].live /\ ctx'[c].id.idx = i /\ ctx'[c].fl = SessionOf[t]
      /\ ctx'[c].kind = thr[t].kind /\ ctx'[c].list = "fake" /\ ctx'[c].call = calls + 1
      /\ ~ctx'[c].done /\ ctx'[c].poll = "zero" /\ ctx'[c].flags = "NORMAL"
  BY <1>1, <1>a DEF FreeCtx, CtxId
<1>4. /\ \A u \in Threads \ {t} : thr'[u] = thr[u]
      /\ thr'[t].pc = "link" /\ thr'[t].cur = c /\ thr'[t].call = calls + 1
      /\ thr'[t].kind = thr[t].kind /\ thr'[t].err = thr[t].err
  BY <1>1, <1>a DEF ThreadType
<1>5. /\ ctxtable'[i] = c /\ \A j \in Slots \ {i} : ctxtable'[j] = ctxtable[j]
  BY <1>1, <1>2, <1>a
<1>b. \A m \in Messages : m.call \in 1 .. calls
  BY Everybody DEF MsgInv
<1>c. /\ \A call : NoMessage(call)' <=> NoMessage(call)
      /\ \A r : Protected(r)' <=> Protected(r)
      /\ \A call : Busy(call)' <=> Busy(call)
      /\ \A d \in Ctx \ {c} : Owed(d)' <=> Owed(d)
  BY <1>3, <1>a DEF NoMessage, Messages, Protected, Busy, Owed, NotificationDue
<1>d. Messages' = Messages
  BY <1>a DEF Messages
<1>6. NoMessage(calls + 1) /\ ~Busy(calls + 1)
  BY <1>a, <1>b DEF NoMessage, Busy, Messages
<1>7. ThreadInv(t)'
  BY <1>3, <1>4, <1>6, <1>a, <1>c DEF ThreadInv, Waiting
<1>8. ASSUME NEW u \in Threads \ {t} PROVE ThreadInv(u)'
  <2>1. /\ ThreadInv(u) /\ SessionOf[u] \in Sessions
        /\ thr[u].pc \in Holding => thr[u].cur \in Ctx \ {c}
    BY <1>1, Everybody
  <2> QED
    BY <1>3, <1>4, <1>a, <1>c, <2>1, Points DEF ThreadInv
<1>9. ASSUME NEW d \in Ctx PROVE CtxInv(d)'
  <2>1. CASE d = c
    <3>1. \A m \in Messages' : m.call # calls + 1
      BY <1>6, <1>d DEF NoMessage
    <3>2. \A r \in requests' : r.call # calls + 1
      BY <3>1 DEF Messages
    <3>3. calls + 1 \in 1 .. calls'
      BY <1>a
    <3>4. LiveInv(c)'
      BY <1>2, <1>3, <1>5, <3>1, <3>2, <3>3 DEF LiveInv
    <3> QED
      BY <1>3, <2>1, <3>4 DEF CtxInv
  <2>2. CASE d # c /\ ~ctx[d].live
    BY <1>3, <2>2, Everybody DEF CtxInv
  <2>3. CASE d # c /\ ctx[d].live
    <3>1. LiveInv(d) /\ ctx[d].id.idx \in Slots /\ ctx'[d] = ctx[d] /\ ctx[d].fl \in Sessions
      BY <1>3, <2>3, Everybody
    <3>2. \/ ctxtable'[ctx[d].id.idx] = d
          \/ \E u \in Threads : thr'[u].pc = "unlink" /\ thr'[u].cur = d
      <4>1. CASE ctxtable[ctx[d].id.idx] = d
        BY <1>2, <1>5, <3>1, <4>1, ConstAssumption
      <4>2. CASE \E u \in Threads : thr[u].pc = "unlink" /\ thr[u].cur = d
        BY <1>4, <1>a, <4>2
      <4> QED
        BY <3>1, <4>1, <4>2 DEF LiveInv
    <3>3. ctx[d].call \in 1 .. calls'
      BY <1>a, <3>1 DEF LiveInv
    <3>4. LiveInv(d)'
      BY <1>a, <1>c, <1>d, <2>3, <3>1, <3>2, <3>3 DEF LiveInv
    <3> QED
      BY <2>3, <3>1, <3>4 DEF CtxInv
  <2> QED
    BY <2>1, <2>2, <2>3
<1>10. UniqueCalls'
  <2>1. \A d \in Ctx : ctx[d].live => ctx[d].call # calls + 1
    BY <1>a, Everybody DEF LiveInv
  <2> QED
    BY <1>3, <2>1, Everybody DEF UniqueCalls
<1>11. ChanInv' /\ MsgInv'
  <2>1. \A m \in Messages' : m.call \in 1 .. calls'
    BY <1>a, <1>b, <1>d
  <2> QED
    BY <1>a, <1>c, <2>1, Everybody DEF ChanInv, MsgInv
<1>12. BufferInv'
  BY <1>1, <1>3, <1>a, <1>c, Everybody DEF BufferInv
<1> QED
  BY <1>7, <1>8, <1>9, <1>10, <1>11, <1>12 DEF CallInv

\* A message is added for the call of context c, which had none.
LEMMA SendFrame ==
    ASSUME CallInv, IdInv', NEW t \in Threads, NEW c \in Ctx, c = thr[t].cur,
           thr[t].pc = "send", UNCHANGED <<ctxtable, ctx, fl, chan, calls>>,
           \A u \in Threads \ {t} : thr'[u] = thr[u], ThreadInv(t)',
           requests \subseteq requests', responses \subseteq responses',
           finished \subseteq finished', stale' \in {stale, stale \cup {ctx[c].call}},
           \A m \in Messages' : m \in Messages \/ (m.call = ctx[c].call /\ m.id = ctx[c].id),
           \A r \in requests' : \/ r \in requests
                                \/ /\ r.call = ctx[c].call /\ r.c = c /\ r.fl = ctx[c].fl
                                   /\ PdExists(SessionOf[t]),
           ctx[c].done => \/ ctx[c].call \in finished' /\ requests' = requests
                          \/ ctx[c].call \in stale',
           MsgInv', ChanInv'
    PROVE  CallInv'
<1>a. /\ ThreadInv(t) /\ ctx[c].live /\ LiveInv(c) /\ ctx[c].call = thr[t].call
      /\ ctx[c].fl = SessionOf[t] /\ SessionOf[t] \in Sessions
      /\ \A u \in Threads \ {t} : thr[u].cur # c
  BY Mine, Points
<1>b. /\ \A call : call # ctx[c].call => (NoMessage(call) => NoMessage(call)')
      /\ \A r : Protected(r)' => Protected(r)
      /\ \A call : call # ctx[c].call => (Busy(call)' => Busy(call))
      /\ \A d \in Ctx : Owed(d) => Owed(d)'
  BY DEF NoMessage, Protected, Busy, Owed, NotificationDue
<1>c. \A d \in Ctx : ctx[d].live /\ d # c => ctx[d].call # ctx[c].call
  BY <1>a, Everybody DEF UniqueCalls
<1>1. ASSUME NEW u \in Threads \ {t} PROVE ThreadInv(u)'
  <2>1. /\ ThreadInv(u) /\ SessionOf[u] \in Sessions
        /\ thr[u].pc \in Holding => thr[u].cur \in Ctx /\ thr[u].call # ctx[c].call
    BY <1>a, <1>c, Everybody
  <2> QED
    BY <1>b, <2>1, Points DEF ThreadInv
<1>2. ASSUME NEW d \in Ctx, ctx[d].live PROVE LiveInv(d)'
  <2>1. LiveInv(d)
    BY <1>2, Everybody
  <2>u. \A u \in Threads : thr[u].pc = "unlink" => thr'[u] = thr[u]
    OBVIOUS
  <2>2. CASE d # c
    <3>1. /\ \A m \in Messages' : m.call = ctx[d].call => m \in Messages
          /\ \A r \in requests' : r.call = ctx[d].call => r \in requests
      BY <1>2, <1>c, <2>2
    <3>2. /\ NoMessage(ctx[d].call) => NoMessage(ctx[d].call)'
          /\ Busy(ctx[d].call)' => Busy(ctx[d].call)
      BY <1>2, <1>b, <1>c, <2>2
    <3> QED
      BY <1>b, <2>1, <2>u, <3>1, <3>2 DEF LiveInv
  <2>3. CASE d = c
    <3>1. ctx[c].poll = "zero" /\ NoMessage(ctx[c].call) /\ ctx[c].flags # "BAD"
      BY <1>a DEF ThreadInv
    <3>2. ctx[c].done => ~Busy(ctx[c].call)'
      BY <3>1 DEF Busy, Protected, NoMessage, Messages
    <3>3. ctx[c].done => ctx[c].call \in finished' \cup stale'
      OBVIOUS
    <3>4. /\ \A m \in Messages' : m.call = ctx[c].call => m.id = ctx[c].id
          /\ \A r \in requests' : r.call = ctx[c].call =>
                /\ r.c = c
                /\ r.fl = ctx[c].fl \/ (r.fl = NULL /\ fl[ctx[c].fl].phase = "dtor")
      BY <2>1, <2>3 DEF LiveInv
    <3> QED
      BY <1>b, <2>1, <2>3, <2>u, <3>1, <3>2, <3>3, <3>4 DEF LiveInv
  <2> QED
    BY <2>2, <2>3
<1>3. ASSUME NEW d \in Ctx PROVE CtxInv(d)'
  BY <1>2, Everybody DEF CtxInv
<1>4. UniqueCalls'
  BY Everybody DEF UniqueCalls
<1>5. BufferInv'
  <2>1. fl[SessionOf[t]].phase = "open"
    BY Everybody
  <2> QED
    BY <1>a, <1>b, <2>1, Everybody DEF BufferInv, PdExists
<1> QED
  BY <1>1, <1>3, <1>4, <1>5 DEF CallInv

\* The message is out: the DSP works on it, has answered at once, or is
\* stopping, in which case the notifier will visit the session.
LEMMA SendStep ==
    ASSUME CallInv, IdInv', NEW t \in Threads, TransportSend(t) PROVE CallInv'
<1> PICK c \in Ctx : c = thr[t].cur
  BY Mine, HoldingFacts DEF TransportSend
<1>a. /\ TypeOK /\ ThreadInv(t) /\ thr[t].pc = "send" /\ ctx[c].live /\ LiveInv(c)
      /\ ctx[c].call = thr[t].call /\ ctx[c].fl = SessionOf[t]
      /\ UNCHANGED <<ctxtable, ctx, fl, chan, calls>>
      /\ chan.state \in {"up", "restarting"} /\ ChanInv /\ MsgInv
      /\ thr \in [Threads -> ThreadType]
  BY Mine, Everybody, HoldingFacts DEF TransportSend, TypeOK
<1>b. NoMessage(ctx[c].call) /\ thr[t].err # "ok"
  BY <1>a DEF ThreadInv
<1>c. /\ \A u \in Threads \ {t} : thr'[u] = thr[u]
      /\ \/ thr'[t].pc = "idle" /\ thr'[t].err = "none"
         \/ thr'[t].pc = "switch" /\ thr'[t].cur = c /\ thr'[t].err = thr[t].err
  BY <1>a DEF TransportSend, AfterSend, IdleThread, ThreadType
<1>d. ASSUME Owed(c)' PROVE ThreadInv(t)'
  BY <1>b, <1>c, <1>d DEF ThreadInv, Waiting
<1>1. CASE chan.state = "up" /\ PdExists(SessionOf[t])
  <2>0. /\ requests' = requests \cup {Request(t)} /\ responses' = responses /\ finished' = finished
        /\ stale' = IF ctx[c].done THEN stale \cup {ctx[c].call} ELSE stale
    BY <1>1, <1>a DEF TransportSend
  <2>1. PICK r : r = Request(t)
    OBVIOUS
  <2>2. /\ requests' = requests \cup {r}
        /\ r.id = ctx[c].id /\ r.call = ctx[c].call /\ r.c = c /\ r.fl = ctx[c].fl /\ ~r.polled
    BY <1>a, <2>0, <2>1 DEF Request
  <2>3. Owed(c)'
    BY <1>a, <2>2 DEF Owed
  <2>4. MsgInv'
    <3>1. \A q \in requests : q.call # r.call
      BY <1>b, <2>2 DEF NoMessage, Messages
    <3>2. \A m \in responses : m.call # r.call
      BY <1>b, <2>2 DEF NoMessage, Messages
    <3>3. \A m \in Messages' : m.call \in 1 .. calls
      BY <1>a, <2>0, <2>2 DEF MsgInv, Messages, LiveInv
    <3>4. \A p, q \in requests' : p.call = q.call => p = q
      BY <1>a, <2>2, <3>1 DEF MsgInv
    <3>5. \A q \in requests', m \in responses' : q.call = m.call => ~IsFinal(m.flag)
      BY <1>a, <2>0, <2>2, <3>2 DEF MsgInv
    <3>6. \A m \in responses' : m.flag = "BAD" => ~Busy(m.call)'
      BY <1>a, <2>0, <2>2, <3>2 DEF MsgInv, Busy, Protected
    <3> QED
      BY <1>a, <2>0, <2>2, <3>3, <3>4, <3>5, <3>6 DEF MsgInv
  <2>5. ChanInv'
    BY <1>1, <1>a DEF ChanInv
  <2>6. \A m \in Messages' : m \in Messages \/ (m.call = ctx[c].call /\ m.id = ctx[c].id)
    BY <2>0, <2>2 DEF Messages
  <2>7. \A q \in requests' : \/ q \in requests
                             \/ /\ q.call = ctx[c].call /\ q.c = c /\ q.fl = ctx[c].fl
                                /\ PdExists(SessionOf[t])
    BY <1>1, <2>2
  <2> QED
    BY <1>1, <1>a, <1>b, <1>c, <1>d, <2>0, <2>2, <2>3, <2>4, <2>5, <2>6, <2>7, SendFrame
<1>2. CASE chan.state = "up" /\ ~PdExists(SessionOf[t])
  <2>0. /\ responses' = responses \cup {Response(Request(t), "NORMAL")} /\ requests' = requests
        /\ finished' = finished \cup {ctx[c].call} /\ stale' = stale
    BY <1>2, <1>a DEF TransportSend
  <2>1. PICK n : n = Response(Request(t), "NORMAL")
    OBVIOUS
  <2>2. /\ responses' = responses \cup {n}
        /\ n.id = ctx[c].id /\ n.call = ctx[c].call /\ n.flag = "NORMAL" /\ IsFinal(n.flag)
    BY <1>a, <2>0, <2>1 DEF Request, Response, IsFinal
  <2>3. Owed(c)'
    BY <1>a, <2>2 DEF Owed
  <2>4. MsgInv'
    <3>1. \A q \in requests : q.call # n.call
      BY <1>b, <2>2 DEF NoMessage, Messages
    <3>2. \A m \in Messages' : m.call \in 1 .. calls
      BY <1>a, <2>0, <2>2 DEF MsgInv, Messages, LiveInv
    <3>3. \A q \in requests', m \in responses' : q.call = m.call => ~IsFinal(m.flag)
      BY <1>a, <2>0, <2>2, <3>1 DEF MsgInv
    <3>4. \A m \in responses' : IsFinal(m.flag) => m.call \in finished'
      BY <1>a, <2>0, <2>2 DEF MsgInv
    <3>5. \A m \in responses' : m.flag = "BAD" => ~Busy(m.call)'
      BY <1>a, <2>0, <2>2 DEF MsgInv, Busy, Protected
    <3> QED
      BY <1>a, <2>0, <3>2, <3>3, <3>4, <3>5 DEF MsgInv
  <2>5. ChanInv'
    BY <1>2, <1>a DEF ChanInv
  <2>6. \A m \in Messages' : m \in Messages \/ (m.call = ctx[c].call /\ m.id = ctx[c].id)
    BY <2>0, <2>2 DEF Messages
  <2> QED
    BY <1>a, <1>c, <1>d, <2>0, <2>2, <2>3, <2>4, <2>5, <2>6, SendFrame
<1>3. CASE chan.state = "restarting"
  <2>1. UNCHANGED <<requests, responses, finished, stale>>
    BY <1>3 DEF TransportSend
  <2>2. Owed(c)'
    BY <1>3, <1>a DEF Owed, NotificationDue, ChanInv
  <2>3. Apart /\ thr[t].pc # "unlink"
    BY <1>a, <2>1 DEF Apart
  <2> QED
    BY <1>a, <1>c, <1>d, <2>2, <2>3, MoveStep
<1> QED
  BY <1>1, <1>2, <1>3, <1>a

\* Only one session changes, its requests with it and the lists its contexts
\* are on.
LEMMA SessionFrame ==
    ASSUME CallInv, IdInv', NEW s \in Sessions,
           UNCHANGED <<ctxtable, thr, chan, responses, calls, finished, stale>>,
           \A q \in Sessions \ {s} : fl'[q] = fl[q],
           \A c \in Ctx : ctx'[c] = ctx[c] \/ ctx'[c] = [ctx[c] EXCEPT !.list = "none"],
           \A r \in requests' : \E q \in requests :
               /\ q.call = r.call /\ q.id = r.id /\ q.c = r.c /\ q.polled = r.polled /\ q.sent = r.sent
               /\ r.fl = q.fl \/ (r.fl = NULL /\ q.fl = s /\ fl'[s].phase = "dtor"),
           \A c \in Ctx : ctx[c].live /\ fl[ctx[c].fl].phase = "open" /\ Owed(c) => Owed(c)',
           \A p, q \in requests' : p.call = q.call => p = q,
           \/ fl[s].phase = "closed"
           \/ fl[s].phase = "dtor" => fl'[s].phase \in {"dtor", "closed"},
           \/ fl[s].phase \in {"open", "closed"}
           \/ fl'[s].phase # "open",
           \A t \in Threads : SessionOf[t] = s /\ thr[t].pc # "idle" =>
               fl'[s].phase = "open",
           \A r \in requests' : r.fl = s /\ s # NULL =>
               fl'[s].phase \in {"open", "dspclose"} /\ fl'[s].init,
           fl'[s].init => fl'[s].pd <= chan.ssr /\ (chan.state # "up" => fl'[s].pd # chan.ssr)
    PROVE  CallInv'
<1>b. \A c \in Ctx : /\ ctx'[c].live = ctx[c].live /\ ctx'[c].id = ctx[c].id
                     /\ ctx'[c].fl = ctx[c].fl /\ ctx'[c].kind = ctx[c].kind
                     /\ ctx'[c].call = ctx[c].call /\ ctx'[c].list \in {ctx[c].list, "none"}
                     /\ ctx'[c].done = ctx[c].done /\ ctx'[c].poll = ctx[c].poll
                     /\ ctx'[c].flags = ctx[c].flags /\ ctx'[c].rv = ctx[c].rv
                     /\ ctx'[c].work = ctx[c].work
  <2> SUFFICES ASSUME NEW c \in Ctx
               PROVE  /\ ctx'[c].live = ctx[c].live /\ ctx'[c].id = ctx[c].id
                      /\ ctx'[c].fl = ctx[c].fl /\ ctx'[c].kind = ctx[c].kind
                      /\ ctx'[c].call = ctx[c].call /\ ctx'[c].list \in {ctx[c].list, "none"}
                      /\ ctx'[c].done = ctx[c].done /\ ctx'[c].poll = ctx[c].poll
                      /\ ctx'[c].flags = ctx[c].flags /\ ctx'[c].rv = ctx[c].rv
                      /\ ctx'[c].work = ctx[c].work
    OBVIOUS
  <2>1. PICK k \in CtxType : k = ctx[c]
    BY Everybody
  <2>2. ctx'[c] = k \/ ctx'[c] = [k EXCEPT !.list = "none"]
    BY <2>1
  <2> QED
    BY <2>1, <2>2 DEF CtxType
<1>a. /\ \A call : NoMessage(call) => NoMessage(call)'
      /\ \A r : Protected(r)' <=> Protected(r)
      /\ \A call : Busy(call)' => Busy(call)
  BY DEF NoMessage, Protected, Busy, Messages
<1>1. ASSUME NEW u \in Threads PROVE ThreadInv(u)'
  <2>1. CASE thr[u].pc \notin Holding
    BY <2>1, Everybody, Points DEF ThreadInv
  <2>2. CASE thr[u].pc \in Holding
    <3>1. PICK c \in Ctx : c = thr[u].cur
      BY <2>2, Everybody
    <3>2. /\ ThreadInv(u) /\ SessionOf[u] \in Sessions /\ ctx[c].live /\ ctx[c].fl = SessionOf[u]
          /\ thr[u].pc # "idle" /\ fl[SessionOf[u]].phase = "open"
      BY <2>2, <3>1, Everybody, Points
    <3>3. thr[u].pc \in Waiting => Owed(c)'
      BY <3>1, <3>2, Points DEF ThreadInv
    <3> QED
      BY <1>a, <1>b, <3>1, <3>2, <3>3 DEF ThreadInv
  <2> QED
    BY <2>1, <2>2
<1>2. ASSUME NEW c \in Ctx PROVE CtxInv(c)'
  <2>1. CASE ~ctx[c].live
    BY <1>b, <2>1, Everybody DEF CtxInv
  <2>2. CASE ctx[c].live
    <3>1. LiveInv(c) /\ ctx[c].fl \in Sessions /\ fl[ctx[c].fl].phase # "closed"
      BY <2>2, Everybody
    <3>2. fl'[ctx[c].fl].phase # "closed"
      BY <1>b, <2>2 DEF IdInv, IndInv, OwnInv, Owned
    <3>3. \A m \in Messages' : m.call = ctx[c].call => m.id = ctx[c].id
      BY <3>1 DEF LiveInv, Messages
    <3>4. ASSUME NEW r \in requests', r.call = ctx[c].call
          PROVE  /\ r.c = c
                 /\ r.fl = ctx[c].fl \/ (r.fl = NULL /\ fl'[ctx[c].fl].phase = "dtor")
      <4>1. PICK q \in requests :
               /\ q.call = r.call /\ q.id = r.id /\ q.c = r.c /\ q.polled = r.polled /\ q.sent = r.sent
               /\ r.fl = q.fl \/ (r.fl = NULL /\ q.fl = s /\ fl'[s].phase = "dtor")
        OBVIOUS
      <4>2. q.c = c /\ (q.fl = ctx[c].fl \/ (q.fl = NULL /\ fl[ctx[c].fl].phase = "dtor"))
        BY <3>1, <3>4, <4>1 DEF LiveInv
      <4>3. fl[ctx[c].fl].phase = "dtor" => fl'[ctx[c].fl].phase = "dtor"
        BY <3>1, <3>2
      <4> QED
        BY <4>1, <4>2, <4>3
    <3>5. ctx'[c].list = "interrupted" /\ fl'[ctx[c].fl].phase = "open" => Owed(c)'
      <4>1. ctx'[c].list = "interrupted" => ctx[c].list = "interrupted"
        BY <1>b
      <4>2. fl'[ctx[c].fl].phase = "open" => fl[ctx[c].fl].phase = "open"
        BY <3>1
      <4> QED
        BY <2>2, <3>1, <4>1, <4>2 DEF LiveInv
    <3>6. LiveInv(c)'
      BY <1>a, <1>b, <3>1, <3>3, <3>4, <3>5 DEF LiveInv
    <3> QED
      BY <1>b, <2>2, <3>6 DEF CtxInv
  <2> QED
    BY <2>1, <2>2
<1>3. UniqueCalls'
  BY <1>b, Everybody DEF UniqueCalls
<1>4. BufferInv'
  <2>1. ASSUME NEW r \in requests', r.fl # NULL
        PROVE  /\ fl'[r.fl].phase \in {"open", "dspclose"} /\ fl'[r.fl].init
               /\ Protected(r)' => ctx'[r.c].live /\ ctx'[r.c].call = r.call
    <3>1. PICK q \in requests : /\ q.call = r.call /\ q.c = r.c /\ q.polled = r.polled
                                /\ q.sent = r.sent /\ r.fl = q.fl
      BY <2>1
    <3>3. Protected(r)' => Protected(q)
      BY <3>1 DEF Protected
    <3>2. q.fl \in Sessions /\ q.c \in Ctx
      BY <2>1, <3>1, Everybody
    <3> QED
      BY <1>b, <2>1, <3>1, <3>2, <3>3, Everybody DEF BufferInv
  <2> QED
    BY <2>1 DEF BufferInv
<1>5. ChanInv'
  <2>1. requests = {} => requests' = {}
    OBVIOUS
  <2> QED
    BY <2>1, Everybody DEF ChanInv
<1>6. MsgInv'
  <2>1. \A m \in Messages' : m.call \in 1 .. calls
    BY Everybody DEF MsgInv, Messages
  <2>2. /\ \A r \in requests', m \in responses : r.call = m.call => ~IsFinal(m.flag)
        /\ \A r \in requests' : r.polled => r.call \in finished
    BY Everybody DEF MsgInv
  <2> QED
    BY <1>a, <2>1, <2>2, Everybody DEF MsgInv
<1> QED
  BY <1>1, <1>2, <1>3, <1>4, <1>5, <1>6 DEF CallInv

\* Opening and releasing a file.
LEMMA FileStep ==
    ASSUME CallInv, IdInv', NEW s \in Sessions,
           FileOpen(s) \/ FileFreeStart(s) \/ DtorUnlink(s) \/ FileFreeEnd(s)
    PROVE  CallInv'
<1>a. /\ TypeOK /\ ChanInv /\ MsgInv /\ BufferInv
      /\ fl \in [Sessions -> SessionType] /\ ctx \in [Ctx -> CtxType]
      /\ UNCHANGED <<ctxtable, thr, chan, requests, responses, calls, finished, stale>>
  BY Everybody DEF FileOpen, FileFreeStart, DtorUnlink, FileFreeEnd, TypeOK
<1>b. \A r \in requests : r.fl # NULL =>
          fl[r.fl].phase \in {"open", "dspclose"} /\ fl[r.fl].init
  BY <1>a DEF BufferInv
<1>c. \A p, q \in requests : p.call = q.call => p = q
  BY <1>a DEF MsgInv
<1>d. \A t \in Threads : SessionOf[t] = s /\ thr[t].pc # "idle" => fl[s].phase = "open"
  BY Everybody
<1>e. fl[s].init => fl[s].pd <= chan.ssr /\ (chan.state # "up" => fl[s].pd # chan.ssr)
  BY <1>a DEF ChanInv
<1>f. fl[s].phase \in {"open", "closed", "dspclose", "dtor"} /\ chan.ssr \in Nat /\ fl[s].pd \in Nat
  BY <1>a DEF TypeOK, SessionType
<1>g. \A c \in Ctx : ctx'[c] = ctx[c] => (Owed(c) => Owed(c)')
  BY <1>a DEF Owed, NotificationDue
<1>1. CASE FileOpen(s)
  <2>1. /\ \A q \in Sessions \ {s} : fl'[q] = fl[q]
        /\ fl[s].phase = "closed" /\ fl'[s].phase = "open" /\ ~fl'[s].init /\ ctx' = ctx
    BY <1>1, <1>a DEF FileOpen, ClosedSession
  <2>2. \A r \in requests : ~(r.fl = s /\ s # NULL)
    BY <1>b, <2>1
  <2> QED
    BY <1>a, <1>c, <1>d, <1>g, <2>1, <2>2, SessionFrame
<1>2. CASE FileFreeStart(s)
  <2>1. /\ \A q \in Sessions \ {s} : fl'[q] = fl[q]
        /\ fl'[s].phase = IF fl[s].init THEN "dspclose" ELSE "dtor"
        /\ fl[s].phase = "open" /\ ctx' = ctx
        /\ fl'[s].init = fl[s].init /\ fl'[s].pd = fl[s].pd
    BY <1>2, <1>a DEF FileFreeStart, SessionType
  <2>2. \A t \in Threads : ~(SessionOf[t] = s /\ thr[t].pc # "idle")
    BY <1>2 DEF FileFreeStart
  <2>3. \A r \in requests : r.fl = s /\ s # NULL =>
            fl'[s].phase \in {"open", "dspclose"} /\ fl'[s].init
    BY <1>b, <2>1
  <2> QED
    BY <1>a, <1>c, <1>e, <1>g, <2>1, <2>2, <2>3, SessionFrame
<1>3. CASE DtorUnlink(s)
  <2>1. PICK c \in Ctx : /\ ctx' = [ctx EXCEPT ![c].list = "none"] /\ Linked(c, s)
                         /\ fl' = [fl EXCEPT ![s].dtor = c]
    BY <1>3 DEF DtorUnlink
  <2>2. /\ \A q \in Sessions \ {s} : fl'[q] = fl[q]
        /\ fl'[s].phase = "dtor" /\ fl[s].phase = "dtor"
        /\ fl'[s].init = fl[s].init /\ fl'[s].pd = fl[s].pd
    BY <1>3, <1>a, <2>1 DEF DtorUnlink, SessionType
  <2>3. /\ \A d \in Ctx \ {c} : ctx'[d] = ctx[d]
        /\ ctx'[c] = [ctx[c] EXCEPT !.list = "none"] /\ ctx[c].fl = s
    BY <1>a, <2>1 DEF Linked
  <2>4. \A r \in requests : ~(r.fl = s /\ s # NULL)
    BY <1>b, <2>2
  <2>5. \A d \in Ctx : ctx[d].live /\ fl[ctx[d].fl].phase = "open" /\ Owed(d) => Owed(d)'
    BY <1>g, <2>2, <2>3
  <2>6. \A t \in Threads : ~(SessionOf[t] = s /\ thr[t].pc # "idle")
    BY <1>d, <2>2
  <2> QED
    BY <1>a, <1>c, <1>e, <2>2, <2>3, <2>4, <2>5, <2>6, SessionFrame
<1>4. CASE FileFreeEnd(s)
  <2>1. /\ \A q \in Sessions \ {s} : fl'[q] = fl[q]
        /\ fl[s].phase = "dtor" /\ fl'[s].phase = "closed" /\ ~fl'[s].init /\ ctx' = ctx
    BY <1>4, <1>a DEF FileFreeEnd, ClosedSession
  <2>2. \A r \in requests : ~(r.fl = s /\ s # NULL)
    BY <1>b, <2>1
  <2>3. \A t \in Threads : ~(SessionOf[t] = s /\ thr[t].pc # "idle")
    BY <1>d, <2>1
  <2> QED
    BY <1>a, <1>c, <1>g, <2>1, <2>2, <2>3, SessionFrame
<1> QED
  BY <1>1, <1>2, <1>3, <1>4

\* The DSP process is closed, or is left running without an owner.
LEMMA FileFreeDspStep ==
    ASSUME CallInv, IdInv', NEW s \in Sessions, FileFreeDsp(s) PROVE CallInv'
<1>a. /\ TypeOK /\ ChanInv /\ MsgInv /\ BufferInv
      /\ fl \in [Sessions -> SessionType]
      /\ UNCHANGED <<ctxtable, ctx, thr, chan, responses, calls, finished, stale>>
      /\ fl[s].phase = "dspclose"
  BY Everybody DEF FileFreeDsp, TypeOK
<1>b. /\ \A q \in Sessions \ {s} : fl'[q] = fl[q]
      /\ fl'[s].phase = "dtor" /\ fl'[s].init = fl[s].init /\ fl'[s].pd = fl[s].pd
  BY <1>a DEF FileFreeDsp, SessionType
<1>c. \A q \in requests : q \in RequestType
  BY Everybody
<1>1. ASSUME NEW r \in requests'
      PROVE  \E q \in requests :
               /\ q.call = r.call /\ q.id = r.id /\ q.c = r.c /\ q.polled = r.polled /\ q.sent = r.sent
               /\ \/ r = q /\ q.fl # s
                  \/ r = [q EXCEPT !.fl = NULL] /\ r.fl = NULL /\ q.fl = s
  <2>1. CASE requests' = {r1 \in requests : r1.fl # s}
    BY <2>1
  <2>2. CASE requests' = {IF r1.fl = s THEN [r1 EXCEPT !.fl = NULL] ELSE r1 : r1 \in requests}
    <3>1. PICK q \in requests : r = IF q.fl = s THEN [q EXCEPT !.fl = NULL] ELSE q
      BY <2>2
    <3>2. CASE q.fl = s
      BY <1>c, <3>1, <3>2 DEF RequestType
    <3>3. CASE q.fl # s
      BY <3>1, <3>3
    <3> QED
      BY <3>2, <3>3
  <2> QED
    BY <2>1, <2>2 DEF FileFreeDsp
<1>2. \A q \in requests : q.fl # s => q \in requests'
  <2>1. CASE requests' = {r1 \in requests : r1.fl # s}
    BY <2>1
  <2>2. CASE requests' = {IF r1.fl = s THEN [r1 EXCEPT !.fl = NULL] ELSE r1 : r1 \in requests}
    BY <2>2
  <2> QED
    BY <2>1, <2>2 DEF FileFreeDsp
<1>3. \A p, q \in requests' : p.call = q.call => p = q
  BY <1>1, <1>a DEF MsgInv
<1>4. ASSUME NEW c \in Ctx, ctx[c].live, fl[ctx[c].fl].phase = "open", Owed(c) PROVE Owed(c)'
  <2>1. \A q \in requests : q.call = ctx[c].call => q \in requests'
    <3>1. \A q \in requests : q.call = ctx[c].call => q.fl = ctx[c].fl
      BY <1>4, Everybody DEF LiveInv
    <3>2. ctx[c].fl # s
      BY <1>4, <1>a
    <3> QED
      BY <1>2, <3>1, <3>2
  <2> QED
    BY <1>4, <1>a, <2>1 DEF Owed, NotificationDue
<1>5. \A t \in Threads : ~(SessionOf[t] = s /\ thr[t].pc # "idle")
  BY <1>a, Everybody
<1>6. \A r \in requests' : ~(r.fl = s /\ s # NULL)
  BY <1>1
<1>7. fl[s].init => fl[s].pd <= chan.ssr /\ (chan.state # "up" => fl[s].pd # chan.ssr)
  BY <1>a DEF ChanInv
<1>8. \A r \in requests' : \E q \in requests :
               /\ q.call = r.call /\ q.id = r.id /\ q.c = r.c /\ q.polled = r.polled /\ q.sent = r.sent
               /\ r.fl = q.fl \/ (r.fl = NULL /\ q.fl = s /\ fl'[s].phase = "dtor")
  BY <1>1, <1>b
<1> QED
  BY <1>3, <1>4, <1>5, <1>6, <1>7, <1>8, <1>a, <1>b, SessionFrame

\* hfastrpc_init_process: the restart count is refreshed, OPEN fails, or the
\* session has a process, possibly of a life of the subsystem that is over.
LEMMA InitStep ==
    ASSUME CallInv, IdInv', NEW t \in Threads,
           InitProcess(t) \/ InitFails(t) \/ InitOpened(t)
    PROVE  CallInv'
<1>a. /\ TypeOK /\ fl \in [Sessions -> SessionType] /\ thr \in [Threads -> ThreadType]
      /\ SessionOf[t] \in Sessions /\ Apart /\ chan.ssr \in Nat
      /\ thr[t].pc \in {"idle", "open"} /\ thr[t].pc # "unlink"
  BY Mine DEF InitProcess, InitFails, InitOpened, Apart, TypeOK
<1>1. /\ \A u \in Threads \ {t} : thr'[u] = thr[u]
      /\ thr'[t].pc \in {"idle", "open"} /\ thr'[t].err = "none"
  BY <1>a DEF InitProcess, InitFails, InitOpened, IdleThread
<1>2. CASE InitProcess(t)
  <2>1. \A s \in Sessions : /\ fl'[s].phase = fl[s].phase /\ fl'[s].pd = fl[s].pd
                            /\ fl'[s].init = fl[s].init
    BY <1>2, <1>a DEF InitProcess, SessionType
  <2> QED
    BY <1>1, <1>a, <2>1, LeaveStep
<1>3. CASE InitFails(t)
  BY <1>1, <1>3, <1>a, LeaveStep DEF InitFails
<1>4. CASE InitOpened(t)
  <2>1. PICK life \in 0 .. chan.ssr :
          /\ chan.state = "up" \/ life < chan.ssr
          /\ fl' = [fl EXCEPT ![SessionOf[t]].init = TRUE,
                              ![SessionOf[t]].pd = Later(SessionOf[t], life)]
    BY <1>4 DEF InitOpened
  <2> DEFINE s == SessionOf[t]
             d == Later(s, life)
  <2>2. fl' = [fl EXCEPT ![s] = [fl[s] EXCEPT !.init = TRUE, !.pd = d]]
    BY <1>a, <2>1
  <2>3. d <= chan.ssr /\ (chan.state # "up" => d # chan.ssr)
    BY <1>a, <2>1, Everybody DEF ChanInv, SessionType, Later
  <2> HIDE DEF d
  <2>4. /\ \A q \in Sessions \ {s} : fl'[q] = fl[q]
        /\ fl'[s].phase = fl[s].phase /\ fl'[s].init /\ fl'[s].pd = d
    BY <1>a, <2>2 DEF SessionType
  <2>5. ThreadInv(t)'
    BY <1>1 DEF ThreadInv, Waiting
  <2> QED
    BY <1>1, <1>a, <2>3, <2>4, <2>5, ThreadFrame DEF Apart
<1> QED
  BY <1>2, <1>3, <1>4

\* Nothing happens, and everything stays as it is.
LEMMA StutterStep ==
    ASSUME CallInv, IdInv', UNCHANGED vars PROVE CallInv'
<1>1. UNCHANGED <<ctxtable, jobid, ctx, fl, thr, chan, requests, responses, calls, finished, stale>>
  BY DEF vars
<1>2. \A c \in Ctx : Owed(c)' <=> Owed(c)
  BY <1>1 DEF Owed, NotificationDue
<1>3. MsgInv' /\ ChanInv'
  BY <1>1, Everybody DEF MsgInv, ChanInv, Messages, Busy, Protected
<1>4. Messages' = Messages
  BY <1>1 DEF Messages
<1> QED
  BY <1>1, <1>2, <1>3, <1>4, MessageFrame

\* The calls' invariant is inductive.
LEMMA CallStep == ASSUME CallInv, [Next]_vars PROVE CallInv'
<1>a. IdInv'
  BY IdStep DEF CallInv
<1>1. ASSUME NEW t \in Threads, Invoke(t) PROVE CallInv'
  <2>1. PICK k \in CallTypes, sc \in Scs :
            InvokeResume(t, k[1], sc) \/ InvokeNew(t, k[1], sc, k[2])
    BY <1>1 DEF Invoke
  <2>2. k[1] \in Kinds /\ k[2] \in BOOLEAN
    BY ConstAssumption
  <2> QED
    BY <1>a, <2>1, <2>2, ResumeStep, BeforeSend
<1>2. ASSUME NEW t \in Threads, ThreadStep(t) PROVE CallInv'
  <2>1. CASE \/ AllocNoMem(t) \/ AllocFault(t) \/ ContextNoSlot(t) \/ GetArgsFail(t)
             \/ TransportFail(t) \/ InvokeReturn(t)
    BY <1>a, <2>1, BeforeSend
  <2>2. CASE \/ ContextPublish(t) \/ ContextLink(t) \/ CheckSsr(t) \/ TransportSend(t)
    BY <1>a, <2>2, PublishStep, LinkStep, CheckStep, SendStep
  <2>3. CASE \/ WaitSwitch(t) \/ WaitTry(t) \/ WaitPoll(t) \/ WaitPollMode(t) \/ WaitBlock(t)
    BY <1>a, <2>3, SwitchStep, WaitStep, PollStep
  <2>4. CASE \/ SaveInterrupted(t) \/ PutArgs(t) \/ FreeSlot(t) \/ FreeLink(t)
    BY <1>a, <2>4, SaveStep, PutArgsStep, FreeSlotStep, FreeLinkStep
  <2> QED
    BY <1>2, <2>1, <2>2, <2>3, <2>4 DEF ThreadStep
<1>3. ASSUME NEW t \in Threads,
             WaitInterrupted(t) \/ InitProcess(t) \/ InitFails(t) \/ InitOpened(t)
      PROVE  CallInv'
  BY <1>3, <1>a, WaitStep, InitStep
<1>4. ASSUME NEW m \in responses, HandleResponse(m) PROVE CallInv'
  BY <1>4, <1>a, HandleStep
<1>5. CASE SsrBeforeShutdown \/ Ssr
  BY <1>5, <1>a, ShutdownStep, PowerupStep, NotifyStep DEF Ssr
<1>6. ASSUME NEW s \in Sessions,
             FileOpen(s) \/ FileFreeStart(s) \/ FileFree(s)
      PROVE  CallInv'
  BY <1>6, <1>a, FileStep, FileFreeDspStep, DtorFreeStep DEF FileFree
<1>7. ASSUME NEW r \in requests,
             DspPoll(r) \/ DspFinish(r) \/ \E flag \in InterimFlags : DspInterim(r, flag)
      PROVE  CallInv'
  BY <1>7, <1>a, DspStep, DspPollStep
<1>8. CASE UNCHANGED vars
  BY <1>8, <1>a, StutterStep
<1> QED
  BY <1>1, <1>2, <1>3, <1>4, <1>5, <1>6, <1>7, <1>8 DEF Next

\* Calls, contexts, messages and restarts agree in every reachable state.
THEOREM CallInvariance == Spec => []CallInv
<1>1. Init => CallInv
  <2> SUFFICES ASSUME Init PROVE CallInv
    OBVIOUS
  <2>1. IdInv
    BY InitId
  <2>2. ASSUME NEW t \in Threads PROVE ThreadInv(t)
    BY DEF Init, ThreadInv, IdleThread, Waiting
  <2>3. ASSUME NEW c \in Ctx PROVE CtxInv(c)
    BY DEF Init, CtxInv, FreeCtx
  <2>4. UniqueCalls /\ ChanInv /\ MsgInv /\ BufferInv
    BY DEF Init, UniqueCalls, ChanInv, MsgInv, BufferInv, Messages, FreeCtx, ClosedSession
  <2> QED
    BY <2>1, <2>2, <2>3, <2>4 DEF CallInv
<1>2. CallInv /\ [Next]_vars => CallInv'
  BY CallStep
<1> QED
  BY <1>1, <1>2, PTL DEF Spec

\* A caller asleep in hfastrpc_wait_for_completion with nothing completed is
\* owed a wakeup by the DSP, by a response on its way or by the restart
\* notifier, whatever signals, restarts and resumed system calls came before.
THEOREM NoWakeupLost == Spec => []NoLostWakeup
<1>1. ASSUME CallInv PROVE NoLostWakeup
  <2> SUFFICES ASSUME NEW t \in Threads, thr[t].pc = "block", ctx[thr[t].cur].work = 0
               PROVE  \/ \E r \in requests : r.call = thr[t].call
                      \/ \E m \in responses : m.call = thr[t].call /\ IsFinal(m.flag)
                      \/ NotificationDue(SessionOf[t])
    BY DEF NoLostWakeup
  <2>1. /\ Owed(thr[t].cur) /\ ctx[thr[t].cur].call = thr[t].call
        /\ ctx[thr[t].cur].fl = SessionOf[t]
    BY <1>1, Everybody, Points DEF ThreadInv, Waiting
  <2> QED
    BY <2>1 DEF Owed
<1> QED
  BY <1>1, CallInvariance, PTL

\* The DSP never works on the buffers of a context that was freed or reused:
\* every way out of a call (error, signal, restart, release of the file) waits
\* for the DSP or follows its end.  The exceptions are in the call's own
\* history: a result through the poll word, a failed CLOSE, flags the driver
\* does not know, a call sent with its context completed by the notifier.
THEOREM BuffersOwned == Spec => []DspOwnsBuffers
<1>1. CallInv => DspOwnsBuffers
  BY DEF CallInv, BufferInv, Protected, DspOwnsBuffers
<1> QED
  BY <1>1, CallInvariance, PTL

\* hfastrpc_internal_invoke returns success only for a call whose result the
\* DSP delivered, or that went out with its context completed already.
THEOREM SuccessGenuine == Spec => []SuccessIsGenuine
<1>1. CallInv => SuccessIsGenuine
  BY DEF CallInv, ThreadInv, SuccessIsGenuine, Result
<1> QED
  BY <1>1, CallInvariance, PTL

\* Only ContextNoSlot makes a thread in context_alloc fail with -ENOKEY.
LEMMA NoKey ==
    ASSUME TypeOK, [Next]_vars, NEW t \in Threads, thr[t].pc = "alloc",
           thr[t].err # "nokey", thr'[t].err = "nokey"
    PROVE  ContextNoSlot(t)
<1>a. thr \in [Threads -> ThreadType]
  BY DEF TypeOK
<1>b. \A u \in Threads : InitProcess(u) \/ InitFails(u) \/ InitOpened(u) => thr'[t] = thr[t]
  BY InitShape
<1>1. PICK u \in Threads : Invoke(u) \/ ThreadStep(u) \/ WaitInterrupted(u)
  <2>1. thr' # thr /\ thr'[t] # thr[t]
    OBVIOUS
  <2> QED
    BY <1>b, <2>1 DEF Next, vars, HandleResponse, SsrBeforeShutdown, Ssr, SsrAfterShutdown,
       SsrBeforePowerup, SsrAfterPowerup, NotifyUsers, FileOpen, FileFreeStart, FileFree,
       FileFreeDsp, DtorUnlink, DtorFree, FileFreeEnd, DspInterim, DspPoll, DspFinish
<1>2. ASSUME Invoke(u) PROVE FALSE
  <2>1. PICK k \in CallTypes, sc \in Scs :
            InvokeResume(u, k[1], sc) \/ InvokeNew(u, k[1], sc, k[2])
    BY <1>2 DEF Invoke
  <2>2. thr[u].pc = "idle"
    BY <2>1 DEF InvokeResume, InvokeNew
  <2>3. \E x : thr' = [thr EXCEPT ![u] = x]
    <3>1. CASE InvokeNew(u, k[1], sc, k[2])
      BY <3>1 DEF InvokeNew
    <3>2. CASE InvokeResume(u, k[1], sc)
      <4>1. PICK c \in InterruptedOf(u) :
              IF ctx[c].sc = sc
              THEN thr' = [thr EXCEPT ![u] =
                      [pc |-> "switch", cur |-> c, kind |-> k[1], sc |-> sc,
                       async |-> FALSE, err |-> "none", call |-> ctx[c].call]]
              ELSE Fail(u, "return", "inval")
        BY <3>2 DEF InvokeResume
      <4>2. Fail(u, "return", "inval") => \E x : thr' = [thr EXCEPT ![u] = x]
        BY DEF Fail
      <4> QED
        BY <4>1, <4>2
    <3> QED
      BY <2>1, <3>1, <3>2
  <2> QED
    BY <1>a, <2>2, <2>3
<1>3. ASSUME u # t PROVE FALSE
  <2>1. \A pc, err : Goto(u, pc) \/ Fail(u, pc, err) => thr'[t] = thr[t]
    BY <1>3, <1>a DEF Goto, Fail
  <2>2. ContextPublish(u) \/ FreeLink(u) \/ SaveInterrupted(u) => thr'[t] = thr[t]
    BY <1>3, <1>a DEF ContextPublish, FreeLink, SaveInterrupted
  <2>3. TransportSend(u) \/ InvokeReturn(u) => thr'[t] = thr[t]
    BY <1>3, <1>a DEF TransportSend, AfterSend, InvokeReturn
  <2>4. WaitSwitch(u) => \E pc, err : Goto(u, pc) \/ Fail(u, pc, err)
    BY DEF WaitSwitch
  <2>5. \/ AllocNoMem(u) \/ AllocFault(u) \/ ContextNoSlot(u) \/ ContextLink(u)
        \/ GetArgsFail(u) \/ CheckSsr(u) \/ TransportFail(u) \/ PutArgs(u)
        \/ WaitTry(u) \/ WaitPoll(u) \/ WaitPollMode(u) \/ WaitBlock(u)
        \/ WaitInterrupted(u) \/ FreeSlot(u)
        => \E pc, err : Goto(u, pc) \/ Fail(u, pc, err)
    BY DEF AllocNoMem, AllocFault, ContextNoSlot, ContextLink, GetArgsFail, CheckSsr,
       TransportFail, PutArgs, WaitTry, WaitPoll, WaitPollMode, WaitBlock, WaitInterrupted,
       FreeSlot
  <2> QED
    BY <1>1, <1>2, <2>1, <2>2, <2>3, <2>4, <2>5 DEF ThreadStep
<1>4. CASE u = t
  <2>1. AllocNoMem(t) \/ AllocFault(t) \/ ContextPublish(t) \/ ContextNoSlot(t)
    BY <1>1, <1>2, <1>4 DEF ThreadStep, ContextLink, GetArgsFail, CheckSsr, TransportSend,
       TransportFail, PutArgs, WaitSwitch, WaitTry, WaitPoll, WaitPollMode, WaitBlock,
       WaitInterrupted, SaveInterrupted, FreeSlot, FreeLink, InvokeReturn
  <2>2. ~AllocNoMem(t) /\ ~AllocFault(t)
    BY MoveFacts DEF AllocNoMem, AllocFault
  <2>3. ~ContextPublish(t)
    <3> SUFFICES ASSUME ContextPublish(t) PROVE FALSE
      OBVIOUS
    <3>1. PICK c \in Ctx : thr' = [thr EXCEPT ![t].pc = "link", ![t].cur = c,
                                             ![t].call = calls + 1]
      BY DEF ContextPublish
    <3> QED
      BY <1>a, <3>1 DEF ThreadType
  <2> QED
    BY <2>1, <2>2, <2>3
<1> QED
  BY <1>3, <1>4

\* A kernel or static call that context_alloc refuses has met a table whose
\* reserved entries all serve kernel and static calls: calls on dynamic
\* handles can never starve them.
THEOREM ReserveKept == Spec => ReserveServesStatic
<1>1. ASSUME CallInv, [Next]_vars,
             NEW t \in Threads, thr[t].pc = "alloc", Privileged(thr[t].kind),
             thr'[t].err = "nokey", NEW i \in 0 .. Reserved - 1
      PROVE  ctxtable[i] # NULL /\ Privileged(ctx[ctxtable[i]].kind)
  <2>1. TypeOK /\ TableInv
    BY <1>1 DEF CallInv, IdInv, IndInv
  <2>2. thr[t].err # "nokey"
    BY <1>1 DEF CallInv, ThreadInv
  <2>3. FreeSlots(thr[t].kind) = {}
    BY <1>1, <2>1, <2>2, NoKey DEF ContextNoSlot
  <2>4. i \in Slots /\ i < Reserved /\ i \in Nat /\ Reserved \in Nat
    BY ConstAssumption DEF Slots
  <2>5. ctxtable[i] # NULL
    BY <1>1, <2>3, <2>4 DEF FreeSlots, ScanRange
  <2>6. PICK c \in Ctx : c = ctxtable[i]
    BY <2>1, <2>4, <2>5 DEF TypeOK
  <2>7. ctx[c].live /\ ctx[c].id.idx = i
    BY <2>1, <2>4, <2>5, <2>6 DEF TableInv
  <2>8. LiveInv(c)
    BY <1>1, <2>7, Everybody
  <2> QED
    BY <2>4, <2>5, <2>6, <2>7, <2>8 DEF LiveInv
<1>2. CallInv /\ [Next]_vars =>
        [\A t \in Threads :
           /\ thr[t].pc = "alloc" /\ Privileged(thr[t].kind)
           /\ thr'[t].err = "nokey"
           => \A i \in 0 .. Reserved - 1 :
                 ctxtable[i] # NULL /\ Privileged(ctx[ctxtable[i]].kind)]_vars
  BY <1>1
<1> QED
  BY <1>2, CallInvariance, PTL DEF Spec, ReserveServesStatic

-----------------------------------------------------------------------------
(* The quota: num_active_ctxs against the lists it counts, and what the gap *)
(* between the check in context_alloc and the increment can cost.           *)

Lists == {"pending", "interrupted"}

LinkedTo(s) == {c \in Ctx : Linked(c, s)}

UserLinked(s) == {c \in Ctx : Linked(c, s) /\ ctx[c].kind = "user"}

Callers(s) == {t \in Threads : SessionOf[t] = s}

\* Callers past the quota check whose context is not counted yet.
Arriving(s) ==
    {t \in Callers(s) : thr[t].pc \in {"alloc", "link"} /\ thr[t].kind = "user"}

\* The overshoot is paid for: by the callers that have not yet arrived, or by
\* the failed allocations that lowered the counter.
Within(s) ==
    Cardinality(UserLinked(s)) + Cardinality(Arriving(s))
        <= MaxPending + fl[s].fails + Cardinality(Callers(s))

QuotaInv == \A s \in Sessions : Within(s)

\* What a step does not change of session s's accounts.
SameLinks(s) ==
    \A c \in Ctx : /\ Linked(c, s)' <=> Linked(c, s)
                   /\ Linked(c, s) => ctx'[c].kind = ctx[c].kind

SameCount(s) ==
    /\ fl'[s].active = fl[s].active /\ fl'[s].fails = fl[s].fails
    /\ fl'[s].phase = "open" => fl[s].phase = "open"

NoArrival(s) ==
    \A t \in Threads :
        SessionOf[t] = s /\ thr'[t].pc \in {"alloc", "link"} =>
            thr[t].pc \in {"alloc", "link"} /\ thr'[t].kind = thr[t].kind

Calm(s) == SameLinks(s) /\ SameCount(s) /\ NoArrival(s)

Alike(k, l) ==
    l.fl = k.fl /\ l.kind = k.kind /\ (l.list \in Lists <=> k.list \in Lists)

\* The steps that change the accounts of session s.
Event(s) ==
    \/ \E t \in Callers(s) :
          \/ AllocFault(t) \/ ContextNoSlot(t) \/ ContextLink(t) \/ FreeLink(t)
          \/ \E kind \in Kinds, sc \in Scs, async \in BOOLEAN : InvokeNew(t, kind, sc, async)
    \/ FileOpen(s) \/ FileFreeEnd(s) \/ DtorUnlink(s)

\* Fields of a context that do not decide whether and how it is counted.
LEMMA AlikeFields ==
    ASSUME NEW k \in CtxType
    PROVE  /\ \A w : Alike(k, [k EXCEPT !.work = w])
           /\ \A w : Alike(k, [k EXCEPT !.poll = w])
           /\ \A w : Alike(k, [k EXCEPT !.flags = w])
           /\ \A v : Alike(k, [k EXCEPT !.done = TRUE, !.rv = v])
           /\ \A v, w : Alike(k, [k EXCEPT !.done = TRUE, !.rv = v, !.work = w])
           /\ \A m : Alike(k, NotifyUser(k, m))
           /\ \A l \in Lists : k.list \in Lists => Alike(k, [k EXCEPT !.list = l])
           /\ Alike(k, k)
<1>1. \A w : /\ Alike(k, [k EXCEPT !.work = w]) /\ Alike(k, [k EXCEPT !.poll = w])
            /\ Alike(k, [k EXCEPT !.flags = w]) /\ Alike(k, k)
  BY DEF CtxType, Alike
<1>2. \A v, w : /\ Alike(k, [k EXCEPT !.done = TRUE, !.rv = v])
               /\ Alike(k, [k EXCEPT !.done = TRUE, !.rv = v, !.work = w])
  BY DEF CtxType, Alike
<1>3. ASSUME NEW m PROVE Alike(k, NotifyUser(k, m))
  <2>1. /\ NotifyUser(k, m).fl = k.fl /\ NotifyUser(k, m).kind = k.kind
        /\ NotifyUser(k, m).list = k.list
    BY DEF CtxType, NotifyUser
  <2> QED
    BY <2>1 DEF Alike
<1>4. ASSUME NEW l \in Lists, k.list \in Lists PROVE Alike(k, [k EXCEPT !.list = l])
  BY <1>4 DEF CtxType, Alike
<1> QED
  BY <1>1, <1>2, <1>3, <1>4

\* Contexts that are counted alike leave every session's set as it was.
LEMMA AlikeLinks ==
    ASSUME \A c \in Ctx : Alike(ctx[c], ctx'[c]), NEW s PROVE SameLinks(s)
  BY DEF Alike, SameLinks, Linked, Lists

\* A thread moves to a point where it is not between check and increment.
LEMMA GotoArrival ==
    ASSUME TypeOK, NEW t \in Threads, NEW pc, NEW err, pc \notin {"alloc", "link"},
           Goto(t, pc) \/ Fail(t, pc, err), NEW s
    PROVE  NoArrival(s)
<1>1. /\ \A u \in Threads \ {t} : thr'[u] = thr[u]
      /\ thr'[t].pc = pc
  BY MoveFacts
<1> QED
  BY <1>1 DEF NoArrival

\* Every other step leaves the accounts of a session alone.
LEMMA CalmStep ==
    ASSUME CallInv, [Next]_vars, NEW s \in Sessions PROVE Calm(s) \/ Event(s)
<1>a. /\ TypeOK /\ ctx \in [Ctx -> CtxType] /\ thr \in [Threads -> ThreadType]
      /\ fl \in [Sessions -> SessionType] /\ \A c \in Ctx : ctx[c] \in CtxType
      /\ \A t \in Threads : SessionOf[t] \in Sessions
  BY Everybody DEF TypeOK
<1>h. \A t \in Threads : thr[t].pc \in Holding =>
        /\ thr[t].cur \in Ctx /\ ctx[thr[t].cur].live /\ ctx[thr[t].cur].fl = SessionOf[t]
        /\ ctx[thr[t].cur].list = IF thr[t].pc = "link" THEN "fake" ELSE "pending"
  BY Everybody
<1>b. ASSUME UNCHANGED ctx PROVE SameLinks(s)
  BY <1>b DEF SameLinks, Linked
<1>c. ASSUME UNCHANGED fl PROVE SameCount(s)
  BY <1>c DEF SameCount
<1>d. ASSUME UNCHANGED thr PROVE NoArrival(s)
  BY <1>d DEF NoArrival
<1>e. ASSUME NEW c \in Ctx, NEW k, Alike(ctx[c], k), ctx' = [ctx EXCEPT ![c] = k]
      PROVE  SameLinks(s)
  <2>1. \A d \in Ctx : Alike(ctx[d], ctx'[d])
    BY <1>a, <1>e, AlikeFields
  <2> QED
    BY <2>1, AlikeLinks
<1>1. CASE UNCHANGED vars
  BY <1>1, <1>b, <1>c, <1>d DEF vars, Calm
<1>2. ASSUME NEW t \in Threads, NEW kind \in Kinds, NEW sc \in Scs,
             InvokeResume(t, kind, sc)
      PROVE  Calm(s)
  <2>1. PICK c \in InterruptedOf(t) :
          IF ctx[c].sc = sc
          THEN /\ ctx' = [ctx EXCEPT ![c].list = "pending"]
               /\ thr' = [thr EXCEPT ![t] =
                      [pc |-> "switch", cur |-> c, kind |-> kind, sc |-> sc,
                       async |-> FALSE, err |-> "none", call |-> ctx[c].call]]
          ELSE Fail(t, "return", "inval") /\ UNCHANGED ctx
    BY <1>2 DEF InvokeResume
  <2>2. c \in Ctx /\ ctx[c].list = "interrupted" /\ ctx[c] \in CtxType /\ fl' = fl
    BY <1>2, <1>a DEF InterruptedOf, InvokeResume
  <2>3. CASE ctx[c].sc = sc
    <3>1. Alike(ctx[c], [ctx[c] EXCEPT !.list = "pending"])
      BY <2>2, AlikeFields DEF Lists
    <3>2. SameLinks(s)
      <4>1. ctx' = [ctx EXCEPT ![c] = [ctx[c] EXCEPT !.list = "pending"]]
        BY <1>a, <2>1, <2>2, <2>3
      <4> QED
        BY <1>e, <2>2, <3>1, <4>1
    <3>3. NoArrival(s)
      BY <1>a, <2>1, <2>3 DEF NoArrival
    <3> QED
      BY <1>c, <2>2, <3>2, <3>3 DEF Calm
  <2>4. CASE ctx[c].sc # sc
    BY <1>a, <1>b, <1>c, <2>1, <2>2, <2>4, GotoArrival DEF Calm
  <2> QED
    BY <2>3, <2>4
<1>3. ASSUME NEW t \in Threads, NEW kind \in Kinds, NEW sc \in Scs,
             NEW async \in BOOLEAN, InvokeNew(t, kind, sc, async)
      PROVE  Calm(s) \/ Event(s)
  <2>1. CASE SessionOf[t] = s
    BY <1>3, <2>1 DEF Event, Callers
  <2>2. CASE SessionOf[t] # s
    <3>1. NoArrival(s)
      BY <1>3, <1>a, <2>2 DEF InvokeNew, NoArrival
    <3> QED
      BY <1>3, <1>b, <1>c, <3>1 DEF InvokeNew, Calm
  <2> QED
    BY <2>1, <2>2
<1>4. ASSUME NEW t \in Threads,
             \/ AllocNoMem(t) \/ GetArgsFail(t) \/ TransportFail(t)
             \/ WaitInterrupted(t) \/ PutArgs(t) \/ WaitSwitch(t) \/ FreeSlot(t)
      PROVE  Calm(s)
  <2>1. UNCHANGED <<ctx, fl>>
    BY <1>4 DEF AllocNoMem, GetArgsFail, TransportFail, WaitInterrupted, PutArgs,
       WaitSwitch, FreeSlot
  <2>2. \E pc, err : pc \notin {"alloc", "link"} /\ (Goto(t, pc) \/ Fail(t, pc, err))
    <3>1. CASE WaitSwitch(t)
      <4>1. \/ \E pc \in {"block", "try", "poll", "pollmode"} : Goto(t, pc)
            \/ Fail(t, "unslot", "badr")
        BY <3>1 DEF WaitSwitch
      <4> QED
        BY <4>1
    <3>2. CASE PutArgs(t)
      BY <3>2 DEF PutArgs
    <3>3. CASE AllocNoMem(t) \/ GetArgsFail(t) \/ TransportFail(t) \/ WaitInterrupted(t)
               \/ FreeSlot(t)
      BY <3>3 DEF AllocNoMem, GetArgsFail, TransportFail, WaitInterrupted, FreeSlot
    <3> QED
      BY <1>4, <3>1, <3>2, <3>3
  <2>3. NoArrival(s)
    BY <1>a, <2>2, GotoArrival
  <2> QED
    BY <1>b, <1>c, <2>1, <2>3 DEF Calm
<1>5. ASSUME NEW t \in Threads, AllocFault(t) \/ ContextNoSlot(t) PROVE Calm(s) \/ Event(s)
  <2>1. CASE SessionOf[t] = s
    BY <1>5, <2>1 DEF Event, Callers
  <2>2. CASE SessionOf[t] # s
    <3>1. FreeUnlinked(SessionOf[t]) /\ UNCHANGED ctx
      BY <1>5 DEF AllocFault, ContextNoSlot
    <3>2. SameCount(s)
      BY <1>a, <2>2, <3>1 DEF FreeUnlinked, SameCount
    <3>3. \E err : Fail(t, "return", err)
      BY <1>5 DEF AllocFault, ContextNoSlot
    <3>4. NoArrival(s)
      BY <1>a, <3>3, GotoArrival
    <3> QED
      BY <1>b, <3>1, <3>2, <3>4 DEF Calm
  <2> QED
    BY <2>1, <2>2
<1>6. ASSUME NEW t \in Threads, ContextLink(t) PROVE Calm(s) \/ Event(s)
  <2>1. CASE SessionOf[t] = s
    BY <1>6, <2>1 DEF Event, Callers
  <2>2. CASE SessionOf[t] # s
    <3>1. PICK c \in Ctx : c = thr[t].cur /\ ctx[c].fl # s
      BY <1>6, <1>h, <2>2, HoldingFacts DEF ContextLink
    <3>2. /\ \A d \in Ctx \ {c} : ctx'[d] = ctx[d]
          /\ ctx'[c].fl = ctx[c].fl
      BY <1>6, <1>a, <3>1 DEF ContextLink, CtxType
    <3>3. SameLinks(s)
      BY <3>1, <3>2 DEF SameLinks, Linked
    <3>4. SameCount(s)
      BY <1>6, <1>a, <2>2 DEF ContextLink, SameCount
    <3>5. NoArrival(s)
      <4>1. /\ \A u \in Threads \ {t} : thr'[u] = thr[u]
            /\ thr'[t].pc = "args"
        BY <1>6, <1>a, MoveFacts DEF ContextLink
      <4> QED
        BY <4>1 DEF NoArrival
    <3> QED
      BY <3>3, <3>4, <3>5 DEF Calm
  <2> QED
    BY <2>1, <2>2
<1>7. ASSUME NEW t \in Threads, FreeLink(t) PROVE Calm(s) \/ Event(s)
  <2>1. CASE SessionOf[t] = s
    BY <1>7, <2>1 DEF Event, Callers
  <2>2. CASE SessionOf[t] # s
    <3>1. PICK c \in Ctx : c = thr[t].cur /\ ctx[c].fl # s
      BY <1>7, <1>h, <2>2, HoldingFacts DEF FreeLink
    <3>2. /\ \A d \in Ctx \ {c} : ctx'[d] = ctx[d]
          /\ ctx'[c].list = "none"
      BY <1>7, <1>a, <3>1 DEF FreeLink, FreeCtx
    <3>3. SameLinks(s)
      BY <3>1, <3>2 DEF SameLinks, Linked
    <3>4. SameCount(s)
      BY <1>7, <1>a, <2>2 DEF FreeLink, SameCount
    <3>5. NoArrival(s)
      BY <1>7, <1>a DEF FreeLink, NoArrival, ThreadType
    <3> QED
      BY <3>3, <3>4, <3>5 DEF Calm
  <2> QED
    BY <2>1, <2>2
<1>8. ASSUME NEW t \in Threads, ContextPublish(t) PROVE Calm(s)
  <2>1. PICK c \in Ctx, i \in FreeSlots(thr[t].kind) :
          /\ ~ctx[c].live
          /\ ctx' = [ctx EXCEPT ![c] =
                 [FreeCtx EXCEPT !.live = TRUE,
                                 !.id = CtxId(jobid + 1, i, thr[t].async),
                                 !.fl = SessionOf[t], !.pid = t,
                                 !.sc = thr[t].sc, !.kind = thr[t].kind,
                                 !.list = "fake", !.call = calls + 1]]
          /\ thr' = [thr EXCEPT ![t].pc = "link", ![t].cur = c,
                                ![t].call = calls + 1]
    BY <1>8 DEF ContextPublish
  <2>2. ctx[c].list = "none"
    BY <2>1, Everybody
  <2>3. /\ \A d \in Ctx \ {c} : ctx'[d] = ctx[d]
        /\ ctx'[c].list = "fake"
    BY <1>a, <2>1 DEF FreeCtx
  <2>4. SameLinks(s)
    BY <2>2, <2>3 DEF SameLinks, Linked
  <2>5. /\ \A u \in Threads \ {t} : thr'[u] = thr[u]
        /\ thr'[t].kind = thr[t].kind /\ thr[t].pc = "alloc"
    BY <1>8, <1>a, <2>1 DEF ThreadType, ContextPublish
  <2>6. NoArrival(s)
    BY <2>5 DEF NoArrival
  <2> QED
    BY <1>8, <1>c, <2>4, <2>6 DEF ContextPublish, Calm
<1>9. ASSUME NEW t \in Threads,
             \/ CheckSsr(t) \/ WaitTry(t) \/ WaitPoll(t) \/ WaitPollMode(t) \/ WaitBlock(t)
             \/ SaveInterrupted(t)
      PROVE  Calm(s)
  <2>1. PICK c \in Ctx : c = thr[t].cur
    BY <1>9, <1>h, HoldingFacts DEF CheckSsr, WaitTry, WaitPoll, WaitPollMode, WaitBlock,
       SaveInterrupted
  <2>2. PICK k \in CtxType : k = ctx[c]
    BY <1>a
  <2>3. SameLinks(s)
    <3>1. CASE ctx' = ctx
      BY <1>b, <3>1
    <3>2. CASE CheckSsr(t)
      <4>1. ctx' = [ctx EXCEPT ![c] = [k EXCEPT !.poll = "zero"]]
        BY <1>a, <2>1, <2>2, <3>2 DEF CheckSsr
      <4> QED
        BY <1>e, <2>2, <4>1, AlikeFields
    <3>3. CASE (WaitTry(t) \/ WaitBlock(t)) /\ ctx' # ctx
      <4>1. ctx' = [ctx EXCEPT ![c] = [k EXCEPT !.work = k.work - 1]]
        BY <1>a, <2>1, <2>2, <3>3 DEF WaitTry, WaitBlock
      <4> QED
        BY <1>e, <2>2, <4>1, AlikeFields
    <3>4. CASE WaitPoll(t) /\ ctx' # ctx
      <4>1. PICK v : v = IF k.poll = "poll_response" THEN "dsp" ELSE k.rv
        OBVIOUS
      <4>2. ctx' = [ctx EXCEPT ![c] = [k EXCEPT !.done = TRUE, !.rv = v]]
        BY <1>a, <2>1, <2>2, <3>4, <4>1 DEF WaitPoll
      <4> QED
        BY <1>e, <2>2, <4>2, AlikeFields
    <3>5. CASE WaitPollMode(t)
      <4>1. ctx' = [ctx EXCEPT ![c] = [k EXCEPT !.flags = "NORMAL"]]
        BY <1>a, <2>1, <2>2, <3>5 DEF WaitPollMode
      <4> QED
        BY <1>e, <2>2, <4>1, AlikeFields
    <3>6. CASE SaveInterrupted(t)
      <4>1. ctx' = [ctx EXCEPT ![c] = [k EXCEPT !.list = "interrupted"]]
        BY <1>a, <2>1, <2>2, <3>6 DEF SaveInterrupted
      <4>2. k.list = "pending"
        BY <1>h, <2>1, <2>2, <3>6, HoldingFacts DEF SaveInterrupted
      <4>3. k.list \in Lists /\ "interrupted" \in Lists
        BY <4>2 DEF Lists
      <4> QED
        BY <1>e, <2>2, <4>1, <4>3, AlikeFields
    <3> QED
      BY <1>9, <3>1, <3>2, <3>3, <3>4, <3>5, <3>6
  <2>4. NoArrival(s)
    <3>1. CASE SaveInterrupted(t)
      BY <1>a, <3>1 DEF SaveInterrupted, NoArrival, ThreadType
    <3>2. CASE ~SaveInterrupted(t)
      <4>1. \E pc, err : pc \notin {"alloc", "link"} /\ (Goto(t, pc) \/ Fail(t, pc, err))
        BY <1>9, <3>2 DEF CheckSsr, WaitTry, WaitPoll, WaitPollMode, WaitBlock, LoopTest
      <4> QED
        BY <1>a, <4>1, GotoArrival
    <3> QED
      BY <3>1, <3>2
  <2>5. UNCHANGED fl
    BY <1>9 DEF CheckSsr, WaitTry, WaitPoll, WaitPollMode, WaitBlock, SaveInterrupted
  <2> QED
    BY <1>c, <2>3, <2>4, <2>5 DEF Calm
<1>10. ASSUME NEW t \in Threads, TransportSend(t) \/ InvokeReturn(t) PROVE Calm(s)
  <2>1. UNCHANGED <<ctx, fl>>
    BY <1>10 DEF TransportSend, InvokeReturn
  <2>2. /\ \A u \in Threads \ {t} : thr'[u] = thr[u]
        /\ thr'[t].pc \in {"idle", "switch"}
    BY <1>10, <1>a DEF TransportSend, AfterSend, InvokeReturn, IdleThread, ThreadType
  <2>3. NoArrival(s)
    BY <2>2 DEF NoArrival
  <2> QED
    BY <1>b, <1>c, <2>1, <2>3 DEF Calm
<1>11. ASSUME NEW m \in responses, HandleResponse(m) PROVE Calm(s)
  <2>1. ASSUME NEW c \in Ctx PROVE Alike(ctx[c], ctx'[c])
    <3>1. ctx'[c] = ctx[c] \/ ctx'[c] = NotifyUser(ctx[c], m)
      BY <1>11, <1>a DEF HandleResponse
    <3> QED
      BY <1>a, <3>1, AlikeFields
  <2> QED
    BY <1>11, <1>c, <1>d, <2>1, AlikeLinks DEF HandleResponse, Calm
<1>12. ASSUME NEW q \in Sessions, NotifyUsers(q) PROVE Calm(s)
  <2>1. ASSUME NEW c \in Ctx PROVE Alike(ctx[c], ctx'[c])
    <3>1. PICK k \in CtxType : k = ctx[c]
      BY <1>a
    <3>2. \/ ctx'[c] = k
          \/ ctx'[c] = [k EXCEPT !.done = TRUE, !.rv = "reset", !.work = k.work + 1]
      BY <1>12, <3>1 DEF NotifyUsers
    <3>3. /\ Alike(k, k)
          /\ Alike(k, [k EXCEPT !.done = TRUE, !.rv = "reset", !.work = k.work + 1])
      BY AlikeFields
    <3> QED
      BY <3>1, <3>2, <3>3
  <2> QED
    BY <1>12, <1>c, <1>d, <2>1, AlikeLinks DEF NotifyUsers, Calm
<1>13. ASSUME NEW r \in requests, DspPoll(r) PROVE Calm(s)
  <2>1. ASSUME NEW c \in Ctx PROVE Alike(ctx[c], ctx'[c])
    <3>1. PICK k \in CtxType : k = ctx[c]
      BY <1>a
    <3>2. PICK w : ctx'[c] = k \/ ctx'[c] = [k EXCEPT !.poll = w]
      BY <1>13, <1>a, <3>1 DEF DspPoll
    <3>3. Alike(k, k) /\ Alike(k, [k EXCEPT !.poll = w])
      BY AlikeFields
    <3> QED
      BY <3>1, <3>2, <3>3
  <2> QED
    BY <1>13, <1>c, <1>d, <2>1, AlikeLinks DEF DspPoll, Calm
<1>14. ASSUME NEW r \in requests,
              DspFinish(r) \/ \E flag \in InterimFlags : DspInterim(r, flag)
       PROVE  Calm(s)
  BY <1>14, <1>b, <1>c, <1>d DEF DspFinish, DspInterim, Calm
<1>15. CASE SsrBeforeShutdown \/ SsrAfterShutdown \/ SsrBeforePowerup \/ SsrAfterPowerup
  BY <1>15, <1>b, <1>c, <1>d DEF SsrBeforeShutdown, SsrAfterShutdown, SsrBeforePowerup,
     SsrAfterPowerup, Calm
<1>16. ASSUME NEW q \in Sessions, q # s, FileOpen(q) \/ FileFreeEnd(q) PROVE Calm(s)
  <2>1. SameCount(s)
    BY <1>16, <1>a DEF FileOpen, FileFreeEnd, SameCount
  <2> QED
    BY <1>16, <1>b, <1>d, <2>1 DEF FileOpen, FileFreeEnd, Calm
<1>17. ASSUME NEW q \in Sessions, q # s, DtorUnlink(q) PROVE Calm(s)
  <2>1. PICK c \in Ctx : /\ ctx' = [ctx EXCEPT ![c].list = "none"] /\ Linked(c, q)
                         /\ fl' = [fl EXCEPT ![q].dtor = c]
    BY <1>17 DEF DtorUnlink
  <2>2. /\ \A d \in Ctx \ {c} : ctx'[d] = ctx[d]
        /\ ctx'[c].fl = ctx[c].fl /\ ctx[c].fl = q
    BY <1>a, <2>1 DEF Linked, CtxType
  <2>3. SameLinks(s)
    BY <1>17, <2>2 DEF SameLinks, Linked
  <2>4. SameCount(s)
    BY <1>17, <1>a, <2>1 DEF SameCount
  <2> QED
    BY <1>17, <1>d, <2>3, <2>4 DEF DtorUnlink, Calm
<1>18. ASSUME NEW q \in Sessions, DtorFree(q) PROVE Calm(s)
  <2>1. PICK c \in Ctx : c = fl[q].dtor
    BY <1>18, <1>a DEF DtorFree, SessionType
  <2>2. ctx[c].list = "none"
    BY <1>18, <2>1, ConstAssumption DEF DtorFree, CallInv, IdInv, IndInv, OwnInv, DtorOwns
  <2>3. /\ \A d \in Ctx \ {c} : ctx'[d] = ctx[d]
        /\ ctx'[c].list = "none"
    BY <1>18, <1>a, <2>1 DEF DtorFree, FreeCtx
  <2>4. SameLinks(s)
    BY <2>2, <2>3 DEF SameLinks, Linked
  <2>5. SameCount(s)
    BY <1>18, <1>a DEF DtorFree, SameCount, SessionType
  <2> QED
    BY <1>18, <1>d, <2>4, <2>5 DEF DtorFree, Calm
<1>19. ASSUME NEW q \in Sessions, FileFreeStart(q) \/ FileFreeDsp(q) PROVE Calm(s)
  <2>1. SameCount(s)
    BY <1>19, <1>a DEF FileFreeStart, FileFreeDsp, SameCount, SessionType
  <2> QED
    BY <1>19, <1>b, <1>d, <2>1 DEF FileFreeStart, FileFreeDsp, Calm
<1>20. ASSUME NEW t \in Threads, InitProcess(t) \/ InitFails(t) \/ InitOpened(t)
       PROVE  Calm(s)
  <2>1. TypeOK
    BY DEF CallInv, IdInv, IndInv
  <2>2. SameCount(s)
    BY <1>20, <2>1, InitShape DEF SameCount
  <2>3. NoArrival(s)
    BY <1>20, <2>1, InitShape DEF NoArrival
  <2> QED
    BY <1>20, <1>b, <2>1, <2>2, <2>3, InitShape DEF Calm
<1>21. ASSUME FileOpen(s) \/ FileFreeEnd(s) \/ DtorUnlink(s) PROVE Event(s)
  BY <1>21 DEF Event
<1>22. ASSUME NEW t \in Threads, Invoke(t) PROVE Calm(s) \/ Event(s)
  <2>1. PICK k \in CallTypes, sc \in Scs :
            InvokeResume(t, k[1], sc) \/ InvokeNew(t, k[1], sc, k[2])
    BY <1>22 DEF Invoke
  <2>2. k[1] \in Kinds /\ k[2] \in BOOLEAN
    BY ConstAssumption
  <2> QED
    BY <1>2, <1>3, <2>1, <2>2
<1>23. ASSUME NEW t \in Threads, ThreadStep(t) \/ WaitInterrupted(t) PROVE Calm(s) \/ Event(s)
  BY <1>4, <1>5, <1>6, <1>7, <1>8, <1>9, <1>10, <1>23 DEF ThreadStep
<1>24. CASE Ssr \/ SsrBeforeShutdown
  BY <1>12, <1>15, <1>24 DEF Ssr
<1>25. ASSUME NEW q \in Sessions,
              FileOpen(q) \/ FileFreeStart(q) \/ FileFree(q)
       PROVE  Calm(s) \/ Event(s)
  BY <1>16, <1>17, <1>18, <1>19, <1>21, <1>25 DEF FileFree
<1> QED
  BY <1>1, <1>11, <1>13, <1>14, <1>20, <1>22, <1>23, <1>24, <1>25 DEF Next

\* Quotient and remainder determine each other.
LEMMA Euclid ==
    ASSUME NEW n \in Int, NEW M \in Int, M > 0
    PROVE  /\ n \div M \in Int /\ n % M \in 0 .. M - 1
           /\ n = M * (n \div M) + (n % M)
<1>1. n = M * (n \div M) + (n % M)
  OBVIOUS
<1>2. n \div M \in Int
  OBVIOUS
<1>3. n % M \in 0 .. M - 1
  OBVIOUS
<1> QED
  BY <1>1, <1>2, <1>3

\* A remainder is unique.
LEMMA Remainder ==
    ASSUME NEW n \in Int, NEW M \in Nat \ {0}, NEW q \in Int, NEW r \in 0 .. M - 1,
           n = M * q + r
    PROVE  n % M = r
  OBVIOUS

\* The unsigned counter counts modulo its range, in both directions.
LEMMA CountMod ==
    ASSUME NEW n \in Int
    PROVE  /\ Inc(n % CounterMod) = (n + 1) % CounterMod
           /\ Dec(n % CounterMod) = (n - 1) % CounterMod
<1>1. CounterMod \in Nat \ {0} /\ CounterMod \in Int /\ CounterMod > 0
  BY ConstAssumption
<1>2. PICK M \in Nat \ {0} : M = CounterMod
  BY <1>1
<1>3. PICK q \in Int, r \in 0 .. M - 1 : n = M * q + r /\ r = n % M
  BY <1>1, <1>2, Euclid
<1>x. PICK x \in Int : x = M * q
  OBVIOUS
<1>y. n = x + r
  BY <1>3, <1>x
<1>4. Inc(r) = (n + 1) % M
  <2>0. PICK k \in Int : k = n + 1
    OBVIOUS
  <2>1. CASE r + 1 = M
    <3>1. PICK p \in Int : p = q + 1
      OBVIOUS
    <3>2. M * p = x + M
      BY <1>x, <3>1
    <3>a. k = x + M
      BY <1>y, <2>0, <2>1
    <3>3. k = M * p + 0 /\ 0 \in 0 .. M - 1
      BY <3>2, <3>a
    <3>4. k % M = 0
      BY <3>3, Remainder
    <3> QED
      BY <1>2, <2>0, <2>1, <3>4 DEF Inc
  <2>2. CASE r + 1 # M
    <3>1. PICK w \in 0 .. M - 1 : w = r + 1
      BY <2>2
    <3>2. k = x + w
      BY <1>y, <2>0, <3>1
    <3>a. k = M * q + w
      BY <1>x, <3>2
    <3>3. k % M = w
      BY <3>a, Remainder
    <3> QED
      BY <1>2, <2>0, <2>2, <3>1, <3>3 DEF Inc
  <2> QED
    BY <2>1, <2>2
<1>5. Dec(r) = (n - 1) % M
  <2>0. PICK k \in Int : k = n - 1
    OBVIOUS
  <2>1. CASE r = 0
    <3>1. PICK p \in Int, w \in 0 .. M - 1 : p = q - 1 /\ w = M - 1
      OBVIOUS
    <3>2. M * p = x - M
      BY <1>x, <3>1
    <3>a. k = x - M + w
      BY <1>y, <2>0, <2>1, <3>1
    <3>3. k = M * p + w
      BY <3>2, <3>a
    <3>4. k % M = w
      BY <3>3, Remainder
    <3> QED
      BY <1>2, <2>0, <2>1, <3>1, <3>4 DEF Dec
  <2>2. CASE r # 0
    <3>1. PICK w \in 0 .. M - 1 : w = r - 1
      BY <2>2
    <3>2. k = x + w
      BY <1>y, <2>0, <3>1
    <3>a. k = M * q + w
      BY <1>x, <3>2
    <3>3. k % M = w
      BY <3>a, Remainder
    <3> QED
      BY <1>2, <2>0, <2>2, <3>1, <3>3 DEF Dec
  <2> QED
    BY <2>1, <2>2
<1> QED
  BY <1>2, <1>3, <1>4, <1>5

\* A linked context is in the table or in the hands of a thread that frees it:
\* there are no more of them than table entries and threads.
LEMMA FewLinked ==
    ASSUME CallInv, NEW s \in Sessions
    PROVE  /\ IsFiniteSet(LinkedTo(s))
           /\ Cardinality(LinkedTo(s)) \in Nat
           /\ Cardinality(LinkedTo(s)) <= CtxMax + Cardinality(Threads)
<1> DEFINE T == {ctxtable[i] : i \in Slots}
           U == {thr[t].cur : t \in Threads}
           g == [t \in Threads |-> thr[t].cur]
<1>a. CtxMax \in Nat /\ IsFiniteSet(Slots) /\ Cardinality(Slots) = CtxMax
  <2>1. CtxMax \in Nat \ {0} /\ 0 \in Int /\ CtxMax - 1 \in Int
    BY ConstAssumption
  <2>2. /\ IsFiniteSet(0 .. CtxMax - 1)
        /\ Cardinality(0 .. CtxMax - 1) = IF 0 > CtxMax - 1 THEN 0 ELSE CtxMax - 1 - 0 + 1
    BY <2>1, FS_Interval
  <2> QED
    BY <2>1, <2>2 DEF Slots
<1>1. IsFiniteSet(T) /\ Cardinality(T) <= CtxMax /\ Cardinality(T) \in Nat
  <2>1. ctxtable \in [Slots -> T]
    BY Everybody DEF TypeOK
  <2>2. ctxtable \in Surjection(Slots, T)
    BY <2>1 DEF Surjection
  <2> QED
    BY <1>a, <2>2, FS_Surjection, FS_CardinalityType
<1>2. IsFiniteSet(U) /\ Cardinality(U) <= Cardinality(Threads) /\ Cardinality(U) \in Nat
  <2>1. g \in Surjection(Threads, U)
    BY DEF Surjection
  <2> QED
    BY <2>1, FiniteAssumption, FS_Surjection, FS_CardinalityType
<1>3. IsFiniteSet(T \cup U) /\ Cardinality(T \cup U) <= CtxMax + Cardinality(Threads)
  <2>1. T \cap U \in SUBSET T
    OBVIOUS
  <2>2. IsFiniteSet(T \cap U) /\ Cardinality(T \cap U) \in Nat
    BY <1>1, <2>1, FS_Subset, FS_CardinalityType
  <2>3. /\ IsFiniteSet(T \cup U)
        /\ Cardinality(T \cup U) = Cardinality(T) + Cardinality(U) - Cardinality(T \cap U)
    BY <1>1, <1>2, FS_Union
  <2>4. Cardinality(Threads) \in Nat
    BY FiniteAssumption, FS_CardinalityType
  <2> QED
    BY <1>1, <1>2, <1>a, <2>2, <2>3, <2>4
<1>4. LinkedTo(s) \in SUBSET (T \cup U)
  <2>1. ASSUME NEW c \in Ctx, Linked(c, s) PROVE c \in T \cup U
    <3>1. ctx[c].live /\ LiveInv(c) /\ ctx[c].id.idx \in Slots
      BY <2>1, Everybody DEF Linked
    <3> QED
      BY <3>1 DEF LiveInv
  <2> QED
    BY <2>1 DEF LinkedTo
<1>5. IsFiniteSet(LinkedTo(s)) /\ Cardinality(LinkedTo(s)) <= Cardinality(T \cup U)
  BY <1>3, <1>4, FS_Subset
<1>6. /\ Cardinality(LinkedTo(s)) \in Nat /\ Cardinality(T \cup U) \in Nat
      /\ Cardinality(Threads) \in Nat
  BY <1>3, <1>5, FiniteAssumption, FS_CardinalityType
<1> QED
  BY <1>3, <1>5, <1>6, <1>a

\* The accounts of one session: the counter and the set it counts.
Balanced(s) ==
    fl[s].active = (Cardinality(LinkedTo(s)) - fl[s].fails) % CounterMod

AccountInv == \A s \in Sessions : fl[s].phase = "open" => Balanced(s)

\* Every change of the lists of an open session is counted.
LEMMA AccountStep ==
    ASSUME CallInv, AccountInv, [Next]_vars, NEW s \in Sessions, fl'[s].phase = "open"
    PROVE  Balanced(s)'
<1>a. /\ TypeOK /\ ctx \in [Ctx -> CtxType] /\ fl \in [Sessions -> SessionType]
      /\ fl[s].fails \in Nat
  BY Everybody DEF TypeOK, SessionType
<1>b. /\ IsFiniteSet(LinkedTo(s)) /\ Cardinality(LinkedTo(s)) \in Nat
  BY FewLinked
<1>c. PICK n \in Nat, f \in Nat : n = Cardinality(LinkedTo(s)) /\ f = fl[s].fails
  BY <1>a, <1>b
<1>d. n - f \in Int
  OBVIOUS
<1>1. CASE Calm(s)
  <2>1. LinkedTo(s)' = LinkedTo(s)
    BY <1>1 DEF Calm, SameLinks, LinkedTo
  <2> QED
    BY <1>1, <2>1 DEF Calm, SameCount, AccountInv, Balanced
<1>2. ASSUME NEW t \in Callers(s), AllocFault(t) \/ ContextNoSlot(t) PROVE Balanced(s)'
  <2>1. FreeUnlinked(s) /\ UNCHANGED ctx
    BY <1>2 DEF AllocFault, ContextNoSlot, Callers
  <2>2. /\ fl'[s].active = Dec(fl[s].active) /\ fl'[s].fails = f + 1
        /\ fl'[s].phase = fl[s].phase
    BY <1>a, <1>c, <2>1 DEF FreeUnlinked, SessionType
  <2>3. LinkedTo(s)' = LinkedTo(s)
    BY <2>1 DEF LinkedTo, Linked
  <2>4. fl[s].active = (n - f) % CounterMod
    BY <1>c, <2>2 DEF AccountInv, Balanced
  <2>5. fl'[s].active = (n - f - 1) % CounterMod
    BY <1>d, <2>2, <2>4, CountMod
  <2>6. n - f - 1 = n - (f + 1)
    OBVIOUS
  <2> QED
    BY <1>c, <2>2, <2>3, <2>5, <2>6 DEF Balanced
<1>3. ASSUME NEW t \in Callers(s), ContextLink(t) PROVE Balanced(s)'
  <2>0. t \in Threads /\ SessionOf[t] = s /\ thr[t].pc = "link"
    BY <1>3 DEF Callers, ContextLink
  <2>1. PICK c \in Ctx : /\ c = thr[t].cur /\ ctx[c].fl = s /\ ctx[c].list = "fake"
    BY <2>0, Everybody, HoldingFacts
  <2>2. /\ \A d \in Ctx \ {c} : ctx'[d] = ctx[d]
        /\ ctx'[c].fl = s /\ ctx'[c].list = "pending"
    BY <1>3, <1>a, <2>1 DEF ContextLink, CtxType
  <2>3. LinkedTo(s)' = LinkedTo(s) \cup {c} /\ c \notin LinkedTo(s)
    BY <2>1, <2>2 DEF LinkedTo, Linked
  <2>4. Cardinality(LinkedTo(s)') = n + 1
    BY <1>b, <1>c, <2>3, FS_AddElement
  <2>5. /\ fl'[s].active = Inc(fl[s].active) /\ fl'[s].fails = f
        /\ fl'[s].phase = fl[s].phase
    BY <1>3, <1>a, <1>c, <2>0 DEF ContextLink, SessionType
  <2>6. fl[s].active = (n - f) % CounterMod
    BY <1>c, <2>5 DEF AccountInv, Balanced
  <2>7. fl'[s].active = (n - f + 1) % CounterMod
    BY <1>d, <2>5, <2>6, CountMod
  <2>8. n - f + 1 = n + 1 - f
    OBVIOUS
  <2> QED
    BY <2>4, <2>5, <2>7, <2>8 DEF Balanced
<1>4. ASSUME NEW t \in Callers(s), FreeLink(t) PROVE Balanced(s)'
  <2>0. t \in Threads /\ SessionOf[t] = s /\ thr[t].pc = "unlink"
    BY <1>4 DEF Callers, FreeLink
  <2>1. PICK c \in Ctx : /\ c = thr[t].cur /\ ctx[c].fl = s /\ ctx[c].list = "pending"
    BY <2>0, Everybody, HoldingFacts
  <2>2. /\ \A d \in Ctx \ {c} : ctx'[d] = ctx[d]
        /\ ctx'[c].list = "none"
    BY <1>4, <1>a, <2>1 DEF FreeLink, FreeCtx
  <2>3. LinkedTo(s)' = LinkedTo(s) \ {c} /\ c \in LinkedTo(s)
    BY <2>1, <2>2 DEF LinkedTo, Linked
  <2>4. Cardinality(LinkedTo(s)') = n - 1
    BY <1>b, <1>c, <2>3, FS_RemoveElement
  <2>5. /\ fl'[s].active = Dec(fl[s].active) /\ fl'[s].fails = f
        /\ fl'[s].phase = fl[s].phase
    BY <1>4, <1>a, <1>c, <2>0, <2>1 DEF FreeLink, SessionType
  <2>6. fl[s].active = (n - f) % CounterMod
    BY <1>c, <2>5 DEF AccountInv, Balanced
  <2>7. fl'[s].active = (n - f - 1) % CounterMod
    BY <1>d, <2>5, <2>6, CountMod
  <2>8. n - f - 1 = n - 1 - f
    OBVIOUS
  <2> QED
    BY <2>4, <2>5, <2>7, <2>8 DEF Balanced
<1>5. ASSUME NEW t \in Callers(s), NEW kind \in Kinds, NEW sc \in Scs, NEW async \in BOOLEAN,
             InvokeNew(t, kind, sc, async)
      PROVE  Balanced(s)'
  <2>1. UNCHANGED <<ctx, fl>>
    BY <1>5 DEF InvokeNew
  <2> QED
    BY <2>1 DEF AccountInv, Balanced, LinkedTo, Linked
<1>6. CASE FileOpen(s)
  <2>1. /\ fl'[s].active = 0 /\ fl'[s].fails = 0 /\ fl[s].phase = "closed" /\ ctx' = ctx
    BY <1>6, <1>a DEF FileOpen, ClosedSession
  <2>2. LinkedTo(s)' = {}
    BY <2>1, Everybody DEF LinkedTo, Linked
  <2>3. Cardinality(LinkedTo(s)') = 0
    BY <2>2, FS_EmptySet
  <2>4. 0 % CounterMod = 0
    <3>1. 0 = CounterMod * 0 + 0 /\ 0 \in 0 .. CounterMod - 1 /\ CounterMod \in Nat \ {0}
      BY ConstAssumption
    <3> QED
      BY <3>1, Remainder
  <2> QED
    BY <2>1, <2>3, <2>4 DEF Balanced
<1>7. CASE FileFreeEnd(s) \/ DtorUnlink(s)
  BY <1>7, <1>a DEF FileFreeEnd, DtorUnlink, ClosedSession, SessionType
<1> QED
  BY <1>1, <1>2, <1>3, <1>4, <1>5, <1>6, <1>7, CalmStep DEF Event

\* num_active_ctxs of an open session counts its linked contexts, less one,
\* modulo its range, for every allocation that failed after kzalloc: the
\* increment and the decrements of context_alloc and context_free balance
\* whatever the order in which the callers run.
THEOREM ActiveAccounted == Spec => []ActiveAccounting
<1>1. Init => AccountInv
  BY DEF Init, AccountInv, ClosedSession
<1>2. CallInv /\ AccountInv /\ [Next]_vars => AccountInv'
  <2> SUFFICES ASSUME CallInv, AccountInv, [Next]_vars, NEW s \in Sessions,
                      fl'[s].phase = "open"
               PROVE  Balanced(s)'
    BY DEF AccountInv
  <2> QED
    BY AccountStep
<1>3. AccountInv => ActiveAccounting
  BY DEF AccountInv, Balanced, LinkedTo, ActiveAccounting
<1> QED
  BY <1>1, <1>2, <1>3, CallInvariance, PTL DEF Spec

\* The sets of the quota are finite.
LEMMA QuotaSets ==
    ASSUME CallInv, NEW s \in Sessions
    PROVE  /\ IsFiniteSet(UserLinked(s)) /\ Cardinality(UserLinked(s)) \in Nat
           /\ Cardinality(UserLinked(s)) <= Cardinality(LinkedTo(s))
           /\ IsFiniteSet(Callers(s)) /\ Cardinality(Callers(s)) \in Nat
           /\ IsFiniteSet(Arriving(s)) /\ Cardinality(Arriving(s)) \in Nat
           /\ fl[s].fails \in Nat /\ fl[s].active \in Nat /\ MaxPending \in Nat
<1>1. UserLinked(s) \in SUBSET LinkedTo(s)
  BY DEF UserLinked, LinkedTo
<1>2. IsFiniteSet(UserLinked(s)) /\ Cardinality(UserLinked(s)) <= Cardinality(LinkedTo(s))
  BY <1>1, FewLinked, FS_Subset
<1>3. Callers(s) \in SUBSET Threads /\ Arriving(s) \in SUBSET Threads
  BY DEF Callers, Arriving
<1>4. IsFiniteSet(Callers(s)) /\ IsFiniteSet(Arriving(s))
  BY <1>3, FiniteAssumption, FS_Subset
<1>5. fl[s].fails \in Nat /\ fl[s].active \in Nat /\ MaxPending \in Nat
  BY Everybody, ConstAssumption DEF TypeOK, SessionType
<1> QED
  BY <1>2, <1>4, <1>5, FS_CardinalityType

\* A step that adds nobody to the quota keeps it.
LEMMA QuotaShrinks ==
    ASSUME CallInv, NEW s \in Sessions, Within(s), fl'[s].fails \in Nat,
           fl[s].fails <= fl'[s].fails,
           UserLinked(s)' \subseteq UserLinked(s), Arriving(s)' \subseteq Arriving(s)
    PROVE  Within(s)'
<1>1. Callers(s)' = Callers(s)
  BY DEF Callers
<1>2. /\ IsFiniteSet(UserLinked(s)') /\ Cardinality(UserLinked(s)') <= Cardinality(UserLinked(s))
      /\ IsFiniteSet(Arriving(s)') /\ Cardinality(Arriving(s)') <= Cardinality(Arriving(s))
  BY QuotaSets, FS_Subset
<1>3. Cardinality(UserLinked(s)') \in Nat /\ Cardinality(Arriving(s)') \in Nat
  BY <1>2, FS_CardinalityType
<1> QED
  BY <1>1, <1>2, <1>3, QuotaSets DEF Within

\* The check bounds what is linked, up to the failures that lowered the
\* counter, as long as the counter cannot wrap upwards.
LEMMA CheckBounds ==
    ASSUME CallInv, NEW s \in Sessions, Balanced(s), fl[s].active <= MaxPending,
           CtxMax + Cardinality(Threads) < CounterMod
    PROVE  Cardinality(LinkedTo(s)) <= MaxPending + fl[s].fails
<1>1. PICK n \in Nat, f \in Nat : n = Cardinality(LinkedTo(s)) /\ f = fl[s].fails
  BY FewLinked, QuotaSets
<1>2. /\ CtxMax \in Nat /\ CounterMod \in Nat \ {0} /\ MaxPending \in Nat
      /\ Cardinality(Threads) \in Nat
  BY ConstAssumption, FiniteAssumption, FS_CardinalityType
<1>3. n < CounterMod
  BY <1>1, <1>2, FewLinked
<1>4. CASE n < f
  BY <1>1, <1>2, <1>4
<1>5. CASE n >= f
  <2>1. PICK r \in 0 .. CounterMod - 1 : r = n - f
    BY <1>2, <1>3, <1>5
  <2>2. r = CounterMod * 0 + r
    BY <1>2
  <2>3. r % CounterMod = r
    BY <1>2, <2>2, Remainder
  <2>4. fl[s].active = r
    BY <1>1, <2>1, <2>3 DEF Balanced
  <2> QED
    BY <1>1, <1>2, <2>1, <2>4
<1> QED
  BY <1>1, <1>4, <1>5

\* Every arrival and every link is paid for.
LEMMA QuotaStep ==
    ASSUME CallInv, AccountInv, [Next]_vars, NEW s \in Sessions, Within(s),
           CtxMax + Cardinality(Threads) < CounterMod
    PROVE  Within(s)'
<1>a. /\ TypeOK /\ ctx \in [Ctx -> CtxType] /\ fl \in [Sessions -> SessionType]
      /\ thr \in [Threads -> ThreadType] /\ fl[s].fails \in Nat
  BY Everybody DEF TypeOK, SessionType
<1>b. Callers(s)' = Callers(s)
  BY DEF Callers
<1>c. ASSUME NoArrival(s) PROVE Arriving(s)' \subseteq Arriving(s)
  BY <1>b, <1>c DEF Arriving, NoArrival, Callers
<1>d. ASSUME UNCHANGED ctx PROVE UserLinked(s)' = UserLinked(s)
  BY <1>d DEF UserLinked, Linked
<1>1. CASE Calm(s)
  <2>1. UserLinked(s)' \subseteq UserLinked(s)
    BY <1>1 DEF Calm, SameLinks, UserLinked
  <2>2. Arriving(s)' \subseteq Arriving(s) /\ fl'[s].fails = fl[s].fails
    BY <1>1, <1>c DEF Calm, SameCount
  <2> QED
    BY <1>a, <2>1, <2>2, QuotaShrinks
<1>2. ASSUME NEW t \in Callers(s), AllocFault(t) \/ ContextNoSlot(t) PROVE Within(s)'
  <2>0. t \in Threads /\ SessionOf[t] = s
    BY DEF Callers
  <2>1. FreeUnlinked(s) /\ UNCHANGED ctx
    BY <1>2, <2>0 DEF AllocFault, ContextNoSlot
  <2>2. fl'[s].fails = fl[s].fails + 1
    BY <1>a, <2>1 DEF FreeUnlinked, SessionType
  <2>3. \E err : Fail(t, "return", err)
    BY <1>2 DEF AllocFault, ContextNoSlot
  <2>4. Arriving(s)' \subseteq Arriving(s)
    BY <1>a, <1>c, <2>0, <2>3, GotoArrival
  <2> QED
    BY <1>a, <1>d, <2>1, <2>2, <2>4, QuotaShrinks
<1>3. ASSUME NEW t \in Callers(s), ContextLink(t) PROVE Within(s)'
  <2>0. t \in Threads /\ SessionOf[t] = s /\ thr[t].pc = "link"
    BY <1>3 DEF Callers, ContextLink
  <2>1. PICK c \in Ctx : /\ c = thr[t].cur /\ ctx[c].fl = s /\ ctx[c].list = "fake"
                         /\ ctx[c].kind = thr[t].kind
    BY <2>0, Everybody, HoldingFacts DEF ThreadInv
  <2>2. /\ \A d \in Ctx \ {c} : ctx'[d] = ctx[d]
        /\ ctx'[c].fl = s /\ ctx'[c].list = "pending" /\ ctx'[c].kind = ctx[c].kind
    BY <1>3, <1>a, <2>1 DEF ContextLink, CtxType
  <2>3. /\ \A u \in Threads \ {t} : thr'[u] = thr[u]
        /\ thr'[t].pc = "args"
    BY <1>3, <1>a, <2>0, MoveFacts DEF ContextLink
  <2>4. fl'[s].fails = fl[s].fails
    BY <1>3, <1>a, <2>0 DEF ContextLink, SessionType
  <2>5. Arriving(s)' = Arriving(s) \ {t}
    BY <1>b, <2>3 DEF Arriving, Callers
  <2>6. CASE ctx[c].kind # "user"
    <3>1. UserLinked(s)' = UserLinked(s)
      BY <2>1, <2>2, <2>6 DEF UserLinked, Linked
    <3> QED
      BY <1>a, <2>4, <2>5, <3>1, QuotaShrinks
  <2>7. CASE ctx[c].kind = "user"
    <3>1. UserLinked(s)' = UserLinked(s) \cup {c} /\ c \notin UserLinked(s)
      BY <2>1, <2>2, <2>7 DEF UserLinked, Linked
    <3>2. t \in Arriving(s)
      BY <1>3, <2>0, <2>1, <2>7 DEF Arriving
    <3>3. /\ Cardinality(UserLinked(s)') = Cardinality(UserLinked(s)) + 1
          /\ Cardinality(Arriving(s)') = Cardinality(Arriving(s)) - 1
      <4>1. IsFiniteSet(UserLinked(s)) /\ IsFiniteSet(Arriving(s))
        BY QuotaSets
      <4>2. Cardinality(UserLinked(s) \cup {c}) = Cardinality(UserLinked(s)) + 1
        BY <3>1, <4>1, FS_AddElement
      <4>3. Cardinality(Arriving(s) \ {t}) = Cardinality(Arriving(s)) - 1
        BY <3>2, <4>1, FS_RemoveElement
      <4> QED
        BY <2>5, <3>1, <4>2, <4>3
    <3> QED
      BY <1>b, <2>4, <3>3, QuotaSets DEF Within
  <2> QED
    BY <2>6, <2>7
<1>4. ASSUME NEW t \in Callers(s), FreeLink(t) PROVE Within(s)'
  <2>0. t \in Threads /\ SessionOf[t] = s /\ thr[t].pc = "unlink"
    BY <1>4 DEF Callers, FreeLink
  <2>1. PICK c \in Ctx : c = thr[t].cur
    BY <2>0, Everybody, HoldingFacts
  <2>2. /\ \A d \in Ctx \ {c} : ctx'[d] = ctx[d]
        /\ ctx'[c].list = "none"
    BY <1>4, <1>a, <2>1 DEF FreeLink, FreeCtx
  <2>3. UserLinked(s)' \subseteq UserLinked(s)
    BY <2>2 DEF UserLinked, Linked
  <2>4. fl'[s].fails = fl[s].fails
    BY <1>4, <1>a, <2>0 DEF FreeLink, SessionType
  <2>5. NoArrival(s)
    BY <1>4, <1>a DEF FreeLink, NoArrival, ThreadType
  <2> QED
    BY <1>a, <1>c, <2>3, <2>4, <2>5, QuotaShrinks
<1>5. ASSUME NEW t \in Callers(s), NEW kind \in Kinds, NEW sc \in Scs, NEW async \in BOOLEAN,
             InvokeNew(t, kind, sc, async)
      PROVE  Within(s)'
  <2>0. t \in Threads /\ SessionOf[t] = s /\ fl[s].phase = "open"
    BY <1>5 DEF Callers, InvokeNew
  <2>1. UNCHANGED <<ctx, fl>>
    BY <1>5 DEF InvokeNew
  <2>2. /\ \A u \in Threads \ {t} : thr'[u] = thr[u]
        /\ thr'[t].kind = kind
        /\ thr'[t].pc = "alloc" => fl[s].active <= MaxPending \/ Privileged(kind)
        /\ thr'[t].pc \in {"alloc", "return"}
    BY <1>5, <1>a, <2>0, QuotaSets DEF InvokeNew
  <2>3. CASE kind = "user" /\ thr'[t].pc = "alloc"
    <3>1. fl[s].active <= MaxPending
      BY <2>2, <2>3 DEF Privileged
    <3>2. Balanced(s)
      BY <2>0 DEF AccountInv
    <3>3. Cardinality(LinkedTo(s)) <= MaxPending + fl[s].fails
      BY <3>1, <3>2, CheckBounds
    <3>4. Arriving(s)' \in SUBSET Callers(s)
      BY <1>b DEF Arriving
    <3>5. Cardinality(Arriving(s)') \in Nat /\ Cardinality(Arriving(s)') <= Cardinality(Callers(s))
      BY <3>4, QuotaSets, FS_Subset, FS_CardinalityType
    <3>6. Cardinality(UserLinked(s)') = Cardinality(UserLinked(s)) /\ fl'[s].fails = fl[s].fails
      BY <1>d, <2>1
    <3>7. Cardinality(UserLinked(s)) <= MaxPending + fl[s].fails
      BY <3>3, FewLinked, QuotaSets
    <3> QED
      BY <1>b, <3>5, <3>6, <3>7, QuotaSets DEF Within
  <2>4. CASE kind # "user" \/ thr'[t].pc # "alloc"
    <3>1. Arriving(s)' \subseteq Arriving(s)
      BY <1>b, <2>2, <2>4 DEF Arriving, Callers
    <3> QED
      BY <1>a, <1>d, <2>1, <3>1, QuotaShrinks
  <2> QED
    BY <2>3, <2>4
<1>6. CASE FileOpen(s) \/ FileFreeEnd(s)
  <2>1. UserLinked(s) = {}
    BY <1>6, Everybody DEF FileOpen, FileFreeEnd, UserLinked, Linked
  <2>2. Arriving(s) = {}
    BY <1>6, Everybody DEF FileOpen, FileFreeEnd, Arriving, Callers
  <2>3. UserLinked(s)' = {} /\ Arriving(s)' = {} /\ fl'[s].fails = 0
    <3>1. UNCHANGED <<ctx, thr>>
      BY <1>6 DEF FileOpen, FileFreeEnd
    <3>2. fl'[s].fails = 0
      <4>1. CASE FileOpen(s)
        BY <1>a, <4>1 DEF FileOpen, ClosedSession
      <4>2. CASE FileFreeEnd(s)
        BY <1>a, <4>2 DEF FileFreeEnd, ClosedSession
      <4> QED
        BY <1>6, <4>1, <4>2
    <3> QED
      BY <1>b, <1>d, <2>1, <2>2, <3>1, <3>2 DEF Arriving
  <2> QED
    BY <1>b, <2>3, QuotaSets, FS_EmptySet DEF Within
<1>7. CASE DtorUnlink(s)
  <2>1. PICK c \in Ctx : /\ ctx' = [ctx EXCEPT ![c].list = "none"]
                         /\ fl' = [fl EXCEPT ![s].dtor = c]
    BY <1>7 DEF DtorUnlink
  <2>2. /\ \A d \in Ctx \ {c} : ctx'[d] = ctx[d]
        /\ ctx'[c].list = "none"
    BY <1>a, <2>1 DEF CtxType
  <2>3. UserLinked(s)' \subseteq UserLinked(s)
    BY <2>2 DEF UserLinked, Linked
  <2>4. fl'[s].fails = fl[s].fails /\ thr' = thr
    BY <1>7, <1>a, <2>1 DEF DtorUnlink, SessionType
  <2>5. NoArrival(s)
    BY <2>4 DEF NoArrival
  <2> QED
    BY <1>a, <1>c, <2>3, <2>4, <2>5, QuotaShrinks
<1> QED
  BY <1>1, <1>2, <1>3, <1>4, <1>5, <1>6, <1>7, CalmStep DEF Event

\* Between context_alloc's quota check and the increment the lock is dropped:
\* however the callers interleave, the calls on dynamic handles of a session
\* exceed the quota by at most one per thread and one per failed allocation.
\* The 32-bit counter exceeds anything the table and the threads can hold.
THEOREM QuotaBounded ==
    ASSUME CtxMax + Cardinality(Threads) < CounterMod
    PROVE  Spec => []QuotaOvershootBounded
<1>1. Init => AccountInv /\ QuotaInv
  <2> SUFFICES ASSUME Init PROVE AccountInv /\ QuotaInv
    OBVIOUS
  <2>1. AccountInv
    BY DEF Init, AccountInv, ClosedSession
  <2>2. ASSUME NEW s \in Sessions PROVE Within(s)
    <3>1. UserLinked(s) = {} /\ Arriving(s) = {} /\ fl[s].fails = 0
      BY DEF Init, UserLinked, Arriving, Callers, Linked, FreeCtx, IdleThread, ClosedSession
    <3>2. Callers(s) \in SUBSET Threads
      BY DEF Callers
    <3>3. Cardinality(Callers(s)) \in Nat /\ MaxPending \in Nat
      BY <3>2, FiniteAssumption, ConstAssumption, FS_Subset, FS_CardinalityType
    <3> QED
      BY <3>1, <3>3, FS_EmptySet DEF Within
  <2> QED
    BY <2>1, <2>2 DEF QuotaInv
<1>2. CallInv /\ AccountInv /\ QuotaInv /\ [Next]_vars => AccountInv' /\ QuotaInv'
  <2> SUFFICES ASSUME CallInv, AccountInv, QuotaInv, [Next]_vars PROVE AccountInv' /\ QuotaInv'
    OBVIOUS
  <2>1. AccountInv'
    BY AccountStep DEF AccountInv
  <2>2. ASSUME NEW s \in Sessions PROVE Within(s)'
    BY QuotaStep DEF QuotaInv
  <2> QED
    BY <2>1, <2>2 DEF QuotaInv
<1>3. CallInv /\ QuotaInv => QuotaOvershootBounded
  <2> SUFFICES ASSUME CallInv, QuotaInv, NEW s \in Sessions
               PROVE  Cardinality(UserLinked(s))
                        <= MaxPending + fl[s].fails + Cardinality(Callers(s))
    BY DEF QuotaOvershootBounded, UserLinked, Callers
  <2>1. Within(s)
    BY DEF QuotaInv
  <2> QED
    BY <2>1, QuotaSets DEF Within
<1> QED
  BY <1>1, <1>2, <1>3, CallInvariance, PTL DEF Spec

-----------------------------------------------------------------------------
(* The execution of a call: HybridInvoke implements RemoteCalls.           *)

Preparing == {"link", "args", "send"}

\* A call is in one stage of its execution.
StageInv ==
    /\ calls \in 0 .. MaxCalls
    /\ Prepared \subseteq 1 .. calls /\ Running \subseteq 1 .. calls
    /\ finished \subseteq 1 .. calls
    /\ Prepared \cap Running = {} /\ Prepared \cap finished = {} /\ Running \cap finished = {}

\* What a step may do to the stages: a call gets a number, ...
Publishes ==
    /\ calls < MaxCalls /\ calls' = calls + 1
    /\ Prepared' = Prepared \cup {calls + 1}
    /\ UNCHANGED <<chan, Running, finished>>

\* ... is sent or given up, ...
Leaves(n) ==
    /\ n \in Prepared /\ Prepared' = Prepared \ {n}
    /\ UNCHANGED <<calls, chan>>
    /\ \/ UNCHANGED <<Running, finished>>
       \/ chan.state = "up" /\ Running' = Running \cup {n} /\ UNCHANGED finished
       \/ chan.state = "up" /\ finished' = finished \cup {n} /\ UNCHANGED Running

\* ... is executed, ...
Completes(n) ==
    /\ n \in Running /\ Running' = Running \ {n}
    /\ finished' = finished \cup {n}
    /\ chan.state = "up"
    /\ UNCHANGED <<calls, chan, Prepared>>

\* ... or ends with its process or with the subsystem.
Ends ==
    /\ Running' \subseteq Running
    /\ UNCHANGED <<calls, Prepared, finished>>
    /\ \/ chan.state = "up" /\ chan'.state # "up" /\ Running' = {}
       \/ chan.state # "up" /\ chan'.state = "up" /\ Running' = Running
       \/ chan.state = "up" /\ chan'.state = "up"
       \/ chan.state # "up" /\ chan'.state # "up"

\* Each of these keeps the stages apart.
LEMMA StageStep ==
    ASSUME StageInv, MaxCalls \in Nat,
           Publishes \/ Ends \/ \E n : Leaves(n) \/ Completes(n)
    PROVE  StageInv'
<1>1. CASE Publishes
  BY <1>1 DEF StageInv, Publishes
<1>2. CASE Ends
  BY <1>2 DEF StageInv, Ends
<1>3. ASSUME NEW n, Leaves(n) PROVE StageInv'
  BY <1>3 DEF StageInv, Leaves
<1>4. ASSUME NEW n, Completes(n) PROVE StageInv'
  BY <1>4 DEF StageInv, Completes
<1> QED
  BY <1>1, <1>2, <1>3, <1>4

\* Only call n changes its stage.
LEMMA OnlyOne ==
    ASSUME NEW n \in 1 .. MaxCalls, NEW s, Status(n)' = s,
           \A m \in 1 .. MaxCalls : m # n => Status(m)' = Status(m),
           UNCHANGED chan
    PROVE  /\ Executions!Become(n, s)
           /\ (IF chan.state = "up" THEN "up" ELSE "down")'
                = IF chan.state = "up" THEN "up" ELSE "down"
  BY DEF Executions!Become

\* Each of these is a step of RemoteCalls.
LEMMA StageRefines ==
    ASSUME StageInv, MaxCalls \in Nat,
           Publishes \/ Ends \/ \E n : Leaves(n) \/ Completes(n)
    PROVE  Executions!Next
<1>a. StageInv'
  BY StageStep
<1>b. ASSUME NEW n \in 1 .. MaxCalls
      PROVE  /\ n > calls => Status(n) = "new"
             /\ n \in Prepared => Status(n) = "prepared"
             /\ n \in Running => Status(n) = "running"
             /\ n \in finished => Status(n) = "finished"
             /\ n <= calls /\ n \notin Prepared \cup Running \cup finished => Status(n) = "dropped"
             /\ Status(n) = "running" => n \in Running
  BY DEF StageInv, Status
<1>c. ASSUME NEW n \in 1 .. MaxCalls
      PROVE  /\ n > calls' => Status(n)' = "new"
             /\ n \in Prepared' => Status(n)' = "prepared"
             /\ n \in Running' => Status(n)' = "running"
             /\ n \in finished' => Status(n)' = "finished"
             /\ n <= calls' /\ n \notin Prepared' \cup Running' \cup finished' => Status(n)' = "dropped"
  BY <1>a DEF StageInv, Status
<1>d. calls \in 0 .. MaxCalls /\ calls' \in 0 .. MaxCalls
  BY <1>a DEF StageInv
<1>e. /\ chan'.state = "up" => (IF chan.state = "up" THEN "up" ELSE "down")' = "up"
      /\ chan'.state # "up" => (IF chan.state = "up" THEN "up" ELSE "down")' = "down"
  OBVIOUS
<1>1. CASE Publishes
  <2>1. PICK n \in 1 .. MaxCalls : n = calls + 1
    BY <1>1, <1>d DEF Publishes
  <2>2. Status(n) = "new" /\ Status(n)' = "prepared" /\ UNCHANGED chan
    BY <1>1, <1>b, <1>c, <1>d, <2>1 DEF Publishes
  <2>3. ASSUME NEW m \in 1 .. MaxCalls, m # n PROVE Status(m)' = Status(m)
    BY <1>1, <1>d, <2>1, <2>3 DEF Publishes, Status
  <2>4. Executions!Prepare(n)
    BY <2>2, <2>3, OnlyOne DEF Executions!Prepare
  <2> QED
    BY <2>4 DEF Executions!Next
<1>2. ASSUME NEW n, Leaves(n) PROVE Executions!Next
  <2>1. n \in 1 .. MaxCalls /\ n <= calls' /\ Status(n) = "prepared" /\ UNCHANGED chan
    BY <1>2, <1>b DEF Leaves, StageInv
  <2>2. ASSUME NEW m \in 1 .. MaxCalls, m # n PROVE Status(m)' = Status(m)
    BY <1>2, <2>2 DEF Leaves, Status
  <2>3. CASE UNCHANGED <<Running, finished>>
    <3>1. n \notin Prepared' \cup Running' \cup finished'
      BY <1>2, <2>3 DEF Leaves, StageInv
    <3>2. Status(n)' = "dropped"
      BY <1>c, <2>1, <3>1
    <3>3. Executions!Refuse(n)
      BY <2>1, <2>2, <3>2, OnlyOne DEF Executions!Refuse
    <3> QED
      BY <2>1, <3>3 DEF Executions!Next
  <2>4. CASE chan.state = "up" /\ Running' = Running \cup {n}
    <3>1. Status(n)' = "running"
      BY <1>c, <2>1, <2>4
    <3>2. Executions!Start(n)
      BY <2>1, <2>2, <2>4, <3>1, OnlyOne DEF Executions!Start
    <3> QED
      BY <2>1, <3>2 DEF Executions!Next
  <2>5. CASE chan.state = "up" /\ finished' = finished \cup {n}
    <3>1. Status(n)' = "finished"
      BY <1>c, <2>1, <2>5
    <3>2. Executions!Finish(n)
      BY <2>1, <2>2, <2>5, <3>1, OnlyOne DEF Executions!Finish
    <3> QED
      BY <2>1, <3>2 DEF Executions!Next
  <2> QED
    BY <1>2, <2>3, <2>4, <2>5 DEF Leaves
<1>3. ASSUME NEW n, Completes(n) PROVE Executions!Next
  <2>1. n \in 1 .. MaxCalls /\ Status(n) = "running" /\ Status(n)' = "finished"
    BY <1>3, <1>b, <1>c DEF Completes, StageInv
  <2>2. ASSUME NEW m \in 1 .. MaxCalls, m # n PROVE Status(m)' = Status(m)
    BY <1>3, <2>2 DEF Completes, Status
  <2>3. UNCHANGED chan /\ chan.state = "up"
    BY <1>3 DEF Completes
  <2>4. Executions!Finish(n)
    BY <2>1, <2>2, <2>3, OnlyOne DEF Executions!Finish
  <2> QED
    BY <2>1, <2>4 DEF Executions!Next
<1>4. CASE Ends
  <2> DEFINE S == Running \ Running'
  <2>0. Running \subseteq 1 .. MaxCalls
    BY <1>d DEF StageInv
  <2>1. S \subseteq 1 .. MaxCalls /\ \A n \in S : Status(n) = "running"
    BY <1>b, <2>0
  <2>2. ASSUME NEW n \in S PROVE Status(n)' = "dropped"
    <3>1. n <= calls' /\ n \notin Prepared' \cup Running' \cup finished'
      BY <1>4 DEF Ends, StageInv
    <3> QED
      BY <1>c, <2>1, <3>1
  <2>3. ASSUME NEW n \in (1 .. MaxCalls) \ S PROVE Status(n)' = Status(n)
    BY <1>4 DEF Ends, Status
  <2>4. Executions!Drop(S)
    BY <2>1, <2>2, <2>3 DEF Executions!Drop
  <2>5. CASE chan.state = "up" /\ chan'.state # "up" /\ Running' = {}
    <3>1. S = {n \in 1 .. MaxCalls : Status(n) = "running"}
      BY <1>b, <2>1, <2>5
    <3>2. Executions!Stop
      BY <1>e, <2>4, <2>5, <3>1 DEF Executions!Stop, Executions!Drop
    <3> QED
      BY <3>2 DEF Executions!Next
  <2>6. CASE chan.state # "up" /\ chan'.state = "up" /\ Running' = Running
    <3>1. \A n \in 1 .. MaxCalls : Status(n)' = Status(n)
      BY <2>3, <2>6
    <3>2. Executions!Recover
      BY <1>e, <2>6, <3>1 DEF Executions!Recover
    <3> QED
      BY <3>2 DEF Executions!Next
  <2>7. CASE \/ chan.state = "up" /\ chan'.state = "up"
             \/ chan.state # "up" /\ chan'.state # "up"
    <3>1. Executions!EndProcess
      BY <1>e, <2>1, <2>4, <2>7 DEF Executions!EndProcess
    <3> QED
      BY <3>1 DEF Executions!Next
  <2> QED
    BY <1>4, <2>5, <2>6, <2>7 DEF Ends
<1> QED
  BY <1>1, <1>2, <1>3, <1>4

\* A thread neither comes to nor leaves the way to the send.
StaysPut(u) ==
    /\ thr'[u].pc \in Preparing <=> thr[u].pc \in Preparing
    /\ thr[u].pc \in Preparing => thr'[u].call = thr[u].call

\* If all threads do so, the same calls are prepared.
LEMMA SamePrepared ==
    ASSUME \A u \in Threads : StaysPut(u)
    PROVE  Prepared' = Prepared
  BY DEF StaysPut, Preparing, Prepared

\* A thread on its way to the send has a call of its own.
LEMMA OwnCall ==
    ASSUME CallInv, NEW t \in Threads, thr[t].pc \in Preparing
    PROVE  \A u \in Threads \ {t} : thr[u].pc \in Preparing => thr[u].call # thr[t].call
<1>1. \A u \in Threads : thr[u].pc \in Preparing => thr[u].pc \in Holding
  BY Points DEF Preparing
<1>2. OwnInv /\ UniqueCalls
  BY DEF CallInv, IdInv, IndInv
<1>3. \A u \in Threads \ {t} : thr[u].cur # thr[t].cur
  BY <1>1, <1>2, OwnersDiffer
<1>4. \A u \in Threads : thr[u].pc \in Preparing =>
          thr[u].cur \in Ctx /\ ctx[thr[u].cur].live /\ ctx[thr[u].cur].call = thr[u].call
  BY <1>1, Everybody
<1> QED
  BY <1>2, <1>3, <1>4 DEF UniqueCalls

\* A thread leaves the way to the send.
LEMMA LeavesPrepared ==
    ASSUME CallInv, NEW t \in Threads, thr[t].pc \in Preparing, thr'[t].pc \notin Preparing,
           \A u \in Threads \ {t} : thr'[u] = thr[u]
    PROVE  thr[t].call \in Prepared /\ Prepared' = Prepared \ {thr[t].call}
<1>1. \A u \in Threads \ {t} : thr[u].pc \in Preparing => thr[u].call # thr[t].call
  BY OwnCall
<1> QED
  BY <1>1 DEF Prepared, Preparing

\* A step that moves thread t from p to q: the calls that are prepared.
LEMMA MovesOn ==
    ASSUME TypeOK, NEW t \in Threads, NEW q, NEW err, Goto(t, q) \/ Fail(t, q, err),
           thr[t].pc \in Preparing <=> q \in Preparing
    PROVE  Prepared' = Prepared
<1>1. thr \in [Threads -> ThreadType]
  BY DEF TypeOK
<1>2. /\ \A u \in Threads \ {t} : thr'[u] = thr[u]
      /\ thr'[t].pc = q /\ thr'[t].call = thr[t].call
  BY <1>1, GotoMoves
<1>3. \A u \in Threads : StaysPut(u)
  BY <1>2 DEF StaysPut
<1> QED
  BY <1>3, SamePrepared

\* A call is given up before the send.
LEMMA GivesUp ==
    ASSUME CallInv, NEW t \in Threads, NEW err, thr[t].pc \in Preparing,
           Fail(t, "unslot", err), UNCHANGED <<chan, requests, calls, finished>>
    PROVE  Leaves(thr[t].call)
<1>1. thr \in [Threads -> ThreadType]
  BY DEF CallInv, IdInv, IndInv, TypeOK
<1>2. \A u \in Threads \ {t} : thr'[u] = thr[u]
  BY <1>1, GotoMoves
<1>3. thr'[t].pc = "unslot"
  BY <1>1, GotoMoves
<1>4. thr'[t].pc \notin Preparing
  BY <1>3 DEF Preparing
<1>5. Running' = Running
  BY DEF Running
<1> QED
  BY <1>2, <1>4, <1>5, LeavesPrepared DEF Leaves

\* A context is published for the call.
LEMMA PublishStage ==
    ASSUME CallInv, NEW t \in Threads, ContextPublish(t)
    PROVE  Publishes
<1>1. thr \in [Threads -> ThreadType] /\ calls \in Nat
  BY DEF CallInv, IdInv, IndInv, TypeOK
<1>2. PICK c \in Ctx : thr' = [thr EXCEPT ![t].pc = "link", ![t].cur = c, ![t].call = calls + 1]
  BY DEF ContextPublish
<1>3. /\ \A u \in Threads \ {t} : thr'[u] = thr[u]
      /\ thr'[t].pc = "link" /\ thr'[t].call = calls + 1 /\ thr[t].pc = "alloc"
  BY <1>1, <1>2 DEF ThreadType, ContextPublish
<1>4. Prepared' = Prepared \cup {calls + 1}
  BY <1>3 DEF Prepared
<1>5. Running' = Running
  BY DEF Running, ContextPublish
<1> QED
  BY <1>4, <1>5 DEF ContextPublish, Publishes

\* The message goes out, is lost, or is answered at once.
LEMMA SendStage ==
    ASSUME CallInv, NEW t \in Threads, TransportSend(t)
    PROVE  Leaves(thr[t].call)
<1>1. thr \in [Threads -> ThreadType]
  BY DEF CallInv, IdInv, IndInv, TypeOK
<1>2. /\ \A u \in Threads \ {t} : thr'[u] = thr[u]
      /\ thr'[t].pc \in {"idle", "switch"} /\ thr[t].pc = "send"
  BY <1>1 DEF TransportSend, AfterSend, IdleThread, ThreadType
<1>3. thr[t].call \in Prepared /\ Prepared' = Prepared \ {thr[t].call}
  BY <1>2, LeavesPrepared DEF Preparing
<1>4. UNCHANGED <<calls, chan>>
  BY DEF TransportSend
<1>5. CASE chan.state = "up" /\ PdExists(SessionOf[t])
  <2>1. requests' = requests \cup {Request(t)} /\ UNCHANGED finished
    BY <1>5 DEF TransportSend
  <2>2. Request(t).call = thr[t].call /\ ~Request(t).polled
    BY DEF Request
  <2>3. Running' = Running \cup {thr[t].call}
    BY <2>1, <2>2 DEF Running
  <2> QED
    BY <1>3, <1>4, <1>5, <2>1, <2>3 DEF Leaves
<1>6. CASE chan.state = "up" /\ ~PdExists(SessionOf[t])
  <2>1. UNCHANGED requests /\ finished' = finished \cup {thr[t].call}
    BY <1>6 DEF TransportSend
  <2>2. Running' = Running
    BY <2>1 DEF Running
  <2> QED
    BY <1>3, <1>4, <1>6, <2>1, <2>2 DEF Leaves
<1>7. CASE chan.state # "up"
  <2>1. UNCHANGED <<requests, finished>>
    BY <1>7 DEF TransportSend
  <2>2. Running' = Running
    BY <2>1 DEF Running
  <2> QED
    BY <1>3, <1>4, <2>1, <2>2 DEF Leaves
<1> QED
  BY <1>5, <1>6, <1>7

\* What the DSP does with a request: a hint leaves it running, the result ends
\* its execution once.
LEMMA DspStage ==
    ASSUME CallInv, NEW r \in requests
    PROVE  /\ \A flag : DspInterim(r, flag) => Ends
           /\ DspPoll(r) => Completes(r.call)
           /\ DspFinish(r) => Ends \/ Completes(r.call)
<1>1. /\ requests \subseteq RequestType /\ r \in RequestType
      /\ \A q \in requests : q.call = r.call => q = r
      /\ r.polled => r.call \in finished
      /\ chan.state = "up"
  BY DEF CallInv, IdInv, IndInv, TypeOK, MsgInv, ChanInv
<1>2. ASSUME NEW flag, DspInterim(r, flag) PROVE Ends
  <2> DEFINE q == [r EXCEPT !.sent = @ \cup {flag}]
  <2>1. q.call = r.call /\ q.polled = r.polled
    BY <1>1 DEF RequestType
  <2>2. requests' = (requests \ {r}) \cup {q}
    BY <1>2 DEF DspInterim
  <2> HIDE DEF q
  <2>3. Running' = Running
    BY <2>1, <2>2 DEF Running
  <2>4. UNCHANGED <<thr, chan, calls, finished>>
    BY <1>2 DEF DspInterim
  <2>5. Prepared' = Prepared
    BY <2>4 DEF Prepared
  <2> QED
    BY <1>1, <2>3, <2>4, <2>5 DEF Ends
<1>3. ASSUME DspPoll(r) PROVE Completes(r.call)
  <2> DEFINE q == [r EXCEPT !.polled = TRUE]
  <2>1. q.polled
    BY <1>1 DEF RequestType
  <2>2. requests' = (requests \ {r}) \cup {q} /\ ~r.polled
    BY <1>3 DEF DspPoll
  <2> HIDE DEF q
  <2>3. r.call \in Running /\ Running' = Running \ {r.call}
    BY <1>1, <2>1, <2>2 DEF Running
  <2>4. UNCHANGED <<thr, chan, calls>> /\ finished' = finished \cup {r.call}
    BY <1>3 DEF DspPoll
  <2>5. Prepared' = Prepared
    BY <2>4 DEF Prepared
  <2> QED
    BY <1>1, <2>3, <2>4, <2>5 DEF Completes
<1>4. ASSUME DspFinish(r) PROVE Ends \/ Completes(r.call)
  <2>1. /\ requests' = requests \ {r} /\ finished' = finished \cup {r.call}
        /\ UNCHANGED <<thr, chan, calls>>
    BY <1>4 DEF DspFinish
  <2>2. Prepared' = Prepared
    BY <2>1 DEF Prepared
  <2>3. CASE r.polled
    <3>1. Running' = Running
      BY <2>1, <2>3 DEF Running
    <3>2. finished' = finished
      BY <1>1, <2>1, <2>3
    <3> QED
      BY <1>1, <2>1, <2>2, <3>1, <3>2 DEF Ends
  <2>4. CASE ~r.polled
    <3>1. r.call \in Running /\ Running' = Running \ {r.call}
      BY <1>1, <2>1, <2>4 DEF Running
    <3> QED
      BY <1>1, <2>1, <2>2, <3>1 DEF Completes
  <2> QED
    BY <2>3, <2>4
<1> QED
  BY <1>2, <1>3, <1>4

\* The stages stay as they are.
LEMMA QuietStage ==
    ASSUME Prepared' = Prepared, UNCHANGED <<chan, requests, calls, finished>>
    PROVE  Ends
<1>1. Running' = Running
  BY DEF Running
<1> QED
  BY <1>1 DEF Ends

\* What a thread does away from the send.
LEMMA ThreadStage ==
    ASSUME CallInv, NEW t \in Threads
    PROVE  /\ \A kind, sc : InvokeResume(t, kind, sc) => Ends
           /\ \A kind, sc, async : InvokeNew(t, kind, sc, async) => Ends
           /\ AllocNoMem(t) \/ AllocFault(t) \/ ContextNoSlot(t) \/ ContextLink(t) => Ends
           /\ (\/ WaitSwitch(t) \/ WaitTry(t) \/ WaitPoll(t) \/ WaitPollMode(t)
               \/ WaitBlock(t) \/ WaitInterrupted(t)) => Ends
           /\ (\/ SaveInterrupted(t) \/ PutArgs(t) \/ FreeSlot(t) \/ FreeLink(t)
               \/ InvokeReturn(t)) => Ends
           /\ InitProcess(t) \/ InitFails(t) \/ InitOpened(t) => Ends
<1>a. TypeOK /\ thr \in [Threads -> ThreadType]
  BY DEF CallInv, IdInv, IndInv, TypeOK
<1>b. ASSUME NEW q \in PCs \ Preparing, NEW err, thr[t].pc \notin Preparing,
             Goto(t, q) \/ Fail(t, q, err)
      PROVE  Prepared' = Prepared
  BY <1>a, <1>b, MovesOn
<1>c. ASSUME thr[t].pc \notin Preparing, thr'[t].pc \notin Preparing,
             \A u \in Threads \ {t} : thr'[u] = thr[u]
      PROVE  Prepared' = Prepared
  BY <1>c, SamePrepared DEF StaysPut
<1>d. /\ {"idle", "alloc", "switch", "try", "poll", "pollmode", "block", "save", "put",
          "unslot", "unlink", "return"} \subseteq PCs \ Preparing
      /\ \A done : LoopTest(done) \in {"put", "switch"}
  BY DEF PCs, Preparing, LoopTest
<1>1. ASSUME NEW kind, NEW sc, InvokeResume(t, kind, sc) PROVE Ends
  <2>1. thr[t].pc = "idle" /\ UNCHANGED <<chan, requests, calls, finished>>
    BY <1>1 DEF InvokeResume
  <2>2. \/ Fail(t, "return", "inval")
        \/ \E c : thr' = [thr EXCEPT ![t] =
                       [pc |-> "switch", cur |-> c, kind |-> kind, sc |-> sc,
                        async |-> FALSE, err |-> "none", call |-> ctx[c].call]]
    BY <1>1 DEF InvokeResume
  <2>3. /\ thr'[t].pc \in {"switch", "return"}
        /\ \A u \in Threads \ {t} : thr'[u] = thr[u]
    BY <1>a, <2>2, GotoMoves
  <2>4. Prepared' = Prepared
    BY <1>c, <1>d, <2>1, <2>3
  <2> QED
    BY <2>1, <2>4, QuietStage
<1>2. ASSUME NEW kind, NEW sc, NEW async, InvokeNew(t, kind, sc, async) PROVE Ends
  <2>1. thr[t].pc = "idle" /\ UNCHANGED <<chan, requests, calls, finished>>
    BY <1>2 DEF InvokeNew
  <2>2. /\ thr'[t].pc \in {"alloc", "return"}
        /\ \A u \in Threads \ {t} : thr'[u] = thr[u]
    BY <1>a, <1>2 DEF InvokeNew
  <2>3. Prepared' = Prepared
    BY <1>c, <1>d, <2>1, <2>2
  <2> QED
    BY <2>1, <2>3, QuietStage
<1>3. ASSUME AllocNoMem(t) \/ AllocFault(t) \/ ContextNoSlot(t) PROVE Ends
  <2>1. /\ thr[t].pc = "alloc" /\ UNCHANGED <<chan, requests, calls, finished>>
        /\ \E err : Fail(t, "return", err)
    BY <1>3 DEF AllocNoMem, AllocFault, ContextNoSlot
  <2>2. Prepared' = Prepared
    BY <1>b, <1>d, <2>1
  <2> QED
    BY <2>1, <2>2, QuietStage
<1>4. ASSUME ContextLink(t) PROVE Ends
  <2>1. /\ thr[t].pc = "link" /\ UNCHANGED <<chan, requests, calls, finished>>
        /\ Goto(t, "args")
    BY <1>4 DEF ContextLink
  <2>2. Prepared' = Prepared
    BY <1>a, <2>1, MovesOn DEF Preparing
  <2> QED
    BY <2>1, <2>2, QuietStage
<1>5. ASSUME \/ WaitSwitch(t) \/ WaitTry(t) \/ WaitPoll(t) \/ WaitPollMode(t)
             \/ WaitBlock(t) \/ WaitInterrupted(t)
      PROVE  Ends
  <2>1. /\ thr[t].pc \in {"switch", "try", "poll", "pollmode", "block"}
        /\ UNCHANGED <<chan, requests, calls, finished>>
    BY <1>5 DEF WaitSwitch, WaitTry, WaitPoll, WaitPollMode, WaitBlock, WaitInterrupted
  <2>2. \E q \in {"switch", "try", "poll", "pollmode", "block", "save", "put", "unslot"} :
            Goto(t, q) \/ \E err : Fail(t, q, err)
    BY <1>5, <1>d DEF WaitSwitch, WaitTry, WaitPoll, WaitPollMode, WaitBlock, WaitInterrupted
  <2>3. Prepared' = Prepared
    BY <1>b, <1>d, <2>1, <2>2
  <2> QED
    BY <2>1, <2>3, QuietStage
<1>6. ASSUME PutArgs(t) \/ FreeSlot(t) PROVE Ends
  <2>1. /\ thr[t].pc \in {"put", "unslot"} /\ UNCHANGED <<chan, requests, calls, finished>>
        /\ \E q \in {"unslot", "unlink"} : Goto(t, q) \/ \E err : Fail(t, q, err)
    BY <1>6 DEF PutArgs, FreeSlot
  <2>2. Prepared' = Prepared
    BY <1>b, <1>d, <2>1
  <2> QED
    BY <2>1, <2>2, QuietStage
<1>7. ASSUME SaveInterrupted(t) \/ FreeLink(t) \/ InvokeReturn(t) PROVE Ends
  <2>1. /\ thr[t].pc \in {"save", "unlink", "return"}
        /\ UNCHANGED <<chan, requests, calls, finished>>
        /\ \/ thr' = [thr EXCEPT ![t].pc = "return", ![t].cur = NULL]
           \/ thr' = [thr EXCEPT ![t] = IdleThread]
    BY <1>7 DEF SaveInterrupted, FreeLink, InvokeReturn
  <2>2. /\ thr'[t].pc \in {"idle", "return"}
        /\ \A u \in Threads \ {t} : thr'[u] = thr[u]
    BY <1>a, <2>1 DEF ThreadType, IdleThread
  <2>3. Prepared' = Prepared
    BY <1>c, <1>d, <2>1, <2>2
  <2> QED
    BY <2>1, <2>3, QuietStage
<1>8. ASSUME InitProcess(t) \/ InitFails(t) \/ InitOpened(t) PROVE Ends
  <2>1. /\ thr[t].pc \notin Preparing /\ thr'[t].pc \notin Preparing
        /\ \A u \in Threads \ {t} : thr'[u] = thr[u]
        /\ UNCHANGED <<chan, requests, calls, finished>>
    BY <1>8, <1>a, InitShape DEF Preparing
  <2> QED
    BY <1>c, <2>1, QuietStage
<1> QED
  BY <1>1, <1>2, <1>3, <1>4, <1>5, <1>6, <1>7, <1>8

\* Responses, restarts and files: no call is prepared, and those that run may
\* only end.
LEMMA OtherStage ==
    ASSUME CallInv
    PROVE  /\ \A m \in responses : HandleResponse(m) => Ends
           /\ SsrBeforeShutdown \/ Ssr => Ends
           /\ \A s \in Sessions :
                FileOpen(s) \/ FileFreeStart(s) \/ FileFree(s) => Ends
           /\ UNCHANGED vars => Ends
<1>a. ASSUME UNCHANGED thr PROVE Prepared' = Prepared
  BY <1>a DEF Prepared
<1>b. ASSUME UNCHANGED requests PROVE Running' = Running
  BY <1>b DEF Running
<1>c. requests \subseteq RequestType /\ chan \in [ssr : Nat, state : {"up", "restarting", "down"},
                 notified : BOOLEAN, notify : SUBSET Sessions]
  BY DEF CallInv, IdInv, IndInv, TypeOK
<1>1. ASSUME NEW m \in responses, HandleResponse(m) PROVE Ends
  <2>1. UNCHANGED <<thr, chan, requests, calls, finished>>
    BY <1>1 DEF HandleResponse
  <2> QED
    BY <1>a, <2>1, QuietStage
<1>2. ASSUME SsrBeforeShutdown PROVE Ends
  <2>1. chan.state = "up" /\ chan'.state = "restarting" /\ requests' = {}
    BY <1>2, <1>c DEF SsrBeforeShutdown
  <2>2. Running' = {}
    BY <2>1 DEF Running
  <2>3. UNCHANGED <<thr, calls, finished>>
    BY <1>2 DEF SsrBeforeShutdown
  <2> QED
    BY <1>a, <2>1, <2>2, <2>3 DEF Ends
<1>3. ASSUME Ssr PROVE Ends
  <2>1. UNCHANGED <<thr, requests, calls, finished>>
    BY <1>3 DEF Ssr, SsrAfterShutdown, SsrBeforePowerup, SsrAfterPowerup, NotifyUsers
  <2>2. \/ chan.state # "up" /\ chan'.state = "up"
        \/ chan.state # "up" /\ chan'.state # "up"
        \/ chan'.state = chan.state
    BY <1>3, <1>c DEF Ssr, SsrAfterShutdown, SsrBeforePowerup, SsrAfterPowerup, NotifyUsers
  <2> QED
    BY <1>a, <1>b, <2>1, <2>2 DEF Ends
<1>4. ASSUME NEW s \in Sessions,
             FileOpen(s) \/ FileFreeStart(s) \/ DtorUnlink(s) \/ DtorFree(s)
             \/ FileFreeEnd(s)
      PROVE  Ends
  <2>1. UNCHANGED <<thr, chan, requests, calls, finished>>
    BY <1>4 DEF FileOpen, FileFreeStart, DtorUnlink, DtorFree, FileFreeEnd
  <2> QED
    BY <1>a, <2>1, QuietStage
<1>5. ASSUME NEW s \in Sessions, FileFreeDsp(s) PROVE Ends
  <2>1. /\ UNCHANGED <<thr, chan, calls, finished>>
        /\ \/ requests' = {r \in requests : r.fl # s}
           \/ requests' = {IF r.fl = s THEN [r EXCEPT !.fl = NULL] ELSE r : r \in requests}
    BY <1>5 DEF FileFreeDsp
  <2>2. \A q \in requests' : \E r \in requests : q.call = r.call /\ q.polled = r.polled
    <3>1. ASSUME NEW q \in requests', q \notin requests
          PROVE  \E r \in requests : q.call = r.call /\ q.polled = r.polled
      <4>1. PICK r \in requests : q = [r EXCEPT !.fl = NULL]
        BY <2>1, <3>1
      <4> QED
        BY <1>c, <4>1 DEF RequestType
    <3> QED
      BY <3>1
  <2>3. Running' \subseteq Running
    BY <2>2 DEF Running
  <2> QED
    BY <1>a, <2>1, <2>3 DEF Ends
<1>6. ASSUME UNCHANGED vars PROVE Ends
  BY <1>6, <1>a, QuietStage DEF vars
<1> QED
  BY <1>1, <1>2, <1>3, <1>4, <1>5, <1>6 DEF FileFree

\* Every step does one of the four things to the stages.
LEMMA StepStage ==
    ASSUME CallInv, [Next]_vars
    PROVE  Publishes \/ Ends \/ \E n : Leaves(n) \/ Completes(n)
<1>1. ASSUME NEW t \in Threads,
             \/ Invoke(t) \/ WaitInterrupted(t)
             \/ InitProcess(t) \/ InitFails(t) \/ InitOpened(t)
      PROVE  Ends
  BY <1>1, ThreadStage DEF Invoke
<1>2. ASSUME NEW t \in Threads, ThreadStep(t)
      PROVE  Publishes \/ Ends \/ \E n : Leaves(n)
  <2>1. CASE ContextPublish(t)
    BY <2>1, PublishStage
  <2>2. CASE GetArgsFail(t) \/ TransportFail(t)
    <3>1. /\ thr[t].pc \in Preparing /\ UNCHANGED <<chan, requests, calls, finished>>
          /\ \E err : Fail(t, "unslot", err)
      BY <2>2 DEF GetArgsFail, TransportFail, Preparing
    <3> QED
      BY <3>1, GivesUp
  <2>3. CASE CheckSsr(t)
    <3>1. thr[t].pc \in Preparing /\ UNCHANGED <<chan, requests, calls, finished>>
      BY <2>3 DEF CheckSsr, Preparing
    <3>2. CASE Fail(t, "unslot", "reset")
      BY <3>1, <3>2, GivesUp
    <3>3. CASE Goto(t, "send")
      <4>1. TypeOK /\ "send" \in Preparing
        BY DEF CallInv, IdInv, IndInv, Preparing
      <4>2. Prepared' = Prepared
        BY <3>1, <3>3, <4>1, MovesOn
      <4> QED
        BY <3>1, <4>2, QuietStage
    <3> QED
      BY <2>3, <3>2, <3>3 DEF CheckSsr
  <2>4. CASE TransportSend(t)
    BY <2>4, SendStage
  <2> QED
    BY <1>2, <2>1, <2>2, <2>3, <2>4, ThreadStage DEF ThreadStep
<1>3. CASE \E m \in responses : HandleResponse(m)
  BY <1>3, OtherStage
<1>4. CASE SsrBeforeShutdown \/ Ssr \/ UNCHANGED vars
  BY <1>4, OtherStage
<1>5. ASSUME NEW s \in Sessions,
             FileOpen(s) \/ FileFreeStart(s) \/ FileFree(s)
      PROVE  Ends
  BY <1>5, OtherStage
<1>6. ASSUME NEW r \in requests,
             DspPoll(r) \/ DspFinish(r) \/ \E flag \in InterimFlags : DspInterim(r, flag)
      PROVE  Ends \/ \E n : Completes(n)
  BY <1>6, DspStage
<1> QED
  BY <1>1, <1>2, <1>3, <1>4, <1>5, <1>6 DEF Next

\* The stages are kept apart in every reachable state.
THEOREM StageInvariance == Spec => []StageInv
<1>1. Init => StageInv
  BY ConstAssumption DEF Init, StageInv, Prepared, Running, IdleThread
<1>2. CallInv /\ StageInv /\ [Next]_vars => StageInv'
  BY StepStage, StageStep, ConstAssumption
<1> QED
  BY <1>1, <1>2, CallInvariance, PTL DEF Spec

\* The driver implements RemoteCalls: for any number of threads, sessions,
\* contexts and restarts, the DSP executes a call at most once.  A signal that
\* interrupts the caller, a system call that is started again and a context
\* address or slot that is reused never send a request twice, and what failed
\* before the send or was lost in a restart is not executed later.
THEOREM CallsExecuteOnce == Spec => ExecutedAtMostOnce
<1>1. Init => Executions!Init
  <2> SUFFICES ASSUME Init PROVE Executions!Init
    OBVIOUS
  <2>1. \A n \in 1 .. MaxCalls : Status(n) = "new"
    BY ConstAssumption DEF Init, Status
  <2>2. chan.state = "up"
    BY DEF Init
  <2> QED
    BY <2>1, <2>2 DEF Executions!Init
<1>2. CallInv /\ StageInv /\ [Next]_vars => [Executions!Next]_(Executions!vars)
  BY StepStage, StageRefines, ConstAssumption
<1> QED
  BY <1>1, <1>2, CallInvariance, StageInvariance, PTL
     DEF Spec, ExecutedAtMostOnce, Executions!Spec
=============================================================================

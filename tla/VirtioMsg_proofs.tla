-------------------------- MODULE VirtioMsg_proofs --------------------------
(***************************************************************************)
(* The safety properties of VirtioMsg, for any number of threads, message  *)
(* ids, buffers and failures.  The invariant says where each buffer is     *)
(* (TxInv, RxInv), who holds a message (HoldInv), that whatever is on the  *)
(* way is of a message that waits for it (FlyInv), and that nothing is on  *)
(* the way once CLOSE has succeeded or a session without INIT and without  *)
(* requests is released (CloseInv), so that no answer outlives the message *)
(* it is for.                                                              *)
(***************************************************************************)
EXTENDS VirtioMsg, TLAPS, FiniteSetTheorems

\* The program points at which a thread has a message in hand.
Busy == {"gettx", "send", "wait", "freerx", "freemsg"}

\* A message that is held is held by the thread it names, and by no other.
HoldInv ==
    /\ \A t \in Threads : thr[t].m # NULL <=> thr[t].pc \in Busy
    /\ \A t \in Threads : thr[t].pc \in Busy =>
           /\ msg[thr[t].m].live /\ msg[thr[t].m].list = "held"
           /\ msg[thr[t].m].pid = t
    /\ \A i \in Ids : IF msg[i].live THEN msg[i].list # "none" ELSE msg[i] = NoMsg
    /\ \A i \in Ids : msg[i].live /\ msg[i].list = "held" =>
           msg[i].pid \in Threads /\ thr[msg[i].pid].m = i

\* Where a thread may be, by the phase of the session and the kind of its message.
ThreadInv(t) ==
    LET j == msg[thr[t].m]
    IN  /\ thr[t].pc # "idle" =>
               IF phase = "open" THEN thr[t].op # "close"
               ELSE phase = "closing" /\ thr[t].op = "close"
        /\ thr[t].pc \in {"awaitq", "take", "mutex"} => thr[t].op # "close"
        /\ thr[t].pc = "dtor" => thr[t].op = "close"
        /\ thr[t].pc \in {"gettx", "send", "wait"} => j.kind = thr[t].op
        /\ thr[t].pc \in {"gettx", "send"} => j.rx = NULL /\ ~j.work
        /\ thr[t].pc = "send" => j.tx # NULL
        /\ thr[t].pc = "wait" => thr[t].op # "async"
        /\ thr[t].pc = "freerx" => j.rx # NULL
        /\ thr[t].pc = "freemsg" /\ ~unclosed => j.rx = NULL
        /\ unclosed => thr[t].pc \in {"idle", "freerx", "freemsg", "dtor"}
        /\ \A u \in Threads \ {t} : phase # "open" =>
               thr[t].pc = "idle" \/ thr[u].pc = "idle"

MessageInv(i) ==
    LET j == msg[i]
    IN  j.live =>
        /\ j.tx # NULL => j.list = "held" /\ thr[j.pid].pc = "send"
        /\ j.list = "interrupted" => j.kind = "invoke"
        /\ j.list \in {"cmds", "leaked"} => j.kind = "unmap_fd"
        /\ j.list = "pending" => j.kind = "async"
        /\ j.kind = "close" => j.list = "held" /\ thr[j.pid].op = "close"

\* Where a request or its answer is on the way.
InTx(i) == \E r \in tx.avail : r.id = i
InBackend(i) == \E r \in backend : r.id = i
InRing(i) == \E k \in DOMAIN ring : ring[k].id = i
InCb(i) == cb.rsp # NULL /\ cb.rsp.id = i
Flying(i) == InTx(i) \/ InBackend(i) \/ InRing(i) \/ InCb(i)

\* At most one request or answer of an id is on the way, and its message waits.
OneFlying ==
    /\ \A r, q \in tx.avail : r.id = q.id => r = q
    /\ \A r, q \in backend : r.id = q.id => r = q
    /\ \A k, l \in DOMAIN ring : ring[k].id = ring[l].id => k = l
    /\ \A i \in Ids : /\ InTx(i) => ~InBackend(i) /\ ~InRing(i) /\ ~InCb(i)
                      /\ InBackend(i) => ~InRing(i) /\ ~InCb(i)
                      /\ InRing(i) => ~InCb(i)

Awaits(i) ==
    LET j == msg[i]
    IN  /\ j.live /\ j.rx = NULL /\ ~j.work /\ j.tx = NULL
        /\ j.list = "held" => thr[j.pid].pc = "wait"

FlyInv ==
    /\ OneFlying
    /\ \A i \in Ids : Flying(i) => Awaits(i)
    /\ \A r \in tx.avail : r.kind = msg[r.id].kind /\ ~r.old
    /\ \A r \in backend : r.kind = msg[r.id].kind /\ ~r.old
    /\ \A k \in DOMAIN ring : ~ring[k].old
    /\ cb.rsp # NULL => ~cb.rsp.old
    /\ \A i \in Ids : msg[i].own
    /\ rx.lost = {}

\* After a successful CLOSE.
CloseInv ==
    /\ \A k \in DOMAIN ring : msg[ring[k].id].kind = "close" /\ ~ring[k].err =>
           tx.avail = {} /\ backend = {} /\ k = Len(ring)
    /\ cb.rsp # NULL /\ msg[cb.rsp.id].kind = "close" /\ ~cb.rsp.err =>
           tx.avail = {} /\ backend = {} /\ ring = <<>>
    /\ \A i \in Ids : msg[i].kind = "close" /\ msg[i].work /\ ~msg[i].err => Silent
    /\ \A t \in Threads : thr[t].op = "close" /\ thr[t].pc \in {"freerx", "freemsg", "dtor"}
           => Silent
    /\ phase = "closed" => Silent

QueueInv ==
    /\ unclosed => phase # "open"
    /\ JobsOnce
    /\ phase = "closed" /\ ~unclosed => queue = <<>> /\ async_queue_job_count = 0

\* Each transmit buffer is in one place ...
TxInv ==
    /\ tx.fresh \cap tx.used = {} /\ tx.fresh \cap tx.lost = {} /\ tx.used \cap tx.lost = {}
    /\ \A r, q \in tx.avail : r.tx = q.tx => r = q
    /\ \A r \in tx.avail : r.tx \notin tx.fresh \cup tx.used \cup tx.lost
    /\ \A i, j \in Ids : msg[i].tx # NULL /\ msg[i].tx = msg[j].tx => i = j
    /\ \A i \in Ids : msg[i].tx \notin tx.fresh \cup tx.used \cup tx.lost
    /\ \A i \in Ids, r \in tx.avail : msg[i].tx # r.tx
    /\ \A b \in Bufs : \/ b \in tx.fresh \cup tx.used \cup tx.lost
                       \/ \E r \in tx.avail : r.tx = b
                       \/ \E i \in Ids : msg[i].tx = b

\* ... and so is each receive buffer.
RxInv ==
    /\ cb.rsp # NULL <=> cb.pc = "recv"
    /\ rx.avail \cap rx.lost = {} /\ rx.avail \cap rx.failed = {} /\ rx.lost \cap rx.failed = {}
    /\ \A k, l \in DOMAIN ring : ring[k].rx = ring[l].rx => k = l
    /\ \A k \in DOMAIN ring : ring[k].rx \notin rx.avail \cup rx.lost \cup rx.failed
    /\ \A k \in DOMAIN ring : cb.rsp # NULL => cb.rsp.rx # ring[k].rx
    /\ cb.rsp # NULL => cb.rsp.rx \notin rx.avail \cup rx.lost \cup rx.failed
    /\ \A i, j \in Ids : msg[i].rx # NULL /\ msg[i].rx = msg[j].rx => i = j
    /\ \A i \in Ids : msg[i].rx \notin rx.avail \cup rx.lost \cup rx.failed
    /\ \A i \in Ids, k \in DOMAIN ring : msg[i].rx # ring[k].rx
    /\ \A i \in Ids : cb.rsp # NULL => msg[i].rx # cb.rsp.rx
    /\ \A b \in Bufs : \/ b \in rx.avail \cup rx.lost \cup rx.failed
                       \/ \E k \in DOMAIN ring : ring[k].rx = b
                       \/ cb.rsp # NULL /\ cb.rsp.rx = b
                       \/ \E i \in Ids : msg[i].rx = b

IndInv ==
    /\ TypeOK /\ HoldInv
    /\ \A t \in Threads : ThreadInv(t)
    /\ \A i \in Ids : MessageInv(i)
    /\ ~unclosed => FlyInv /\ CloseInv
    /\ QueueInv /\ TxInv /\ RxInv

-----------------------------------------------------------------------------
(* What a step leaves alone it does not break.                              *)

\* Thread t, with message i or none in hand, is the only thread that moves,
\* and i the only message that changes.
Moves(t, i) ==
    /\ \A u \in Threads \ {t} : thr'[u] = thr[u]
    /\ \A j \in Ids \ {i} : msg'[j] = msg[j]
    /\ i \in Ids \cup {NULL} /\ thr[t].m \in {i, NULL}
    /\ i # NULL /\ msg[i].live /\ msg[i].list = "held" => msg[i].pid = t
    /\ phase' = phase
    /\ unclosed' => unclosed \/ (thr[t].op = "close" /\ thr[t].pc # "idle")
    /\ unclosed => unclosed'

\* What is left to show of them.
Holds(t, i) ==
    /\ thr[t].m # NULL <=> thr[t].pc \in Busy
    /\ thr[t].pc \in Busy => /\ thr[t].m = i /\ msg[i].live /\ msg[i].list = "held"
                             /\ msg[i].pid = t
    /\ i # NULL => /\ IF msg[i].live THEN msg[i].list # "none" ELSE msg[i] = NoMsg
                   /\ msg[i].live /\ msg[i].list = "held" =>
                          msg[i].pid = t /\ thr[t].m = i

\* The invariant's facts about types, for every thread and message.
LEMMA Facts ==
    ASSUME IndInv
    PROVE  /\ TypeOK /\ HoldInv /\ QueueInv /\ TxInv /\ RxInv
           /\ \A i \in Ids : /\ msg[i] \in MsgType /\ MessageInv(i)
                             /\ msg[i].live => msg[i].list # "none"
                             /\ ~msg[i].live => msg[i] = NoMsg
           /\ \A t \in Threads : /\ thr[t] \in ThrType /\ ThreadInv(t)
                                 /\ thr[t].pc \in Busy => thr[t].m \in Ids
                                 /\ thr[t].pc \notin Busy => thr[t].m = NULL
           /\ NULL \notin Ids /\ NULL \notin Bufs /\ NULL \notin Threads /\ NULL \notin Answers
  <1>1. /\ TypeOK /\ HoldInv /\ QueueInv /\ TxInv /\ RxInv
        /\ \A i \in Ids : MessageInv(i)
        /\ \A t \in Threads : ThreadInv(t)
    BY DEF IndInv
  <1>2. /\ \A i \in Ids : msg[i] \in MsgType
        /\ \A t \in Threads : thr[t] \in ThrType
    BY <1>1 DEF TypeOK
  <1>3. \A t \in Threads : thr[t].m \in Ids \cup {NULL}
    BY <1>2 DEF ThrType
  <1> QED
    BY <1>1, <1>2, <1>3, ConstAssumption DEF HoldInv

\* The messages and threads a step does not touch stay where they are.
LEMMA LocalFrame ==
    ASSUME IndInv, NEW t \in Threads, NEW i, Moves(t, i), Holds(t, i)', ThreadInv(t)',
           i # NULL => MessageInv(i)'
    PROVE  /\ HoldInv' /\ \A u \in Threads : ThreadInv(u)'
           /\ \A j \in Ids : MessageInv(j)'
<1>a. /\ NULL \notin Ids /\ NULL \notin Threads
      /\ \A u \in Threads : thr[u].m # NULL <=> thr[u].pc \in Busy
      /\ \A u \in Threads : thr[u].pc \in Busy =>
           /\ thr[u].m \in Ids /\ msg[thr[u].m].live /\ msg[thr[u].m].list = "held"
           /\ msg[thr[u].m].pid = u
      /\ \A j \in Ids : IF msg[j].live THEN msg[j].list # "none" ELSE msg[j] = NoMsg
      /\ \A j \in Ids : msg[j].live /\ msg[j].list = "held" =>
           msg[j].pid \in Threads /\ thr[msg[j].pid].m = j
  BY Facts DEF HoldInv
<1>b. ASSUME NEW u \in Threads \ {t}
      PROVE  thr'[u] = thr[u] /\ (thr[u].pc \in Busy => thr[u].m # i /\ msg'[thr[u].m] = msg[thr[u].m])
  BY <1>a DEF Moves
<1>c. ASSUME NEW j \in Ids, j # i
      PROVE  /\ msg'[j] = msg[j]
             /\ msg[j].live /\ msg[j].list = "held" =>
                  msg[j].pid \in Threads \ {t} /\ thr'[msg[j].pid] = thr[msg[j].pid]
  BY <1>a, <1>c DEF Moves
<1>1. HoldInv'
  <2>1. ASSUME NEW u \in Threads
        PROVE  /\ thr'[u].m # NULL <=> thr'[u].pc \in Busy
               /\ thr'[u].pc \in Busy => /\ msg'[thr'[u].m].live /\ msg'[thr'[u].m].list = "held"
                                         /\ msg'[thr'[u].m].pid = u
    <3>1. CASE u = t
      BY <3>1 DEF Holds
    <3>2. CASE u # t
      BY <1>a, <1>b, <3>2
    <3> QED
      BY <3>1, <3>2
  <2>2. ASSUME NEW j \in Ids
        PROVE  /\ IF msg'[j].live THEN msg'[j].list # "none" ELSE msg'[j] = NoMsg
               /\ msg'[j].live /\ msg'[j].list = "held" =>
                    msg'[j].pid \in Threads /\ thr'[msg'[j].pid].m = j
    <3>1. CASE j = i
      BY <1>a, <3>1 DEF Holds
    <3>2. CASE j # i
      BY <1>a, <1>c, <3>2
    <3> QED
      BY <3>1, <3>2
  <2> QED
    BY <2>1, <2>2 DEF HoldInv
<1>2. ASSUME NEW u \in Threads \ {t} PROVE ThreadInv(u)'
  <2>1. ThreadInv(u) /\ thr'[u] = thr[u] /\ ThreadInv(t) /\ ThreadInv(t)'
    BY <1>b, Facts
  <2>2. phase' = phase
    BY DEF Moves
  <2>3. \A w \in Threads \ {u} : phase # "open" => thr'[u].pc = "idle" \/ thr'[w].pc = "idle"
    <3>1. ASSUME NEW w \in Threads \ {u}, phase # "open"
          PROVE  thr'[u].pc = "idle" \/ thr'[w].pc = "idle"
      <4>1. CASE w = t
        BY <2>1, <2>2, <3>1, <4>1 DEF ThreadInv
      <4>2. CASE w # t
        BY <1>b, <2>1, <3>1, <4>2 DEF ThreadInv
      <4> QED
        BY <4>1, <4>2
    <3> QED
      BY <3>1
  <2>4. unclosed' => unclosed \/ thr'[u].pc = "idle"
    BY <2>1 DEF Moves, ThreadInv
  <2>5. unclosed => unclosed'
    BY DEF Moves
  <2> QED
    BY <1>b, <2>1, <2>2, <2>3, <2>4, <2>5 DEF ThreadInv, Busy
<1>3. ASSUME NEW j \in Ids, j # i PROVE MessageInv(j)'
  <2>1. MessageInv(j)
    BY Facts
  <2> QED
    BY <1>c, <1>3, <2>1 DEF MessageInv
<1>4. ASSUME NEW j \in Ids, j = i PROVE MessageInv(j)'
  BY <1>a, <1>4 DEF MessageInv
<1> QED
  BY <1>1, <1>2, <1>3, <1>4

\* Requests and answers on the way are of their types.
LEMMA OnTheWay ==
    ASSUME TypeOK
    PROVE  /\ \A r \in tx.avail : r \in Requests /\ r.id \in Ids /\ r.tx \in Bufs /\ Flying(r.id)
           /\ \A r \in backend : r \in Taken /\ r.id \in Ids /\ Flying(r.id)
           /\ \A k \in DOMAIN ring : /\ ring[k] \in Answers /\ ring[k].id \in Ids
                                     /\ ring[k].rx \in Bufs /\ Flying(ring[k].id)
           /\ cb.rsp # NULL => /\ cb.rsp \in Answers /\ cb.rsp.id \in Ids /\ cb.rsp.rx \in Bufs
                               /\ Flying(cb.rsp.id)
           /\ DOMAIN ring = 1 .. Len(ring) /\ Len(ring) \in Nat
           /\ DOMAIN queue = 1 .. Len(queue) /\ Len(queue) \in Nat
           /\ \A k \in DOMAIN queue : queue[k] \in Ids
<1>1. /\ \A r \in tx.avail : r \in Requests
      /\ \A r \in backend : r \in Taken
      /\ cb.rsp # NULL => cb.rsp \in Answers
  BY DEF TypeOK
<1>2. \A k \in DOMAIN ring : ring[k] \in Answers
  BY DEF TypeOK
<1>3. /\ \A r \in tx.avail : r.id \in Ids /\ r.tx \in Bufs
      /\ \A r \in backend : r.id \in Ids
      /\ \A k \in DOMAIN ring : ring[k].id \in Ids /\ ring[k].rx \in Bufs
      /\ cb.rsp # NULL => cb.rsp.id \in Ids /\ cb.rsp.rx \in Bufs
  BY <1>1, <1>2 DEF Requests, Taken, Answers
<1>4. /\ \A r \in tx.avail : Flying(r.id)
      /\ \A r \in backend : Flying(r.id)
      /\ \A k \in DOMAIN ring : Flying(ring[k].id)
      /\ cb.rsp # NULL => Flying(cb.rsp.id)
  BY DEF Flying, InTx, InBackend, InRing, InCb
<1>5. /\ DOMAIN ring = 1 .. Len(ring) /\ Len(ring) \in Nat
      /\ DOMAIN queue = 1 .. Len(queue) /\ Len(queue) \in Nat
      /\ \A k \in DOMAIN queue : queue[k] \in Ids
  BY DEF TypeOK
<1> QED
  BY <1>1, <1>2, <1>3, <1>4, <1>5

\* Messages on the way are not disturbed by a thread that waits for none of them.
LEMMA FlyFrame ==
    ASSUME IndInv, ~unclosed, NEW t \in Threads, NEW i, Moves(t, i),
           tx'.avail = tx.avail, UNCHANGED <<backend, ring, cb>>, rx'.lost = rx.lost,
           i # NULL => /\ msg'[i].own
                       /\ Flying(i) => Awaits(i)' /\ msg'[i].kind = msg[i].kind
    PROVE  FlyInv'
<1>a. FlyInv /\ HoldInv /\ TypeOK
  BY DEF IndInv
<1>b. /\ \A j : InTx(j)' <=> InTx(j)
      /\ \A j : InBackend(j)' <=> InBackend(j)
      /\ \A j : InRing(j)' <=> InRing(j)
      /\ \A j : InCb(j)' <=> InCb(j)
  BY DEF InTx, InBackend, InRing, InCb
<1>c. \A j : Flying(j)' <=> Flying(j)
  BY <1>b DEF Flying
<1>1. OneFlying'
  BY <1>a, <1>b DEF FlyInv, OneFlying
<1>2. ASSUME NEW j \in Ids, Flying(j) PROVE Awaits(j)' /\ msg'[j].kind = msg[j].kind
  <2>1. CASE j = i
    BY <1>2, <2>1, Facts DEF Awaits
  <2>2. CASE j # i
    <3>1. msg'[j] = msg[j] /\ Awaits(j)
      BY <1>a, <1>2, <2>2 DEF Moves, FlyInv
    <3>2. msg[j].list = "held" => thr'[msg[j].pid] = thr[msg[j].pid]
      BY <1>a, <2>2, <3>1, Facts DEF HoldInv, Moves, Awaits
    <3> QED
      BY <3>1, <3>2 DEF Awaits
  <2> QED
    BY <2>1, <2>2
<1>3. \A j \in Ids : msg'[j].own
  BY <1>a, Facts DEF FlyInv, Moves
<1>4. /\ \A r \in tx.avail : r.id \in Ids /\ Flying(r.id)
      /\ \A r \in backend : r.id \in Ids /\ Flying(r.id)
  BY <1>a, OnTheWay
<1>5. /\ \A r \in tx'.avail : r.kind = msg'[r.id].kind /\ ~r.old
      /\ \A r \in backend' : r.kind = msg'[r.id].kind /\ ~r.old
  BY <1>a, <1>2, <1>4 DEF FlyInv
<1>6. \A j \in Ids : Flying(j)' => Awaits(j)'
  BY <1>2, <1>c
<1> QED
  BY <1>a, <1>1, <1>3, <1>5, <1>6 DEF FlyInv

\* A CLOSE that was answered stays the last message.
LEMMA CloseFrame ==
    ASSUME IndInv, ~unclosed, NEW t \in Threads, NEW i, Moves(t, i),
           tx'.avail = tx.avail, UNCHANGED <<backend, ring, cb>>,
           i # NULL =>
               /\ Flying(i) /\ msg'[i].kind = "close" => msg[i].kind = "close"
               /\ msg'[i].kind = "close" /\ msg'[i].work /\ ~msg'[i].err => Silent,
           thr'[t].op = "close" /\ thr'[t].pc \in {"freerx", "freemsg", "dtor"} => Silent
    PROVE  CloseInv'
<1>a. CloseInv /\ TypeOK
  BY DEF IndInv
<1>b. Silent => Silent'
  BY DEF Silent
<1>c. /\ \A k \in DOMAIN ring : ring[k].id \in Ids /\ Flying(ring[k].id)
      /\ cb.rsp # NULL => cb.rsp.id \in Ids /\ Flying(cb.rsp.id)
  BY <1>a, OnTheWay
<1>d. \A j \in Ids : Flying(j) /\ msg'[j].kind = "close" => msg[j].kind = "close"
  BY Facts DEF Moves
<1>1. \A k \in DOMAIN ring' : msg'[ring'[k].id].kind = "close" /\ ~ring'[k].err =>
           tx'.avail = {} /\ backend' = {} /\ k = Len(ring')
  BY <1>a, <1>c, <1>d DEF CloseInv
<1>2. cb'.rsp # NULL /\ msg'[cb'.rsp.id].kind = "close" /\ ~cb'.rsp.err =>
           tx'.avail = {} /\ backend' = {} /\ ring' = <<>>
  BY <1>a, <1>c, <1>d DEF CloseInv
<1>3. \A j \in Ids : msg'[j].kind = "close" /\ msg'[j].work /\ ~msg'[j].err => Silent'
  BY <1>a, <1>b, Facts DEF CloseInv, Moves
<1>4. \A u \in Threads : thr'[u].op = "close" /\ thr'[u].pc \in {"freerx", "freemsg", "dtor"}
           => Silent'
  BY <1>a, <1>b DEF CloseInv, Moves
<1>5. phase' = "closed" => Silent'
  BY <1>a, <1>b DEF CloseInv, Moves
<1> QED
  BY <1>1, <1>2, <1>3, <1>4, <1>5 DEF CloseInv

\* The queue of finished jobs does not mention a message that a thread holds.
LEMMA QueueFrame ==
    ASSUME IndInv, NEW t \in Threads, NEW i, Moves(t, i),
           UNCHANGED <<queue, async_queue_job_count>>,
           i # NULL /\ phase = "open" =>
               ~(msg[i].live /\ msg[i].list = "pending" /\ msg[i].rx # NULL)
    PROVE  QueueInv'
<1>a. QueueInv /\ TypeOK /\ ThreadInv(t)
  BY Facts
<1>b. \A k \in DOMAIN queue : queue[k] \in Ids
  BY <1>a DEF TypeOK
<1>1. unclosed' => phase' # "open"
  BY <1>a DEF QueueInv, Moves, ThreadInv
<1>2. JobsOnce'
  <2>1. SUFFICES ASSUME phase = "open" PROVE JobsOnce'
    BY DEF JobsOnce, Moves
  <2>2. \A k \in DOMAIN queue : msg'[queue[k]] = msg[queue[k]]
    BY <1>a, <1>b, <2>1, Facts DEF QueueInv, JobsOnce, Moves
  <2> QED
    BY <1>a, <2>1, <2>2 DEF QueueInv, JobsOnce, IsInjective
<1>3. phase' = "closed" /\ ~unclosed' => queue' = <<>> /\ async_queue_job_count' = 0
  BY <1>a DEF QueueInv, Moves
<1> QED
  BY <1>1, <1>2, <1>3 DEF QueueInv

\* Buffers that do not move stay where they are.
LEMMA TxFrame ==
    ASSUME TxInv, tx' = tx, \A j \in Ids : msg'[j].tx = msg[j].tx
    PROVE  TxInv'
  BY DEF TxInv

\* The same for the receive buffers.
LEMMA RxFrame ==
    ASSUME RxInv, UNCHANGED <<rx, ring, cb>>, \A j \in Ids : msg'[j].rx = msg[j].rx
    PROVE  RxInv'
  BY DEF RxInv

\* A thread moves and at most its message changes, but no buffer, request or
\* answer does.
LEMMA Quiet ==
    ASSUME IndInv, TypeOK', NEW t \in Threads, NEW i, Moves(t, i), Holds(t, i)',
           ThreadInv(t)', UNCHANGED <<tx, rx, ring, cb, backend, queue, async_queue_job_count>>,
           thr'[t].op = "close" /\ thr'[t].pc \in {"freerx", "freemsg", "dtor"} =>
               unclosed' \/ Silent,
           i # NULL =>
               /\ MessageInv(i)'
               /\ msg'[i].tx = msg[i].tx /\ msg'[i].rx = msg[i].rx
               /\ phase = "open" =>
                    ~(msg[i].live /\ msg[i].list = "pending" /\ msg[i].rx # NULL)
               /\ ~unclosed' =>
                    /\ msg'[i].own
                    /\ Flying(i) => Awaits(i)' /\ msg'[i].kind = msg[i].kind
                    /\ msg'[i].kind = "close" /\ msg'[i].work /\ ~msg'[i].err => Silent
    PROVE  IndInv'
<1>1. /\ HoldInv' /\ \A u \in Threads : ThreadInv(u)'
      /\ \A j \in Ids : MessageInv(j)'
  BY LocalFrame
<1>2. ~unclosed' => FlyInv' /\ CloseInv'
  <2>1. SUFFICES ASSUME ~unclosed', ~unclosed PROVE FlyInv' /\ CloseInv'
    BY DEF Moves
  <2>2. FlyInv'
    BY <2>1, FlyFrame
  <2>3. CloseInv'
    BY <2>1, CloseFrame
  <2> QED
    BY <2>2, <2>3
<1>3. QueueInv'
  BY QueueFrame
<1>4. \A j \in Ids : msg'[j].tx = msg[j].tx /\ msg'[j].rx = msg[j].rx
  BY Facts DEF Moves
<1>5. TxInv' /\ RxInv'
  BY <1>4, TxFrame, RxFrame DEF IndInv
<1> QED
  BY <1>1, <1>2, <1>3, <1>5 DEF IndInv

-----------------------------------------------------------------------------
(* Types.                                                                   *)

\* Storing a value of its type in a field of a message keeps its type.
LEMMA MsgField ==
    ASSUME NEW k \in MsgType
    PROVE  /\ \A l \in Lists : [k EXCEPT !.list = l] \in MsgType
           /\ \A l \in Lists, t \in Threads : [k EXCEPT !.list = l, !.pid = t] \in MsgType
           /\ \A b \in Bufs : [k EXCEPT !.tx = b] \in MsgType
           /\ [k EXCEPT !.tx = NULL] \in MsgType /\ [k EXCEPT !.rx = NULL] \in MsgType
           /\ \A l \in Lists : [k EXCEPT !.tx = NULL, !.list = l] \in MsgType
           /\ [k EXCEPT !.work = FALSE] \in MsgType
           /\ \A b \in Bufs, e, o, w \in BOOLEAN :
                  [k EXCEPT !.rx = b, !.err = e, !.own = o, !.work = w] \in MsgType
<1>1. /\ \A l \in Lists : [k EXCEPT !.list = l] \in MsgType
      /\ \A l \in Lists, t \in Threads : [k EXCEPT !.list = l, !.pid = t] \in MsgType
  BY DEF MsgType
<1>2. /\ \A b \in Bufs : [k EXCEPT !.tx = b] \in MsgType
      /\ [k EXCEPT !.tx = NULL] \in MsgType /\ [k EXCEPT !.rx = NULL] \in MsgType
  BY DEF MsgType
<1>3. /\ \A l \in Lists : [k EXCEPT !.tx = NULL, !.list = l] \in MsgType
      /\ [k EXCEPT !.work = FALSE] \in MsgType
  BY DEF MsgType
<1>4. \A b \in Bufs, e, o, w \in BOOLEAN :
        [k EXCEPT !.rx = b, !.err = e, !.own = o, !.work = w] \in MsgType
  BY DEF MsgType
<1> QED
  BY <1>1, <1>2, <1>3, <1>4

\* The program points.
PCs == {"idle", "mutex", "alloc", "gettx", "send", "wait", "freerx", "freemsg",
        "awaitq", "take", "dtor"}

\* Moving a thread keeps the type of the threads.
LEMMA ThrField ==
    ASSUME TypeOK, NEW t \in Threads
    PROVE  /\ Idle \in ThrType
           /\ \A pc \in PCs : [thr EXCEPT ![t].pc = pc] \in [Threads -> ThrType]
           /\ [thr EXCEPT ![t] = Idle] \in [Threads -> ThrType]
           /\ \A pc \in PCs, m \in Ids \cup {NULL} :
                  /\ [thr EXCEPT ![t].pc = pc, ![t].m = m] \in [Threads -> ThrType]
                  /\ [thr EXCEPT ![t].m = m, ![t].pc = pc] \in [Threads -> ThrType]
           /\ \A pc \in PCs, op \in Kinds, m \in Ids \cup {NULL} :
                  [thr EXCEPT ![t] = [pc |-> pc, op |-> op, m |-> m]] \in [Threads -> ThrType]
<1>1. Idle \in ThrType /\ \A u \in Threads : thr[u] \in ThrType
  BY DEF Idle, ThrType, TypeOK, Kinds
<1>2. \A pc \in PCs : [thr EXCEPT ![t].pc = pc] \in [Threads -> ThrType]
  BY DEF TypeOK, ThrType, PCs
<1>3. [thr EXCEPT ![t] = Idle] \in [Threads -> ThrType]
  BY <1>1 DEF TypeOK
<1>4. ASSUME NEW pc \in PCs, NEW m \in Ids \cup {NULL}
      PROVE  /\ [thr EXCEPT ![t].pc = pc, ![t].m = m] \in [Threads -> ThrType]
             /\ [thr EXCEPT ![t].m = m, ![t].pc = pc] \in [Threads -> ThrType]
  <2>1. /\ [thr[t] EXCEPT !.pc = pc, !.m = m] \in ThrType
        /\ [thr[t] EXCEPT !.m = m, !.pc = pc] \in ThrType
    BY <1>1 DEF ThrType, PCs
  <2> QED
    BY <2>1 DEF TypeOK
<1>5. ASSUME NEW pc \in PCs, NEW op \in Kinds, NEW m \in Ids \cup {NULL}
      PROVE  [thr EXCEPT ![t] = [pc |-> pc, op |-> op, m |-> m]] \in [Threads -> ThrType]
  <2>1. [pc |-> pc, op |-> op, m |-> m] \in ThrType
    BY DEF ThrType, PCs
  <2> QED
    BY <2>1 DEF TypeOK
<1> QED
  BY <1>1, <1>2, <1>3, <1>4, <1>5

\* What thr and msg are after the moves.
LEMMA MoveFacts ==
    ASSUME TypeOK, NEW t \in Threads
    PROVE  /\ \A pc : Goto(t, pc) =>
                /\ \A u \in Threads \ {t} : thr'[u] = thr[u]
                /\ thr'[t].pc = pc /\ thr'[t].op = thr[t].op /\ thr'[t].m = thr[t].m
           /\ Return(t) =>
                /\ \A u \in Threads \ {t} : thr'[u] = thr[u]
                /\ thr'[t].pc = "idle" /\ thr'[t].op = "none" /\ thr'[t].m = NULL
           /\ After(t) =>
                /\ \A u \in Threads \ {t} : thr'[u] = thr[u]
                /\ thr'[t].m = NULL
                /\ IF phase = "closing" THEN thr'[t].pc = "dtor" /\ thr'[t].op = thr[t].op
                   ELSE thr'[t].pc = "idle" /\ thr'[t].op = "none"
<1>1. \A pc : Goto(t, pc) =>
        /\ \A u \in Threads \ {t} : thr'[u] = thr[u]
        /\ thr'[t].pc = pc /\ thr'[t].op = thr[t].op /\ thr'[t].m = thr[t].m
  BY DEF TypeOK, ThrType, Goto
<1>2. Return(t) =>
        /\ \A u \in Threads \ {t} : thr'[u] = thr[u]
        /\ thr'[t].pc = "idle" /\ thr'[t].op = "none" /\ thr'[t].m = NULL
  BY DEF TypeOK, Return, Idle
<1>3. After(t) =>
        /\ \A u \in Threads \ {t} : thr'[u] = thr[u]
        /\ thr'[t].m = NULL
        /\ IF phase = "closing" THEN thr'[t].pc = "dtor" /\ thr'[t].op = thr[t].op
           ELSE thr'[t].pc = "idle" /\ thr'[t].op = "none"
  BY <1>2 DEF TypeOK, ThrType, After
<1> QED
  BY <1>1, <1>2, <1>3

\* The last conjuncts of the type invariant.
LEMMA TypeRest ==
    ASSUME TypeOK, msg' \in [Ids -> MsgType], thr' \in [Threads -> ThrType],
           imutex' \in Threads \cup {NULL}, unclosed' \in BOOLEAN, fails' \in 0 .. MaxFails,
           UNCHANGED <<tx, rx, ring, irq, cb, backend, queue, async_queue_job_count, phase, init>>
    PROVE  TypeOK'
  BY DEF TypeOK

-----------------------------------------------------------------------------
(* The steps of a thread that move no buffer, request or answer.            *)

\* A thread without a message moves to another point without one.
LEMMA EmptyHanded ==
    ASSUME IndInv, NEW t \in Threads, NEW pc \in PCs \ Busy, NEW op \in Kinds,
           thr[t].pc \notin Busy, thr' \in [Threads -> ThrType],
           \A u \in Threads \ {t} : thr'[u] = thr[u],
           thr'[t].pc = pc, thr'[t].op = op, thr'[t].m = NULL,
           UNCHANGED <<msg, tx, rx, ring, irq, cb, backend, queue, async_queue_job_count,
                       phase, init, fails>>,
           imutex' \in Threads \cup {NULL}, unclosed' \in BOOLEAN, unclosed => unclosed',
           unclosed' => unclosed \/ (thr[t].op = "close" /\ thr[t].pc # "idle"),
           pc # "idle" => IF phase = "open" THEN op # "close" ELSE phase = "closing" /\ op = "close",
           pc \in {"awaitq", "take", "mutex"} => op # "close",
           pc = "dtor" => op = "close" /\ (unclosed' \/ Silent),
           unclosed' => pc \in {"idle", "dtor"},
           pc # "idle" => thr[t].pc # "idle" \/ phase = "open"
    PROVE  IndInv'
<1>a. /\ TypeOK /\ thr[t].m = NULL /\ ThreadInv(t) /\ NULL \notin Ids
      /\ fails \in 0 .. MaxFails /\ MaxFails \in Nat
  BY Facts, ConstAssumption DEF TypeOK
<1>1. TypeOK'
  BY <1>a, TypeRest DEF TypeOK
<1>3. Moves(t, NULL)
  BY <1>a DEF Moves
<1>4. Holds(t, NULL)'
  BY DEF Holds
<1>5. ThreadInv(t)'
  <2>1. \A u \in Threads \ {t} : phase # "open" => thr'[t].pc = "idle" \/ thr'[u].pc = "idle"
    BY <1>a DEF ThreadInv
  <2> QED
    BY <2>1 DEF ThreadInv, Busy, PCs
<1> QED
  BY <1>1, <1>3, <1>4, <1>5, Quiet DEF Busy

\* The mutex and the history of failed closes are of their types.
LEMMA SideFacts ==
    ASSUME TypeOK, NEW t \in Threads
    PROVE  /\ Unlock(t) => imutex' \in Threads \cup {NULL}
           /\ CloseFails(t) => /\ unclosed' \in BOOLEAN /\ (unclosed => unclosed')
                               /\ unclosed' => unclosed \/ thr[t].op = "close"
                               /\ thr[t].op = "close" => unclosed'
           /\ UNCHANGED unclosed => unclosed' \in BOOLEAN
           /\ UNCHANGED imutex => imutex' \in Threads \cup {NULL}
<1>1. Unlock(t) => imutex' \in Threads \cup {NULL}
  BY DEF Unlock, TypeOK
<1>2. unclosed \in BOOLEAN /\ imutex \in Threads \cup {NULL}
  BY DEF TypeOK
<1>3. ASSUME CloseFails(t) PROVE unclosed' \in BOOLEAN
  BY <1>2, <1>3, Zenon DEF CloseFails
<1>4. ASSUME CloseFails(t)
      PROVE  /\ unclosed => unclosed'
             /\ unclosed' => unclosed \/ thr[t].op = "close"
             /\ thr[t].op = "close" => unclosed'
  BY <1>2, <1>4, Zenon DEF CloseFails
<1> QED
  BY <1>1, <1>2, <1>3, <1>4

\* Entering an ioctl.
LEMMA EnterStep ==
    ASSUME IndInv, NEW t \in Threads, NEW op \in AllOps, NEW pc \in {"alloc", "mutex", "awaitq"},
           Enter(t, op, pc)
    PROVE  IndInv'
<1>a. TypeOK /\ QueueInv /\ thr \in [Threads -> ThrType]
  BY Facts DEF TypeOK
<1>b. pc \in PCs \ Busy /\ op \in Kinds /\ op # "close" /\ pc \in PCs /\ NULL \in Ids \cup {NULL}
  BY DEF PCs, Busy, Kinds, AllOps
<1>1. /\ [Idle EXCEPT !.op = op, !.pc = pc].pc = pc /\ [Idle EXCEPT !.op = op, !.pc = pc].op = op
      /\ [Idle EXCEPT !.op = op, !.pc = pc].m = NULL
      /\ [Idle EXCEPT !.op = op, !.pc = pc] \in ThrType
  BY <1>b DEF Idle, ThrType, PCs
<1>2. thr' = [thr EXCEPT ![t] = [Idle EXCEPT !.op = op, !.pc = pc]]
  BY DEF Enter
<1>3. /\ \A u \in Threads \ {t} : thr'[u] = thr[u]
      /\ thr'[t].pc = pc /\ thr'[t].op = op /\ thr'[t].m = NULL
  BY <1>a, <1>1, <1>2
<1>4. thr' \in [Threads -> ThrType]
  BY <1>a, <1>1, <1>2
<1>5. /\ thr[t].pc \notin Busy /\ thr[t].pc = "idle" /\ phase = "open"
      /\ UNCHANGED <<msg, tx, rx, ring, irq, cb, backend, queue, async_queue_job_count,
                     phase, init, fails, unclosed, imutex>>
  BY DEF Enter, Busy
<1>6. imutex' \in Threads \cup {NULL} /\ unclosed' \in BOOLEAN /\ ~unclosed
  BY <1>a, <1>5, SideFacts DEF QueueInv
<1> QED
  BY <1>b, <1>3, <1>4, <1>5, <1>6, EmptyHanded

\* The ioctls that start with an operation of their own.
LEMMA StartStep ==
    ASSUME IndInv, NEW t \in Threads,
           StartCtl(t) \/ StartMap(t) \/ StartInvoke(t) \/ StartGetAsync(t)
    PROVE  IndInv'
  BY EnterStep DEF StartCtl, StartMap, StartInvoke, StartGetAsync, AllOps

\* Waiting for jobs, and the ways out of an ioctl before it has a message.
LEMMA TurnStep ==
    ASSUME IndInv, NEW t \in Threads,
           \/ NoMessage(t) \/ AllocFull(t) \/ AsyncWake(t) \/ AsyncInterrupted(t)
           \/ AsyncTake(t) /\ queue = <<>>
    PROVE  IndInv'
<1>a. TypeOK /\ ThreadInv(t) /\ thr[t] \in ThrType
  BY Facts
<1>b. /\ thr[t].pc \notin Busy /\ thr[t].m = NULL /\ thr[t].pc # "idle"
      /\ thr[t].op \in Kinds
  BY <1>a, Facts DEF NoMessage, AllocFull, AsyncWake, AsyncInterrupted, AsyncTake, Busy, ThrType
<1>c. /\ {"awaitq", "take", "idle", "dtor"} \subseteq PCs \ Busy /\ "none" \in Kinds
      /\ {"awaitq", "take", "idle", "dtor"} \subseteq PCs /\ NULL \in Ids \cup {NULL}
  BY DEF PCs, Busy, Kinds
<1>d. ~unclosed
  BY <1>a DEF NoMessage, AllocFull, AsyncWake, AsyncInterrupted, AsyncTake, ThreadInv
<1>e. UNCHANGED <<msg, tx, rx, ring, irq, cb, backend, queue, async_queue_job_count,
                  phase, init, fails>>
  BY DEF NoMessage, AllocFull, AsyncWake, AsyncInterrupted, AsyncTake
<1>1. CASE AsyncWake(t) \/ (AsyncTake(t) /\ queue = <<>>)
  <2>1. PICK pc \in {"awaitq", "take"} : Goto(t, pc)
    BY <1>1 DEF AsyncWake, AsyncTake
  <2>2. thr' \in [Threads -> ThrType]
    BY <1>a, <1>c, <2>1, ThrField DEF Goto
  <2>3. thr[t].op # "close" /\ phase = "open"
    BY <1>1, <1>a DEF AsyncWake, AsyncTake, ThreadInv
  <2>4. /\ UNCHANGED <<imutex, unclosed>>
        /\ imutex' \in Threads \cup {NULL} /\ unclosed' \in BOOLEAN
    BY <1>1, <1>a, SideFacts DEF AsyncWake, AsyncTake
  <2>5. /\ \A u \in Threads \ {t} : thr'[u] = thr[u]
        /\ thr'[t].pc = pc /\ thr'[t].op = thr[t].op /\ thr'[t].m = NULL
    BY <1>a, <1>b, <2>1, MoveFacts
  <2> QED
    BY <1>b, <1>c, <1>d, <1>e, <2>2, <2>3, <2>4, <2>5, EmptyHanded
<1>2. CASE NoMessage(t) \/ AsyncInterrupted(t)
  <2>1. Return(t) /\ UNCHANGED unclosed /\ (Unlock(t) \/ UNCHANGED imutex)
    BY <1>2 DEF NoMessage, AsyncInterrupted
  <2>2. imutex' \in Threads \cup {NULL} /\ unclosed' \in BOOLEAN
    BY <1>a, <2>1, SideFacts
  <2>3. thr' \in [Threads -> ThrType]
    BY <1>a, <2>1, ThrField DEF Return
  <2>4. /\ \A u \in Threads \ {t} : thr'[u] = thr[u]
        /\ thr'[t].pc = "idle" /\ thr'[t].op = "none" /\ thr'[t].m = NULL
    BY <1>a, <2>1, MoveFacts
  <2> QED
    BY <1>b, <1>c, <1>d, <1>e, <2>1, <2>2, <2>3, <2>4, EmptyHanded
<1>3. CASE AllocFull(t)
  <2>1. After(t) /\ Unlock(t) /\ CloseFails(t)
    BY <1>3 DEF AllocFull
  <2>2. /\ imutex' \in Threads \cup {NULL} /\ unclosed' \in BOOLEAN
        /\ unclosed' => thr[t].op = "close"
        /\ thr[t].op = "close" => unclosed'
    BY <1>a, <1>d, <2>1, SideFacts
  <2>3. CASE phase = "closing"
    <3>1. thr' \in [Threads -> ThrType]
      BY <1>a, <1>c, <2>1, <2>3, ThrField DEF After
    <3>2. /\ \A u \in Threads \ {t} : thr'[u] = thr[u]
          /\ thr'[t].pc = "dtor" /\ thr'[t].op = thr[t].op /\ thr'[t].m = NULL
      BY <1>a, <2>1, <2>3, MoveFacts
    <3>3. thr[t].op = "close"
      BY <1>a, <1>b, <2>3 DEF ThreadInv
    <3> QED
      BY <1>b, <1>c, <1>d, <1>e, <2>2, <2>3, <3>1, <3>2, <3>3, EmptyHanded
  <2>4. CASE phase # "closing"
    <3>1. thr' \in [Threads -> ThrType]
      BY <1>a, <1>c, <2>1, <2>4, ThrField DEF After, Return
    <3>2. /\ \A u \in Threads \ {t} : thr'[u] = thr[u]
          /\ thr'[t].pc = "idle" /\ thr'[t].op = "none" /\ thr'[t].m = NULL
      BY <1>a, <2>1, <2>4, MoveFacts
    <3> QED
      BY <1>b, <1>c, <1>d, <1>e, <2>2, <2>4, <3>1, <3>2, EmptyHanded
  <2> QED
    BY <2>3, <2>4
<1> QED
  BY <1>1, <1>2, <1>3

\* A thread takes an interrupted call or command of its own up again.
LEMMA Resume ==
    ASSUME IndInv, NEW t \in Threads, NEW i \in Ids, msg[i].live, msg[i].pid = t,
           msg[i].list \in {"cmds", "interrupted"}, phase = "open", thr[t].pc \notin Busy,
           msg' = [msg EXCEPT ![i].list = "held"], thr' \in [Threads -> ThrType],
           \A u \in Threads \ {t} : thr'[u] = thr[u],
           thr'[t].pc = "wait", thr'[t].m = i,
           thr'[t].op = IF msg[i].list = "cmds" THEN "unmap_fd" ELSE "invoke",
           UNCHANGED <<tx, rx, ring, irq, cb, backend, queue, async_queue_job_count,
                       phase, init, fails, unclosed>>,
           imutex' \in Threads \cup {NULL}
    PROVE  IndInv'
<1>a. /\ TypeOK /\ MessageInv(i) /\ msg[i] \in MsgType /\ NULL \notin Ids /\ thr[t].m = NULL
      /\ ~unclosed /\ unclosed \in BOOLEAN /\ fails \in 0 .. MaxFails /\ MaxFails \in Nat
  BY Facts, ConstAssumption DEF TypeOK, QueueInv
<1>b. msg \in [Ids -> MsgType]
  BY <1>a DEF TypeOK
<1>1. /\ \A j \in Ids \ {i} : msg'[j] = msg[j]
      /\ msg'[i] = [msg[i] EXCEPT !.list = "held"]
  BY <1>b
<1>2. TypeOK'
  <2>1. [msg[i] EXCEPT !.list = "held"] \in MsgType
    BY <1>a, MsgField DEF Lists
  <2>2. msg' \in [Ids -> MsgType]
    BY <1>b, <2>1
  <2> QED
    BY <1>a, <2>2, TypeRest
<1>3. /\ msg'[i].live /\ msg'[i].list = "held" /\ msg'[i].pid = t
      /\ msg'[i].kind = msg[i].kind /\ msg'[i].tx = msg[i].tx /\ msg'[i].rx = msg[i].rx
      /\ msg'[i].work = msg[i].work /\ msg'[i].err = msg[i].err /\ msg'[i].own = msg[i].own
  BY <1>a, <1>1 DEF MsgType
<1>4. Moves(t, i)
  BY <1>a, <1>1 DEF Moves
<1>5. Holds(t, i)'
  BY <1>a, <1>3 DEF Holds, Busy
<1>6. /\ msg[i].kind = thr'[t].op /\ msg[i].kind \notin {"close", "async"} /\ msg[i].tx = NULL
  BY <1>a DEF MessageInv
<1>7. ThreadInv(t)'
  BY <1>a, <1>3, <1>6 DEF ThreadInv
<1>8. MessageInv(i)'
  BY <1>3, <1>6 DEF MessageInv
<1>9. Flying(i) => Awaits(i)'
  <2>1. Flying(i) => Awaits(i)
    BY <1>a DEF IndInv, FlyInv
  <2> QED
    BY <1>3, <2>1 DEF Awaits
<1>10. msg'[i].own
  BY <1>a, <1>3 DEF IndInv, FlyInv
<1> QED
  BY <1>a, <1>2, <1>3, <1>4, <1>5, <1>6, <1>7, <1>8, <1>9, <1>10, Quiet

\* context_restore_interrupted
LEMMA RestoreStep ==
    ASSUME IndInv, NEW t \in Threads, Restore(t) PROVE IndInv'
<1>1. PICK i \in SavedIn(t, "interrupted") :
        /\ msg' = [msg EXCEPT ![i].list = "held"]
        /\ thr' = [thr EXCEPT ![t] = [Idle EXCEPT !.op = "invoke", !.pc = "wait", !.m = i]]
  BY DEF Restore
<1>2. i \in Ids /\ msg[i].live /\ msg[i].list = "interrupted" /\ msg[i].pid = t
  BY DEF SavedIn
<1>3. /\ thr[t].pc \notin Busy /\ phase = "open"
      /\ UNCHANGED <<tx, rx, ring, irq, cb, backend, queue, async_queue_job_count,
                     phase, init, fails, unclosed, imutex>>
  BY DEF Restore, Busy
<1>4. TypeOK /\ thr \in [Threads -> ThrType]
  BY Facts DEF TypeOK
<1>5. PICK h \in ThrType : /\ h = [Idle EXCEPT !.op = "invoke", !.pc = "wait", !.m = i]
                           /\ h.pc = "wait" /\ h.m = i /\ h.op = "invoke"
  <2>1. PICK h : h = [Idle EXCEPT !.op = "invoke", !.pc = "wait", !.m = i]
    OBVIOUS
  <2>2. h \in ThrType /\ h.pc = "wait" /\ h.m = i /\ h.op = "invoke"
    BY <1>2, <2>1 DEF Idle, ThrType, Kinds, AllOps
  <2> QED
    BY <2>1, <2>2
<1>6. /\ thr' \in [Threads -> ThrType] /\ thr'[t] = h
      /\ \A u \in Threads \ {t} : thr'[u] = thr[u]
  BY <1>1, <1>4, <1>5
<1>7. imutex' \in Threads \cup {NULL}
  BY <1>3, <1>4, SideFacts
<1>8. /\ thr'[t].pc = "wait" /\ thr'[t].m = i
      /\ thr'[t].op = IF msg[i].list = "cmds" THEN "unmap_fd" ELSE "invoke"
  BY <1>2, <1>5, <1>6
<1> QED
  BY <1>1, <1>2, <1>3, <1>6, <1>7, <1>8, Resume

\* The ioctls under internal_map_mutex, and an interrupted munmap_fd.
LEMMA LockStep ==
    ASSUME IndInv, NEW t \in Threads, LockMap(t) PROVE IndInv'
<1>a. /\ TypeOK /\ ThreadInv(t) /\ thr[t] \in ThrType /\ thr \in [Threads -> ThrType]
      /\ thr[t].pc = "mutex" /\ thr[t].pc \notin Busy
  BY Facts DEF TypeOK, LockMap, Busy
<1>b. /\ phase = "open" /\ thr[t].op # "close" /\ ~unclosed /\ thr[t].m = NULL
      /\ thr[t].op \in Kinds /\ unclosed \in BOOLEAN
  BY <1>a, Facts DEF ThreadInv, ThrType, TypeOK
<1>c. /\ UNCHANGED <<tx, rx, ring, irq, cb, backend, queue, async_queue_job_count,
                     phase, init, fails, unclosed>>
      /\ imutex' \in Threads \cup {NULL}
  BY DEF LockMap
<1>1. CASE thr[t].op = "unmap_fd" /\ SavedIn(t, "cmds") # {}
  <2>1. PICK i \in SavedIn(t, "cmds") :
          /\ msg' = [msg EXCEPT ![i].list = "held"]
          /\ thr' = [thr EXCEPT ![t].pc = "wait", ![t].m = i]
    BY <1>1 DEF LockMap
  <2>2. i \in Ids /\ msg[i].live /\ msg[i].list = "cmds" /\ msg[i].pid = t
    BY DEF SavedIn
  <2>3. thr' \in [Threads -> ThrType]
    <3>1. "wait" \in PCs /\ i \in Ids \cup {NULL}
      BY <2>2 DEF PCs
    <3> QED
      BY <1>a, <2>1, <3>1, ThrField
  <2>4. /\ \A u \in Threads \ {t} : thr'[u] = thr[u]
        /\ thr'[t].pc = "wait" /\ thr'[t].m = i /\ thr'[t].op = "unmap_fd"
    BY <1>1, <1>a, <2>1 DEF ThrType
  <2>5. /\ thr'[t].op = IF msg[i].list = "cmds" THEN "unmap_fd" ELSE "invoke"
        /\ msg[i].list \in {"cmds", "interrupted"} /\ msg' = [msg EXCEPT ![i].list = "held"]
    BY <2>1, <2>2, <2>4
  <2>6. phase = "open" /\ thr[t].pc \notin Busy
    BY <1>a, <1>b
  <2> QED
    BY <1>c, <2>2, <2>3, <2>4, <2>5, <2>6, Resume
<1>2. CASE ~(thr[t].op = "unmap_fd" /\ SavedIn(t, "cmds") # {})
  <2>1. Goto(t, "alloc") /\ UNCHANGED msg
    BY <1>2 DEF LockMap
  <2>2. thr' \in [Threads -> ThrType]
    BY <1>a, <2>1, ThrField DEF Goto, PCs
  <2>3. /\ \A u \in Threads \ {t} : thr'[u] = thr[u]
        /\ thr'[t].pc = "alloc" /\ thr'[t].op = thr[t].op /\ thr'[t].m = NULL
    BY <1>a, <1>b, <2>1, MoveFacts
  <2>4. "alloc" \in PCs \ Busy /\ unclosed' \in BOOLEAN
    BY <1>b, <1>c DEF PCs, Busy
  <2> QED
    BY <1>a, <1>b, <1>c, <2>1, <2>2, <2>3, <2>4, EmptyHanded
<1> QED
  BY <1>1, <1>2

\* virt_alloc_msg takes a free entry, for which nothing is on the way.
LEMMA AllocStep ==
    ASSUME IndInv, NEW t \in Threads, AllocId(t) PROVE IndInv'
<1>1. PICK i \in Pick(FreeIds) :
        /\ msg' = [msg EXCEPT ![i] = [NoMsg EXCEPT !.live = TRUE, !.kind = thr[t].op,
                                      !.list = "held", !.pid = t]]
        /\ thr' = [thr EXCEPT ![t].pc = "gettx", ![t].m = i]
  BY DEF AllocId
<1>2. i \in Ids /\ ~msg[i].live
  BY DEF Pick, FreeIds
<1>a. /\ TypeOK /\ ThreadInv(t) /\ thr[t] \in ThrType /\ thr \in [Threads -> ThrType]
      /\ msg[i] = NoMsg /\ NULL \notin Ids /\ msg \in [Ids -> MsgType]
      /\ thr[t].pc = "alloc" /\ thr[t].m = NULL /\ fails \in 0 .. MaxFails /\ MaxFails \in Nat
      /\ NULL \notin Bufs
  BY <1>2, Facts, ConstAssumption DEF TypeOK, AllocId, Busy
<1>b. /\ UNCHANGED <<imutex, tx, rx, ring, irq, cb, backend, queue,
                     async_queue_job_count, phase, init, fails, unclosed>>
  BY DEF AllocId
<1>c. ~unclosed /\ thr[t].op \in Kinds
  BY <1>a DEF ThreadInv, ThrType
<1>3. PICK k \in MsgType : /\ msg' = [msg EXCEPT ![i] = k]
                           /\ k.live /\ k.kind = thr[t].op /\ k.list = "held" /\ k.pid = t
                           /\ k.tx = NULL /\ k.rx = NULL /\ ~k.work /\ k.own
  <2>1. PICK k : k = [NoMsg EXCEPT !.live = TRUE, !.kind = thr[t].op, !.list = "held", !.pid = t]
    OBVIOUS
  <2>2. /\ k \in MsgType
        /\ k.live /\ k.kind = thr[t].op /\ k.list = "held" /\ k.pid = t
        /\ k.tx = NULL /\ k.rx = NULL /\ ~k.work /\ k.own
    BY <1>c, <2>1 DEF NoMsg, MsgType, Lists
  <2> QED
    BY <1>1, <2>1, <2>2
<1>4. /\ msg' \in [Ids -> MsgType] /\ msg'[i] = k
      /\ \A j \in Ids \ {i} : msg'[j] = msg[j]
  BY <1>2, <1>3, <1>a
<1>5. thr' \in [Threads -> ThrType]
  BY <1>1, <1>2, <1>a, ThrField DEF PCs
<1>6. /\ \A u \in Threads \ {t} : thr'[u] = thr[u]
      /\ thr'[t].pc = "gettx" /\ thr'[t].m = i /\ thr'[t].op = thr[t].op
  BY <1>1, <1>a DEF ThrType
<1>7. TypeOK'
  <2>1. imutex' \in Threads \cup {NULL} /\ unclosed' \in BOOLEAN
    BY <1>a, <1>b, SideFacts
  <2> QED
    BY <1>a, <1>b, <1>4, <1>5, <2>1, TypeRest
<1>8. Moves(t, i)
  BY <1>2, <1>4, <1>6, <1>a, <1>b DEF Moves
<1>9. Holds(t, i)'
  BY <1>2, <1>3, <1>4, <1>6, <1>a DEF Holds, Busy
<1>10. ThreadInv(t)'
  <2>1. \A u \in Threads \ {t} : phase # "open" => thr'[t].pc = "idle" \/ thr'[u].pc = "idle"
    BY <1>6, <1>a DEF ThreadInv
  <2> QED
    BY <1>3, <1>4, <1>6, <1>a, <1>b, <1>c, <2>1 DEF ThreadInv
<1>11. MessageInv(i)'
  BY <1>3, <1>4, <1>6 DEF MessageInv
<1>12. ~Flying(i)
  BY <1>2, <1>c DEF IndInv, FlyInv, Awaits
<1>13. msg[i].tx = NULL /\ msg[i].rx = NULL
  BY <1>a DEF NoMsg
<1> QED
  BY <1>2, <1>3, <1>4, <1>6, <1>7, <1>8, <1>9, <1>10, <1>11, <1>12, <1>13, <1>a, <1>b, Quiet

\* The message that a thread has in hand, before and after a step that changes
\* no buffer of it.
LEMMA Handled ==
    ASSUME IndInv, NEW t \in Threads, thr[t].pc \in Busy
    PROVE  /\ thr[t].m \in Ids /\ msg[thr[t].m].live /\ msg[thr[t].m].list = "held"
           /\ msg[thr[t].m].pid = t /\ thr[t].pc # "idle"
           /\ msg[thr[t].m] \in MsgType /\ MessageInv(thr[t].m) /\ ThreadInv(t)
           /\ TypeOK /\ thr[t] \in ThrType /\ thr \in [Threads -> ThrType]
           /\ msg \in [Ids -> MsgType] /\ NULL \notin Ids /\ NULL \notin Bufs
           /\ fails \in 0 .. MaxFails /\ MaxFails \in Nat /\ fails \in Nat
           /\ \A u \in Threads \ {t} : thr[u].m # thr[t].m
           /\ ~unclosed => (Flying(thr[t].m) => thr[t].pc = "wait")
           /\ unclosed \in BOOLEAN
<1>1. /\ thr[t].m \in Ids /\ msg[thr[t].m].live /\ msg[thr[t].m].list = "held"
      /\ msg[thr[t].m].pid = t /\ thr[t].pc # "idle"
      /\ \A u \in Threads \ {t} : thr[u].m # thr[t].m
  BY Facts DEF HoldInv, Busy
<1>2. /\ TypeOK /\ thr \in [Threads -> ThrType] /\ msg \in [Ids -> MsgType]
      /\ fails \in 0 .. MaxFails /\ MaxFails \in Nat /\ unclosed \in BOOLEAN
  BY Facts, ConstAssumption DEF TypeOK
<1>3. ~unclosed => (Flying(thr[t].m) => thr[t].pc = "wait")
  BY <1>1 DEF IndInv, FlyInv, Awaits
<1> QED
  BY <1>1, <1>2, <1>3, Facts

\* "can't get tx buffer"
LEMMA NoTxStep ==
    ASSUME IndInv, NEW t \in Threads, NoTxBuf(t) PROVE IndInv'
<1>a. thr[t].pc = "gettx" /\ thr[t].pc \in Busy
  BY DEF NoTxBuf, Busy
<1>i. PICK i \in Ids : i = thr[t].m
  BY <1>a, Handled
<1>b. /\ Goto(t, "freemsg") /\ CloseFails(t)
      /\ UNCHANGED <<msg, imutex, tx, rx, ring, irq, cb, backend, queue,
                     async_queue_job_count, phase, init, fails>>
  BY DEF NoTxBuf
<1>c. /\ \A u \in Threads \ {t} : thr'[u] = thr[u]
      /\ thr'[t].pc = "freemsg" /\ thr'[t].op = thr[t].op /\ thr'[t].m = i
  BY <1>a, <1>b, <1>i, Handled, MoveFacts
<1>d. /\ unclosed' \in BOOLEAN /\ ~unclosed
      /\ unclosed' => thr[t].op = "close"
      /\ thr[t].op = "close" => unclosed'
  BY <1>a, <1>b, Handled, SideFacts DEF ThreadInv
<1>1. TypeOK'
  <2>1. thr' \in [Threads -> ThrType]
    BY <1>a, <1>b, Handled, ThrField DEF Goto, PCs
  <2> QED
    BY <1>a, <1>b, <1>d, <2>1, Handled, TypeRest DEF TypeOK
<1>2. Moves(t, i)
  BY <1>a, <1>b, <1>c, <1>d, <1>i, Handled DEF Moves
<1>3. Holds(t, i)'
  BY <1>a, <1>b, <1>c, <1>i, Handled DEF Holds, Busy
<1>4. ThreadInv(t)'
  <2>1. ThreadInv(t) /\ MessageInv(i)
    BY <1>a, <1>i, Handled
  <2> QED
    BY <1>a, <1>b, <1>c, <1>d, <1>i, <2>1 DEF ThreadInv
<1>5. MessageInv(i)'
  <2>1. MessageInv(i) /\ msg[i].pid = t /\ msg[i].tx = NULL
    BY <1>a, <1>i, Handled DEF MessageInv
  <2> QED
    BY <1>b, <1>c, <2>1 DEF MessageInv
<1>6. ~Flying(i) /\ msg'[i].own /\ ~msg[i].work
  BY <1>a, <1>b, <1>d, <1>i, Handled DEF IndInv, FlyInv, ThreadInv
<1> QED
  BY <1>a, <1>b, <1>c, <1>d, <1>i, <1>1, <1>2, <1>3, <1>4, <1>5, <1>6, Handled, Quiet

\* A thread reads its answer.
LEMMA AnsweredStep ==
    ASSUME IndInv, NEW t \in Threads, PutArgs(t) \/ CmdDone(t) \/ CloseDone(t) PROVE IndInv'
<1>a. thr[t].pc = "wait" /\ thr[t].pc \in Busy
  BY DEF PutArgs, CmdDone, CloseDone, Answered, Busy
<1>i. PICK i \in Ids : i = thr[t].m
  BY <1>a, Handled
<1>b. /\ msg[i].work /\ msg' = [msg EXCEPT ![i].work = FALSE]
      /\ Goto(t, IF msg[i].rx = NULL THEN "freemsg" ELSE "freerx")
      /\ UNCHANGED <<imutex, tx, rx, ring, irq, cb, backend, queue,
                     async_queue_job_count, phase, fails>>
  BY <1>i DEF PutArgs, CmdDone, CloseDone, Answered
<1>c. /\ \A u \in Threads \ {t} : thr'[u] = thr[u]
      /\ thr'[t].pc = IF msg[i].rx = NULL THEN "freemsg" ELSE "freerx"
      /\ thr'[t].op = thr[t].op /\ thr'[t].m = i
  BY <1>a, <1>b, <1>i, Handled, MoveFacts
<1>d. ~unclosed /\ ThreadInv(t) /\ MessageInv(i) /\ msg[i].kind = thr[t].op
  BY <1>a, <1>i, Handled DEF ThreadInv
<1>e. /\ unclosed' \in BOOLEAN /\ (unclosed' => thr[t].op = "close")
      /\ thr[t].op = "close" => unclosed' \/ Silent
  <2>1. CASE thr[t].op = "close"
    <3>1. unclosed' = (unclosed \/ msg[thr[t].m].err)
      BY <2>1 DEF PutArgs, CmdDone, CloseDone
    <3>2. unclosed' \in BOOLEAN
      BY <3>1, Zenon
    <3>3. ~unclosed' => ~msg[i].err
      BY <1>i, <3>1, Zenon
    <3>4. ~msg[i].err => Silent
      BY <1>b, <1>d, <2>1 DEF IndInv, CloseInv
    <3> QED
      BY <2>1, <3>2, <3>3, <3>4
  <2>2. CASE thr[t].op # "close"
    BY <1>d, <2>2, <1>a, Handled DEF PutArgs, CmdDone, CloseDone
  <2> QED
    BY <2>1, <2>2
<1>1. /\ \A j \in Ids \ {i} : msg'[j] = msg[j]
      /\ msg'[i] = [msg[i] EXCEPT !.work = FALSE]
  BY <1>a, <1>b, Handled
<1>2. /\ msg'[i].live /\ msg'[i].list = "held" /\ msg'[i].pid = t
      /\ msg'[i].kind = msg[i].kind /\ msg'[i].tx = msg[i].tx /\ msg'[i].rx = msg[i].rx
      /\ ~msg'[i].work /\ msg'[i].own = msg[i].own
  BY <1>a, <1>i, <1>1, Handled DEF MsgType
<1>3. TypeOK'
  <2>1. thr' \in [Threads -> ThrType]
    BY <1>a, <1>b, Handled, ThrField DEF Goto, PCs
  <2>2. msg' \in [Ids -> MsgType]
    BY <1>a, <1>b, <1>i, Handled, MsgField
  <2>3. init' \in BOOLEAN
    BY <1>a, Handled DEF PutArgs, CmdDone, CloseDone, TypeOK
  <2> QED
    BY <1>a, <1>b, <1>e, <2>1, <2>2, <2>3, Handled DEF TypeOK
<1>4. Moves(t, i)
  BY <1>a, <1>b, <1>c, <1>d, <1>e, <1>i, <1>1, Handled DEF Moves
<1>5. Holds(t, i)'
  BY <1>a, <1>c, <1>i, <1>2, Handled DEF Holds, Busy
<1>6. ThreadInv(t)'
  BY <1>a, <1>b, <1>c, <1>d, <1>i, <1>2 DEF ThreadInv
<1>7. MessageInv(i)'
  <2>1. msg[i].tx = NULL
    BY <1>a, <1>d, <1>i, Handled DEF MessageInv
  <2> QED
    BY <1>c, <1>d, <1>2, <2>1 DEF MessageInv
<1>8. ~Flying(i) /\ msg'[i].own
  BY <1>b, <1>d, <1>2 DEF IndInv, FlyInv, Awaits
<1> QED
  BY <1>a, <1>b, <1>c, <1>e, <1>i, <1>2, <1>3, <1>4, <1>5, <1>6, <1>7, <1>8, Handled, Quiet

\* An interrupted wait.
LEMMA SaveStep ==
    ASSUME IndInv, NEW t \in Threads, SaveInvoke(t) \/ SaveCmd(t) PROVE IndInv'
<1>a. thr[t].pc = "wait" /\ thr[t].pc \in Busy
  BY DEF SaveInvoke, SaveCmd, Save, Busy
<1>i. PICK i \in Ids : i = thr[t].m
  BY <1>a, Handled
<1>l. PICK l \in {"interrupted", "cmds", "leaked"} :
        /\ thr[t].op = IF l = "interrupted" THEN "invoke" ELSE "unmap_fd"
        /\ msg' = [msg EXCEPT ![i].list = l]
  BY <1>i DEF SaveInvoke, SaveCmd, Save
<1>b. /\ Return(t) /\ Unlock(t) /\ fails' \in {fails, fails + 1} /\ (fails' # fails => fails < MaxFails)
      /\ UNCHANGED <<tx, rx, ring, irq, cb, backend, queue,
                     async_queue_job_count, phase, init, unclosed>>
  BY DEF SaveInvoke, SaveCmd, Save
<1>c. /\ \A u \in Threads \ {t} : thr'[u] = thr[u]
      /\ thr'[t].pc = "idle" /\ thr'[t].op = "none" /\ thr'[t].m = NULL
  BY <1>a, <1>b, Handled, MoveFacts
<1>d. ~unclosed /\ ThreadInv(t) /\ MessageInv(i) /\ msg[i].kind = thr[t].op
  BY <1>a, <1>i, Handled DEF ThreadInv
<1>e. fails' \in 0 .. MaxFails /\ fails <= fails'
  BY <1>a, <1>b, Handled
<1>1. /\ \A j \in Ids \ {i} : msg'[j] = msg[j]
      /\ msg'[i] = [msg[i] EXCEPT !.list = l]
  BY <1>a, <1>l, Handled
<1>2. /\ msg'[i].live /\ msg'[i].list = l /\ msg'[i].pid = t
      /\ msg'[i].kind = msg[i].kind /\ msg'[i].tx = msg[i].tx /\ msg'[i].rx = msg[i].rx
      /\ msg'[i].work = msg[i].work /\ msg'[i].own = msg[i].own
  BY <1>a, <1>i, <1>1, Handled DEF MsgType
<1>3. TypeOK'
  <2>1. thr' \in [Threads -> ThrType]
    BY <1>a, <1>b, Handled, ThrField DEF Return
  <2>2. l \in Lists
    BY DEF Lists
  <2>3. msg' \in [Ids -> MsgType]
    BY <1>a, <1>l, <1>i, <2>2, Handled, MsgField
  <2>4. imutex' \in Threads \cup {NULL} /\ unclosed' \in BOOLEAN
    BY <1>a, <1>b, Handled, SideFacts
  <2> QED
    BY <1>a, <1>b, <1>e, <2>1, <2>3, <2>4, Handled, TypeRest
<1>4. Moves(t, i)
  BY <1>a, <1>b, <1>c, <1>i, <1>1, Handled DEF Moves
<1>5. Holds(t, i)'
  BY <1>a, <1>c, <1>i, <1>2, Handled DEF Holds, Busy
<1>6. ThreadInv(t)'
  BY <1>b, <1>c, <1>d DEF ThreadInv
<1>7. msg[i].tx = NULL /\ msg[i].kind \in {"invoke", "unmap_fd"}
  BY <1>a, <1>d, <1>i, <1>l, Handled DEF MessageInv
<1>8. MessageInv(i)'
  BY <1>d, <1>l, <1>2, <1>7 DEF MessageInv
<1>9. Flying(i) => Awaits(i)'
  <2>1. Flying(i) => Awaits(i)
    BY <1>d DEF IndInv, FlyInv
  <2> QED
    BY <1>2, <2>1 DEF Awaits
<1>10. msg'[i].own
  BY <1>d, <1>2 DEF IndInv, FlyInv
<1> QED
  BY <1>a, <1>b, <1>c, <1>d, <1>e, <1>i, <1>2, <1>3, <1>4, <1>5, <1>6, <1>7, <1>8, <1>9, <1>10, Handled, Quiet

\* The destructor takes the next message off a list.
LEMMA FreeNextStep ==
    ASSUME IndInv, NEW t \in Threads, FreeNext(t) PROVE IndInv'
<1>1. PICK i \in ToFree :
        /\ msg' = [msg EXCEPT ![i].list = "held", ![i].pid = t]
        /\ thr' = [thr EXCEPT ![t].m = i,
                              ![t].pc = IF msg[i].rx = NULL THEN "freemsg" ELSE "freerx"]
  BY DEF FreeNext
<1>2. i \in Ids /\ msg[i].live /\ msg[i].list \in {"interrupted", "pending", "cmds"}
  BY DEF ToFree
<1>a. /\ TypeOK /\ ThreadInv(t) /\ thr[t] \in ThrType /\ thr \in [Threads -> ThrType]
      /\ msg[i] \in MsgType /\ MessageInv(i) /\ NULL \notin Ids /\ msg \in [Ids -> MsgType]
      /\ thr[t].pc = "dtor" /\ thr[t].m = NULL /\ fails \in 0 .. MaxFails /\ MaxFails \in Nat
      /\ unclosed \in BOOLEAN
  BY <1>2, Facts, ConstAssumption DEF TypeOK, FreeNext, Busy
<1>b. UNCHANGED <<imutex, tx, rx, ring, irq, cb, backend, queue,
                  async_queue_job_count, phase, init, fails, unclosed>>
  BY DEF FreeNext
<1>c. thr[t].op = "close" /\ phase = "closing" /\ (~unclosed => Silent)
  BY <1>a DEF ThreadInv, IndInv, CloseInv
<1>3. PICK pc \in {"freemsg", "freerx"} : pc = IF msg[i].rx = NULL THEN "freemsg" ELSE "freerx"
  OBVIOUS
<1>4. /\ \A u \in Threads \ {t} : thr'[u] = thr[u]
      /\ thr'[t].pc = pc /\ thr'[t].m = i /\ thr'[t].op = thr[t].op
  BY <1>1, <1>3, <1>a DEF ThrType
<1>5. PICK k \in MsgType : /\ msg' = [msg EXCEPT ![i] = k]
                           /\ k.live /\ k.kind = msg[i].kind /\ k.list = "held" /\ k.pid = t
                           /\ k.tx = msg[i].tx /\ k.rx = msg[i].rx /\ k.work = msg[i].work
                           /\ k.own = msg[i].own
  <2>1. PICK k : k = [msg[i] EXCEPT !.list = "held", !.pid = t]
    OBVIOUS
  <2>2. k \in MsgType
    BY <1>a, <2>1, MsgField DEF Lists
  <2>3. /\ k.live /\ k.kind = msg[i].kind /\ k.list = "held" /\ k.pid = t
        /\ k.tx = msg[i].tx /\ k.rx = msg[i].rx /\ k.work = msg[i].work
        /\ k.own = msg[i].own
    BY <1>2, <1>a, <2>1 DEF MsgType
  <2> QED
    BY <1>1, <2>1, <2>2, <2>3
<1>6. /\ msg' \in [Ids -> MsgType] /\ msg'[i] = k
      /\ \A j \in Ids \ {i} : msg'[j] = msg[j]
  BY <1>2, <1>5, <1>a
<1>7. TypeOK'
  <2>1. thr' \in [Threads -> ThrType]
    <3>1. pc \in PCs /\ i \in Ids \cup {NULL} /\ thr' = [thr EXCEPT ![t].m = i, ![t].pc = pc]
      BY <1>1, <1>2, <1>3 DEF PCs
    <3> QED
      BY <1>a, <3>1, ThrField
  <2>2. imutex' \in Threads \cup {NULL} /\ unclosed' \in BOOLEAN
    BY <1>a, <1>b, SideFacts
  <2> QED
    BY <1>a, <1>b, <1>6, <2>1, <2>2, TypeRest
<1>8. Moves(t, i)
  BY <1>2, <1>4, <1>6, <1>a, <1>b DEF Moves
<1>9. Holds(t, i)'
  BY <1>2, <1>4, <1>5, <1>6, <1>a DEF Holds, Busy
<1>10. ThreadInv(t)'
  <2>1. \A u \in Threads \ {t} : phase # "open" => thr'[t].pc = "idle" \/ thr'[u].pc = "idle"
    BY <1>4, <1>a DEF ThreadInv
  <2> QED
    BY <1>3, <1>4, <1>5, <1>6, <1>b, <1>c, <2>1 DEF ThreadInv
<1>11. msg[i].tx = NULL /\ msg[i].kind # "close"
  BY <1>2, <1>a DEF MessageInv
<1>12. MessageInv(i)'
  BY <1>5, <1>6, <1>11 DEF MessageInv
<1>13. ~unclosed => ~Flying(i) /\ msg[i].own
  <2>1. Silent => ~Flying(i)
    BY DEF Silent, Flying, InTx, InBackend, InRing, InCb
  <2> QED
    BY <1>2, <1>c, <2>1 DEF IndInv, FlyInv
<1>14. ~(msg[i].live /\ msg[i].list = "pending" /\ msg[i].rx # NULL) \/ phase # "open"
  BY <1>c
<1> QED
  BY <1>2, <1>4, <1>5, <1>6, <1>7, <1>8, <1>9, <1>10, <1>11, <1>12, <1>13, <1>a, <1>b, <1>c, Quiet

-----------------------------------------------------------------------------
(* The steps of a thread that move a buffer.                                *)

\* The buffer lists, as sets.
LEMMA BufferSets ==
    ASSUME TypeOK
    PROVE  /\ tx.fresh \subseteq Bufs /\ tx.used \subseteq Bufs /\ tx.lost \subseteq Bufs
           /\ tx.avail \subseteq Requests
           /\ rx.avail \subseteq Bufs /\ rx.lost \subseteq Bufs /\ rx.failed \subseteq Bufs
  BY DEF TypeOK

\* get_a_tx_buf takes a buffer that is on a list.
LEMMA GetTxStep ==
    ASSUME IndInv, NEW t \in Threads, GetTxBuf(t) PROVE IndInv'
<1>a. thr[t].pc = "gettx" /\ thr[t].pc \in Busy
  BY DEF GetTxBuf, Busy
<1>i. PICK i \in Ids : i = thr[t].m
  BY <1>a, Handled
<1>b. PICK b \in TxChoice : /\ tx' = [tx EXCEPT !.fresh = @ \ {b}, !.used = @ \ {b}]
                            /\ msg' = [msg EXCEPT ![i].tx = b]
  BY <1>i DEF GetTxBuf
<1>c. /\ Goto(t, "send")
      /\ UNCHANGED <<imutex, rx, ring, irq, cb, backend, queue,
                     async_queue_job_count, phase, init, fails, unclosed>>
  BY DEF GetTxBuf
<1>d. b \in tx.fresh \cup tx.used /\ b \in Bufs /\ b # NULL
  BY <1>a, Handled, BufferSets DEF TxChoice
<1>e. /\ tx'.fresh = tx.fresh \ {b} /\ tx'.used = tx.used \ {b}
      /\ tx'.lost = tx.lost /\ tx'.avail = tx.avail
      /\ tx' \in [fresh : SUBSET Bufs, used : SUBSET Bufs, lost : SUBSET Bufs,
                  avail : SUBSET Requests]
  BY <1>a, <1>b, Handled DEF TypeOK
<1>f. /\ \A u \in Threads \ {t} : thr'[u] = thr[u]
      /\ thr'[t].pc = "send" /\ thr'[t].op = thr[t].op /\ thr'[t].m = i
  BY <1>a, <1>c, <1>i, Handled, MoveFacts
<1>g. ~unclosed /\ ThreadInv(t) /\ MessageInv(i) /\ msg[i].kind = thr[t].op
      /\ msg[i].tx = NULL /\ msg[i].rx = NULL /\ ~msg[i].work
  BY <1>a, <1>i, Handled DEF ThreadInv, MessageInv
<1>1. /\ \A j \in Ids \ {i} : msg'[j] = msg[j]
      /\ msg'[i] = [msg[i] EXCEPT !.tx = b]
  BY <1>a, <1>b, Handled
<1>2. /\ msg'[i].live /\ msg'[i].list = "held" /\ msg'[i].pid = t
      /\ msg'[i].kind = msg[i].kind /\ msg'[i].tx = b /\ msg'[i].rx = msg[i].rx
      /\ msg'[i].work = msg[i].work /\ msg'[i].own = msg[i].own
  BY <1>a, <1>i, <1>1, Handled DEF MsgType
<1>3. TypeOK'
  <2>1. thr' \in [Threads -> ThrType]
    BY <1>a, <1>c, Handled, ThrField DEF Goto, PCs
  <2>2. msg' \in [Ids -> MsgType]
    BY <1>a, <1>b, <1>d, <1>i, Handled, MsgField
  <2> QED
    BY <1>a, <1>c, <1>e, <2>1, <2>2, Handled DEF TypeOK
<1>4. Moves(t, i)
  BY <1>a, <1>c, <1>f, <1>i, <1>1, Handled DEF Moves
<1>5. Holds(t, i)'
  BY <1>a, <1>f, <1>i, <1>2, Handled DEF Holds, Busy
<1>6. ThreadInv(t)'
  <2>1. \A u \in Threads \ {t} : phase # "open" => thr'[t].pc = "idle" \/ thr'[u].pc = "idle"
    BY <1>a, <1>f, <1>g DEF ThreadInv
  <2> QED
    BY <1>a, <1>c, <1>d, <1>f, <1>g, <1>i, <1>2, <2>1 DEF ThreadInv
<1>7. MessageInv(i)'
  BY <1>f, <1>g, <1>2 DEF MessageInv
<1>8. ~Flying(i) /\ msg'[i].own
  BY <1>a, <1>g, <1>i, <1>2, Handled DEF IndInv, FlyInv
<1>9. FlyInv' /\ CloseInv'
  <2>1. rx'.lost = rx.lost /\ UNCHANGED <<backend, ring, cb>>
    BY <1>c
  <2>2. FlyInv'
    BY <1>4, <1>8, <1>e, <1>g, <2>1, FlyFrame
  <2>3. CloseInv'
    BY <1>4, <1>8, <1>2, <1>e, <1>f, <1>g, <2>1, CloseFrame
  <2> QED
    BY <2>2, <2>3
<1>10. QueueInv'
  <2>1. msg[i].list # "pending" /\ UNCHANGED <<queue, async_queue_job_count>>
    BY <1>a, <1>c, <1>i, Handled
  <2> QED
    BY <1>4, <2>1, QueueFrame
<1>11. RxInv'
  <2>1. \A j \in Ids : msg'[j].rx = msg[j].rx
    BY <1>1, <1>2
  <2> QED
    BY <1>c, <2>1, RxFrame DEF IndInv
<1>12. TxInv'
  <2>1. TxInv /\ fails' = fails
    BY <1>c DEF IndInv
  <2>2. /\ \A j \in Ids : msg'[j].tx = IF j = i THEN b ELSE msg[j].tx
        /\ \A j \in Ids : msg[j].tx # b
        /\ b \notin tx.lost
        /\ \A r \in tx.avail : r.tx # b
    BY <1>1, <1>2, <1>d, <2>1 DEF TxInv
  <2>3. /\ tx'.fresh \cap tx'.used = {} /\ tx'.fresh \cap tx'.lost = {} /\ tx'.used \cap tx'.lost = {}
        /\ \A r, q \in tx'.avail : r.tx = q.tx => r = q
        /\ \A r \in tx'.avail : r.tx \notin tx'.fresh \cup tx'.used \cup tx'.lost
    BY <1>e, <2>1 DEF TxInv
  <2>4. /\ \A k, j \in Ids : msg'[k].tx # NULL /\ msg'[k].tx = msg'[j].tx => k = j
        /\ \A j \in Ids : msg'[j].tx \notin tx'.fresh \cup tx'.used \cup tx'.lost
        /\ \A j \in Ids, r \in tx'.avail : msg'[j].tx # r.tx
    BY <1>e, <2>1, <2>2 DEF TxInv
  <2>5. ASSUME NEW c \in Bufs
        PROVE  \/ c \in tx'.fresh \cup tx'.used \cup tx'.lost
               \/ \E r \in tx'.avail : r.tx = c
               \/ \E j \in Ids : msg'[j].tx = c
    <3>1. CASE c = b
      BY <1>2, <3>1
    <3>2. CASE c # b
      <4>1. c # NULL
        BY ConstAssumption
      <4>2. ASSUME NEW j \in Ids, msg[j].tx = c PROVE msg'[j].tx = c
        BY <1>g, <2>2, <4>1, <4>2
      <4> QED
        BY <1>e, <2>1, <3>2, <4>2 DEF TxInv
    <3> QED
      BY <3>1, <3>2
  <2> QED
    BY <2>3, <2>4, <2>5 DEF TxInv
<1>13. /\ HoldInv' /\ \A u \in Threads : ThreadInv(u)'
       /\ \A j \in Ids : MessageInv(j)'
  BY <1>4, <1>5, <1>6, <1>7, LocalFrame
<1> QED
  BY <1>3, <1>9, <1>10, <1>11, <1>12, <1>13 DEF IndInv

\* vfastrpc_rxbuf_send gives the answer's buffer back, or loses it.
LEMMA FreeRxStep ==
    ASSUME IndInv, NEW t \in Threads, FreeRx(t) PROVE IndInv'
<1>a. thr[t].pc = "freerx" /\ thr[t].pc \in Busy
  BY DEF FreeRx, Busy
<1>i. PICK i \in Ids : i = thr[t].m
  BY <1>a, Handled
<1>b. PICK b \in Bufs : b = msg[i].rx
  BY <1>a, <1>i, Handled DEF ThreadInv, MsgType
<1>c. /\ Goto(t, "freemsg")
      /\ msg' = [msg EXCEPT ![i].rx = NULL]
      /\ fails' \in 0 .. MaxFails
      /\ UNCHANGED <<imutex, tx, ring, irq, cb, backend, queue,
                     async_queue_job_count, phase, init, unclosed>>
  BY <1>a, <1>i, <1>b, Handled DEF FreeRx
<1>s. \/ rx' = [rx EXCEPT !.avail = @ \cup {b}]
      \/ rx' = [rx EXCEPT !.failed = @ \cup {b}]
  BY <1>i, <1>b DEF FreeRx
<1>e. /\ \/ rx'.avail = rx.avail \cup {b} /\ rx'.failed = rx.failed
         \/ rx'.avail = rx.avail /\ rx'.failed = rx.failed \cup {b}
      /\ rx'.lost = rx.lost
      /\ rx' \in [avail : SUBSET Bufs, lost : SUBSET Bufs, failed : SUBSET Bufs]
  BY <1>a, <1>b, <1>s, Handled DEF TypeOK
<1>f. /\ \A u \in Threads \ {t} : thr'[u] = thr[u]
      /\ thr'[t].pc = "freemsg" /\ thr'[t].op = thr[t].op /\ thr'[t].m = i
  BY <1>a, <1>c, <1>i, Handled, MoveFacts
<1>g. ThreadInv(t) /\ MessageInv(i) /\ msg[i].tx = NULL /\ b # NULL
  BY <1>a, <1>i, <1>b, Handled DEF MessageInv
<1>1. /\ \A j \in Ids \ {i} : msg'[j] = msg[j]
      /\ msg'[i] = [msg[i] EXCEPT !.rx = NULL]
  BY <1>a, <1>c, Handled
<1>2. /\ msg'[i].live /\ msg'[i].list = "held" /\ msg'[i].pid = t
      /\ msg'[i].kind = msg[i].kind /\ msg'[i].rx = NULL /\ msg'[i].tx = msg[i].tx
      /\ msg'[i].work = msg[i].work /\ msg'[i].own = msg[i].own /\ msg'[i].err = msg[i].err
  BY <1>a, <1>i, <1>1, Handled DEF MsgType
<1>3. TypeOK'
  <2>1. thr' \in [Threads -> ThrType]
    BY <1>a, <1>c, Handled, ThrField DEF Goto, PCs
  <2>2. msg' \in [Ids -> MsgType]
    BY <1>a, <1>c, <1>i, Handled, MsgField
  <2> QED
    BY <1>a, <1>c, <1>e, <2>1, <2>2, Handled DEF TypeOK
<1>4. Moves(t, i)
  BY <1>a, <1>c, <1>f, <1>i, <1>1, Handled DEF Moves
<1>5. Holds(t, i)'
  BY <1>a, <1>f, <1>i, <1>2, Handled DEF Holds, Busy
<1>6. ThreadInv(t)'
  <2>1. \A u \in Threads \ {t} : phase # "open" => thr'[t].pc = "idle" \/ thr'[u].pc = "idle"
    BY <1>a, <1>f, <1>g DEF ThreadInv
  <2> QED
    BY <1>a, <1>c, <1>f, <1>g, <1>i, <1>2, <2>1 DEF ThreadInv
<1>7. MessageInv(i)'
  <2>1. msg[i].live /\ msg[i].pid = t
    BY <1>a, <1>i, Handled
  <2> QED
    BY <1>f, <1>g, <1>2, <2>1 DEF MessageInv
<1>9. ~unclosed' => FlyInv' /\ CloseInv'
  <2>1. SUFFICES ASSUME ~unclosed PROVE FlyInv' /\ CloseInv'
    BY <1>c
  <2>2. ~Flying(i) /\ msg'[i].own
    BY <1>a, <2>1, <1>i, <1>2, Handled DEF IndInv, FlyInv
  <2>3. FlyInv'
    BY <1>4, <1>c, <1>e, <2>1, <2>2, FlyFrame
  <2>4. CloseInv
    BY <2>1 DEF IndInv
  <2>5. CloseInv'
    <3>1. thr[t].op = "close" => Silent
      BY <1>a, <2>4 DEF CloseInv
    <3>2. msg[i].kind = "close" /\ msg[i].work /\ ~msg[i].err => Silent
      BY <2>4 DEF CloseInv
    <3> QED
      BY <1>4, <1>2, <1>c, <1>f, <2>1, <2>2, <3>1, <3>2, CloseFrame
  <2> QED
    BY <2>3, <2>5
<1>10. QueueInv'
  <2>1. msg[i].list # "pending" /\ UNCHANGED <<queue, async_queue_job_count>>
    BY <1>a, <1>c, <1>i, Handled
  <2> QED
    BY <1>4, <2>1, QueueFrame
<1>11. TxInv'
  <2>1. \A j \in Ids : msg'[j].tx = msg[j].tx
    BY <1>1, <1>2
  <2> QED
    BY <1>c, <2>1, TxFrame DEF IndInv
<1>12. RxInv'
  <2>1. RxInv
    BY DEF IndInv
  <2>2. /\ \A j \in Ids : msg'[j].rx = IF j = i THEN NULL ELSE msg[j].rx
        /\ \A j \in Ids \ {i} : msg[j].rx # b
        /\ b \notin rx.lost /\ b \notin rx.avail /\ b \notin rx.failed
        /\ \A k \in DOMAIN ring : ring[k].rx # b
        /\ cb.rsp # NULL => cb.rsp.rx # b
    BY <1>1, <1>2, <1>b, <1>g, <2>1 DEF RxInv
  <2>3. TypeOK
    BY DEF IndInv
  <2>4. /\ NULL \notin rx.avail /\ NULL \notin rx.lost /\ NULL \notin rx.failed /\ b # NULL
        /\ \A k \in DOMAIN ring : ring[k].rx # NULL
        /\ cb.rsp # NULL => cb.rsp.rx # NULL
    BY <2>3, <1>g, OnTheWay, BufferSets, ConstAssumption
  <2>5. /\ cb'.rsp # NULL <=> cb'.pc = "recv"
        /\ rx'.avail \cap rx'.lost = {} /\ rx'.avail \cap rx'.failed = {} /\ rx'.lost \cap rx'.failed = {}
        /\ \A k, l \in DOMAIN ring' : ring'[k].rx = ring'[l].rx => k = l
        /\ \A k \in DOMAIN ring' : ring'[k].rx \notin rx'.avail \cup rx'.lost \cup rx'.failed
        /\ \A k \in DOMAIN ring' : cb'.rsp # NULL => cb'.rsp.rx # ring'[k].rx
        /\ cb'.rsp # NULL => cb'.rsp.rx \notin rx'.avail \cup rx'.lost \cup rx'.failed
    BY <1>c, <1>e, <2>1, <2>2 DEF RxInv
  <2>6. /\ \A l, j \in Ids : msg'[l].rx # NULL /\ msg'[l].rx = msg'[j].rx => l = j
        /\ \A j \in Ids : msg'[j].rx \notin rx'.avail \cup rx'.lost \cup rx'.failed
    BY <1>e, <2>1, <2>2, <2>4 DEF RxInv
  <2>7. /\ \A j \in Ids, k \in DOMAIN ring' : msg'[j].rx # ring'[k].rx
        /\ \A j \in Ids : cb'.rsp # NULL => msg'[j].rx # cb'.rsp.rx
    BY <1>c, <2>1, <2>2, <2>4 DEF RxInv
  <2>8. ASSUME NEW c \in Bufs
        PROVE  \/ c \in rx'.avail \cup rx'.lost \cup rx'.failed
               \/ \E k \in DOMAIN ring' : ring'[k].rx = c
               \/ cb'.rsp # NULL /\ cb'.rsp.rx = c
               \/ \E j \in Ids : msg'[j].rx = c
    BY <1>b, <1>c, <1>e, <2>1, <2>2 DEF RxInv
  <2> QED
    BY <2>5, <2>6, <2>7, <2>8 DEF RxInv
<1>13. /\ HoldInv' /\ \A u \in Threads : ThreadInv(u)'
       /\ \A j \in Ids : MessageInv(j)'
  BY <1>4, <1>5, <1>6, <1>7, LocalFrame
<1> QED
  BY <1>3, <1>9, <1>10, <1>11, <1>12, <1>13 DEF IndInv

\* Only one thread is in a closing session, and CLOSE is the message it has in hand.
LEMMA CloserAlone ==
    ASSUME IndInv, NEW t \in Threads, thr[t].pc # "idle"
    PROVE  /\ \A j \in Ids : msg[j].kind = "close" => thr[t].m = j
           /\ \A u \in Threads \ {t} : thr[u].pc # "idle" => thr[u].op # "close"
           /\ phase # "closed"
<1>1. ASSUME NEW u \in Threads \ {t}, thr[u].pc # "idle", thr[u].op = "close" PROVE FALSE
  <2>1. ThreadInv(u) /\ ThreadInv(t)
    BY Facts
  <2>2. phase # "open"
    BY <1>1, <2>1 DEF ThreadInv
  <2> QED
    BY <1>1, <2>1, <2>2 DEF ThreadInv
<1>2. ASSUME NEW j \in Ids, msg[j].kind = "close" PROVE thr[t].m = j
  <2>1. msg[j].live
    BY <1>2, Facts DEF NoMsg
  <2>2. msg[j].list = "held" /\ thr[msg[j].pid].op = "close"
    BY <1>2, <2>1, Facts DEF MessageInv
  <2>3. msg[j].pid \in Threads /\ thr[msg[j].pid].m = j
    BY <2>1, <2>2, Facts DEF HoldInv
  <2>4. thr[msg[j].pid].pc # "idle"
    BY <2>3, Facts DEF Busy
  <2> QED
    BY <1>1, <2>2, <2>3, <2>4
<1>3. phase # "closed"
  BY Facts DEF ThreadInv
<1> QED
  BY <1>1, <1>2, <1>3

\* vfastrpc_txbuf_send
LEMMA SendStep ==
    ASSUME IndInv, NEW t \in Threads, Send(t) PROVE IndInv'
<1>a. thr[t].pc = "send" /\ thr[t].pc \in Busy /\ thr[t].pc # "idle"
  BY DEF Send, Busy
<1>i. PICK i \in Ids : i = thr[t].m
  BY <1>a, Handled
<1>b. PICK b \in Bufs : b = msg[i].tx
  BY <1>a, <1>i, Handled DEF ThreadInv, MsgType
<1>q. PICK q : q = [tx |-> b, id |-> i, kind |-> msg[i].kind, old |-> FALSE]
  OBVIOUS
<1>r. q.tx = b /\ q.id = i /\ q.kind = msg[i].kind /\ ~q.old /\ q \in Requests
  BY <1>a, <1>i, <1>q, Handled DEF Requests, MsgType
<1>l. PICK l \in Lists : l = IF thr[t].op = "async" THEN "pending" ELSE "held"
  BY DEF Lists
<1>c. /\ tx' = [tx EXCEPT !.avail = @ \cup {q}]
      /\ msg' = [msg EXCEPT ![i].tx = NULL, ![i].list = l]
      /\ IF thr[t].op = "async" THEN Return(t) ELSE Goto(t, "wait")
      /\ UNCHANGED <<imutex, rx, ring, irq, cb, backend, queue,
                     async_queue_job_count, phase, init, fails, unclosed>>
  <2>1. msg[i].list = "held"
    BY <1>a, <1>i, Handled
  <2>2. msg' = [msg EXCEPT ![i].tx = NULL,
                           ![i].list = IF thr[t].op = "async" THEN "pending" ELSE msg[i].list]
    BY <1>i DEF Send
  <2> QED
    BY <1>i, <1>b, <1>q, <1>l, <2>1, <2>2 DEF Send
<1>e. /\ tx'.fresh = tx.fresh /\ tx'.used = tx.used /\ tx'.lost = tx.lost
      /\ tx'.avail = tx.avail \cup {q}
      /\ tx' \in [fresh : SUBSET Bufs, used : SUBSET Bufs, lost : SUBSET Bufs,
                  avail : SUBSET Requests]
  BY <1>a, <1>c, <1>r, Handled DEF TypeOK
<1>f. /\ \A u \in Threads \ {t} : thr'[u] = thr[u]
      /\ IF thr[t].op = "async"
         THEN thr'[t].pc = "idle" /\ thr'[t].op = "none" /\ thr'[t].m = NULL
         ELSE thr'[t].pc = "wait" /\ thr'[t].op = thr[t].op /\ thr'[t].m = i
  BY <1>a, <1>c, <1>i, Handled, MoveFacts
<1>g. ~unclosed /\ ThreadInv(t) /\ MessageInv(i) /\ msg[i].kind = thr[t].op
      /\ msg[i].rx = NULL /\ ~msg[i].work
  BY <1>a, <1>i, Handled DEF ThreadInv
<1>1. /\ \A j \in Ids \ {i} : msg'[j] = msg[j]
      /\ msg'[i] = [msg[i] EXCEPT !.tx = NULL, !.list = l]
  <2>1. msg \in [Ids -> MsgType]
    BY <1>a, Handled
  <2> QED
    BY <1>c, <2>1
<1>2. /\ msg'[i].live /\ msg'[i].list = l /\ msg'[i].pid = t
      /\ msg'[i].kind = msg[i].kind /\ msg'[i].tx = NULL /\ msg'[i].rx = msg[i].rx
      /\ msg'[i].work = msg[i].work /\ msg'[i].own = msg[i].own
  BY <1>a, <1>i, <1>1, Handled DEF MsgType
<1>3. TypeOK'
  <2>1. thr' \in [Threads -> ThrType]
    <3>1. "wait" \in PCs
      BY DEF PCs
    <3> QED
      BY <1>a, <1>c, <3>1, Handled, ThrField DEF Goto, Return
  <2>2. msg' \in [Ids -> MsgType]
    BY <1>a, <1>c, <1>l, <1>i, Handled, MsgField
  <2> QED
    BY <1>a, <1>c, <1>e, <2>1, <2>2, Handled DEF TypeOK
<1>4. Moves(t, i)
  BY <1>a, <1>c, <1>f, <1>i, <1>1, Handled DEF Moves
<1>5. Holds(t, i)'
  BY <1>a, <1>f, <1>i, <1>l, <1>2, Handled DEF Holds, Busy
<1>6. ThreadInv(t)'
  <2>1. \A u \in Threads \ {t} : phase # "open" => thr'[t].pc = "idle" \/ thr'[u].pc = "idle"
    BY <1>a, <1>f, <1>g DEF ThreadInv
  <2>2. CASE thr[t].op = "async"
    BY <1>c, <1>f, <1>g, <2>1, <2>2 DEF ThreadInv
  <2>3. CASE thr[t].op # "async"
    <3>1. IF phase = "open" THEN thr[t].op # "close" ELSE phase = "closing" /\ thr[t].op = "close"
      BY <1>a, <1>g DEF ThreadInv
    <3>2. /\ thr'[t].pc = "wait" /\ thr'[t].op = thr[t].op
          /\ msg'[thr'[t].m].kind = thr'[t].op /\ phase' = phase /\ ~unclosed'
      BY <1>c, <1>f, <1>g, <1>2, <2>3
    <3> QED
      BY <2>1, <2>3, <3>1, <3>2 DEF ThreadInv
  <2> QED
    BY <2>2, <2>3
<1>7. MessageInv(i)'
  BY <1>f, <1>g, <1>l, <1>2 DEF MessageInv
<1>8. ~Flying(i) /\ msg'[i].own /\ FlyInv /\ CloseInv
  BY <1>a, <1>g, <1>i, <1>2, Handled DEF IndInv, FlyInv
<1>9. TypeOK /\ (\A j \in Ids : msg'[j].kind = msg[j].kind)
  BY <1>1, <1>2 DEF IndInv
<1>10. FlyInv'
  <2>1. /\ \A j : InTx(j)' <=> InTx(j) \/ j = i
        /\ \A j : InBackend(j)' <=> InBackend(j)
        /\ \A j : InRing(j)' <=> InRing(j)
        /\ \A j : InCb(j)' <=> InCb(j)
    BY <1>c, <1>e, <1>r DEF InTx, InBackend, InRing, InCb
  <2>2. ~InTx(i) /\ ~InBackend(i) /\ ~InRing(i) /\ ~InCb(i)
    BY <1>8 DEF Flying
  <2>3. OneFlying'
    <3>1. \A r \in tx.avail : r.id # i
      BY <2>2 DEF InTx
    <3>2. \A r, p \in tx'.avail : r.id = p.id => r = p
      BY <1>8, <1>e, <1>r, <3>1 DEF FlyInv, OneFlying
    <3>3. \A j \in Ids : /\ InTx(j)' => ~InBackend(j)' /\ ~InRing(j)' /\ ~InCb(j)'
                         /\ InBackend(j)' => ~InRing(j)' /\ ~InCb(j)'
                         /\ InRing(j)' => ~InCb(j)'
      BY <1>8, <2>1, <2>2 DEF FlyInv, OneFlying
    <3>4. /\ \A r, p \in backend' : r.id = p.id => r = p
          /\ \A k, m \in DOMAIN ring' : ring'[k].id = ring'[m].id => k = m
      BY <1>8, <1>c DEF FlyInv, OneFlying
    <3> QED
      BY <3>2, <3>3, <3>4 DEF OneFlying
  <2>4. ASSUME NEW j \in Ids, Flying(j)' PROVE Awaits(j)'
    <3>1. CASE j = i
      BY <1>2, <1>f, <1>g, <1>l, <3>1 DEF Awaits
    <3>2. CASE j # i
      <4>1. Awaits(j) /\ msg'[j] = msg[j]
        BY <1>1, <1>8, <2>1, <2>4, <3>2 DEF Flying, FlyInv
      <4>2. msg[j].list = "held" => msg[j].pid \in Threads \ {t}
        BY <1>a, <1>i, <3>2, <4>1, Facts DEF HoldInv, Awaits
      <4> QED
        BY <1>f, <4>1, <4>2 DEF Awaits
    <3> QED
      BY <3>1, <3>2
  <2>5. /\ \A r \in tx'.avail : r.kind = msg'[r.id].kind /\ ~r.old
        /\ \A r \in backend' : r.kind = msg'[r.id].kind /\ ~r.old
    <3>1. /\ \A r \in tx.avail : r.id \in Ids /\ r.kind = msg[r.id].kind /\ ~r.old
          /\ \A r \in backend : r.id \in Ids /\ r.kind = msg[r.id].kind /\ ~r.old
      BY <1>8, <1>9, OnTheWay DEF FlyInv
    <3>2. q.kind = msg'[q.id].kind /\ ~q.old
      BY <1>r, <1>9
    <3>3. ASSUME NEW r \in tx'.avail PROVE r.kind = msg'[r.id].kind /\ ~r.old
      <4>1. r \in tx.avail \/ r = q
        BY <1>e
      <4>2. CASE r \in tx.avail
        BY <1>9, <3>1, <4>2
      <4> QED
        BY <3>2, <4>1, <4>2
    <3>4. \A r \in backend' : r.kind = msg'[r.id].kind /\ ~r.old
      BY <1>9, <1>c, <3>1
    <3> QED
      BY <3>3, <3>4
  <2>6. /\ \A k \in DOMAIN ring' : ~ring'[k].old
        /\ cb'.rsp # NULL => ~cb'.rsp.old
        /\ rx'.lost = {}
    BY <1>8, <1>c DEF FlyInv
  <2>7. \A j \in Ids : msg'[j].own
    BY <1>8, <1>1 DEF FlyInv
  <2> QED
    BY <2>3, <2>4, <2>5, <2>6, <2>7 DEF FlyInv
<1>11. CloseInv'
  <2>1. \A j \in Ids : msg'[j].kind = "close" => ~Flying(j) /\ ~msg'[j].work
    BY <1>a, <1>i, <1>2, <1>8, <1>9, <1>g, CloserAlone
  <2>2. /\ \A k \in DOMAIN ring' : msg'[ring'[k].id].kind # "close"
        /\ cb'.rsp # NULL => msg'[cb'.rsp.id].kind # "close"
    BY <1>9, <1>c, <2>1, OnTheWay
  <2>3. \A u \in Threads : thr'[u].op = "close" => thr'[u].pc \notin {"freerx", "freemsg", "dtor"}
    BY <1>a, <1>f, CloserAlone
  <2>4. phase' # "closed"
    BY <1>a, <1>c, CloserAlone
  <2> QED
    BY <2>1, <2>2, <2>3, <2>4 DEF CloseInv
<1>12. QueueInv'
  <2>1. msg[i].list # "pending" /\ UNCHANGED <<queue, async_queue_job_count>>
    BY <1>a, <1>c, <1>i, Handled
  <2> QED
    BY <1>4, <2>1, QueueFrame
<1>13. RxInv'
  <2>1. \A j \in Ids : msg'[j].rx = msg[j].rx
    BY <1>1, <1>2
  <2> QED
    BY <1>c, <2>1, RxFrame DEF IndInv
<1>14. TxInv'
  <2>1. TxInv /\ fails' = fails
    BY <1>c DEF IndInv
  <2>0. b # NULL /\ \A r \in tx.avail : r.tx # NULL
    BY <1>9, OnTheWay, ConstAssumption
  <2>2. /\ \A j \in Ids : msg'[j].tx = IF j = i THEN NULL ELSE msg[j].tx
        /\ \A j \in Ids \ {i} : msg[j].tx # b
        /\ b \notin tx.fresh \cup tx.used \cup tx.lost
        /\ \A r \in tx.avail : r.tx # b
        /\ NULL \notin tx.fresh \cup tx.used \cup tx.lost
    BY <1>1, <1>2, <1>b, <1>9, <2>0, <2>1, BufferSets, ConstAssumption DEF TxInv
  <2>3. /\ tx'.fresh \cap tx'.used = {} /\ tx'.fresh \cap tx'.lost = {} /\ tx'.used \cap tx'.lost = {}
        /\ \A r, p \in tx'.avail : r.tx = p.tx => r = p
        /\ \A r \in tx'.avail : r.tx \notin tx'.fresh \cup tx'.used \cup tx'.lost
    BY <1>e, <1>r, <2>1, <2>2 DEF TxInv
  <2>4. /\ \A k, j \in Ids : msg'[k].tx # NULL /\ msg'[k].tx = msg'[j].tx => k = j
        /\ \A j \in Ids : msg'[j].tx \notin tx'.fresh \cup tx'.used \cup tx'.lost
        /\ \A j \in Ids, r \in tx'.avail : msg'[j].tx # r.tx
    BY <1>e, <1>r, <2>0, <2>1, <2>2 DEF TxInv
  <2>5. ASSUME NEW c \in Bufs
        PROVE  \/ c \in tx'.fresh \cup tx'.used \cup tx'.lost
               \/ \E r \in tx'.avail : r.tx = c
               \/ \E j \in Ids : msg'[j].tx = c
    <3>1. CASE c = b
      BY <1>e, <1>r, <3>1
    <3>2. CASE c # b
      <4>1. ASSUME NEW j \in Ids, msg[j].tx = c PROVE msg'[j].tx = c
        BY <1>b, <2>2, <3>2, <4>1
      <4> QED
        BY <1>e, <2>1, <3>2, <4>1 DEF TxInv
    <3> QED
      BY <3>1, <3>2
  <2> QED
    BY <2>3, <2>4, <2>5 DEF TxInv
<1>15. /\ HoldInv' /\ \A u \in Threads : ThreadInv(u)'
       /\ \A j \in Ids : MessageInv(j)'
  BY <1>4, <1>5, <1>6, <1>7, LocalFrame
<1> QED
  BY <1>3, <1>10, <1>11, <1>12, <1>13, <1>14, <1>15 DEF IndInv

\* A failed send, or a failed copy of an argument: the buffer is on no list.
LEMMA LoseStep ==
    ASSUME IndInv, NEW t \in Threads, LoseTx(t) PROVE IndInv'
<1>a. thr[t].pc = "send" /\ thr[t].pc \in Busy
  BY DEF LoseTx, Busy
<1>i. PICK i \in Ids : i = thr[t].m
  BY <1>a, Handled
<1>b. PICK b \in Bufs : b = msg[i].tx
  BY <1>a, <1>i, Handled DEF ThreadInv, MsgType
<1>c. /\ tx' = [tx EXCEPT !.lost = @ \cup {b}]
      /\ msg' = [msg EXCEPT ![i].tx = NULL]
      /\ Goto(t, "freemsg") /\ CloseFails(t) /\ fails < MaxFails /\ fails' = fails + 1
      /\ UNCHANGED <<imutex, rx, ring, irq, cb, backend, queue, async_queue_job_count, phase, init>>
  BY <1>i, <1>b DEF LoseTx
<1>e. /\ tx'.fresh = tx.fresh /\ tx'.used = tx.used /\ tx'.lost = tx.lost \cup {b}
      /\ tx'.avail = tx.avail
      /\ tx' \in [fresh : SUBSET Bufs, used : SUBSET Bufs, lost : SUBSET Bufs,
                  avail : SUBSET Requests]
  BY <1>a, <1>b, <1>c, Handled DEF TypeOK
<1>f. /\ \A u \in Threads \ {t} : thr'[u] = thr[u]
      /\ thr'[t].pc = "freemsg" /\ thr'[t].op = thr[t].op /\ thr'[t].m = i
  BY <1>a, <1>c, <1>i, Handled, MoveFacts
<1>g. ~unclosed /\ ThreadInv(t) /\ MessageInv(i) /\ msg[i].kind = thr[t].op
      /\ msg[i].rx = NULL /\ ~msg[i].work
  BY <1>a, <1>i, Handled DEF ThreadInv
<1>h. /\ unclosed' \in BOOLEAN
      /\ unclosed' => thr[t].op = "close"
      /\ thr[t].op = "close" => unclosed'
  BY <1>a, <1>c, <1>g, Handled, SideFacts
<1>1. /\ \A j \in Ids \ {i} : msg'[j] = msg[j]
      /\ msg'[i] = [msg[i] EXCEPT !.tx = NULL]
  BY <1>a, <1>c, Handled
<1>2. /\ msg'[i].live /\ msg'[i].list = "held" /\ msg'[i].pid = t
      /\ msg'[i].kind = msg[i].kind /\ msg'[i].tx = NULL /\ msg'[i].rx = msg[i].rx
      /\ msg'[i].work = msg[i].work /\ msg'[i].own = msg[i].own
  BY <1>a, <1>i, <1>1, Handled DEF MsgType
<1>3. TypeOK'
  <2>1. thr' \in [Threads -> ThrType]
    BY <1>a, <1>c, Handled, ThrField DEF Goto, PCs
  <2>2. msg' \in [Ids -> MsgType]
    BY <1>a, <1>c, <1>i, Handled, MsgField
  <2>3. fails' \in 0 .. MaxFails
    BY <1>a, <1>c, Handled
  <2> QED
    BY <1>a, <1>c, <1>e, <1>h, <2>1, <2>2, <2>3, Handled DEF TypeOK
<1>4. Moves(t, i)
  BY <1>a, <1>c, <1>f, <1>g, <1>h, <1>i, <1>1, Handled DEF Moves
<1>5. Holds(t, i)'
  BY <1>a, <1>f, <1>i, <1>2, Handled DEF Holds, Busy
<1>6. ThreadInv(t)'
  <2>1. \A u \in Threads \ {t} : phase # "open" => thr'[t].pc = "idle" \/ thr'[u].pc = "idle"
    BY <1>a, <1>f, <1>g DEF ThreadInv
  <2> QED
    BY <1>a, <1>c, <1>f, <1>g, <1>i, <1>2, <2>1 DEF ThreadInv
<1>7. MessageInv(i)'
  BY <1>f, <1>g, <1>2 DEF MessageInv
<1>8. ~unclosed' => FlyInv' /\ CloseInv'
  <2>1. SUFFICES ASSUME ~unclosed' PROVE FlyInv' /\ CloseInv'
    OBVIOUS
  <2>2. ~Flying(i) /\ msg'[i].own
    BY <1>a, <1>g, <1>i, <1>2, Handled DEF IndInv, FlyInv
  <2>3. thr'[t].op # "close"
    BY <1>f, <1>h, <2>1
  <2>4. rx'.lost = rx.lost /\ UNCHANGED <<backend, ring, cb>>
    BY <1>c
  <2>5. FlyInv'
    BY <1>4, <1>e, <1>g, <2>2, <2>4, FlyFrame
  <2>6. CloseInv'
    BY <1>4, <1>2, <1>e, <1>g, <2>2, <2>3, <2>4, CloseFrame
  <2> QED
    BY <2>5, <2>6
<1>9. QueueInv'
  <2>1. msg[i].list # "pending" /\ UNCHANGED <<queue, async_queue_job_count>>
    BY <1>a, <1>c, <1>i, Handled
  <2> QED
    BY <1>4, <2>1, QueueFrame
<1>10. RxInv'
  <2>1. \A j \in Ids : msg'[j].rx = msg[j].rx
    BY <1>1, <1>2
  <2> QED
    BY <1>c, <2>1, RxFrame DEF IndInv
<1>11. TxInv'
  <2>1. TxInv /\ TypeOK
    BY DEF IndInv
  <2>0. b # NULL /\ \A r \in tx.avail : r.tx # NULL
    BY <2>1, OnTheWay, ConstAssumption
  <2>2. /\ \A j \in Ids : msg'[j].tx = IF j = i THEN NULL ELSE msg[j].tx
        /\ \A j \in Ids \ {i} : msg[j].tx # b
        /\ b \notin tx.fresh \cup tx.used \cup tx.lost
        /\ \A r \in tx.avail : r.tx # b
        /\ NULL \notin tx.fresh \cup tx.used \cup tx.lost
    BY <1>1, <1>2, <1>b, <2>0, <2>1, BufferSets, ConstAssumption DEF TxInv
  <2>3. /\ tx'.fresh \cap tx'.used = {} /\ tx'.fresh \cap tx'.lost = {} /\ tx'.used \cap tx'.lost = {}
        /\ \A r, p \in tx'.avail : r.tx = p.tx => r = p
        /\ \A r \in tx'.avail : r.tx \notin tx'.fresh \cup tx'.used \cup tx'.lost
    BY <1>e, <2>1, <2>2 DEF TxInv
  <2>4. /\ \A k, j \in Ids : msg'[k].tx # NULL /\ msg'[k].tx = msg'[j].tx => k = j
        /\ \A j \in Ids : msg'[j].tx \notin tx'.fresh \cup tx'.used \cup tx'.lost
        /\ \A j \in Ids, r \in tx'.avail : msg'[j].tx # r.tx
    BY <1>e, <2>0, <2>1, <2>2 DEF TxInv
  <2>5. ASSUME NEW c \in Bufs
        PROVE  \/ c \in tx'.fresh \cup tx'.used \cup tx'.lost
               \/ \E r \in tx'.avail : r.tx = c
               \/ \E j \in Ids : msg'[j].tx = c
    <3>1. CASE c = b
      BY <1>e, <3>1
    <3>2. CASE c # b
      <4>1. ASSUME NEW j \in Ids, msg[j].tx = c PROVE msg'[j].tx = c
        BY <1>b, <2>2, <3>2, <4>1
      <4> QED
        BY <1>e, <2>1, <3>2, <4>1 DEF TxInv
    <3> QED
      BY <3>1, <3>2
  <2> QED
    BY <2>3, <2>4, <2>5 DEF TxInv
<1>12. /\ HoldInv' /\ \A u \in Threads : ThreadInv(u)'
       /\ \A j \in Ids : MessageInv(j)'
  BY <1>4, <1>5, <1>6, <1>7, LocalFrame
<1> QED
  BY <1>3, <1>8, <1>9, <1>10, <1>11, <1>12 DEF IndInv

\* vfastrpc_wait_on_async_queue takes the oldest job off the queue.
LEMMA TakeStep ==
    ASSUME IndInv, NEW t \in Threads, AsyncTake(t), queue # <<>> PROVE IndInv'
<1>a. /\ TypeOK /\ thr[t].pc = "take" /\ thr[t].pc \notin Busy /\ thr[t].pc # "idle"
      /\ thr[t].m = NULL /\ ThreadInv(t) /\ thr[t] \in ThrType /\ thr \in [Threads -> ThrType]
      /\ msg \in [Ids -> MsgType] /\ NULL \notin Ids /\ JobsOnce
      /\ fails \in 0 .. MaxFails /\ MaxFails \in Nat
  BY Facts, ConstAssumption DEF AsyncTake, Busy, TypeOK, QueueInv
<1>o. phase = "open" /\ ~unclosed /\ thr[t].op # "close" /\ FlyInv
  BY <1>a DEF ThreadInv, IndInv
<1>q. /\ Len(queue) \in Nat \ {0} /\ 1 \in DOMAIN queue /\ Head(queue) = queue[1]
      /\ DOMAIN queue = 1 .. Len(queue) /\ queue \in Seq(Ids)
      /\ Tail(queue) \in Seq(Ids) /\ Len(Tail(queue)) = Len(queue) - 1
      /\ \A k \in 1 .. Len(queue) - 1 : Tail(queue)[k] = queue[k + 1]
  BY <1>a DEF TypeOK
<1>i. PICK i \in Ids : i = queue[1]
  BY <1>q
<1>j. /\ msg[i].live /\ msg[i].kind = "async" /\ msg[i].rx # NULL /\ msg[i].list = "pending"
      /\ async_queue_job_count = Len(queue) /\ IsInjective(queue)
  BY <1>a, <1>i, <1>o, <1>q DEF JobsOnce
<1>b. /\ queue' = Tail(queue) /\ async_queue_job_count' = async_queue_job_count - 1
      /\ msg' = [msg EXCEPT ![i].list = "held", ![i].pid = t]
      /\ thr' = [thr EXCEPT ![t].pc = "freerx", ![t].m = i]
      /\ UNCHANGED <<imutex, tx, rx, ring, irq, cb, backend, phase, init, fails, unclosed>>
  BY <1>i, <1>q DEF AsyncTake
<1>c. /\ \A u \in Threads \ {t} : thr'[u] = thr[u]
      /\ thr'[t].pc = "freerx" /\ thr'[t].m = i /\ thr'[t].op = thr[t].op
  BY <1>b, <1>a DEF ThrType
<1>d. PICK k \in MsgType : /\ msg' = [msg EXCEPT ![i] = k]
                           /\ k.live /\ k.kind = msg[i].kind /\ k.list = "held" /\ k.pid = t
                           /\ k.tx = msg[i].tx /\ k.rx = msg[i].rx /\ k.work = msg[i].work
                           /\ k.own = msg[i].own
  <2>1. PICK k : k = [msg[i] EXCEPT !.list = "held", !.pid = t]
    OBVIOUS
  <2>2. k \in MsgType
    BY <1>a, <2>1, MsgField DEF Lists
  <2>3. /\ k.live /\ k.kind = msg[i].kind /\ k.list = "held" /\ k.pid = t
        /\ k.tx = msg[i].tx /\ k.rx = msg[i].rx /\ k.work = msg[i].work
        /\ k.own = msg[i].own
    BY <1>j, <1>a, <2>1 DEF MsgType
  <2> QED
    BY <1>b, <2>1, <2>2, <2>3
<1>1. /\ msg' \in [Ids -> MsgType] /\ msg'[i] = k
      /\ \A j \in Ids \ {i} : msg'[j] = msg[j]
  BY <1>d, <1>a
<1>2. TypeOK'
  <2>1. thr' \in [Threads -> ThrType]
    <3>1. "freerx" \in PCs /\ i \in Ids \cup {NULL}
      BY DEF PCs
    <3> QED
      BY <1>a, <1>b, <3>1, ThrField
  <2>2. queue' \in Seq(Ids) /\ async_queue_job_count' \in Nat
    BY <1>b, <1>j, <1>q
  <2> QED
    BY <1>a, <1>b, <1>1, <2>1, <2>2 DEF TypeOK
<1>3. Moves(t, i)
  BY <1>1, <1>a, <1>b, <1>c, <1>j DEF Moves
<1>4. Holds(t, i)'
  BY <1>1, <1>a, <1>c, <1>d DEF Holds, Busy
<1>5. ThreadInv(t)'
  BY <1>1, <1>b, <1>c, <1>d, <1>j, <1>o DEF ThreadInv
<1>6. MessageInv(i)'
  <2>1. MessageInv(i)
    BY Facts
  <2>2. msg[i].tx = NULL
    BY <1>j, <2>1 DEF MessageInv
  <2> QED
    BY <1>1, <1>d, <1>j, <2>2 DEF MessageInv
<1>7. ~Flying(i) /\ msg'[i].own
  BY <1>1, <1>d, <1>j, <1>o DEF FlyInv, Awaits
<1>8. FlyInv' /\ CloseInv'
  <2>1. rx'.lost = rx.lost /\ tx'.avail = tx.avail /\ UNCHANGED <<backend, ring, cb>>
    BY <1>b
  <2>2. FlyInv'
    BY <1>3, <1>7, <1>o, <2>1, FlyFrame
  <2>3. CloseInv'
    BY <1>1, <1>3, <1>7, <1>c, <1>d, <1>j, <1>o, <2>1, CloseFrame
  <2> QED
    BY <2>2, <2>3
<1>9. QueueInv'
  <2>1. async_queue_job_count' = Len(queue') /\ DOMAIN queue' = 1 .. Len(queue')
    BY <1>b, <1>j, <1>q
  <2>2. \A n \in DOMAIN queue' : n + 1 \in DOMAIN queue /\ queue'[n] = queue[n + 1]
    BY <1>b, <1>q, <2>1
  <2>3. IsInjective(queue')
    <3>1. \A n, p \in DOMAIN queue : queue[n] = queue[p] => n = p
      BY <1>j DEF IsInjective
    <3>2. ASSUME NEW n \in DOMAIN queue', NEW p \in DOMAIN queue', queue'[n] = queue'[p]
          PROVE  n = p
      <4>1. n + 1 = p + 1
        BY <2>2, <3>1, <3>2
      <4> QED
        BY <1>q, <2>1, <4>1
    <3> QED
      BY <3>2 DEF IsInjective
  <2>4. \A n \in DOMAIN queue' : queue'[n] \in Ids /\ queue'[n] # i
    <3>1. ASSUME NEW n \in DOMAIN queue' PROVE queue'[n] \in Ids /\ queue'[n] # i
      <4>1. n + 1 # 1 /\ n + 1 \in DOMAIN queue /\ queue'[n] = queue[n + 1]
        BY <1>q, <2>1, <2>2
      <4> QED
        BY <1>i, <1>j, <1>q, <4>1 DEF IsInjective
    <3> QED
      BY <3>1
  <2>5. JobsOnce'
    <3>1. ASSUME NEW n \in DOMAIN queue'
          PROVE  LET j == msg'[queue'[n]]
                 IN  j.live /\ j.kind = "async" /\ j.rx # NULL /\ j.list = "pending"
      <4>1. msg'[queue'[n]] = msg[queue[n + 1]] /\ n + 1 \in DOMAIN queue
        BY <1>1, <2>2, <2>4
      <4> QED
        BY <1>a, <1>o, <4>1 DEF JobsOnce
    <3> QED
      BY <2>1, <2>3, <3>1 DEF JobsOnce
  <2> QED
    BY <1>b, <1>o, <2>5 DEF QueueInv
<1>10. \A j \in Ids : msg'[j].tx = msg[j].tx /\ msg'[j].rx = msg[j].rx
  BY <1>1, <1>d
<1>11. TxInv' /\ RxInv'
  <2>1. TxInv /\ RxInv
    BY DEF IndInv
  <2> QED
    BY <1>10, <1>b, <2>1, TxFrame, RxFrame
<1>12. /\ HoldInv' /\ \A u \in Threads : ThreadInv(u)'
       /\ \A j \in Ids : MessageInv(j)'
  BY <1>3, <1>4, <1>5, <1>6, LocalFrame
<1> QED
  BY <1>2, <1>8, <1>9, <1>11, <1>12 DEF IndInv

\* Marking what is on the way changes nothing but the mark.
LEMMA OldFacts ==
    ASSUME NEW i, NEW r
    PROVE  /\ r.id # i => Old(r, i) = r
           /\ r \in Requests => /\ Old(r, i) \in Requests /\ Old(r, i).tx = r.tx
                                /\ Old(r, i).id = r.id /\ Old(r, i).kind = r.kind
           /\ r \in Taken => Old(r, i) \in Taken
           /\ r \in Answers => Old(r, i) \in Answers /\ Old(r, i).rx = r.rx
  BY DEF Old, Requests, Taken, Answers

\* virt_free_msg
LEMMA FreeMsgStep ==
    ASSUME IndInv, NEW t \in Threads, FreeMsg(t) PROVE IndInv'
<1>a. thr[t].pc = "freemsg" /\ thr[t].pc \in Busy /\ thr[t].pc # "idle"
  BY DEF FreeMsg, Busy
<1>i. PICK i \in Ids : i = thr[t].m
  BY <1>a, Handled
<1>b. /\ msg' = [msg EXCEPT ![i] = NoMsg]
      /\ rx' = [rx EXCEPT !.lost = @ \cup ({msg[i].rx} \ {NULL})]
      /\ tx' = [tx EXCEPT !.avail = {Old(r, i) : r \in @}]
      /\ backend' = {Old(r, i) : r \in backend}
      /\ ring' = [k \in DOMAIN ring |-> Old(ring[k], i)]
      /\ cb' = IF cb.rsp = NULL THEN cb ELSE [cb EXCEPT !.rsp = Old(@, i)]
      /\ After(t) /\ Unlock(t)
      /\ UNCHANGED <<irq, queue, async_queue_job_count, phase, init, fails, unclosed>>
  BY <1>i DEF FreeMsg
<1>c. TypeOK /\ ThreadInv(t) /\ MessageInv(i) /\ msg[i].tx = NULL /\ msg[i] \in MsgType
      /\ msg[i].list = "held" /\ msg \in [Ids -> MsgType] /\ NULL \notin Answers
  BY <1>a, <1>i, Handled, Facts DEF MessageInv
<1>e. /\ tx'.fresh = tx.fresh /\ tx'.used = tx.used /\ tx'.lost = tx.lost
      /\ tx'.avail = {Old(r, i) : r \in tx.avail}
      /\ rx'.avail = rx.avail /\ rx'.failed = rx.failed
      /\ rx'.lost = rx.lost \cup ({msg[i].rx} \ {NULL})
  BY <1>b, <1>c DEF TypeOK
<1>f. /\ \A u \in Threads \ {t} : thr'[u] = thr[u]
      /\ thr'[t].m = NULL
      /\ IF phase = "closing" THEN thr'[t].pc = "dtor" /\ thr'[t].op = thr[t].op
         ELSE thr'[t].pc = "idle" /\ thr'[t].op = "none"
  BY <1>b, <1>c, MoveFacts
<1>g. /\ \A j \in Ids \ {i} : msg'[j] = msg[j]
      /\ msg'[i] = NoMsg
  BY <1>b, <1>c
<1>h. /\ msg'[i].tx = NULL /\ msg'[i].rx = NULL /\ ~msg'[i].live /\ msg'[i].kind = "none"
      /\ msg'[i].own
  BY <1>g DEF NoMsg
<1>w. /\ \A r \in tx.avail : r \in Requests
      /\ \A r \in backend : r \in Taken
      /\ \A k \in DOMAIN ring : ring[k] \in Answers
      /\ cb.rsp # NULL => cb.rsp \in Answers
      /\ DOMAIN ring = 1 .. Len(ring) /\ Len(ring) \in Nat
  BY <1>c, OnTheWay
<1>k. /\ cb'.pc = cb.pc
      /\ cb'.rsp = IF cb.rsp = NULL THEN NULL ELSE Old(cb.rsp, i)
  BY <1>b, <1>c DEF TypeOK
<1>1. TypeOK'
  <2>1. thr' \in [Threads -> ThrType]
    <3>1. "dtor" \in PCs /\ NULL \in Ids \cup {NULL}
      BY DEF PCs
    <3> QED
      BY <1>b, <1>c, <3>1, ThrField DEF After, Return
  <2>2. msg' \in [Ids -> MsgType]
    <3>1. NoMsg \in MsgType
      BY DEF NoMsg, MsgType, Lists, Kinds
    <3> QED
      BY <1>b, <1>c, <3>1
  <2>3. tx' \in [fresh : SUBSET Bufs, used : SUBSET Bufs, lost : SUBSET Bufs,
                 avail : SUBSET Requests]
    <3>1. {Old(r, i) : r \in tx.avail} \subseteq Requests
      BY <1>w, OldFacts
    <3> QED
      BY <1>b, <1>c, <3>1 DEF TypeOK
  <2>4. backend' \in SUBSET Taken
    BY <1>b, <1>w, OldFacts
  <2>5. ring' \in Seq(Answers)
    <3>1. \A k \in 1 .. Len(ring) : Old(ring[k], i) \in Answers
      BY <1>w, OldFacts
    <3>2. ring' = [k \in 1 .. Len(ring) |-> Old(ring[k], i)]
      BY <1>b, <1>w
    <3> QED
      BY <1>w, <3>1, <3>2
  <2>6. cb' \in [pc : {"idle", "next", "recv"}, rsp : Answers \cup {NULL}]
    <3>1. CASE cb.rsp = NULL
      BY <1>b, <1>c, <3>1 DEF TypeOK
    <3>2. CASE cb.rsp # NULL
      <4>1. Old(cb.rsp, i) \in Answers
        BY <1>w, <3>2, OldFacts
      <4> QED
        BY <1>b, <1>c, <3>2, <4>1 DEF TypeOK
    <3> QED
      BY <3>1, <3>2
  <2>7. rx' \in [avail : SUBSET Bufs, lost : SUBSET Bufs, failed : SUBSET Bufs]
    <3>1. {msg[i].rx} \ {NULL} \subseteq Bufs
      BY <1>c DEF MsgType
    <3> QED
      BY <1>b, <1>c, <3>1 DEF TypeOK
  <2>8. imutex' \in Threads \cup {NULL}
    BY <1>b, <1>c, SideFacts
  <2> QED
    BY <1>b, <1>c, <2>1, <2>2, <2>3, <2>4, <2>5, <2>6, <2>7, <2>8 DEF TypeOK
<1>2. Moves(t, i)
  BY <1>a, <1>b, <1>f, <1>g, <1>i, Handled DEF Moves
<1>3. Holds(t, i)'
  BY <1>f, <1>g, <1>h DEF Holds, Busy
<1>4. ThreadInv(t)'
  <2>1. \A u \in Threads \ {t} : phase # "open" => thr'[t].pc = "idle" \/ thr'[u].pc = "idle"
    BY <1>a, <1>c, <1>f DEF ThreadInv
  <2> QED
    BY <1>a, <1>b, <1>c, <1>f, <2>1 DEF ThreadInv
<1>5. MessageInv(i)'
  BY <1>h DEF MessageInv
<1>6. ~unclosed' => FlyInv' /\ CloseInv'
  <2>1. SUFFICES ASSUME ~unclosed PROVE FlyInv' /\ CloseInv'
    BY <1>b
  <2>2. ~Flying(i) /\ msg[i].rx = NULL /\ CloseInv
    BY <1>a, <1>c, <1>i, <2>1, Handled DEF ThreadInv, IndInv
  <2>3. /\ \A r \in tx.avail : Old(r, i) = r
        /\ \A r \in backend : Old(r, i) = r
        /\ \A k \in DOMAIN ring : Old(ring[k], i) = ring[k]
        /\ cb.rsp # NULL => Old(cb.rsp, i) = cb.rsp
    BY <2>2, OldFacts DEF Flying, InTx, InBackend, InRing, InCb
  <2>4. tx'.avail = tx.avail /\ backend' = backend /\ rx'.lost = rx.lost
    BY <1>b, <1>e, <2>2, <2>3
  <2>5. ring' = ring
    BY <1>b, <1>c, <2>3 DEF TypeOK
  <2>6. cb' = cb
    BY <1>b, <1>c, <2>3 DEF TypeOK
  <2>7. FlyInv'
    BY <1>2, <1>h, <2>1, <2>2, <2>4, <2>5, <2>6, FlyFrame
  <2>8. CloseInv'
    <3>1. thr'[t].op = "close" => Silent
      BY <1>a, <1>f, <2>2 DEF CloseInv
    <3> QED
      BY <1>2, <1>h, <2>1, <2>2, <2>4, <2>5, <2>6, <3>1, CloseFrame
  <2> QED
    BY <2>7, <2>8
<1>7. QueueInv'
  BY <1>2, <1>b, <1>c, QueueFrame
<1>8. TxInv'
  <2>1. TxInv /\ fails' = fails
    BY <1>b DEF IndInv
  <2>2. \A j \in Ids : msg'[j].tx = msg[j].tx
    BY <1>c, <1>g, <1>h
  <2>3. /\ \A r \in tx'.avail : \E p \in tx.avail : r = Old(p, i) /\ r.tx = p.tx
        /\ \A p \in tx.avail : \E r \in tx'.avail : r.tx = p.tx
    BY <1>e, <1>w, OldFacts
  <2>4. ASSUME NEW r \in tx'.avail, NEW q \in tx'.avail, r.tx = q.tx PROVE r = q
    <3>1. PICK p \in tx.avail : r = Old(p, i) /\ r.tx = p.tx
      BY <2>3
    <3>2. PICK s \in tx.avail : q = Old(s, i) /\ q.tx = s.tx
      BY <2>3
    <3>3. p = s
      BY <2>1, <2>4, <3>1, <3>2 DEF TxInv
    <3> QED
      BY <3>1, <3>2, <3>3
  <2>5. /\ \A r \in tx'.avail : r.tx \notin tx'.fresh \cup tx'.used \cup tx'.lost
        /\ \A j \in Ids, r \in tx'.avail : msg'[j].tx # r.tx
    BY <1>e, <2>1, <2>2, <2>3 DEF TxInv
  <2>6. /\ \A k, j \in Ids : msg'[k].tx # NULL /\ msg'[k].tx = msg'[j].tx => k = j
        /\ \A j \in Ids : msg'[j].tx \notin tx'.fresh \cup tx'.used \cup tx'.lost
        /\ tx'.fresh \cap tx'.used = {} /\ tx'.fresh \cap tx'.lost = {} /\ tx'.used \cap tx'.lost = {}
    BY <1>e, <2>1, <2>2 DEF TxInv
  <2>7. ASSUME NEW c \in Bufs
        PROVE  \/ c \in tx'.fresh \cup tx'.used \cup tx'.lost
               \/ \E r \in tx'.avail : r.tx = c
               \/ \E j \in Ids : msg'[j].tx = c
    <3>1. \/ c \in tx.fresh \cup tx.used \cup tx.lost
          \/ \E r \in tx.avail : r.tx = c
          \/ \E j \in Ids : msg[j].tx = c
      BY <2>1 DEF TxInv
    <3>2. CASE c \in tx.fresh \cup tx.used \cup tx.lost
      BY <1>e, <3>2
    <3>3. CASE \E r \in tx.avail : r.tx = c
      BY <2>3, <3>3
    <3>4. CASE \E j \in Ids : msg[j].tx = c
      BY <2>2, <3>4
    <3> QED
      BY <3>1, <3>2, <3>3, <3>4
  <2> QED
    BY <2>4, <2>5, <2>6, <2>7 DEF TxInv
<1>9. RxInv'
  <2>1. RxInv /\ DOMAIN ring' = DOMAIN ring
    BY <1>b DEF IndInv
  <2>2. /\ \A k \in DOMAIN ring : ring'[k].rx = ring[k].rx
        /\ cb'.rsp # NULL <=> cb.rsp # NULL
        /\ cb.rsp # NULL => cb'.rsp.rx = cb.rsp.rx
    <3>1. \A k \in DOMAIN ring : ring'[k].rx = ring[k].rx
      BY <1>b, <1>w, OldFacts
    <3>2. cb.rsp # NULL => Old(cb.rsp, i) \in Answers /\ Old(cb.rsp, i).rx = cb.rsp.rx
      BY <1>w, OldFacts
    <3> QED
      BY <1>c, <1>k, <3>1, <3>2
  <2>3. /\ NULL \notin rx.avail /\ NULL \notin rx'.lost /\ NULL \notin rx.failed
        /\ \A k \in DOMAIN ring : ring[k].rx # NULL
        /\ cb.rsp # NULL => cb.rsp.rx # NULL
    BY <1>1, <1>c, <1>e, OnTheWay, BufferSets, ConstAssumption
  <2>4. \A j \in Ids : msg'[j].rx = IF j = i THEN NULL ELSE msg[j].rx
    BY <1>g, <1>h
  <2>5. /\ cb'.rsp # NULL <=> cb'.pc = "recv"
        /\ rx'.avail \cap rx'.lost = {} /\ rx'.avail \cap rx'.failed = {} /\ rx'.lost \cap rx'.failed = {}
        /\ \A k, l \in DOMAIN ring' : ring'[k].rx = ring'[l].rx => k = l
        /\ \A k \in DOMAIN ring' : cb'.rsp # NULL => cb'.rsp.rx # ring'[k].rx
    BY <1>e, <1>k, <2>1, <2>2 DEF RxInv
  <2>6. /\ \A k \in DOMAIN ring' : ring'[k].rx \notin rx'.avail \cup rx'.lost \cup rx'.failed
        /\ cb'.rsp # NULL => cb'.rsp.rx \notin rx'.avail \cup rx'.lost \cup rx'.failed
    BY <1>e, <2>1, <2>2 DEF RxInv
  <2>7. /\ \A l, j \in Ids : msg'[l].rx # NULL /\ msg'[l].rx = msg'[j].rx => l = j
        /\ \A j \in Ids : msg'[j].rx \notin rx'.avail \cup rx'.lost \cup rx'.failed
    BY <1>e, <2>1, <2>3, <2>4 DEF RxInv
  <2>8. /\ \A j \in Ids, k \in DOMAIN ring' : msg'[j].rx # ring'[k].rx
        /\ \A j \in Ids : cb'.rsp # NULL => msg'[j].rx # cb'.rsp.rx
    BY <2>1, <2>2, <2>3, <2>4 DEF RxInv
  <2>9. ASSUME NEW c \in Bufs
        PROVE  \/ c \in rx'.avail \cup rx'.lost \cup rx'.failed
               \/ \E k \in DOMAIN ring' : ring'[k].rx = c
               \/ cb'.rsp # NULL /\ cb'.rsp.rx = c
               \/ \E j \in Ids : msg'[j].rx = c
    <3>1. c # NULL
      BY ConstAssumption
    <3>2. ASSUME NEW j \in Ids, msg[j].rx = c PROVE c \in rx'.lost \/ msg'[j].rx = c
      BY <1>e, <2>4, <3>1, <3>2
    <3>3. (\E k \in DOMAIN ring : ring[k].rx = c) => \E k \in DOMAIN ring' : ring'[k].rx = c
      BY <2>1, <2>2
    <3> QED
      BY <1>e, <2>1, <2>2, <3>2, <3>3 DEF RxInv
  <2> QED
    BY <2>5, <2>6, <2>7, <2>8, <2>9 DEF RxInv
<1>10. /\ HoldInv' /\ \A u \in Threads : ThreadInv(u)'
       /\ \A j \in Ids : MessageInv(j)'
  BY <1>2, <1>3, <1>4, <1>5, LocalFrame
<1> QED
  BY <1>1, <1>6, <1>7, <1>8, <1>9, <1>10 DEF IndInv

-----------------------------------------------------------------------------
(* The session is released and opened again.                                *)

\* A step of the session between two of its phases, when no message is in hand.
LEMMA PhaseFrame ==
    ASSUME IndInv, NEW t \in Threads, thr[t].pc \notin Busy,
           \A u \in Threads \ {t} : thr[u].pc = "idle" /\ thr'[u] = thr[u],
           thr'[t].pc \notin Busy, thr'[t].m = NULL,
           UNCHANGED <<msg, tx, rx, ring, cb, backend, fails>>
    PROVE  /\ HoldInv' /\ TxInv' /\ RxInv'
           /\ \A i \in Ids : MessageInv(i)' /\ msg[i].kind # "close"
           /\ ~unclosed => FlyInv'
<1>1. \A u \in Threads : thr[u].m = NULL /\ thr'[u].m = NULL /\ thr'[u].pc \notin Busy
  BY Facts DEF Busy
<1>2. \A i \in Ids : msg[i].live => msg[i].list # "held"
  BY <1>1, Facts DEF HoldInv
<1>3. HoldInv'
  BY <1>1, <1>2, Facts DEF HoldInv
<1>4. TxInv' /\ RxInv'
  BY DEF IndInv, TxInv, RxInv
<1>5. ASSUME NEW i \in Ids PROVE MessageInv(i)' /\ msg[i].kind # "close"
  <2>1. MessageInv(i) /\ (~msg[i].live => msg[i].kind = "none")
    BY Facts DEF NoMsg
  <2>2. msg[i].kind # "close" /\ (msg[i].live => msg[i].tx = NULL)
    BY <1>2, <2>1 DEF MessageInv
  <2> QED
    BY <2>1, <2>2 DEF MessageInv
<1>6. ASSUME ~unclosed PROVE FlyInv'
  <2>1. FlyInv
    BY <1>6 DEF IndInv
  <2>2. /\ \A j : InTx(j)' <=> InTx(j)
        /\ \A j : InBackend(j)' <=> InBackend(j)
        /\ \A j : InRing(j)' <=> InRing(j)
        /\ \A j : InCb(j)' <=> InCb(j)
    BY DEF InTx, InBackend, InRing, InCb
  <2>3. OneFlying'
    BY <2>1, <2>2 DEF FlyInv, OneFlying
  <2>4. \A i \in Ids : Flying(i)' => Awaits(i)'
    BY <1>2, <2>1, <2>2 DEF FlyInv, Flying, Awaits
  <2> QED
    BY <2>1, <2>3, <2>4 DEF FlyInv
<1> QED
  BY <1>3, <1>4, <1>5, <1>6

\* The last reference to the file goes away.
LEMMA ReleaseStep ==
    ASSUME IndInv, NEW t \in Threads, Release(t) PROVE IndInv'
<1>a. /\ TypeOK /\ thr \in [Threads -> ThrType] /\ QueueInv
      /\ phase = "open" /\ phase' = "closing" /\ ~unclosed
      /\ \A u \in Threads : thr[u].pc = "idle"
      /\ UNCHANGED <<msg, imutex, tx, rx, ring, irq, cb, backend, queue,
                     async_queue_job_count, init, fails>>
  BY Facts DEF TypeOK, Release, QueueInv
<1>p. PICK pc \in {"alloc", "dtor"} :
        /\ thr' = [thr EXCEPT ![t] = [Idle EXCEPT !.op = "close", !.pc = pc]]
        /\ pc = "dtor" <=> ~init
  BY DEF Release
<1>u. /\ unclosed' = (unclosed \/ (~init /\ ~Silent))
      /\ unclosed' \in BOOLEAN
      /\ unclosed' => ~init
      /\ ~unclosed' => init \/ Silent
  <2>1. unclosed' = (unclosed \/ (~init /\ ~Silent))
    BY DEF Release
  <2>2. unclosed' \in BOOLEAN
    BY <2>1, Zenon
  <2>3. (unclosed' => ~init) /\ (~unclosed' => init \/ Silent)
    BY <1>a, <2>1, Zenon
  <2> QED
    BY <2>1, <2>2, <2>3
<1>h. PICK h \in ThrType : /\ h = [Idle EXCEPT !.op = "close", !.pc = pc]
                           /\ h.pc = pc /\ h.m = NULL /\ h.op = "close"
  <2>1. PICK h : h = [Idle EXCEPT !.op = "close", !.pc = pc]
    OBVIOUS
  <2>2. h \in ThrType /\ h.pc = pc /\ h.m = NULL /\ h.op = "close"
    BY <2>1 DEF Idle, ThrType, Kinds, AllOps
  <2> QED
    BY <2>1, <2>2
<1>b. /\ thr' \in [Threads -> ThrType] /\ thr'[t] = h
      /\ \A u \in Threads \ {t} : thr'[u] = thr[u]
  BY <1>a, <1>h, <1>p
<1>1. TypeOK'
  BY <1>a, <1>b, <1>u DEF TypeOK
<1>2. /\ HoldInv' /\ TxInv' /\ RxInv' /\ FlyInv'
      /\ \A i \in Ids : MessageInv(i)' /\ msg[i].kind # "close"
  <2>1. thr[t].pc \notin Busy /\ thr'[t].pc \notin Busy /\ thr'[t].m = NULL
    BY <1>a, <1>b, <1>h DEF Busy
  <2> QED
    BY <1>a, <1>b, <2>1, PhaseFrame
<1>3. \A u \in Threads : ThreadInv(u)'
  <2>1. \A u \in Threads \ {t} : thr'[u].pc = "idle"
    BY <1>a, <1>b
  <2> QED
    BY <1>a, <1>b, <1>h, <1>p, <1>u, <2>1 DEF ThreadInv
<1>4. ~unclosed' => CloseInv'
  <2>1. /\ \A k \in DOMAIN ring' : msg'[ring'[k].id].kind # "close"
        /\ cb'.rsp # NULL => msg'[cb'.rsp.id].kind # "close"
    BY <1>2, <1>a, OnTheWay
  <2>2. /\ \A u \in Threads : thr'[u].pc \notin {"freerx", "freemsg"}
        /\ \A u \in Threads : thr'[u].pc = "dtor" => ~init
    BY <1>a, <1>b, <1>h, <1>p
  <2>3. ~unclosed' => init \/ Silent'
    BY <1>a, <1>u DEF Silent
  <2> QED
    BY <1>2, <1>a, <2>1, <2>2, <2>3 DEF CloseInv
<1>5. QueueInv'
  BY <1>a DEF QueueInv, JobsOnce
<1> QED
  BY <1>1, <1>2, <1>3, <1>4, <1>5 DEF IndInv

\* The session is freed, its queue with it.
LEMMA ReleaseEndStep ==
    ASSUME IndInv, NEW t \in Threads, ReleaseEnd(t) PROVE IndInv'
<1>a. /\ TypeOK /\ thr \in [Threads -> ThrType] /\ ThreadInv(t)
      /\ thr[t].pc = "dtor" /\ phase' = "closed" /\ Return(t)
      /\ queue' = <<>> /\ async_queue_job_count' = 0
      /\ UNCHANGED <<msg, imutex, tx, rx, ring, irq, cb, backend, init, fails, unclosed>>
  BY Facts DEF TypeOK, ReleaseEnd
<1>b. phase = "closing" /\ thr[t].op = "close" /\ (~unclosed => Silent)
  BY <1>a DEF ThreadInv, IndInv, CloseInv
<1>c. /\ \A u \in Threads \ {t} : thr[u].pc = "idle" /\ thr'[u] = thr[u]
      /\ thr'[t].pc = "idle" /\ thr'[t].op = "none" /\ thr'[t].m = NULL
      /\ \A u \in Threads : thr'[u].pc = "idle"
  BY <1>a, <1>b, MoveFacts DEF ThreadInv
<1>1. TypeOK'
  <2>1. thr' \in [Threads -> ThrType]
    BY <1>a, ThrField DEF Return
  <2>2. queue' \in Seq(Ids) /\ async_queue_job_count' \in Nat
    BY <1>a
  <2> QED
    BY <1>a, <2>1, <2>2 DEF TypeOK
<1>2. /\ HoldInv' /\ TxInv' /\ RxInv' /\ (~unclosed => FlyInv')
      /\ \A i \in Ids : MessageInv(i)'
  <2>1. thr[t].pc \notin Busy /\ thr'[t].pc \notin Busy
    BY <1>a, <1>c DEF Busy
  <2> QED
    BY <1>a, <1>c, <2>1, PhaseFrame
<1>3. \A u \in Threads : ThreadInv(u)'
  BY <1>c DEF ThreadInv
<1>4. ~unclosed' => CloseInv'
  <2>1. ~unclosed' => Silent'
    BY <1>a, <1>b DEF Silent
  <2> QED
    BY <2>1 DEF CloseInv, Silent
<1>5. QueueInv'
  BY <1>a DEF QueueInv, JobsOnce
<1>6. ~unclosed' => FlyInv'
  BY <1>2, <1>a
<1> QED
  BY <1>1, <1>2, <1>3, <1>4, <1>5, <1>6 DEF IndInv

\* A step that moves no thread, changes no message and stays in the phase.
LEMMA OutsideFrame ==
    ASSUME IndInv, UNCHANGED <<msg, thr, phase, unclosed>>
    PROVE  /\ HoldInv' /\ \A t \in Threads : ThreadInv(t)'
           /\ \A i \in Ids : MessageInv(i)'
<1>1. HoldInv'
  BY DEF IndInv, HoldInv
<1>2. ASSUME NEW t \in Threads PROVE ThreadInv(t)'
  BY Facts DEF ThreadInv
<1>3. ASSUME NEW i \in Ids PROVE MessageInv(i)'
  BY Facts DEF MessageInv
<1> QED
  BY <1>1, <1>2, <1>3

\* vfastrpc_file_alloc
LEMMA OpenStep ==
    ASSUME IndInv, Open PROVE IndInv'
<1>a. /\ TypeOK /\ QueueInv /\ phase = "closed" /\ ~unclosed /\ phase' = "open"
      /\ init' \in BOOLEAN
      /\ UNCHANGED <<msg, thr, imutex, tx, rx, ring, irq, cb, backend, queue,
                     async_queue_job_count, fails, unclosed>>
  BY Facts DEF Open
<1>1. TypeOK'
  BY <1>a DEF TypeOK
<1>2. \A t \in Threads : thr[t].pc = "idle"
  BY <1>a, Facts DEF ThreadInv
<1>3. \A t \in Threads : ThreadInv(t)'
  BY <1>2, <1>a DEF ThreadInv
<1>4. HoldInv' /\ TxInv' /\ RxInv'
  BY <1>a DEF IndInv, HoldInv, TxInv, RxInv
<1>5. ASSUME NEW i \in Ids PROVE MessageInv(i)'
  BY <1>a, Facts DEF MessageInv
<1>6. FlyInv'
  BY <1>a DEF IndInv, FlyInv, OneFlying, Awaits, Flying, InTx, InBackend, InRing, InCb
<1>7. CloseInv'
  BY <1>a DEF IndInv, CloseInv, Silent
<1>8. QueueInv'
  <2>1. queue' = <<>> /\ async_queue_job_count' = 0
    BY <1>a DEF QueueInv
  <2>2. JobsOnce'
    BY <2>1 DEF JobsOnce, IsInjective
  <2> QED
    BY <1>a, <2>1, <2>2 DEF QueueInv
<1> QED
  BY <1>1, <1>3, <1>4, <1>5, <1>6, <1>7, <1>8 DEF IndInv

-----------------------------------------------------------------------------
(* The backend.                                                             *)

\* A request or answer moves on, or is dropped; all messages stay as they are.
LEMMA FlyShift ==
    ASSUME IndInv, ~unclosed, UNCHANGED <<msg, thr>>, rx'.lost = rx.lost, NEW i,
           \A r, q \in tx'.avail : r.id = q.id => r = q,
           \A r, q \in backend' : r.id = q.id => r = q,
           \A k, l \in DOMAIN ring' : ring'[k].id = ring'[l].id => k = l,
           \A j \in Ids \ {i} : /\ InTx(j)' => InTx(j)
                                /\ InBackend(j)' => InBackend(j)
                                /\ InRing(j)' => InRing(j)
                                /\ InCb(j)' => InCb(j),
           i \in Ids => /\ InTx(i)' => ~InBackend(i)' /\ ~InRing(i)' /\ ~InCb(i)'
                        /\ InBackend(i)' => ~InRing(i)' /\ ~InCb(i)'
                        /\ InRing(i)' => ~InCb(i)'
                        /\ Flying(i)' => Flying(i),
           \A r \in tx'.avail : r.kind = msg[r.id].kind /\ ~r.old,
           \A r \in backend' : r.kind = msg[r.id].kind /\ ~r.old,
           \A k \in DOMAIN ring' : ~ring'[k].old,
           cb'.rsp # NULL => ~cb'.rsp.old
    PROVE  FlyInv'
<1>a. FlyInv
  BY DEF IndInv
<1>1. OneFlying'
  <2>1. \A j \in Ids : /\ InTx(j)' => ~InBackend(j)' /\ ~InRing(j)' /\ ~InCb(j)'
                       /\ InBackend(j)' => ~InRing(j)' /\ ~InCb(j)'
                       /\ InRing(j)' => ~InCb(j)'
    BY <1>a DEF FlyInv, OneFlying
  <2> QED
    BY <2>1 DEF OneFlying
<1>2. ASSUME NEW j \in Ids, Flying(j)' PROVE Awaits(j)'
  <2>1. Flying(j)
    BY <1>2 DEF Flying
  <2>2. Awaits(j)
    BY <1>a, <2>1 DEF FlyInv
  <2> QED
    BY <2>2 DEF Awaits
<1> QED
  BY <1>a, <1>1, <1>2 DEF FlyInv

\* The backend takes a request and gives its buffer back.
LEMMA BeTakeStep ==
    ASSUME IndInv, BeTake PROVE IndInv'
<1>r. PICK r \in tx.avail :
        /\ tx' = [tx EXCEPT !.avail = @ \ {r}, !.used = @ \cup {r.tx}]
        /\ backend' = backend \cup {[id |-> r.id, kind |-> r.kind, old |-> r.old]}
        /\ UNCHANGED <<msg, thr, imutex, rx, ring, irq, cb, queue,
                       async_queue_job_count, phase, init, fails, unclosed>>
  BY DEF BeTake
<1>a. /\ TypeOK /\ TxInv /\ RxInv /\ QueueInv /\ r \in Requests /\ r.id \in Ids /\ r.tx \in Bufs
      /\ NULL \notin Bufs
  BY Facts, OnTheWay
<1>k. PICK k \in Taken : /\ k = [id |-> r.id, kind |-> r.kind, old |-> r.old]
                         /\ k.id = r.id /\ k.kind = r.kind /\ k.old = r.old
  <2>1. PICK k : k = [id |-> r.id, kind |-> r.kind, old |-> r.old]
    OBVIOUS
  <2>2. k \in Taken
    BY <1>a, <2>1 DEF Requests, Taken
  <2>3. k.id = r.id /\ k.kind = r.kind /\ k.old = r.old
    BY <2>1
  <2> QED
    BY <2>1, <2>2, <2>3
<1>b. /\ tx'.fresh = tx.fresh /\ tx'.used = tx.used \cup {r.tx} /\ tx'.lost = tx.lost
      /\ tx'.avail = tx.avail \ {r} /\ backend' = backend \cup {k}
      /\ tx' \in [fresh : SUBSET Bufs, used : SUBSET Bufs, lost : SUBSET Bufs,
                  avail : SUBSET Requests]
  BY <1>a, <1>k, <1>r DEF TypeOK
<1>1. TypeOK'
  BY <1>a, <1>b, <1>r DEF TypeOK
<1>2. /\ HoldInv' /\ \A t \in Threads : ThreadInv(t)'
      /\ \A i \in Ids : MessageInv(i)'
  BY <1>r, OutsideFrame
<1>3. ~unclosed' => FlyInv' /\ CloseInv'
  <2>1. SUFFICES ASSUME ~unclosed PROVE FlyInv' /\ CloseInv'
    BY <1>r
  <2>2. FlyInv /\ CloseInv
    BY <2>1 DEF IndInv
  <2>3. /\ \A j : InTx(j)' <=> InTx(j) /\ j # r.id
        /\ \A j : InBackend(j)' <=> InBackend(j) \/ j = r.id
        /\ \A j : InRing(j)' <=> InRing(j)
        /\ \A j : InCb(j)' <=> InCb(j)
        /\ InTx(r.id)
    <3>1. \A q \in tx.avail : q.id = r.id => q = r
      BY <2>2 DEF FlyInv, OneFlying
    <3> QED
      BY <1>b, <1>k, <1>r, <3>1 DEF InTx, InBackend, InRing, InCb
  <2>4. ~InBackend(r.id) /\ ~InRing(r.id) /\ ~InCb(r.id)
    BY <1>a, <2>2, <2>3 DEF FlyInv, OneFlying
  <2>5. /\ \A p, q \in tx'.avail : p.id = q.id => p = q
        /\ \A m, l \in DOMAIN ring' : ring'[m].id = ring'[l].id => m = l
    BY <1>b, <1>r, <2>2 DEF FlyInv, OneFlying
  <2>6. \A p, q \in backend' : p.id = q.id => p = q
    <3>1. \A q \in backend : q.id # k.id
      BY <1>k, <2>4 DEF InBackend
    <3> QED
      BY <1>b, <2>2, <3>1 DEF FlyInv, OneFlying
  <2>7. /\ \A q \in tx'.avail : q.kind = msg[q.id].kind /\ ~q.old
        /\ \A m \in DOMAIN ring' : ~ring'[m].old
        /\ cb'.rsp # NULL => ~cb'.rsp.old
        /\ rx'.lost = rx.lost
    BY <1>b, <1>r, <2>2 DEF FlyInv
  <2>8. \A q \in backend' : q.kind = msg[q.id].kind /\ ~q.old
    <3>1. k.kind = msg[k.id].kind /\ ~k.old
      BY <1>k, <2>2 DEF FlyInv
    <3> QED
      BY <1>b, <2>2, <3>1 DEF FlyInv
  <2>9. FlyInv'
    BY <1>r, <2>1, <2>3, <2>4, <2>5, <2>6, <2>7, <2>8, FlyShift DEF Flying
  <2>10. CloseInv'
    <3>1. tx.avail # {} /\ ~Silent
      BY <1>r DEF Silent
    <3> QED
      BY <1>r, <2>2, <3>1 DEF CloseInv
  <2> QED
    BY <2>9, <2>10
<1>4. QueueInv' /\ RxInv'
  BY <1>a, <1>r DEF QueueInv, JobsOnce, RxInv
<1>5. TxInv'
  <2>1. r.tx \notin tx.fresh \cup tx.used \cup tx.lost /\ \A q \in tx'.avail : q.tx # r.tx
    BY <1>a, <1>b DEF TxInv
  <2>2. /\ tx'.fresh \cap tx'.used = {} /\ tx'.fresh \cap tx'.lost = {} /\ tx'.used \cap tx'.lost = {}
        /\ \A p, q \in tx'.avail : p.tx = q.tx => p = q
        /\ \A q \in tx'.avail : q.tx \notin tx'.fresh \cup tx'.used \cup tx'.lost
    BY <1>a, <1>b, <2>1 DEF TxInv
  <2>3. /\ \A m, j \in Ids : msg'[m].tx # NULL /\ msg'[m].tx = msg'[j].tx => m = j
        /\ \A j \in Ids : msg'[j].tx \notin tx'.fresh \cup tx'.used \cup tx'.lost
        /\ \A j \in Ids, q \in tx'.avail : msg'[j].tx # q.tx
    BY <1>a, <1>b, <1>r, <2>1 DEF TxInv
  <2>4. \A c \in Bufs : \/ c \in tx'.fresh \cup tx'.used \cup tx'.lost
                        \/ \E q \in tx'.avail : q.tx = c
                        \/ \E j \in Ids : msg'[j].tx = c
    BY <1>a, <1>b, <1>r DEF TxInv
  <2> QED
    BY <2>2, <2>3, <2>4 DEF TxInv
<1> QED
  BY <1>1, <1>2, <1>3, <1>4, <1>5 DEF IndInv

\* The backend drops a request that CLOSE ended.
LEMMA BeDropStep ==
    ASSUME IndInv, BeDrop PROVE IndInv'
<1>r. PICK r \in backend :
        /\ backend' = backend \ {r}
        /\ UNCHANGED <<msg, thr, imutex, tx, rx, ring, irq, cb, queue,
                       async_queue_job_count, phase, init, fails, unclosed>>
  BY DEF BeDrop
<1>a. TypeOK /\ TxInv /\ RxInv /\ QueueInv
  BY Facts
<1>1. TypeOK'
  BY <1>a, <1>r DEF TypeOK
<1>2. /\ HoldInv' /\ \A t \in Threads : ThreadInv(t)'
      /\ \A i \in Ids : MessageInv(i)'
  BY <1>r, OutsideFrame
<1>3. ~unclosed' => FlyInv' /\ CloseInv'
  <2>1. SUFFICES ASSUME ~unclosed PROVE FlyInv' /\ CloseInv'
    BY <1>r
  <2>2. FlyInv /\ CloseInv
    BY <2>1 DEF IndInv
  <2>3. /\ \A j : InTx(j)' <=> InTx(j)
        /\ \A j : InBackend(j)' => InBackend(j)
        /\ \A j : InRing(j)' <=> InRing(j)
        /\ \A j : InCb(j)' <=> InCb(j)
    BY <1>r DEF InTx, InBackend, InRing, InCb
  <2>4. /\ \A p, q \in tx'.avail : p.id = q.id => p = q
        /\ \A p, q \in backend' : p.id = q.id => p = q
        /\ \A m, l \in DOMAIN ring' : ring'[m].id = ring'[l].id => m = l
    BY <1>r, <2>2 DEF FlyInv, OneFlying
  <2>5. /\ \A q \in tx'.avail : q.kind = msg[q.id].kind /\ ~q.old
        /\ \A q \in backend' : q.kind = msg[q.id].kind /\ ~q.old
        /\ \A m \in DOMAIN ring' : ~ring'[m].old
        /\ cb'.rsp # NULL => ~cb'.rsp.old
        /\ rx'.lost = rx.lost
    BY <1>r, <2>2 DEF FlyInv
  <2>6. NULL \notin Ids
    BY ConstAssumption
  <2>7. FlyInv'
    BY <1>r, <2>1, <2>3, <2>4, <2>5, <2>6, FlyShift
  <2>8. CloseInv'
    <3>1. Silent => Silent'
      BY <1>r DEF Silent
    <3>2. backend = {} => backend' = {}
      BY <1>r
    <3> QED
      BY <1>r, <2>2, <3>1, <3>2 DEF CloseInv
  <2> QED
    BY <2>7, <2>8
<1>4. QueueInv' /\ RxInv' /\ TxInv'
  BY <1>a, <1>r DEF QueueInv, JobsOnce, RxInv, TxInv
<1> QED
  BY <1>1, <1>2, <1>3, <1>4 DEF IndInv

\* One CLOSE at a time.
LEMMA OneClose ==
    ASSUME IndInv, NEW i \in Ids, NEW j \in Ids, msg[i].kind = "close", msg[j].kind = "close"
    PROVE  i = j
<1>1. msg[i].live
  BY Facts DEF NoMsg
<1>2. msg[i].list = "held"
  BY <1>1, Facts DEF MessageInv
<1>3. msg[i].pid \in Threads /\ thr[msg[i].pid].m = i
  BY <1>1, <1>2, Facts DEF HoldInv
<1>4. thr[msg[i].pid].pc # "idle"
  BY <1>3, Facts DEF Busy
<1> QED
  BY <1>3, <1>4, CloserAlone

\* The backend answers; a CLOSE that succeeds is the last.
LEMMA BeReplyStep ==
    ASSUME IndInv, NEW i \in Ids, BeReply(i) PROVE IndInv'
<1>r. PICK r \in backend, b \in rx.avail, err \in BOOLEAN :
        /\ r.id = i /\ err \in Outcomes(r)
        /\ backend' = backend \ {r}
        /\ rx' = [rx EXCEPT !.avail = @ \ {b}]
        /\ ring' = Append(ring, [rx |-> b, id |-> i, err |-> err, old |-> r.old])
        /\ irq' = TRUE
        /\ UNCHANGED <<msg, thr, imutex, tx, cb, queue,
                       async_queue_job_count, phase, init, fails, unclosed>>
  BY DEF BeReply, Outcomes
<1>a. /\ TypeOK /\ TxInv /\ RxInv /\ QueueInv /\ r \in Taken /\ b \in Bufs /\ b # NULL
      /\ DOMAIN ring = 1 .. Len(ring) /\ Len(ring) \in Nat /\ ring \in Seq(Answers)
  BY Facts, OnTheWay, BufferSets DEF TypeOK
<1>k. PICK a \in Answers : /\ a = [rx |-> b, id |-> i, err |-> err, old |-> r.old]
                           /\ a.rx = b /\ a.id = i /\ a.err = err /\ a.old = r.old
  <2>1. PICK a : a = [rx |-> b, id |-> i, err |-> err, old |-> r.old]
    OBVIOUS
  <2>2. a \in Answers
    BY <1>a, <2>1 DEF Taken, Answers
  <2>3. a.rx = b /\ a.id = i /\ a.err = err /\ a.old = r.old
    BY <2>1
  <2> QED
    BY <2>1, <2>2, <2>3
<1>b. /\ rx'.avail = rx.avail \ {b} /\ rx'.lost = rx.lost /\ rx'.failed = rx.failed
      /\ rx' \in [avail : SUBSET Bufs, lost : SUBSET Bufs, failed : SUBSET Bufs]
  BY <1>a, <1>r DEF TypeOK
<1>c. /\ ring' \in Seq(Answers) /\ Len(ring') = Len(ring) + 1
      /\ DOMAIN ring' = 1 .. Len(ring) + 1
      /\ \A k \in DOMAIN ring : ring'[k] = ring[k]
      /\ ring'[Len(ring) + 1] = a
  BY <1>a, <1>k, <1>r
<1>d. \A k \in DOMAIN ring' : k \in DOMAIN ring \/ k = Len(ring) + 1
  BY <1>a, <1>c
<1>1. TypeOK'
  BY <1>a, <1>b, <1>c, <1>r DEF TypeOK
<1>2. /\ HoldInv' /\ \A t \in Threads : ThreadInv(t)'
      /\ \A j \in Ids : MessageInv(j)'
  BY <1>r, OutsideFrame
<1>3. ~unclosed' => FlyInv' /\ CloseInv'
  <2>1. SUFFICES ASSUME ~unclosed PROVE FlyInv' /\ CloseInv'
    BY <1>r
  <2>2. FlyInv /\ CloseInv
    BY <2>1 DEF IndInv
  <2>3. /\ \A j : InTx(j)' <=> InTx(j)
        /\ \A j : InBackend(j)' <=> InBackend(j) /\ j # i
        /\ \A j : InRing(j)' <=> InRing(j) \/ j = i
        /\ \A j : InCb(j)' <=> InCb(j)
        /\ InBackend(i)
    <3>1. \A q \in backend : q.id = i => q = r
      BY <1>r, <2>2 DEF FlyInv, OneFlying
    <3>2. \A j : InBackend(j)' <=> InBackend(j) /\ j # i
      BY <1>r, <3>1 DEF InBackend
    <3>3. ASSUME NEW j PROVE InRing(j)' <=> InRing(j) \/ j = i
      <4>1. InRing(j)' => InRing(j) \/ j = i
        BY <1>c, <1>d, <1>k DEF InRing
      <4>2. InRing(j) => InRing(j)'
        <5>1. \A k \in DOMAIN ring : k \in DOMAIN ring'
          BY <1>a, <1>c
        <5> QED
          BY <1>c, <5>1 DEF InRing
      <4>3. InRing(i)'
        <5>1. Len(ring) + 1 \in DOMAIN ring'
          BY <1>a, <1>c
        <5> QED
          BY <1>c, <1>k, <5>1 DEF InRing
      <4> QED
        BY <4>1, <4>2, <4>3
    <3> QED
      BY <1>r, <3>2, <3>3 DEF InTx, InBackend, InCb
  <2>4. ~InTx(i) /\ ~InRing(i) /\ ~InCb(i)
    BY <2>2, <2>3 DEF FlyInv, OneFlying
  <2>5. /\ \A p, q \in tx'.avail : p.id = q.id => p = q
        /\ \A p, q \in backend' : p.id = q.id => p = q
    BY <1>r, <2>2 DEF FlyInv, OneFlying
  <2>6. \A m, l \in DOMAIN ring' : ring'[m].id = ring'[l].id => m = l
    <3>1. \A m \in DOMAIN ring : ring'[m].id # i
      BY <1>c, <2>4 DEF InRing
    <3>2. \A m, l \in DOMAIN ring : ring'[m].id = ring'[l].id => m = l
      BY <1>c, <2>2 DEF FlyInv, OneFlying
    <3> QED
      BY <1>c, <1>d, <1>k, <3>1, <3>2
  <2>7. /\ \A q \in tx'.avail : q.kind = msg[q.id].kind /\ ~q.old
        /\ \A q \in backend' : q.kind = msg[q.id].kind /\ ~q.old
        /\ cb'.rsp # NULL => ~cb'.rsp.old
    BY <1>r, <2>2 DEF FlyInv
  <2>8. \A m \in DOMAIN ring' : ~ring'[m].old
    <3>1. ~a.old
      BY <1>k, <2>2 DEF FlyInv
    <3>2. \A m \in DOMAIN ring : ~ring'[m].old
      BY <1>c, <2>2 DEF FlyInv
    <3> QED
      BY <1>c, <1>d, <3>1, <3>2
  <2>9. FlyInv'
    BY <1>r, <1>b, <2>1, <2>3, <2>4, <2>5, <2>6, <2>7, <2>8, FlyShift DEF Flying
  <2>10. CloseInv'
    <3>1. backend # {} /\ ~Silent
      BY <1>r DEF Silent
    <3>2. ASSUME NEW k \in DOMAIN ring', msg'[ring'[k].id].kind = "close", ~ring'[k].err
          PROVE  tx'.avail = {} /\ backend' = {} /\ k = Len(ring')
      <4>1. k \notin DOMAIN ring
        BY <1>c, <1>r, <2>2, <3>1, <3>2 DEF CloseInv
      <4>2. k = Len(ring) + 1
        BY <1>d, <4>1
      <4>3. msg[i].kind = "close" /\ ~err
        BY <1>c, <1>k, <1>r, <3>2, <4>2
      <4>4. r.kind = "close"
        BY <1>r, <2>2, <4>3 DEF FlyInv
      <4>5. Drained
        BY <1>r, <4>3, <4>4 DEF Outcomes
      <4>6. \A q \in backend : q = r
        <5>1. ASSUME NEW q \in backend PROVE q = r
          <6>1. q.id \in Ids /\ msg[q.id].kind = "close"
            BY <1>a, <2>2, <4>5, OnTheWay DEF Drained, FlyInv
          <6>2. q.id = i
            BY <4>3, <6>1, OneClose
          <6> QED
            BY <1>r, <2>2, <6>2 DEF FlyInv, OneFlying
        <5> QED
          BY <5>1
      <4> QED
        BY <1>c, <1>r, <4>2, <4>5, <4>6 DEF Drained
    <3>3. /\ \A j \in Ids : ~(msg'[j].kind = "close" /\ msg'[j].work /\ ~msg'[j].err)
          /\ \A t \in Threads : thr'[t].op = "close" => thr'[t].pc \notin {"freerx", "freemsg", "dtor"}
          /\ phase' # "closed"
          /\ ~(cb'.rsp # NULL /\ msg'[cb'.rsp.id].kind = "close" /\ ~cb'.rsp.err)
      BY <1>r, <2>2, <3>1 DEF CloseInv
    <3> QED
      BY <3>2, <3>3 DEF CloseInv
  <2> QED
    BY <2>9, <2>10
<1>4. QueueInv' /\ TxInv'
  BY <1>a, <1>r DEF QueueInv, JobsOnce, TxInv
<1>5. RxInv'
  <2>1. /\ b \notin rx.lost /\ b \notin rx.failed /\ \A k \in DOMAIN ring : ring[k].rx # b
        /\ cb.rsp # NULL => cb.rsp.rx # b
        /\ \A j \in Ids : msg[j].rx # b
    BY <1>a DEF RxInv
  <2>2. /\ cb'.rsp # NULL <=> cb'.pc = "recv"
        /\ rx'.avail \cap rx'.lost = {} /\ rx'.avail \cap rx'.failed = {} /\ rx'.lost \cap rx'.failed = {}
        /\ cb'.rsp # NULL => cb'.rsp.rx \notin rx'.avail \cup rx'.lost \cup rx'.failed
        /\ \A l, j \in Ids : msg'[l].rx # NULL /\ msg'[l].rx = msg'[j].rx => l = j
        /\ \A j \in Ids : msg'[j].rx \notin rx'.avail \cup rx'.lost \cup rx'.failed
        /\ \A j \in Ids : cb'.rsp # NULL => msg'[j].rx # cb'.rsp.rx
    BY <1>a, <1>b, <1>r DEF RxInv
  <2>3. \A k, l \in DOMAIN ring' : ring'[k].rx = ring'[l].rx => k = l
    <3>1. /\ \A k \in DOMAIN ring : ring'[k].rx # b
          /\ \A k, l \in DOMAIN ring : ring'[k].rx = ring'[l].rx => k = l
      BY <1>a, <1>c, <2>1 DEF RxInv
    <3> QED
      BY <1>c, <1>d, <1>k, <3>1
  <2>4. ASSUME NEW k \in DOMAIN ring'
        PROVE  /\ ring'[k].rx \notin rx'.avail \cup rx'.lost \cup rx'.failed
               /\ cb'.rsp # NULL => cb'.rsp.rx # ring'[k].rx
               /\ \A j \in Ids : msg'[j].rx # ring'[k].rx
    <3>1. CASE k \in DOMAIN ring
      BY <1>a, <1>b, <1>c, <1>r, <3>1 DEF RxInv
    <3>2. CASE k = Len(ring) + 1
      BY <1>b, <1>c, <1>k, <1>r, <2>1, <3>2
    <3> QED
      BY <1>d, <3>1, <3>2
  <2>5. ASSUME NEW c \in Bufs
        PROVE  \/ c \in rx'.avail \cup rx'.lost \cup rx'.failed
               \/ \E k \in DOMAIN ring' : ring'[k].rx = c
               \/ cb'.rsp # NULL /\ cb'.rsp.rx = c
               \/ \E j \in Ids : msg'[j].rx = c
    <3>1. Len(ring) + 1 \in DOMAIN ring' /\ \A k \in DOMAIN ring : k \in DOMAIN ring'
      BY <1>a, <1>c
    <3>2. CASE c = b
      BY <1>c, <1>k, <3>1, <3>2
    <3>3. CASE c # b
      <4>1. (\E k \in DOMAIN ring : ring[k].rx = c) => \E k \in DOMAIN ring' : ring'[k].rx = c
        BY <1>c, <3>1
      <4> QED
        BY <1>a, <1>b, <1>r, <3>3, <4>1 DEF RxInv
    <3> QED
      BY <3>2, <3>3
  <2> QED
    BY <2>2, <2>3, <2>4, <2>5 DEF RxInv
<1> QED
  BY <1>1, <1>2, <1>3, <1>4, <1>5 DEF IndInv

-----------------------------------------------------------------------------
(* The receive callback.                                                    *)

\* recv_done takes the oldest answer, or finds none and returns.
LEMMA CbGetStep ==
    ASSUME IndInv, CbGet PROVE IndInv'
<1>a. /\ TypeOK /\ TxInv /\ RxInv /\ QueueInv /\ cb.rsp = NULL /\ cb.pc # "recv"
      /\ DOMAIN ring = 1 .. Len(ring) /\ Len(ring) \in Nat /\ ring \in Seq(Answers)
      /\ NULL \notin Answers /\ NULL \notin Ids
  BY Facts, OnTheWay DEF TypeOK, CbGet, RxInv
<1>b. UNCHANGED <<msg, thr, imutex, tx, rx, backend, queue,
                  async_queue_job_count, phase, init, fails, unclosed>>
  BY DEF CbGet
<1>c. irq' \in BOOLEAN
  BY <1>a DEF CbGet, TypeOK
<1>1. /\ HoldInv' /\ \A t \in Threads : ThreadInv(t)'
      /\ \A j \in Ids : MessageInv(j)'
  BY <1>b, OutsideFrame
<1>2. QueueInv' /\ TxInv'
  BY <1>a, <1>b DEF QueueInv, JobsOnce, TxInv
<1>3. CASE ring = <<>>
  <2>1. cb' = [pc |-> "idle", rsp |-> NULL] /\ ring' = ring
    BY <1>3 DEF CbGet
  <2>2. cb'.rsp = NULL /\ cb'.pc = "idle"
    BY <2>1
  <2>3. TypeOK'
    BY <1>a, <1>b, <1>c, <2>1 DEF TypeOK
  <2>4. RxInv'
    BY <1>a, <1>b, <2>1, <2>2 DEF RxInv
  <2>5. ~unclosed' => FlyInv' /\ CloseInv'
    <3>1. ASSUME ~unclosed PROVE FlyInv' /\ CloseInv'
      <4>1. FlyInv /\ CloseInv
        BY <3>1 DEF IndInv
      <4>2. /\ \A j : InTx(j)' <=> InTx(j)
            /\ \A j : InBackend(j)' <=> InBackend(j)
            /\ \A j : InRing(j)' <=> InRing(j)
            /\ \A j : InCb(j)' <=> InCb(j)
        BY <1>a, <1>b, <2>1, <2>2 DEF InTx, InBackend, InRing, InCb
      <4>3. OneFlying' /\ \A j \in Ids : Flying(j)' => Awaits(j)'
        BY <1>b, <2>1, <4>1, <4>2 DEF FlyInv, OneFlying, Flying, Awaits
      <4>4. FlyInv'
        BY <1>b, <2>1, <2>2, <4>1, <4>3 DEF FlyInv
      <4>5. Silent => Silent'
        BY <1>b, <2>1, <2>2 DEF Silent
      <4>6. CloseInv'
        BY <1>b, <2>1, <2>2, <4>1, <4>5 DEF CloseInv
      <4> QED
        BY <4>4, <4>6
    <3> QED
      BY <1>b, <3>1
  <2> QED
    BY <1>1, <1>2, <2>3, <2>4, <2>5 DEF IndInv
<1>4. CASE ring # <<>>
  <2>1. cb' = [pc |-> "recv", rsp |-> Head(ring)] /\ ring' = Tail(ring)
    BY <1>4 DEF CbGet
  <2>2. /\ 1 \in DOMAIN ring /\ ring[1] \in Answers /\ Head(ring) = ring[1]
        /\ ring' \in Seq(Answers) /\ Len(ring') = Len(ring) - 1 /\ DOMAIN ring' = 1 .. Len(ring')
        /\ Len(ring') \in Nat
        /\ \A k \in DOMAIN ring' : k + 1 \in DOMAIN ring /\ ring'[k] = ring[k + 1] /\ k + 1 # 1
    BY <1>4, <1>a, <2>1
  <2>h. PICK h \in Answers : h = ring[1]
    BY <2>2
  <2>3. /\ cb'.rsp = h /\ cb'.pc = "recv" /\ h # NULL
        /\ cb' \in [pc : {"idle", "next", "recv"}, rsp : Answers \cup {NULL}]
    BY <1>a, <2>1, <2>2, <2>h
  <2>4. \A k \in DOMAIN ring : k # 1 => \E l \in DOMAIN ring' : k = l + 1
    <3>1. ASSUME NEW k \in DOMAIN ring, k # 1 PROVE k - 1 \in DOMAIN ring' /\ k = (k - 1) + 1
      BY <1>a, <2>2, <3>1
    <3> QED
      BY <3>1
  <2>5. TypeOK'
    BY <1>a, <1>b, <1>c, <2>2, <2>3 DEF TypeOK
  <2>6. \A k, l \in DOMAIN ring' : k + 1 = l + 1 => k = l
    BY <2>2
  <2>7. ~unclosed' => FlyInv' /\ CloseInv'
    <3>1. SUFFICES ASSUME ~unclosed PROVE FlyInv' /\ CloseInv'
      BY <1>b
    <3>2. FlyInv /\ CloseInv
      BY <3>1 DEF IndInv
    <3>3. h.id \in Ids /\ InRing(h.id)
      BY <2>2, <2>h DEF InRing, Answers
    <3>4. ~InTx(h.id) /\ ~InBackend(h.id)
      BY <3>2, <3>3 DEF FlyInv, OneFlying
    <3>5. /\ \A j : InTx(j)' <=> InTx(j)
          /\ \A j : InBackend(j)' <=> InBackend(j)
          /\ \A j : InRing(j)' => InRing(j)
          /\ \A j : InCb(j)' <=> j = h.id
          /\ ~InRing(h.id)'
      <4>1. \A k \in DOMAIN ring' : ring'[k].id # h.id
        BY <2>2, <2>h, <3>2 DEF FlyInv, OneFlying
      <4>2. \A j : InRing(j)' => InRing(j)
        BY <2>2 DEF InRing
      <4> QED
        BY <1>b, <2>3, <4>1, <4>2 DEF InTx, InBackend, InRing, InCb
    <3>6. /\ \A p, q \in tx'.avail : p.id = q.id => p = q
          /\ \A p, q \in backend' : p.id = q.id => p = q
      BY <1>b, <3>2 DEF FlyInv, OneFlying
    <3>7. \A m, l \in DOMAIN ring' : ring'[m].id = ring'[l].id => m = l
      BY <2>2, <2>6, <3>2 DEF FlyInv, OneFlying
    <3>8. /\ \A q \in tx'.avail : q.kind = msg[q.id].kind /\ ~q.old
          /\ \A q \in backend' : q.kind = msg[q.id].kind /\ ~q.old
          /\ \A m \in DOMAIN ring' : ~ring'[m].old
          /\ cb'.rsp # NULL => ~cb'.rsp.old
          /\ rx'.lost = rx.lost
      BY <1>b, <2>2, <2>3, <2>h, <3>2 DEF FlyInv
    <3>9. FlyInv'
      BY <1>b, <3>1, <3>3, <3>4, <3>5, <3>6, <3>7, <3>8, FlyShift DEF Flying
    <3>10. CloseInv'
      <4>1. ~Silent
        BY <1>4 DEF Silent
      <4>2. ASSUME NEW k \in DOMAIN ring', msg'[ring'[k].id].kind = "close", ~ring'[k].err
            PROVE  tx'.avail = {} /\ backend' = {} /\ k = Len(ring')
        <5>1. tx.avail = {} /\ backend = {} /\ k + 1 = Len(ring)
          BY <1>b, <2>2, <3>2, <4>2 DEF CloseInv
        <5> QED
          BY <1>b, <2>2, <5>1
      <4>3. ASSUME msg'[cb'.rsp.id].kind = "close", ~cb'.rsp.err
            PROVE  tx'.avail = {} /\ backend' = {} /\ ring' = <<>>
        <5>1. tx.avail = {} /\ backend = {} /\ 1 = Len(ring)
          BY <1>b, <2>2, <2>3, <2>h, <3>2, <4>3 DEF CloseInv
        <5>2. Len(ring') = 0
          BY <1>a, <2>2, <5>1
        <5>3. ring' = <<>>
          BY <2>2, <5>2
        <5> QED
          BY <1>b, <5>1, <5>3
      <4>4. /\ \A j \in Ids : ~(msg'[j].kind = "close" /\ msg'[j].work /\ ~msg'[j].err)
            /\ \A t \in Threads : thr'[t].op = "close" =>
                   thr'[t].pc \notin {"freerx", "freemsg", "dtor"}
            /\ phase' # "closed"
        BY <1>b, <3>2, <4>1 DEF CloseInv
      <4> QED
        BY <4>2, <4>3, <4>4 DEF CloseInv
    <3> QED
      BY <3>9, <3>10
  <2>8. RxInv'
    <3>1. /\ cb'.rsp # NULL <=> cb'.pc = "recv"
          /\ rx'.avail \cap rx'.lost = {} /\ rx'.avail \cap rx'.failed = {} /\ rx'.lost \cap rx'.failed = {}
          /\ \A l, j \in Ids : msg'[l].rx # NULL /\ msg'[l].rx = msg'[j].rx => l = j
          /\ \A j \in Ids : msg'[j].rx \notin rx'.avail \cup rx'.lost \cup rx'.failed
      BY <1>a, <1>b, <2>3 DEF RxInv
    <3>2. /\ cb'.rsp # NULL => cb'.rsp.rx \notin rx'.avail \cup rx'.lost \cup rx'.failed
          /\ \A j \in Ids : cb'.rsp # NULL => msg'[j].rx # cb'.rsp.rx
      BY <1>a, <1>b, <2>2, <2>3, <2>h DEF RxInv
    <3>3. \A k, l \in DOMAIN ring' : ring'[k].rx = ring'[l].rx => k = l
      BY <1>a, <2>2, <2>6 DEF RxInv
    <3>4. ASSUME NEW k \in DOMAIN ring'
          PROVE  /\ ring'[k].rx \notin rx'.avail \cup rx'.lost \cup rx'.failed
                 /\ cb'.rsp # NULL => cb'.rsp.rx # ring'[k].rx
                 /\ \A j \in Ids : msg'[j].rx # ring'[k].rx
      <4>1. ring'[k] = ring[k + 1] /\ k + 1 \in DOMAIN ring /\ k + 1 # 1
        BY <2>2
      <4> QED
        BY <1>a, <1>b, <2>2, <2>3, <2>h, <4>1 DEF RxInv
    <3>5. ASSUME NEW c \in Bufs
          PROVE  \/ c \in rx'.avail \cup rx'.lost \cup rx'.failed
                 \/ \E k \in DOMAIN ring' : ring'[k].rx = c
                 \/ cb'.rsp # NULL /\ cb'.rsp.rx = c
                 \/ \E j \in Ids : msg'[j].rx = c
      <4>1. ASSUME NEW k \in DOMAIN ring, ring[k].rx = c
            PROVE  cb'.rsp.rx = c \/ \E l \in DOMAIN ring' : ring'[l].rx = c
        <5>1. CASE k = 1
          BY <2>3, <2>h, <4>1, <5>1
        <5>2. CASE k # 1
          BY <2>2, <2>4, <4>1, <5>2
        <5> QED
          BY <5>1, <5>2
      <4> QED
        BY <1>a, <1>b, <2>3, <4>1 DEF RxInv
    <3> QED
      BY <3>1, <3>2, <3>3, <3>4, <3>5 DEF RxInv
  <2> QED
    BY <1>1, <1>2, <2>5, <2>7, <2>8 DEF IndInv
<1> QED
  BY <1>3, <1>4

\* recv_single, when the entry is empty: only after a session that was not closed.
LEMMA CbLostStep ==
    ASSUME IndInv, CbRecv, ~msg[cb.rsp.id].live PROVE IndInv'
<1>a. /\ TypeOK /\ TxInv /\ RxInv /\ QueueInv /\ cb.pc = "recv" /\ cb.rsp # NULL
  BY Facts DEF CbRecv, RxInv
<1>b. /\ cb.rsp \in Answers /\ cb.rsp.rx \in Bufs /\ cb.rsp.id \in Ids /\ Flying(cb.rsp.id)
  BY <1>a, OnTheWay
<1>c. /\ cb' = [pc |-> "idle", rsp |-> NULL]
      /\ rx' = [rx EXCEPT !.lost = @ \cup {cb.rsp.rx}]
      /\ UNCHANGED <<msg, thr, imutex, tx, ring, irq, backend, queue,
                     async_queue_job_count, phase, init, fails, unclosed>>
  BY DEF CbRecv
<1>d. /\ rx'.avail = rx.avail /\ rx'.lost = rx.lost \cup {cb.rsp.rx} /\ rx'.failed = rx.failed
      /\ rx' \in [avail : SUBSET Bufs, lost : SUBSET Bufs, failed : SUBSET Bufs]
      /\ cb'.rsp = NULL /\ cb'.pc = "idle"
  BY <1>a, <1>b, <1>c DEF TypeOK
<1>1. TypeOK'
  BY <1>a, <1>c, <1>d DEF TypeOK
<1>2. /\ HoldInv' /\ \A t \in Threads : ThreadInv(t)'
      /\ \A j \in Ids : MessageInv(j)'
  BY <1>c, OutsideFrame
<1>3. QueueInv' /\ TxInv'
  BY <1>a, <1>c DEF QueueInv, JobsOnce, TxInv
<1>4. unclosed'
  BY <1>b, <1>c DEF IndInv, FlyInv, Awaits
<1>5. RxInv'
  <2>1. /\ rx'.avail \cap rx'.lost = {} /\ rx'.avail \cap rx'.failed = {} /\ rx'.lost \cap rx'.failed = {}
        /\ \A k, l \in DOMAIN ring' : ring'[k].rx = ring'[l].rx => k = l
        /\ \A k \in DOMAIN ring' : ring'[k].rx \notin rx'.avail \cup rx'.lost \cup rx'.failed
        /\ \A l, j \in Ids : msg'[l].rx # NULL /\ msg'[l].rx = msg'[j].rx => l = j
        /\ \A j \in Ids : msg'[j].rx \notin rx'.avail \cup rx'.lost \cup rx'.failed
        /\ \A j \in Ids, k \in DOMAIN ring' : msg'[j].rx # ring'[k].rx
    BY <1>a, <1>c, <1>d DEF RxInv
  <2>2. \A b \in Bufs : \/ b \in rx'.avail \cup rx'.lost \cup rx'.failed
                        \/ \E k \in DOMAIN ring' : ring'[k].rx = b
                        \/ \E j \in Ids : msg'[j].rx = b
    BY <1>a, <1>c, <1>d DEF RxInv
  <2> QED
    BY <1>d, <2>1, <2>2 DEF RxInv
<1> QED
  BY <1>1, <1>2, <1>3, <1>4, <1>5 DEF IndInv

\* recv_single, when the length is wrong: the answer goes astray.
LEMMA CbMismatchStep ==
    ASSUME IndInv, CbMismatch PROVE IndInv'
<1>a. /\ TypeOK /\ TxInv /\ RxInv /\ QueueInv /\ cb.pc = "recv" /\ cb.rsp # NULL
      /\ fails \in 0 .. MaxFails /\ MaxFails \in Nat /\ NULL \notin Ids
  BY Facts, ConstAssumption DEF CbMismatch, RxInv, TypeOK
<1>b. cb.rsp \in Answers /\ cb.rsp.rx \in Bufs
  BY <1>a, OnTheWay
<1>c. /\ cb' = [pc |-> "idle", rsp |-> NULL]
      /\ rx' = [rx EXCEPT !.failed = @ \cup {cb.rsp.rx}]
      /\ fails < MaxFails /\ fails' = fails + 1
      /\ UNCHANGED <<msg, thr, imutex, tx, ring, irq, backend, queue,
                     async_queue_job_count, phase, init, unclosed>>
  BY DEF CbMismatch
<1>d. /\ rx'.avail = rx.avail /\ rx'.lost = rx.lost /\ rx'.failed = rx.failed \cup {cb.rsp.rx}
      /\ rx' \in [avail : SUBSET Bufs, lost : SUBSET Bufs, failed : SUBSET Bufs]
      /\ cb'.rsp = NULL /\ cb'.pc = "idle"
  BY <1>a, <1>b, <1>c DEF TypeOK
<1>1. TypeOK'
  <2>1. fails' \in 0 .. MaxFails
    BY <1>a, <1>c
  <2> QED
    BY <1>a, <1>c, <1>d, <2>1 DEF TypeOK
<1>2. /\ HoldInv' /\ \A t \in Threads : ThreadInv(t)'
      /\ \A j \in Ids : MessageInv(j)'
  BY <1>c, OutsideFrame
<1>3. QueueInv' /\ TxInv'
  BY <1>a, <1>c DEF QueueInv, JobsOnce, TxInv
<1>4. ~unclosed' => FlyInv' /\ CloseInv'
  <2>1. SUFFICES ASSUME ~unclosed PROVE FlyInv' /\ CloseInv'
    BY <1>c
  <2>2. FlyInv /\ CloseInv
    BY <2>1 DEF IndInv
  <2>3. /\ \A j : InTx(j)' <=> InTx(j)
        /\ \A j : InBackend(j)' <=> InBackend(j)
        /\ \A j : InRing(j)' <=> InRing(j)
        /\ \A j : ~InCb(j)'
    BY <1>c, <1>d DEF InTx, InBackend, InRing, InCb
  <2>4. /\ \A p, q \in tx'.avail : p.id = q.id => p = q
        /\ \A p, q \in backend' : p.id = q.id => p = q
        /\ \A m, l \in DOMAIN ring' : ring'[m].id = ring'[l].id => m = l
    BY <1>c, <2>2 DEF FlyInv, OneFlying
  <2>5. /\ \A q \in tx'.avail : q.kind = msg[q.id].kind /\ ~q.old
        /\ \A q \in backend' : q.kind = msg[q.id].kind /\ ~q.old
        /\ \A m \in DOMAIN ring' : ~ring'[m].old
        /\ cb'.rsp # NULL => ~cb'.rsp.old
        /\ rx'.lost = rx.lost
    BY <1>c, <1>d, <2>2 DEF FlyInv
  <2>6. FlyInv'
    BY <1>a, <1>c, <2>1, <2>3, <2>4, <2>5, FlyShift
  <2>7. CloseInv'
    <3>1. Silent => Silent'
      BY <1>a DEF Silent
    <3> QED
      BY <1>c, <1>d, <2>2, <3>1 DEF CloseInv
  <2> QED
    BY <2>6, <2>7
<1>5. RxInv'
  <2>1. /\ rx'.avail \cap rx'.lost = {} /\ rx'.avail \cap rx'.failed = {}
        /\ rx'.lost \cap rx'.failed = {}
        /\ \A k, l \in DOMAIN ring' : ring'[k].rx = ring'[l].rx => k = l
        /\ \A k \in DOMAIN ring' : ring'[k].rx \notin rx'.avail \cup rx'.lost \cup rx'.failed
        /\ \A l, j \in Ids : msg'[l].rx # NULL /\ msg'[l].rx = msg'[j].rx => l = j
        /\ \A j \in Ids : msg'[j].rx \notin rx'.avail \cup rx'.lost \cup rx'.failed
        /\ \A j \in Ids, k \in DOMAIN ring' : msg'[j].rx # ring'[k].rx
    BY <1>a, <1>c, <1>d DEF RxInv
  <2>2. \A b \in Bufs : \/ b \in rx'.avail \cup rx'.lost \cup rx'.failed
                        \/ \E k \in DOMAIN ring' : ring'[k].rx = b
                        \/ \E j \in Ids : msg'[j].rx = b
    BY <1>a, <1>c, <1>d DEF RxInv
  <2> QED
    BY <1>d, <2>1, <2>2 DEF RxInv
<1> QED
  BY <1>1, <1>2, <1>3, <1>4, <1>5 DEF IndInv

\* recv_single, when the entry has a message: the answer is its own.
LEMMA CbRecvStep ==
    ASSUME IndInv, CbRecv, msg[cb.rsp.id].live PROVE IndInv'
<1>a. /\ TypeOK /\ TxInv /\ RxInv /\ QueueInv /\ HoldInv /\ cb.pc = "recv" /\ cb.rsp # NULL
      /\ msg \in [Ids -> MsgType] /\ NULL \notin Bufs /\ NULL \notin Ids
  BY Facts DEF CbRecv, RxInv, TypeOK
<1>r. PICK r \in Answers : r = cb.rsp
  BY <1>a, OnTheWay
<1>i. PICK i \in Ids : i = r.id
  BY <1>a, <1>r, OnTheWay
<1>b. /\ r.rx \in Bufs /\ r.err \in BOOLEAN /\ r.old \in BOOLEAN /\ InCb(i) /\ Flying(i)
      /\ msg[i].live /\ msg[i] \in MsgType /\ r.rx # NULL
  BY <1>a, <1>r, <1>i DEF Answers, InCb, Flying
<1>w. PICK w \in BOOLEAN : /\ w = (msg[i].work \/ msg[i].kind # "async")
                           /\ w <=> (msg[i].work \/ msg[i].kind # "async")
  <2>1. (msg[i].work \/ msg[i].kind # "async") \in BOOLEAN
    BY Zenon
  <2> QED
    BY <2>1, Zenon
<1>o. PICK o \in BOOLEAN : o = ~r.old /\ (o <=> ~r.old)
  <2>1. (~r.old) \in BOOLEAN
    BY Zenon
  <2> QED
    BY <2>1, Zenon
<1>c. /\ cb' = [pc |-> "next", rsp |-> NULL]
      /\ rx' = [rx EXCEPT !.lost = @ \cup ({msg[i].rx} \ {NULL})]
      /\ msg' = [msg EXCEPT ![i].rx = r.rx, ![i].err = r.err, ![i].own = o, ![i].work = w]
      /\ IF msg[i].kind = "async" THEN Queue(i) ELSE UNCHANGED <<queue, async_queue_job_count>>
      /\ UNCHANGED <<thr, imutex, tx, ring, irq, backend, phase, init, fails, unclosed>>
  <2>1. msg' = [msg EXCEPT ![i].rx = r.rx, ![i].err = r.err, ![i].own = ~r.old,
                           ![i].work = (@ \/ msg[i].kind # "async")]
    BY <1>r, <1>i DEF CbRecv
  <2>2. msg' = [msg EXCEPT ![i] = [msg[i] EXCEPT !.rx = r.rx, !.err = r.err, !.own = ~r.old,
                                       !.work = (msg[i].work \/ msg[i].kind # "async")]]
    BY <1>a, <1>b, <2>1 DEF MsgType
  <2>3. msg' = [msg EXCEPT ![i] = [msg[i] EXCEPT !.rx = r.rx, !.err = r.err, !.own = o, !.work = w]]
    BY <1>o, <1>w, <2>2, Zenon
  <2> QED
    BY <1>a, <1>r, <1>i, <2>3 DEF CbRecv
<1>d. /\ rx'.avail = rx.avail /\ rx'.failed = rx.failed
      /\ rx'.lost = rx.lost \cup ({msg[i].rx} \ {NULL})
      /\ rx' \in [avail : SUBSET Bufs, lost : SUBSET Bufs, failed : SUBSET Bufs]
      /\ cb'.rsp = NULL /\ cb'.pc = "next"
  BY <1>a, <1>b, <1>c DEF TypeOK, MsgType
<1>1. /\ \A j \in Ids \ {i} : msg'[j] = msg[j]
      /\ msg'[i] = [msg[i] EXCEPT !.rx = r.rx, !.err = r.err, !.own = o, !.work = w]
  BY <1>a, <1>c
<1>2. /\ msg'[i].live /\ msg'[i].list = msg[i].list /\ msg'[i].pid = msg[i].pid
      /\ msg'[i].kind = msg[i].kind /\ msg'[i].tx = msg[i].tx /\ msg'[i].rx = r.rx
      /\ msg'[i].err = r.err /\ msg'[i].own = o /\ msg'[i].work = w
  BY <1>1, <1>b DEF MsgType
<1>3. /\ \A j \in Ids : /\ msg'[j].live = msg[j].live /\ msg'[j].list = msg[j].list
                        /\ msg'[j].pid = msg[j].pid /\ msg'[j].kind = msg[j].kind
                        /\ msg'[j].tx = msg[j].tx
                        /\ msg'[j].rx = IF j = i THEN r.rx ELSE msg[j].rx
  <2>1. msg'[i].live = msg[i].live
    BY <1>1, <1>b DEF MsgType
  <2> QED
    BY <1>1, <1>2, <2>1
<1>4. ~unclosed => FlyInv /\ CloseInv /\ Awaits(i)
  BY <1>b DEF IndInv, FlyInv
<1>5. TypeOK'
  <2>1. msg' \in [Ids -> MsgType]
    <3>1. [msg[i] EXCEPT !.rx = r.rx, !.err = r.err, !.own = o, !.work = w] \in MsgType
      BY <1>b, MsgField
    <3> QED
      BY <1>a, <1>c, <3>1
  <2>2. queue' \in Seq(Ids) /\ async_queue_job_count' \in Nat
    <3>1. queue \in Seq(Ids) /\ async_queue_job_count \in Nat /\ <<i>> \in Seq(Ids)
      BY <1>a DEF TypeOK
    <3>2. <<i>> \o queue \in Seq(Ids) /\ async_queue_job_count + 1 \in Nat
      BY <3>1
    <3> QED
      BY <1>c, <3>1, <3>2 DEF Queue
  <2>3. cb' \in [pc : {"idle", "next", "recv"}, rsp : Answers \cup {NULL}]
    BY <1>c
  <2> QED
    BY <1>a, <1>c, <1>d, <2>1, <2>2, <2>3 DEF TypeOK
<1>6. HoldInv'
  <2>1. ASSUME NEW t \in Threads, thr[t].pc \in Busy
        PROVE  msg'[thr[t].m].live /\ msg'[thr[t].m].list = "held" /\ msg'[thr[t].m].pid = t
    BY <1>3, <2>1, Handled
  <2>2. ASSUME NEW j \in Ids
        PROVE  /\ IF msg'[j].live THEN msg'[j].list # "none" ELSE msg'[j] = NoMsg
               /\ msg'[j].live /\ msg'[j].list = "held" =>
                    msg'[j].pid \in Threads /\ thr'[msg'[j].pid].m = j
    <3>1. CASE j = i
      BY <1>2, <1>a, <1>b, <1>c, <3>1 DEF HoldInv
    <3>2. CASE j # i
      BY <1>1, <1>a, <1>c, <3>2 DEF HoldInv
    <3> QED
      BY <3>1, <3>2
  <2>3. \A t \in Threads : thr'[t].m # NULL <=> thr'[t].pc \in Busy
    BY <1>a, <1>c DEF HoldInv
  <2>4. \A t \in Threads : thr'[t].pc \in Busy =>
            msg'[thr'[t].m].live /\ msg'[thr'[t].m].list = "held" /\ msg'[thr'[t].m].pid = t
    BY <1>c, <2>1
  <2> QED
    BY <2>2, <2>3, <2>4 DEF HoldInv
<1>7. ASSUME NEW t \in Threads PROVE ThreadInv(t)'
  <2>1. ThreadInv(t) /\ (thr[t].pc \in Busy => thr[t].m \in Ids)
    BY Facts
  <2>2. CASE thr[t].pc \in Busy /\ thr[t].m = i
    <3>1. ~unclosed => thr[t].pc = "wait"
      BY <1>4, <1>b, <2>2, Handled
    <3>2. thr[t].pc \in {"wait", "freerx", "freemsg"} /\ (~unclosed => thr[t].pc = "wait")
      BY <2>1, <2>2, <3>1 DEF ThreadInv, Busy
    <3> QED
      BY <1>2, <1>b, <1>c, <2>1, <2>2, <3>2 DEF ThreadInv
  <2>3. CASE thr[t].pc \in Busy /\ thr[t].m # i
    <3>1. msg'[thr[t].m] = msg[thr[t].m]
      BY <1>1, <2>1, <2>3
    <3> QED
      BY <1>c, <2>1, <3>1 DEF ThreadInv
  <2>4. CASE thr[t].pc \notin Busy
    BY <1>c, <2>1, <2>4 DEF ThreadInv, Busy
  <2> QED
    BY <2>2, <2>3, <2>4
<1>8. ASSUME NEW j \in Ids PROVE MessageInv(j)'
  <2>1. MessageInv(j)
    BY Facts
  <2> QED
    BY <1>3, <1>c, <2>1 DEF MessageInv
<1>9. TxInv'
  BY <1>3, <1>a, <1>c DEF TxInv
<1>10. RxInv'
  <2>1. /\ r.rx \notin rx.avail \cup rx.lost \cup rx.failed /\ \A k \in DOMAIN ring : ring[k].rx # r.rx
        /\ \A j \in Ids : msg[j].rx # r.rx
    BY <1>a, <1>r DEF RxInv
  <2>2. /\ NULL \notin rx.avail /\ NULL \notin rx'.lost /\ NULL \notin rx.failed
        /\ \A k \in DOMAIN ring : ring[k].rx # NULL
    BY <1>a, <1>d, BufferSets, OnTheWay
  <2>3. /\ rx'.avail \cap rx'.lost = {} /\ rx'.avail \cap rx'.failed = {} /\ rx'.lost \cap rx'.failed = {}
        /\ r.rx \notin rx'.avail \cup rx'.lost \cup rx'.failed
        /\ \A k, l \in DOMAIN ring' : ring'[k].rx = ring'[l].rx => k = l
        /\ \A k \in DOMAIN ring' : ring'[k].rx \notin rx'.avail \cup rx'.lost \cup rx'.failed
    BY <1>a, <1>c, <1>d, <2>1 DEF RxInv
  <2>4. /\ \A l, j \in Ids : msg'[l].rx # NULL /\ msg'[l].rx = msg'[j].rx => l = j
        /\ \A j \in Ids, k \in DOMAIN ring' : msg'[j].rx # ring'[k].rx
    BY <1>3, <1>a, <1>c, <2>1 DEF RxInv
  <2>5. ASSUME NEW j \in Ids PROVE msg'[j].rx \notin rx'.avail \cup rx'.lost \cup rx'.failed
    <3>1. CASE j = i
      BY <1>3, <2>3, <3>1
    <3>2. CASE j # i
      <4>1. msg'[j].rx = msg[j].rx /\ msg[j].rx \notin rx.avail \cup rx.lost \cup rx.failed
        BY <1>3, <1>a, <3>2 DEF RxInv
      <4>2. msg[j].rx \notin {msg[i].rx} \ {NULL}
        BY <1>a, <3>2 DEF RxInv
      <4> QED
        BY <1>d, <4>1, <4>2
    <3> QED
      BY <3>1, <3>2
  <2>6. ASSUME NEW c \in Bufs
        PROVE  \/ c \in rx'.avail \cup rx'.lost \cup rx'.failed
               \/ \E k \in DOMAIN ring' : ring'[k].rx = c
               \/ \E j \in Ids : msg'[j].rx = c
    <3>1. CASE c = r.rx
      BY <1>2, <3>1
    <3>2. CASE c # r.rx
      <4>1. ASSUME NEW j \in Ids, msg[j].rx = c PROVE c \in rx'.lost \/ msg'[j].rx = c
        BY <1>3, <1>a, <1>d, <4>1
      <4> QED
        BY <1>a, <1>c, <1>d, <1>r, <3>2, <4>1 DEF RxInv
    <3> QED
      BY <3>1, <3>2
  <2> QED
    BY <1>d, <2>3, <2>4, <2>5, <2>6 DEF RxInv
<1>11. ~unclosed' => FlyInv' /\ CloseInv'
  <2>1. SUFFICES ASSUME ~unclosed PROVE FlyInv' /\ CloseInv'
    BY <1>c
  <2>2. /\ FlyInv /\ CloseInv /\ Awaits(i) /\ msg[i].rx = NULL /\ ~InTx(i) /\ ~InBackend(i)
        /\ ~InRing(i)
    BY <1>4, <1>b, <2>1 DEF Awaits, FlyInv, OneFlying
  <2>3. /\ \A j : InTx(j)' <=> InTx(j)
        /\ \A j : InBackend(j)' <=> InBackend(j)
        /\ \A j : InRing(j)' <=> InRing(j)
        /\ \A j : ~InCb(j)'
    BY <1>c, <1>d DEF InTx, InBackend, InRing, InCb
  <2>4. OneFlying'
    BY <1>c, <2>2, <2>3 DEF FlyInv, OneFlying
  <2>5. ASSUME NEW j \in Ids, Flying(j)' PROVE Awaits(j)'
    <3>1. j # i /\ Flying(j)
      BY <2>2, <2>3, <2>5 DEF Flying
    <3>2. Awaits(j) /\ msg'[j] = msg[j]
      BY <1>1, <2>2, <3>1 DEF FlyInv
    <3> QED
      BY <1>c, <3>2 DEF Awaits
  <2>6. rx'.lost = {} /\ o
    BY <1>d, <1>o, <1>r, <1>a, <2>2 DEF FlyInv
  <2>7. /\ \A q \in tx'.avail : q.kind = msg'[q.id].kind /\ ~q.old
        /\ \A q \in backend' : q.kind = msg'[q.id].kind /\ ~q.old
    <3>1. /\ \A q \in tx.avail : q.id \in Ids
          /\ \A q \in backend : q.id \in Ids
      BY <1>a, OnTheWay
    <3>2. ASSUME NEW q \in tx.avail PROVE q.kind = msg'[q.id].kind /\ ~q.old
      BY <1>3, <2>2, <3>1 DEF FlyInv
    <3>3. ASSUME NEW q \in backend PROVE q.kind = msg'[q.id].kind /\ ~q.old
      BY <1>3, <2>2, <3>1 DEF FlyInv
    <3> QED
      BY <1>c, <3>2, <3>3
  <2>8. FlyInv'
    <3>1. \A j \in Ids : msg'[j].own
      BY <1>1, <1>2, <2>2, <2>6 DEF FlyInv
    <3>2. \A k \in DOMAIN ring' : ~ring'[k].old
      BY <1>c, <2>2 DEF FlyInv
    <3> QED
      BY <1>d, <2>4, <2>5, <2>6, <2>7, <3>1, <3>2 DEF FlyInv
  <2>9. CloseInv'
    <3>1. ~Silent
      BY <1>a DEF Silent
    <3>2. ASSUME NEW k \in DOMAIN ring', msg'[ring'[k].id].kind = "close", ~ring'[k].err
          PROVE  tx'.avail = {} /\ backend' = {} /\ k = Len(ring')
      <4>1. ring[k].id \in Ids
        BY <1>a, <1>c, OnTheWay
      <4> QED
        BY <1>3, <1>c, <2>2, <3>2, <4>1 DEF CloseInv
    <3>3. ASSUME NEW j \in Ids, msg'[j].kind = "close", msg'[j].work, ~msg'[j].err
          PROVE  Silent'
      <4>1. j = i
        <5>1. CASE j # i
          BY <1>1, <2>2, <3>1, <3>3, <5>1 DEF CloseInv
        <5> QED
          BY <5>1
      <4>2. msg[i].kind = "close" /\ ~cb.rsp.err /\ i = cb.rsp.id
        BY <1>2, <1>i, <1>r, <3>3, <4>1
      <4>3. tx.avail = {} /\ backend = {} /\ ring = <<>>
        BY <1>a, <2>2, <4>2 DEF CloseInv
      <4> QED
        BY <1>c, <1>d, <4>3 DEF Silent
    <3>4. /\ \A t \in Threads : thr'[t].op = "close" =>
                 thr'[t].pc \notin {"freerx", "freemsg", "dtor"}
          /\ phase' # "closed"
      BY <1>c, <2>2, <3>1 DEF CloseInv
    <3> QED
      BY <1>d, <3>2, <3>3, <3>4 DEF CloseInv
  <2> QED
    BY <2>8, <2>9
<1>12. QueueInv'
  <2>1. unclosed' => phase' # "open"
    BY <1>a, <1>c DEF QueueInv
  <2>2. phase' = "closed" => unclosed'
    <3>1. ~Silent
      BY <1>a DEF Silent
    <3> QED
      BY <1>4, <1>c, <3>1 DEF CloseInv
  <2>3. JobsOnce'
    <3>1. SUFFICES ASSUME phase = "open" PROVE JobsOnce'
      BY <1>c DEF JobsOnce
    <3>2. ~unclosed /\ Awaits(i) /\ msg[i].rx = NULL
      BY <1>4, <1>a, <3>1 DEF QueueInv, Awaits
    <3>3. /\ async_queue_job_count = Len(queue) /\ IsInjective(queue)
          /\ \A k \in DOMAIN queue : /\ queue[k] \in Ids /\ queue[k] # i
                                     /\ msg'[queue[k]] = msg[queue[k]]
                                     /\ msg[queue[k]].live /\ msg[queue[k]].kind = "async"
                                     /\ msg[queue[k]].rx # NULL /\ msg[queue[k]].list = "pending"
          /\ DOMAIN queue = 1 .. Len(queue) /\ Len(queue) \in Nat /\ queue \in Seq(Ids)
      <4>1. /\ async_queue_job_count = Len(queue) /\ IsInjective(queue)
            /\ \A k \in DOMAIN queue : /\ msg[queue[k]].live /\ msg[queue[k]].kind = "async"
                                       /\ msg[queue[k]].rx # NULL /\ msg[queue[k]].list = "pending"
        BY <1>a, <3>1 DEF QueueInv, JobsOnce
      <4>2. /\ \A k \in DOMAIN queue : queue[k] \in Ids
            /\ DOMAIN queue = 1 .. Len(queue) /\ Len(queue) \in Nat /\ queue \in Seq(Ids)
        BY <1>a, OnTheWay DEF TypeOK
      <4> QED
        BY <1>1, <3>2, <4>1, <4>2
    <3>4. CASE msg[i].kind # "async"
      BY <1>c, <3>3, <3>4 DEF JobsOnce
    <3>5. CASE msg[i].kind = "async"
      <4>1. queue' = <<i>> \o queue /\ async_queue_job_count' = async_queue_job_count + 1
        BY <1>c, <3>5 DEF Queue
      <4>2. /\ Len(queue') = Len(queue) + 1 /\ DOMAIN queue' = 1 .. Len(queue) + 1
            /\ queue'[1] = i
            /\ \A k \in DOMAIN queue' : k # 1 => k - 1 \in DOMAIN queue /\ queue'[k] = queue[k - 1]
        BY <3>3, <4>1
      <4>3. IsInjective(queue')
        <5>1. ASSUME NEW k \in DOMAIN queue', NEW l \in DOMAIN queue', queue'[k] = queue'[l]
              PROVE  k = l
          <6>1. CASE k = 1 \/ l = 1
            BY <3>3, <4>2, <5>1, <6>1
          <6>2. CASE k # 1 /\ l # 1
            <7>1. queue[k - 1] = queue[l - 1] /\ k - 1 \in DOMAIN queue /\ l - 1 \in DOMAIN queue
              BY <4>2, <5>1, <6>2
            <7>2. k - 1 = l - 1
              BY <3>3, <7>1 DEF IsInjective
            <7> QED
              BY <3>3, <4>2, <7>2
          <6> QED
            BY <6>1, <6>2
        <5> QED
          BY <5>1 DEF IsInjective
      <4>4. msg[i].list = "pending"
        <5>1. MessageInv(i) /\ msg[i].list # "none" /\ msg[i].list \in Lists
          BY <1>b, Facts DEF MsgType
        <5>2. msg[i].list # "held"
          <6>1. SUFFICES ASSUME msg[i].list = "held" PROVE FALSE
            OBVIOUS
          <6>2. /\ msg[i].pid \in Threads /\ thr[msg[i].pid].m = i
                /\ thr[msg[i].pid].pc = "wait" /\ ThreadInv(msg[i].pid)
            BY <1>a, <1>b, <3>2, <6>1, Facts DEF HoldInv, Awaits
          <6> QED
            BY <3>5, <6>2 DEF ThreadInv
        <5> QED
          BY <1>b, <3>5, <5>1, <5>2 DEF MessageInv, Lists
      <4>5. ASSUME NEW k \in DOMAIN queue'
            PROVE  LET j == msg'[queue'[k]]
                   IN  j.live /\ j.kind = "async" /\ j.rx # NULL /\ j.list = "pending"
        <5>1. CASE k = 1
          BY <1>2, <1>b, <3>5, <4>2, <4>4, <5>1
        <5>2. CASE k # 1
          BY <3>3, <4>2, <5>2
        <5> QED
          BY <5>1, <5>2
      <4> QED
        BY <3>3, <4>1, <4>2, <4>3, <4>5 DEF JobsOnce
    <3> QED
      BY <3>4, <3>5
  <2> QED
    BY <2>1, <2>2, <2>3 DEF QueueInv
<1> QED
  BY <1>5, <1>6, <1>7, <1>8, <1>9, <1>10, <1>11, <1>12 DEF IndInv

-----------------------------------------------------------------------------
(* The theorems.                                                            *)

\* Before anything has happened.
LEMMA InitInv ==
    ASSUME Init PROVE IndInv
<1>0. /\ msg = [i \in Ids |-> NoMsg] /\ thr = [t \in Threads |-> Idle]
      /\ tx = [fresh |-> Bufs, used |-> {}, lost |-> {}, avail |-> {}]
      /\ rx = [avail |-> Bufs, lost |-> {}, failed |-> {}]
      /\ ring = <<>> /\ cb = [pc |-> "idle", rsp |-> NULL] /\ backend = {} /\ queue = <<>>
      /\ async_queue_job_count = 0 /\ phase = "open" /\ fails = 0 /\ imutex = NULL /\ irq = FALSE
      /\ unclosed = FALSE /\ init = FALSE
  BY DEF Init
<1>c. ~unclosed /\ unclosed \in BOOLEAN /\ irq \in BOOLEAN /\ init \in BOOLEAN
  BY <1>0
<1>1. /\ NoMsg \in MsgType /\ ~NoMsg.live /\ NoMsg.tx = NULL /\ NoMsg.rx = NULL /\ NoMsg.own
      /\ NoMsg.kind = "none" /\ ~NoMsg.work
  BY DEF NoMsg, MsgType, Kinds, Lists
<1>2. Idle \in ThrType /\ Idle.pc = "idle" /\ Idle.m = NULL /\ Idle.op = "none"
  BY DEF Idle, ThrType, Kinds
<1>3. /\ \A i \in Ids : msg[i] = NoMsg
      /\ \A t \in Threads : thr[t] = Idle
      /\ tx.fresh = Bufs /\ tx.used = {} /\ tx.lost = {} /\ tx.avail = {}
      /\ rx.avail = Bufs /\ rx.lost = {} /\ rx.failed = {} /\ cb.pc = "idle" /\ cb.rsp = NULL
  BY <1>0
<1>4. TypeOK
  <2>1. msg \in [Ids -> MsgType] /\ thr \in [Threads -> ThrType]
    BY <1>0, <1>1, <1>2
  <2>2. /\ tx \in [fresh : SUBSET Bufs, used : SUBSET Bufs, lost : SUBSET Bufs,
                   avail : SUBSET Requests]
        /\ rx \in [avail : SUBSET Bufs, lost : SUBSET Bufs, failed : SUBSET Bufs]
        /\ cb \in [pc : {"idle", "next", "recv"}, rsp : Answers \cup {NULL}]
        /\ ring \in Seq(Answers) /\ backend \in SUBSET Taken
    BY <1>0
  <2>3. /\ queue \in Seq(Ids) /\ async_queue_job_count \in Nat /\ fails \in 0 .. MaxFails
        /\ imutex \in Threads \cup {NULL} /\ phase \in {"open", "closing", "closed"}
    BY <1>0, ConstAssumption
  <2> QED
    BY <1>c, <2>1, <2>2, <2>3 DEF TypeOK
<1>5. HoldInv
  BY <1>1, <1>2, <1>3 DEF HoldInv, Busy
<1>6. \A t \in Threads : ThreadInv(t)
  BY <1>c, <1>2, <1>3 DEF ThreadInv
<1>7. \A i \in Ids : MessageInv(i)
  BY <1>1, <1>3 DEF MessageInv
<1>8. FlyInv
  <2>1. ring = <<>> /\ backend = {}
    BY <1>0
  <2>2. \A i \in Ids : ~Flying(i)
    BY <1>3, <2>1 DEF Flying, InTx, InBackend, InRing, InCb
  <2>3. OneFlying
    BY <1>3, <2>1, <2>2 DEF OneFlying, Flying
  <2> QED
    BY <1>1, <1>3, <2>1, <2>2, <2>3 DEF FlyInv
<1>9. CloseInv
  BY <1>0, <1>3 DEF CloseInv, Silent
<1>10. QueueInv
  <2>1. IsInjective(queue) /\ Len(queue) = 0 /\ DOMAIN queue = {}
    BY <1>0 DEF IsInjective
  <2> QED
    BY <1>0, <1>c, <2>1 DEF QueueInv, JobsOnce
<1>11. TxInv
  BY <1>0, <1>1, <1>3, ConstAssumption DEF TxInv
<1>12. RxInv
  BY <1>0, <1>1, <1>3, ConstAssumption DEF RxInv
<1> QED
  BY <1>4, <1>5, <1>6, <1>7, <1>8, <1>9, <1>10, <1>11, <1>12 DEF IndInv

\* Nothing happens.
LEMMA StutterInv ==
    ASSUME IndInv, UNCHANGED vars PROVE IndInv'
<1>1. UNCHANGED <<msg, thr, imutex, tx, rx, ring, irq, cb, backend, queue,
                  async_queue_job_count, phase, init, fails, unclosed>>
  BY DEF vars
<1>2. /\ HoldInv' /\ \A t \in Threads : ThreadInv(t)'
      /\ \A i \in Ids : MessageInv(i)'
  BY <1>1, OutsideFrame
<1>3. TypeOK' /\ TxInv' /\ RxInv'
  BY <1>1 DEF IndInv, TypeOK, TxInv, RxInv
<1>4. QueueInv'
  BY <1>1 DEF IndInv, QueueInv, JobsOnce
<1>5. ~unclosed' => CloseInv'
  BY <1>1 DEF IndInv, CloseInv, Silent
<1>6. ~unclosed' => FlyInv'
  BY <1>1 DEF IndInv, FlyInv, OneFlying, Awaits, Flying, InTx, InBackend, InRing, InCb
<1> QED
  BY <1>2, <1>3, <1>4, <1>5, <1>6 DEF IndInv

\* The conjunction of all parts is inductive: every step of a thread, of the
\* callback and of the backend keeps it.
THEOREM Invariance == Spec => []IndInv
<1>1. Init => IndInv
  BY InitInv
<1>2. IndInv /\ [Next]_vars => IndInv'
  <2> SUFFICES ASSUME IndInv, [Next]_vars PROVE IndInv'
    OBVIOUS
  <2>1. CASE UNCHANGED vars
    BY <2>1, StutterInv
  <2>2. ASSUME NEW t \in Threads, Start(t) PROVE IndInv'
    BY <2>2, StartStep, RestoreStep, ReleaseStep DEF Start
  <2>3. ASSUME NEW t \in Threads, Step(t) PROVE IndInv'
    <3>1. CASE LockMap(t) \/ AllocId(t) \/ AllocFull(t) \/ NoTxBuf(t) \/ NoMessage(t)
      BY <3>1, LockStep, AllocStep, NoTxStep, TurnStep
    <3>2. CASE GetTxBuf(t) \/ Send(t) \/ SendFail(t) \/ CopyFail(t)
      BY <3>2, GetTxStep, SendStep, LoseStep DEF SendFail, CopyFail
    <3>3. CASE PutArgs(t) \/ CmdDone(t) \/ CloseDone(t) \/ FreeRx(t) \/ FreeMsg(t)
      BY <3>3, AnsweredStep, FreeRxStep, FreeMsgStep
    <3>4. CASE AsyncTake(t) \/ FreeNext(t) \/ ReleaseEnd(t)
      BY <3>4, TurnStep, TakeStep, FreeNextStep, ReleaseEndStep
    <3> QED
      BY <2>3, <3>1, <3>2, <3>3, <3>4 DEF Step, Proceed
  <2>4. ASSUME NEW t \in Threads, Signal(t) \/ AsyncWake(t) PROVE IndInv'
    BY <2>4, SaveStep, TurnStep DEF Signal
  <2>5. CASE CbGet \/ CbRecv \/ CbMismatch \/ Open
    BY <2>5, CbGetStep, CbRecvStep, CbLostStep, CbMismatchStep, OpenStep
  <2>6. CASE BeTake \/ BeDrop \/ \E i \in Ids : BeReply(i)
    BY <2>6, BeTakeStep, BeDropStep, BeReplyStep
  <2> QED
    BY <2>1, <2>2, <2>3, <2>4, <2>5, <2>6 DEF Next
<1> QED
  BY <1>1, <1>2, PTL DEF Spec

\* Every variable has its type.
THEOREM TypeCorrect == Spec => []TypeOK
<1>1. IndInv => TypeOK
  BY DEF IndInv
<1> QED
  BY <1>1, Invariance, PTL

\* The queue of finished asynchronous calls has each of them once, and its
\* counter counts them (vfastrpc_queue_completed_async_job,
\* vfastrpc_wait_on_async_queue).
THEOREM JobsAreOnce == Spec => []JobsOnce
<1>1. IndInv => JobsOnce
  BY DEF IndInv, QueueInv
<1> QED
  BY <1>1, Invariance, PTL

\* An answer reaches the message it answers, and every live message has one holder
\* (recv_single, virt_free_msg).
THEOREM AnswersReachOwner == Spec => []ReplyToOwn
<1>1. ASSUME IndInv PROVE ReplyToOwn
  <2>1. SUFFICES ASSUME ~unclosed PROVE ReplyToOwn
    BY DEF ReplyToOwn
  <2>2. FlyInv /\ HoldInv /\ TypeOK
    BY <2>1, <1>1 DEF IndInv
  <2>3. \A i \in Ids : msg[i].own
    BY <2>2 DEF FlyInv
  <2>4. ASSUME NEW i \in Ids, msg[i].live
        PROVE  Cardinality({t \in Threads : thr[t].m = i}) = IF msg[i].list = "held" THEN 1 ELSE 0
    <3>1. \A t \in Threads : thr[t].m = i => msg[i].list = "held" /\ msg[i].pid = t
      BY <1>1, <2>2, Facts DEF HoldInv
    <3>2. CASE msg[i].list = "held"
      <4>1. msg[i].pid \in Threads /\ thr[msg[i].pid].m = i
        BY <2>2, <2>4, <3>2 DEF HoldInv
      <4>2. {t \in Threads : thr[t].m = i} = {msg[i].pid}
        BY <3>1, <4>1
      <4> QED
        BY <3>2, <4>2, FS_Singleton
    <3>3. CASE msg[i].list # "held"
      <4>1. {t \in Threads : thr[t].m = i} = {}
        BY <3>1, <3>3
      <4> QED
        BY <3>3, <4>1, FS_EmptySet
    <3> QED
      BY <3>2, <3>3
  <2>5. \A t \in Threads : thr[t].m # NULL => msg[thr[t].m].live
    BY <2>2 DEF HoldInv
  <2>6. cb.rsp # NULL => msg[cb.rsp.id].live /\ ~cb.rsp.old
    BY <2>2, OnTheWay DEF FlyInv, Awaits
  <2> QED
    BY <2>3, <2>4, <2>5, <2>6 DEF ReplyToOwn
<1> QED
  BY <1>1, Invariance, PTL

\* The failures of a queue, of a length and of a copy are what buffers went astray by.
LossInv ==
    /\ IsFiniteSet(tx.lost) /\ IsFiniteSet(rx.failed)
    /\ Cardinality(tx.lost) + Cardinality(rx.failed) <= fails

\* A step without such a failure loses nothing; one with it, one buffer.
LEMMA LossCount ==
    ASSUME TypeOK, LossInv, NEW b,
           \/ /\ tx'.lost = tx.lost /\ rx'.failed = rx.failed
              /\ fails' \in {fails, fails + 1}
           \/ /\ fails' = fails + 1
              /\ \/ tx'.lost = tx.lost \cup {b} /\ rx'.failed = rx.failed
                 \/ tx'.lost = tx.lost /\ rx'.failed = rx.failed \cup {b}
    PROVE  LossInv'
<1>1. /\ IsFiniteSet(tx.lost) /\ IsFiniteSet(rx.failed)
      /\ Cardinality(tx.lost) \in Nat /\ Cardinality(rx.failed) \in Nat
      /\ Cardinality(tx.lost) + Cardinality(rx.failed) <= fails /\ fails \in Nat
  BY FS_CardinalityType, ConstAssumption DEF LossInv, TypeOK
<1>2. /\ IsFiniteSet(tx.lost \cup {b}) /\ Cardinality(tx.lost \cup {b}) \in Nat
      /\ Cardinality(tx.lost \cup {b}) <= Cardinality(tx.lost) + 1
  <2>1. /\ IsFiniteSet(tx.lost \cup {b})
        /\ \/ Cardinality(tx.lost \cup {b}) = Cardinality(tx.lost)
           \/ Cardinality(tx.lost \cup {b}) = Cardinality(tx.lost) + 1
    BY <1>1, FS_AddElement
  <2> QED
    BY <1>1, <2>1
<1>3. /\ IsFiniteSet(rx.failed \cup {b}) /\ Cardinality(rx.failed \cup {b}) \in Nat
      /\ Cardinality(rx.failed \cup {b}) <= Cardinality(rx.failed) + 1
  <2>1. /\ IsFiniteSet(rx.failed \cup {b})
        /\ \/ Cardinality(rx.failed \cup {b}) = Cardinality(rx.failed)
           \/ Cardinality(rx.failed \cup {b}) = Cardinality(rx.failed) + 1
    BY <1>1, FS_AddElement
  <2> QED
    BY <1>1, <2>1
<1>4. CASE tx'.lost = tx.lost /\ rx'.failed = rx.failed /\ fails' \in {fails, fails + 1}
  BY <1>1, <1>4 DEF LossInv
<1>5. CASE tx'.lost = tx.lost \cup {b} /\ rx'.failed = rx.failed /\ fails' = fails + 1
  BY <1>1, <1>2, <1>5 DEF LossInv
<1>6. CASE tx'.lost = tx.lost /\ rx'.failed = rx.failed \cup {b} /\ fails' = fails + 1
  BY <1>1, <1>3, <1>6 DEF LossInv
<1> QED
  BY <1>4, <1>5, <1>6

\* The steps of a thread.
LEMMA LossThread ==
    ASSUME TypeOK, LossInv, NEW t \in Threads, Start(t) \/ Step(t) \/ Signal(t) \/ AsyncWake(t)
    PROVE  LossInv'
<1>a. /\ tx \in [fresh : SUBSET Bufs, used : SUBSET Bufs, lost : SUBSET Bufs,
                 avail : SUBSET Requests]
      /\ rx \in [avail : SUBSET Bufs, lost : SUBSET Bufs, failed : SUBSET Bufs]
  BY DEF TypeOK
<1>1. CASE Start(t)
  <2>1. UNCHANGED <<tx, rx, fails>>
    BY <1>1 DEF Start, StartCtl, StartMap, StartInvoke, StartGetAsync, Enter, Restore, Release
  <2> QED
    BY <2>1, LossCount
<1>2. CASE Signal(t) \/ AsyncWake(t)
  <2>1. UNCHANGED <<tx, rx>> /\ fails' \in {fails, fails + 1}
    BY <1>2 DEF Signal, SaveInvoke, SaveCmd, Save, AsyncInterrupted, AsyncWake
  <2> QED
    BY <2>1, LossCount
<1>3. CASE LockMap(t) \/ AllocId(t) \/ AllocFull(t) \/ NoTxBuf(t) \/ NoMessage(t)
  <2>1. UNCHANGED <<tx, rx, fails>>
    BY <1>3 DEF LockMap, AllocId, AllocFull, NoTxBuf, NoMessage
  <2> QED
    BY <2>1, LossCount
<1>4. CASE GetTxBuf(t) \/ Send(t)
  <2>1. tx'.lost = tx.lost
    BY <1>4, <1>a DEF GetTxBuf, Send
  <2>2. UNCHANGED <<rx, fails>>
    BY <1>4 DEF GetTxBuf, Send
  <2> QED
    BY <2>1, <2>2, LossCount
<1>5. CASE SendFail(t) \/ CopyFail(t)
  <2>1. LoseTx(t)
    BY <1>5 DEF SendFail, CopyFail
  <2>2. tx'.lost = tx.lost \cup {msg[thr[t].m].tx} /\ rx' = rx /\ fails' = fails + 1
    BY <1>a, <2>1 DEF LoseTx
  <2> QED
    BY <2>2, LossCount
<1>6. CASE FreeRx(t)
  <2>1. UNCHANGED tx
    BY <1>6 DEF FreeRx
  <2>2. \/ rx'.failed = rx.failed /\ fails' = fails
        \/ rx'.failed = rx.failed \cup {msg[thr[t].m].rx} /\ fails' = fails + 1
    BY <1>6, <1>a DEF FreeRx
  <2> QED
    BY <2>1, <2>2, LossCount
<1>7. CASE FreeMsg(t)
  <2>1. tx'.lost = tx.lost /\ rx'.failed = rx.failed
    BY <1>7, <1>a DEF FreeMsg
  <2>2. fails' = fails
    BY <1>7 DEF FreeMsg
  <2> QED
    BY <2>1, <2>2, LossCount
<1>8. CASE PutArgs(t) \/ CmdDone(t) \/ CloseDone(t) \/ AsyncTake(t) \/ FreeNext(t) \/ ReleaseEnd(t)
  <2>1. UNCHANGED <<tx, rx, fails>>
    BY <1>8 DEF PutArgs, CmdDone, CloseDone, Answered, AsyncTake, FreeNext, ReleaseEnd
  <2> QED
    BY <2>1, LossCount
<1> QED
  BY <1>1, <1>2, <1>3, <1>4, <1>5, <1>6, <1>7, <1>8 DEF Step, Proceed

\* Each failure of a queue, of a length or of a copy costs at most one buffer
\* (vfastrpc_txbuf_send, vfastrpc_rxbuf_send, recv_single, get_args).
THEOREM LossBounded == Spec => []LossInv
<1>1. Init => LossInv
  <2> SUFFICES ASSUME Init PROVE LossInv
    OBVIOUS
  <2>1. tx.lost = {} /\ rx.failed = {} /\ fails = 0
    BY DEF Init
  <2>2. IsFiniteSet({}) /\ Cardinality({}) = 0
    BY FS_EmptySet
  <2> QED
    BY <2>1, <2>2 DEF LossInv
<1>2. TypeOK /\ LossInv /\ [Next]_vars => LossInv'
  <2> SUFFICES ASSUME TypeOK, LossInv, [Next]_vars PROVE LossInv'
    OBVIOUS
  <2>a. /\ tx \in [fresh : SUBSET Bufs, used : SUBSET Bufs, lost : SUBSET Bufs,
                   avail : SUBSET Requests]
        /\ rx \in [avail : SUBSET Bufs, lost : SUBSET Bufs, failed : SUBSET Bufs]
    BY DEF TypeOK
  <2>1. ASSUME NEW t \in Threads, Start(t) \/ Step(t) \/ Signal(t) \/ AsyncWake(t) PROVE LossInv'
    BY <2>1, LossThread
  <2>2. CASE CbGet \/ Open \/ BeDrop \/ UNCHANGED vars
    <3>1. UNCHANGED <<tx, rx, fails>>
      BY <2>2 DEF CbGet, Open, BeDrop, vars
    <3> QED
      BY <3>1, LossCount
  <2>3. CASE CbRecv
    <3>1. UNCHANGED <<tx, fails>> /\ rx'.failed = rx.failed
      BY <2>3, <2>a DEF CbRecv
    <3> QED
      BY <3>1, LossCount
  <2>4. CASE CbMismatch
    <3>1. UNCHANGED tx /\ rx'.failed = rx.failed \cup {cb.rsp.rx} /\ fails' = fails + 1
      BY <2>4, <2>a DEF CbMismatch
    <3> QED
      BY <3>1, LossCount
  <2>5. CASE BeTake
    <3>1. UNCHANGED <<rx, fails>> /\ tx'.lost = tx.lost
      BY <2>5, <2>a DEF BeTake
    <3> QED
      BY <3>1, LossCount
  <2>6. ASSUME NEW i \in Ids, BeReply(i) PROVE LossInv'
    <3>1. UNCHANGED <<tx, fails>> /\ rx'.failed = rx.failed
      BY <2>6, <2>a DEF BeReply
    <3> QED
      BY <3>1, LossCount
  <2> QED
    BY <2>1, <2>2, <2>3, <2>4, <2>5, <2>6 DEF Next
<1> QED
  BY <1>1, <1>2, TypeCorrect, PTL DEF Spec

\* Every transmit and every receive buffer is in exactly one place; each failure
\* costs one buffer, and a receive buffer is lost in no other way until a session
\* is released that the backend has not closed (get_a_tx_buf,
\* vfastrpc_txbuf_send, vfastrpc_rxbuf_send, recv_done).
THEOREM BuffersInOnePlace == Spec => []BuffersAccounted
<1>1. ASSUME IndInv, LossInv PROVE BuffersAccounted
  <2>1. TxInv /\ RxInv /\ TypeOK
    BY <1>1 DEF IndInv
  <2>2. ASSUME NEW b \in Bufs PROVE Cardinality(TxPlaces(b)) = 1
    <3>0. b # NULL
      BY ConstAssumption
    <3>l. PICK L : L = {<<p>> : p \in {q \in {"fresh", "used", "lost"} : b \in tx[q]}}
      OBVIOUS
    <3>r. PICK R : R = {<<"ring", r.id, r.old>> : r \in {r \in tx.avail : r.tx = b}}
      OBVIOUS
    <3>m. PICK M : M = {<<"msg", i>> : i \in {i \in Ids : msg[i].tx = b}}
      OBVIOUS
    <3>1. TxPlaces(b) = L \cup R \cup M
      BY <3>l, <3>r, <3>m DEF TxPlaces
    <3>2. /\ b \notin tx.fresh \cup tx.used \cup tx.lost => L = {}
          /\ (\A r \in tx.avail : r.tx # b) => R = {}
          /\ (\A i \in Ids : msg[i].tx # b) => M = {}
      <4>1. b \notin tx.fresh \cup tx.used \cup tx.lost => L = {}
        BY <3>l
      <4>2. (\A r \in tx.avail : r.tx # b) => R = {}
        BY <3>r
      <4>3. (\A i \in Ids : msg[i].tx # b) => M = {}
        BY <3>m
      <4> QED
        BY <4>1, <4>2, <4>3
    <3>3. CASE b \in tx.fresh \cup tx.used \cup tx.lost
      <4>1. R = {} /\ M = {}
        BY <2>1, <3>2, <3>3 DEF TxInv
      <4>2. PICK p \in {"fresh", "used", "lost"} : b \in tx[p]
        BY <3>3
      <4>3. \A q \in {"fresh", "used", "lost"} : b \in tx[q] => q = p
        BY <2>1, <4>2 DEF TxInv
      <4>4. L = {<<p>>}
        BY <3>l, <4>2, <4>3
      <4>5. TxPlaces(b) = {<<p>>}
        BY <3>1, <4>1, <4>4
      <4> QED
        BY <4>5, FS_Singleton
    <3>4. CASE \E r \in tx.avail : r.tx = b
      <4>1. PICK r \in tx.avail : r.tx = b
        BY <3>4
      <4>2. L = {} /\ M = {}
        BY <2>1, <3>2, <4>1 DEF TxInv
      <4>3. \A q \in tx.avail : q.tx = b => q = r
        BY <2>1, <4>1 DEF TxInv
      <4>4. R = {<<"ring", r.id, r.old>>}
        BY <3>r, <4>1, <4>3
      <4>5. TxPlaces(b) = {<<"ring", r.id, r.old>>}
        BY <3>1, <4>2, <4>4
      <4> QED
        BY <4>5, FS_Singleton
    <3>5. CASE \E i \in Ids : msg[i].tx = b
      <4>1. PICK i \in Ids : msg[i].tx = b
        BY <3>5
      <4>2. L = {} /\ R = {}
        BY <2>1, <3>2, <4>1 DEF TxInv
      <4>3. \A j \in Ids : msg[j].tx = b => j = i
        BY <2>1, <3>0, <4>1 DEF TxInv
      <4>4. M = {<<"msg", i>>}
        BY <3>m, <4>1, <4>3
      <4>5. TxPlaces(b) = {<<"msg", i>>}
        BY <3>1, <4>2, <4>4
      <4> QED
        BY <4>5, FS_Singleton
    <3> QED
      BY <2>1, <3>3, <3>4, <3>5 DEF TxInv
  <2>3. ASSUME NEW b \in Bufs PROVE Cardinality(RxPlaces(b)) = 1
    <3>0. b # NULL
      BY ConstAssumption
    <3>l. PICK L : L = {<<p>> : p \in {q \in {"avail", "lost", "failed"} : b \in rx[q]}}
      OBVIOUS
    <3>r. PICK R : R = {<<"ring", k>> : k \in {k \in DOMAIN ring : ring[k].rx = b}}
      OBVIOUS
    <3>c. PICK C : C = {<<"cb">> : r \in {r \in {cb.rsp} \ {NULL} : r.rx = b}}
      OBVIOUS
    <3>m. PICK M : M = {<<"msg", i>> : i \in {i \in Ids : msg[i].rx = b}}
      OBVIOUS
    <3>1. RxPlaces(b) = L \cup R \cup C \cup M
      BY <3>l, <3>r, <3>c, <3>m DEF RxPlaces
    <3>2. /\ b \notin rx.avail \cup rx.lost \cup rx.failed => L = {}
          /\ (\A k \in DOMAIN ring : ring[k].rx # b) => R = {}
          /\ ~(cb.rsp # NULL /\ cb.rsp.rx = b) => C = {}
          /\ (\A i \in Ids : msg[i].rx # b) => M = {}
      <4>1. b \notin rx.avail \cup rx.lost \cup rx.failed => L = {}
        BY <3>l
      <4>2. (\A k \in DOMAIN ring : ring[k].rx # b) => R = {}
        BY <3>r
      <4>3. (\A i \in Ids : msg[i].rx # b) => M = {}
        BY <3>m
      <4>4. ~(cb.rsp # NULL /\ cb.rsp.rx = b) => C = {}
        BY <3>c
      <4> QED
        BY <4>1, <4>2, <4>3, <4>4
    <3>3. CASE b \in rx.avail \cup rx.lost \cup rx.failed
      <4>1. R = {} /\ C = {} /\ M = {}
        BY <2>1, <3>2, <3>3 DEF RxInv
      <4>2. PICK p \in {"avail", "lost", "failed"} : b \in rx[p]
        BY <3>3
      <4>3. \A q \in {"avail", "lost", "failed"} : b \in rx[q] => q = p
        BY <2>1, <4>2 DEF RxInv
      <4>4. L = {<<p>>}
        BY <3>l, <4>2, <4>3
      <4>5. RxPlaces(b) = {<<p>>}
        BY <3>1, <4>1, <4>4
      <4> QED
        BY <4>5, FS_Singleton
    <3>4. CASE \E k \in DOMAIN ring : ring[k].rx = b
      <4>1. PICK k \in DOMAIN ring : ring[k].rx = b
        BY <3>4
      <4>2. L = {} /\ C = {} /\ M = {}
        BY <2>1, <3>2, <4>1 DEF RxInv
      <4>3. \A l \in DOMAIN ring : ring[l].rx = b => l = k
        BY <2>1, <4>1 DEF RxInv
      <4>4. R = {<<"ring", k>>}
        BY <3>r, <4>1, <4>3
      <4>5. RxPlaces(b) = {<<"ring", k>>}
        BY <3>1, <4>2, <4>4
      <4> QED
        BY <4>5, FS_Singleton
    <3>5. CASE cb.rsp # NULL /\ cb.rsp.rx = b
      <4>1. L = {} /\ R = {} /\ M = {}
        BY <2>1, <3>2, <3>5 DEF RxInv
      <4>2. C = {<<"cb">>}
        BY <3>c, <3>5
      <4>3. RxPlaces(b) = {<<"cb">>}
        BY <3>1, <4>1, <4>2
      <4> QED
        BY <4>3, FS_Singleton
    <3>6. CASE \E i \in Ids : msg[i].rx = b
      <4>1. PICK i \in Ids : msg[i].rx = b
        BY <3>6
      <4>2. L = {} /\ R = {} /\ C = {}
        BY <2>1, <3>2, <4>1 DEF RxInv
      <4>3. \A j \in Ids : msg[j].rx = b => j = i
        BY <2>1, <3>0, <4>1 DEF RxInv
      <4>4. M = {<<"msg", i>>}
        BY <3>m, <4>1, <4>3
      <4>5. RxPlaces(b) = {<<"msg", i>>}
        BY <3>1, <4>2, <4>4
      <4> QED
        BY <4>5, FS_Singleton
    <3> QED
      BY <2>1, <3>3, <3>4, <3>5, <3>6 DEF RxInv
  <2>4. Cardinality(tx.lost) + Cardinality(rx.failed) <= fails
    BY <1>1 DEF LossInv
  <2>5. rx.lost # {} => unclosed
    BY <1>1 DEF IndInv, FlyInv
  <2> QED
    BY <2>2, <2>3, <2>4, <2>5 DEF BuffersAccounted
<1> QED
  BY <1>1, Invariance, LossBounded, PTL
====

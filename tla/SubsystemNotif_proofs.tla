------------------------ MODULE SubsystemNotif_proofs ------------------------
(***************************************************************************)
(* SubsystemNotif implements RestartPhases, and its two invariants, for    *)
(* any device tree, any number of events and any way they interleave with  *)
(* the probe, the removal, the interrupts and the work queue.              *)
(***************************************************************************)
EXTENDS SubsystemNotif, SequenceTheorems, TLAPS

\* The types of what the host, the interrupt and the worker share; the driver's
\* own life-cycle (probe, wq, irq, ready, chain) only restricts the steps.
Types ==
    /\ reg \in [Virtual -> 0 .. 8]
    /\ ack \in [Virtual -> BOOLEAN]
    /\ events \in [Virtual -> [n : Nat, phase : 0 .. 3]]
    /\ count \in [Virtual -> Nat]
    /\ last \in [Virtual -> 0 .. 3]
    /\ queue \in Seq(Virtual)
    /\ work \in [pc : {"idle", "read", "notify", "answer"},
                 s : Virtual \cup {NULL}, state : {0, 1, 2, 3, 255}]
    /\ waits \in BOOLEAN
    /\ (work.pc = "idle") <=> (work.s = NULL)

\* A work item is in the queue at most once.
QueuedOnce ==
    \A i, j \in 1 .. Len(queue) : queue[i] = queue[j] => i = j

\* With a host that waits, an event is in one place only: on the interrupt
\* line, in the work queue or in the hands of the worker; and in none of them
\* once it is answered.  The worker has converted what the register holds.
OneCarrier ==
    waits =>
        /\ \A s \in Virtual :
            /\ ack[s] => s \notin line /\ ~Contains(queue, s) /\ work.s # s
            /\ work.s = s => s \notin line /\ ~Contains(queue, s)
            /\ ~(s \in line /\ Contains(queue, s))
        /\ work.pc = "notify" => work.state = SsrType(reg[work.s])

\* The host has raised a phase the clients have not been told of.
Due(s) ==
    ~ack[s] /\ reg[s] < 4 /\ ~(work.s = s /\ work.pc = "answer")

\* With a host that waits, clients are at most one phase behind, and the number
\* of phases they were told of says which one is next.
InStep ==
    waits => \A s \in Virtual :
        IF Due(s)
        THEN reg[s] = events[s].phase /\ count[s] % 4 = events[s].phase
        ELSE /\ count[s] % 4 = (events[s].phase + 1) % 4
             /\ Told(s, events[s].phase)

\* Nothing newer is on its way for s: what the worker holds is the register's
\* state, what it has passed on is what the clients know.
Caught(s) ==
    events[s].n > 0 /\ s \notin line \cup lost /\ ~Contains(queue, s)
        /\ reg[s] \in 0 .. 3
CatchesUp ==
    \A s \in Virtual : Caught(s) =>
        /\ work.s = s /\ work.pc = "notify" => work.state = SsrType(reg[s])
        /\ work.s # s \/ work.pc = "answer" => Told(s, reg[s])

IndInv == Types /\ QueuedOnce /\ OneCarrier /\ InStep /\ CatchesUp

-----------------------------------------------------------------------------

\* The switch of the work function and the order of a restart agree.
LEMMA Conversion ==
    \A e \in 0 .. 8 : IF e < 4 THEN SsrType(e) = Phases!Round[e + 1] /\ SsrType(e) \in 0 .. 3
                      ELSE SsrType(e) = 255
  BY DEF SsrType, Phases!Round, Phases!BEFORE_POWERUP, Phases!AFTER_POWERUP,
         Phases!BEFORE_SHUTDOWN, Phases!AFTER_SHUTDOWN

\* What queue_work and the worker do to the set of pending items.
LEMMA PutQueue ==
    ASSUME NEW q \in Seq(Virtual), NEW s \in Virtual
    PROVE  /\ Append(q, s) \in Seq(Virtual)
           /\ \A x : Contains(Append(q, s), x) <=> (Contains(q, x) \/ x = s)
           /\ ~Contains(q, s) /\ (\A i, j \in 1 .. Len(q) : q[i] = q[j] => i = j)
              => \A i, j \in 1 .. Len(Append(q, s)) :
                     Append(q, s)[i] = Append(q, s)[j] => i = j
  BY AppendProperties DEF Contains

\* Taking the head of a queue without duplicates.
LEMMA TakeQueue ==
    ASSUME NEW q \in Seq(Virtual), q # <<>>,
           \A i, j \in 1 .. Len(q) : q[i] = q[j] => i = j
    PROVE  /\ Head(q) \in Virtual /\ Contains(q, Head(q)) /\ Tail(q) \in Seq(Virtual)
           /\ \A x : Contains(Tail(q), x) <=> (Contains(q, x) /\ x # Head(q))
           /\ \A i, j \in 1 .. Len(Tail(q)) : Tail(q)[i] = Tail(q)[j] => i = j
<1>1. /\ Len(q) \in Nat \ {0} /\ Len(Tail(q)) = Len(q) - 1
      /\ Head(q) = q[1] /\ \A i \in 1 .. Len(Tail(q)) : Tail(q)[i] = q[i + 1]
      /\ Tail(q) \in Seq(Virtual) /\ Head(q) \in Virtual
  BY HeadTailProperties, LenProperties, EmptySeq
<1>2. ASSUME NEW x, Contains(q, x), x # Head(q) PROVE Contains(Tail(q), x)
  <2>1. PICK i \in 1 .. Len(q) : q[i] = x
    BY <1>2 DEF Contains
  <2>2. i - 1 \in 1 .. Len(Tail(q)) /\ Tail(q)[i - 1] = x
    BY <1>1, <1>2, <2>1
  <2> QED
    BY <2>2 DEF Contains
<1>3. ASSUME NEW x, Contains(Tail(q), x) PROVE Contains(q, x) /\ x # Head(q)
  <2>1. PICK i \in 1 .. Len(Tail(q)) : Tail(q)[i] = x
    BY <1>3 DEF Contains
  <2>2. i + 1 \in 1 .. Len(q) /\ 1 \in 1 .. Len(q) /\ q[i + 1] = x
    BY <1>1, <2>1
  <2> QED
    BY <1>1, <2>1, <2>2 DEF Contains
<1>4. Contains(q, Head(q))
  BY <1>1 DEF Contains
<1>5. \A i, j \in 1 .. Len(Tail(q)) : Tail(q)[i] = Tail(q)[j] => i = j
  BY <1>1
<1> QED
  BY <1>1, <1>2, <1>3, <1>4, <1>5

-----------------------------------------------------------------------------
\* The inductive invariant holds when the driver is loaded.
LEMMA InitInv == Init => IndInv
<1> SUFFICES ASSUME Init PROVE IndInv
  OBVIOUS
<1>1. ~Contains(queue, 0) /\ \A x : ~Contains(queue, x)
  BY DEF Init, Contains
<1>2. Types
  BY NotifAssumption DEF Init, Types, IdleWork
<1>3. QueuedOnce
  BY DEF Init, QueuedOnce
<1>4. OneCarrier
  BY <1>1, NotifAssumption DEF Init, OneCarrier, IdleWork
<1>5. InStep
  BY DEF Init, InStep, Due, Told, Phases!Round, Phases!AFTER_POWERUP
<1>6. CatchesUp
  BY DEF Init, CatchesUp, Caught
<1> QED
  BY <1>2, <1>3, <1>4, <1>5, <1>6 DEF IndInv

\* Probe, removal and the guest's own subsystems touch nothing the invariant
\* is about.
LEMMA DriverStep ==
    Probe \/ RemoveDriver \/ Teardown \/ (\E s \in Native : NativeCallback(s))
        => UNCHANGED <<line, host, ack, queue, work, client, lost>>
  BY DEF Probe, RequestIrq, InitWork, RegisterNative, ChildFails, RemoveDriver,
         Teardown, DestroyWq, Release, NativeCallback

\* A step that touches no event keeps the invariant.
LEMMA QuietStep ==
    ASSUME IndInv, UNCHANGED <<line, host, ack, queue, work, client, lost>>
    PROVE  IndInv'
  BY DEF IndInv, Types, QueuedOnce, OneCarrier, InStep, Due, CatchesUp, Caught,
         Told, host, client

\* The host raises an event.
LEMMA HostStep ==
    ASSUME IndInv, NEW s \in Virtual, HostEvent(s) PROVE IndInv'
<1> PICK e \in {(events[s].phase + 1) % 4, OtherEvent} :
        /\ reg' = [reg EXCEPT ![s] = e]
        /\ events' = [events EXCEPT ![s] =
               [n |-> @.n + 1, phase |-> IF e < 4 THEN e ELSE @.phase]]
  BY DEF HostEvent
<1>0. /\ ack' = [ack EXCEPT ![s] = FALSE] /\ line' = line \cup {s}
      /\ UNCHANGED <<queue, work, waits, count, last, lost>>
      /\ waits => ack[s]
  BY DEF HostEvent, MayRaise, client
<1> USE DEF IndInv
<1>1. e \in 0 .. 8 /\ (e < 4 => e = (events[s].phase + 1) % 4 /\ e \in 0 .. 3)
  <2>1. events[s].phase \in 0 .. 3
    BY DEF Types
  <2>2. (events[s].phase + 1) % 4 \in 0 .. 3
    BY <2>1
  <2> QED
    BY <2>2, NotifAssumption
<1>2. /\ events'[s].n \in Nat /\ events'[s].phase = IF e < 4 THEN e ELSE events[s].phase
      /\ \A u \in Virtual \ {s} : events'[u] = events[u] /\ reg'[u] = reg[u] /\ ack'[u] = ack[u]
      /\ reg'[s] = e /\ ~ack'[s]
  BY <1>0, <1>1 DEF Types
<1>3. Types'
  BY <1>0, <1>1 DEF Types
<1>4. QueuedOnce'
  BY <1>0 DEF QueuedOnce
<1>5. OneCarrier'
  BY <1>0, <1>2 DEF OneCarrier, Types
<1>6. InStep'
  <2> SUFFICES ASSUME waits, NEW u \in Virtual
               PROVE  IF Due(u)'
                      THEN reg'[u] = events'[u].phase /\ count[u] % 4 = events'[u].phase
                      ELSE /\ count[u] % 4 = (events'[u].phase + 1) % 4
                           /\ Told(u, events'[u].phase)
    BY <1>0 DEF InStep, Told
  <2>1. CASE u # s
    BY <1>0, <1>2, <2>1 DEF InStep, Due
  <2>2. CASE u = s
    <3>1. ack[s] /\ ~Due(s) /\ work.s # s
      BY <1>0 DEF Due, OneCarrier
    <3>2. count[s] % 4 = (events[s].phase + 1) % 4 /\ Told(s, events[s].phase)
      BY <3>1 DEF InStep
    <3> QED
      BY <1>0, <1>1, <1>2, <2>2, <3>1, <3>2 DEF Due
  <2> QED
    BY <2>1, <2>2
<1>7. CatchesUp'
  BY <1>0, <1>2 DEF CatchesUp, Caught, Told
<1> QED
  BY <1>3, <1>4, <1>5, <1>6, <1>7

\* The interrupt thread queues the work item, or cannot.
LEMMA IrqStep ==
    ASSUME IndInv, NEW s \in Virtual, IrqHandler(s) PROVE IndInv'
<1> USE DEF IndInv
<1>0. /\ s \in line /\ line' = line \ {s}
      /\ UNCHANGED <<reg, waits, events, ack, work, count, last>>
      /\ \/ lost' = lost \cup {s} /\ queue' = queue
         \/ lost' = lost /\ queue' = IF Contains(queue, s) THEN queue ELSE Append(queue, s)
  BY DEF IrqHandler, host, client
<1>1. /\ queue' \in Seq(Virtual) /\ QueuedOnce'
      /\ \A x : x # s => (Contains(queue', x) <=> Contains(queue, x))
      /\ s \in lost' \/ Contains(queue', s)
  <2>1. CASE lost' = lost \cup {s} /\ queue' = queue
    BY <2>1 DEF Types, QueuedOnce
  <2>2. CASE lost' = lost /\ queue' = queue /\ Contains(queue, s)
    BY <2>2 DEF Types, QueuedOnce
  <2>3. CASE queue' = Append(queue, s) /\ ~Contains(queue, s)
    BY <2>3, PutQueue DEF Types, QueuedOnce
  <2> QED
    BY <1>0, <2>1, <2>2, <2>3
<1>2. Types'
  BY <1>0, <1>1 DEF Types
<1>3. OneCarrier'
  BY <1>0, <1>1 DEF OneCarrier
<1>4. InStep'
  BY <1>0 DEF InStep, Due, Told
<1>5. CatchesUp'
  <2> SUFFICES ASSUME NEW u \in Virtual, Caught(u)'
               PROVE  /\ work.s = u /\ work.pc = "notify" => work.state = SsrType(reg[u])
                      /\ work.s # u \/ work.pc = "answer" => Told(u, reg[u])
    BY <1>0 DEF CatchesUp, Told
  <2>1. u # s
    BY <1>0, <1>1 DEF Caught
  <2>2. Caught(u)
    BY <1>0, <1>1, <2>1 DEF Caught
  <2> QED
    BY <2>2 DEF CatchesUp
<1> QED
  BY <1>1, <1>2, <1>3, <1>4, <1>5

\* The worker takes an item, reads the register, calls the clients, answers.
LEMMA WorkStartStep == ASSUME IndInv, WorkStart PROVE IndInv'
<1> USE DEF IndInv
<1>0. /\ queue # <<>> /\ queue' = Tail(queue)
      /\ work' = [pc |-> "read", s |-> Head(queue), state |-> 0]
      /\ work.pc = "idle" /\ work.s = NULL
      /\ UNCHANGED <<reg, waits, events, line, ack, count, last, lost>>
  BY DEF WorkStart, host, client, Types
<1>1. /\ Head(queue) \in Virtual /\ Contains(queue, Head(queue))
      /\ queue' \in Seq(Virtual) /\ QueuedOnce'
      /\ \A x : Contains(queue', x) <=> (Contains(queue, x) /\ x # Head(queue))
  BY <1>0, TakeQueue DEF Types, QueuedOnce
<1>2. NULL \notin Virtual
  BY NotifAssumption
<1>3. Types'
  BY <1>0, <1>1, <1>2 DEF Types
<1>4. OneCarrier'
  BY <1>0, <1>1, <1>2 DEF OneCarrier
<1>5. InStep'
  BY <1>0, <1>2 DEF InStep, Due, Told
<1>6. CatchesUp'
  BY <1>0, <1>1, <1>2 DEF CatchesUp, Caught, Told
<1> QED
  BY <1>1, <1>3, <1>4, <1>5, <1>6

\* The work function reads the state register.
LEMMA WorkReadStep == ASSUME IndInv, WorkRead PROVE IndInv'
<1> USE DEF IndInv
<1>0. /\ work.pc = "read" /\ work.s \in Virtual
      /\ work' = [work EXCEPT !.pc = "notify", !.state = SsrType(reg[work.s])]
      /\ UNCHANGED <<reg, waits, events, line, ack, queue, count, last, lost>>
  BY DEF WorkRead, host, client, Types
<1>1. reg[work.s] \in 0 .. 8 /\ SsrType(reg[work.s]) \in {0, 1, 2, 3, 255}
  BY <1>0, Conversion DEF Types
<1>2. work'.pc = "notify" /\ work'.s = work.s /\ work'.state = SsrType(reg[work.s])
  BY <1>0 DEF Types
<1>3. Types'
  BY <1>0, <1>1, <1>2 DEF Types
<1>4. QueuedOnce' /\ OneCarrier'
  BY <1>0, <1>2 DEF QueuedOnce, OneCarrier
<1>5. InStep'
  BY <1>0, <1>2 DEF InStep, Due, Told
<1>6. CatchesUp'
  BY <1>0, <1>2 DEF CatchesUp, Caught, Told
<1> QED
  BY <1>3, <1>4, <1>5, <1>6

\* The clients are called: a phase the guest has no type for leaves them alone,
\* any other is the one the register held when it was read.
LEMMA NotifyFacts ==
    ASSUME IndInv, WorkNotify
    PROVE  /\ work.s \in Virtual /\ work.pc = "notify"
           /\ work' = [work EXCEPT !.pc = "answer"]
           /\ UNCHANGED <<reg, waits, events, line, ack, queue, lost>>
           /\ \/ work.state = 255 /\ UNCHANGED <<count, last>>
              \/ /\ work.state \in 0 .. 3
                 /\ count' = [count EXCEPT ![work.s] = @ + 1]
                 /\ last' = [last EXCEPT ![work.s] = work.state]
           /\ waits => ~ack[work.s] /\ work.state = SsrType(reg[work.s])
  BY DEF IndInv, WorkNotify, host, client, Types, OneCarrier

\* The work function calls the notifier chain.
LEMMA WorkNotifyStep == ASSUME IndInv, WorkNotify PROVE IndInv'
<1> DEFINE s == work.s
<1>0. /\ s \in Virtual /\ work.pc = "notify"
      /\ work' = [work EXCEPT !.pc = "answer"]
      /\ UNCHANGED <<reg, waits, events, line, ack, queue, lost>>
      /\ \/ work.state = 255 /\ UNCHANGED <<count, last>>
         \/ /\ work.state \in 0 .. 3
            /\ count' = [count EXCEPT ![s] = @ + 1]
            /\ last' = [last EXCEPT ![s] = work.state]
      /\ waits => ~ack[s] /\ work.state = SsrType(reg[s])
  BY NotifyFacts
<1> USE DEF IndInv
<1>1. work'.pc = "answer" /\ work'.s = s /\ work'.state = work.state
  BY <1>0 DEF Types
<1>2. /\ \A u \in Virtual \ {s} : count'[u] = count[u] /\ last'[u] = last[u]
      /\ work.state # 255 => count'[s] = count[s] + 1 /\ last'[s] = work.state
      /\ work.state = 255 => count'[s] = count[s] /\ last'[s] = last[s]
  BY <1>0 DEF Types
<1>3. reg[s] \in 0 .. 8 /\ count[s] \in Nat /\ events[s].phase \in 0 .. 3
  BY <1>0 DEF Types
<1>4. Types'
  <2>1. count' \in [Virtual -> Nat] /\ last' \in [Virtual -> 0 .. 3]
    <3>1. count \in [Virtual -> Nat] /\ last \in [Virtual -> 0 .. 3]
      BY DEF Types
    <3>2. count[s] + 1 \in Nat
      BY <1>3
    <3> QED
      BY <1>0, <3>1, <3>2
  <2>2. work' \in [pc : {"idle", "read", "notify", "answer"},
                   s : Virtual \cup {NULL}, state : {0, 1, 2, 3, 255}]
    BY <1>0 DEF Types
  <2>3. work'.pc # "idle" /\ work'.s # NULL
    BY <1>0, <1>1, NotifAssumption
  <2> QED
    BY <1>0, <2>1, <2>2, <2>3 DEF Types
<1>5. QueuedOnce' /\ OneCarrier'
  BY <1>0, <1>1 DEF QueuedOnce, OneCarrier
<1>6. InStep'
  <2> SUFFICES ASSUME waits, NEW u \in Virtual
               PROVE  IF Due(u)'
                      THEN reg[u] = events[u].phase /\ count'[u] % 4 = events[u].phase
                      ELSE /\ count'[u] % 4 = (events[u].phase + 1) % 4
                           /\ last'[u] = Phases!Round[events[u].phase + 1]
    BY <1>0 DEF InStep, Told
  <2>1. CASE u # s
    BY <1>0, <1>1, <1>2, <2>1 DEF InStep, Due, Told
  <2>2. CASE u = s /\ work.state = 255
    <3>1. ~(reg[s] < 4)
      BY <1>0, <1>3, <2>2, Conversion
    <3> QED
      BY <1>0, <1>1, <1>2, <2>2, <3>1 DEF InStep, Due, Told
  <2>3. CASE u = s /\ work.state # 255
    <3>1. reg[s] < 4 /\ work.state = Phases!Round[reg[s] + 1]
      BY <1>0, <1>3, <2>3, Conversion
    <3>2. Due(s) /\ ~Due(s)'
      BY <1>0, <1>1, <3>1 DEF Due
    <3>3. reg[s] = events[s].phase /\ count[s] % 4 = events[s].phase
      BY <1>0, <3>2 DEF InStep
    <3>4. count'[s] % 4 = (events[s].phase + 1) % 4
      BY <1>2, <1>3, <2>3, <3>3
    <3> QED
      BY <1>0, <1>1, <1>2, <2>3, <3>1, <3>3, <3>4 DEF Due
  <2> QED
    BY <2>1, <2>2, <2>3
<1>7. CatchesUp'
  <2> SUFFICES ASSUME NEW u \in Virtual, Caught(u)
               PROVE  last'[u] = Phases!Round[reg[u] + 1]
    BY <1>0, <1>1 DEF CatchesUp, Caught, Told
  <2>1. CASE u # s
    BY <1>0, <1>2, <2>1 DEF CatchesUp, Told
  <2>2. CASE u = s
    <3>1. work.state = SsrType(reg[s]) /\ reg[s] \in 0 .. 3
      BY <1>0, <2>2 DEF CatchesUp, Caught
    <3>2. work.state # 255 /\ work.state = Phases!Round[reg[s] + 1]
      BY <1>3, <3>1, Conversion
    <3> QED
      BY <1>2, <2>2, <3>2
  <2> QED
    BY <2>1, <2>2
<1> QED
  BY <1>4, <1>5, <1>6, <1>7

\* The work function answers the host.
LEMMA WorkAnswerStep == ASSUME IndInv, WorkAnswer PROVE IndInv'
<1> DEFINE s == work.s
<1> USE DEF IndInv
<1>0. /\ s \in Virtual /\ work.pc = "answer" /\ work' = IdleWork
      /\ ack' = [ack EXCEPT ![s] = TRUE]
      /\ UNCHANGED <<reg, waits, events, line, queue, count, last, lost>>
  BY DEF WorkAnswer, host, client, Types
<1>1. /\ work'.pc = "idle" /\ work'.s = NULL /\ NULL \notin Virtual
      /\ ack'[s] /\ \A u \in Virtual \ {s} : ack'[u] = ack[u]
  BY <1>0, NotifAssumption DEF IdleWork, Types
<1>2. Types'
  BY <1>0, <1>1 DEF Types, IdleWork
<1>3. QueuedOnce' /\ OneCarrier'
  BY <1>0, <1>1 DEF QueuedOnce, OneCarrier
<1>4. InStep'
  BY <1>0, <1>1 DEF InStep, Due, Told
<1>5. CatchesUp'
  BY <1>0, <1>1 DEF CatchesUp, Caught, Told
<1> QED
  BY <1>2, <1>3, <1>4, <1>5

\* Every step preserves the invariant.
LEMMA NextInv == ASSUME IndInv, [Next]_vars PROVE IndInv'
<1>1. CASE UNCHANGED vars
  BY <1>1, QuietStep DEF vars, host, client
<1>2. CASE Probe \/ RemoveDriver \/ Teardown \/ (\E s \in Native : NativeCallback(s))
  BY <1>2, DriverStep, QuietStep
<1> QED
  BY <1>1, <1>2, HostStep, IrqStep, WorkStartStep, WorkReadStep, WorkNotifyStep,
     WorkAnswerStep DEF Next, Worker

-----------------------------------------------------------------------------
\* The inductive invariant holds throughout, whatever the interrupts, the work
\* queue, the probe and the host do.
THEOREM Invariant == Spec => []IndInv
  BY InitInv, NextInv, PTL DEF Spec

\* Once everything raised for a subsystem has been handled, the clients know
\* the state in its register (subsystem_notif_wq_func, queue_work).
THEOREM LatestIsSeen == Spec => []LatestSeen
<1>1. IndInv => LatestSeen
  BY DEF IndInv, LatestSeen, CatchesUp, Caught
<1> QED
  BY <1>1, Invariant, PTL

\* A waiting host gets its answer only after the clients were told of the phase
\* it has raised (the order of the calls in subsystem_notif_wq_func).
THEOREM AnswerIsTrue == Spec => []AnswerTells
<1>1. IndInv => AnswerTells
  BY DEF IndInv, AnswerTells, InStep, Due
<1> QED
  BY <1>1, Invariant, PTL

\* A step of the driver is a notification the clients may expect, or none.
LEMMA RefinementStep == ASSUME IndInv, [Next]_vars PROVE [Phases!Next]_(Phases!vars)
<1> USE DEF Phases!vars
<1>1. CASE UNCHANGED vars
  BY <1>1 DEF vars
<1>2. CASE Probe \/ RemoveDriver \/ Teardown \/ (\E s \in Native : NativeCallback(s))
  BY <1>2, DriverStep DEF host, client
<1>3. CASE \E s \in Virtual : HostEvent(s) \/ IrqHandler(s)
  BY <1>3 DEF HostEvent, IrqHandler, host, client
<1>4. CASE WorkStart \/ WorkRead \/ WorkAnswer
  BY <1>4 DEF WorkStart, WorkRead, WorkAnswer, host, client
<1>5. CASE WorkNotify
  <2> DEFINE s == work.s
  <2>1. CASE work.state = 255
    BY <1>5, <2>1, NotifyFacts
  <2>2. CASE work.state # 255
    <3>1. /\ s \in Virtual /\ work.state \in 0 .. 3 /\ waits' = waits
          /\ count' = [count EXCEPT ![s] = @ + 1]
          /\ last' = [last EXCEPT ![s] = work.state]
      BY <1>5, <2>2, NotifyFacts
    <3>2. waits => work.state = Phases!Round[(count[s] % 4) + 1]
      <4> SUFFICES ASSUME waits PROVE work.state = Phases!Round[(count[s] % 4) + 1]
        OBVIOUS
      <4>1. ~ack[s] /\ work.state = SsrType(reg[s]) /\ work.pc = "notify"
        BY <1>5, NotifyFacts
      <4>2. reg[s] \in 0 .. 8
        BY <3>1 DEF IndInv, Types
      <4>3. reg[s] < 4 /\ work.state = Phases!Round[reg[s] + 1]
        BY <2>2, <4>1, <4>2, Conversion
      <4>4. Due(s)
        BY <4>1, <4>3 DEF Due
      <4>5. reg[s] = events[s].phase /\ count[s] % 4 = events[s].phase
        BY <3>1, <4>4 DEF IndInv, InStep
      <4> QED
        BY <4>3, <4>5
    <3>3. work.state \in Phases!Types
      BY <3>1 DEF Phases!Types, Phases!BEFORE_POWERUP, Phases!AFTER_POWERUP,
                  Phases!BEFORE_SHUTDOWN, Phases!AFTER_SHUTDOWN
    <3>4. Phases!Notify(s)
      BY <3>1, <3>2, <3>3 DEF Phases!Notify
    <3> QED
      BY <3>1, <3>4 DEF Phases!Next
  <2> QED
    BY <2>1, <2>2
<1> QED
  BY <1>1, <1>2, <1>3, <1>4, <1>5 DEF Next, Worker

\* The driver implements RestartPhases: with a host that waits for its answers,
\* interrupts that coalesce, a register that is read late and a work queue
\* shared by all subsystems neither lose, repeat nor reorder a restart phase.
THEOREM Refinement == Spec => PhasesInOrder
<1>1. Init => Phases!Init
  BY DEF Init, Phases!Init, Phases!AFTER_POWERUP
<1>2. IndInv /\ [Next]_vars => [Phases!Next]_(Phases!vars)
  BY RefinementStep
<1> QED
  BY <1>1, <1>2, Invariant, PTL DEF Spec, PhasesInOrder, Phases!Spec
=============================================================================

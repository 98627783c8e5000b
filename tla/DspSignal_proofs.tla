--------------------------- MODULE DspSignal_proofs ---------------------------
(***************************************************************************)
(* The safety properties of DspSignal, for any set of signals, groups and  *)
(* threads.                                                                *)
(***************************************************************************)
EXTENDS DspSignal, TLAPS

\* What holds of a thread inside an ioctl: it has found a signal and the
\* incarnation it saw is not in the future; a sleeper's group is installed;
\* a creator owns signal_create_mutex and its group is still missing; who has
\* been woken by the incarnation it waited for owes that to a signal, unless
\* it was cancelled.
ThreadInv ==
    \A t \in Threads :
        /\ thr[t].pc # "idle" =>
               thr[t].sig \in Signals /\ thr[t].gen <= created[thr[t].sig]
        /\ thr[t].pc = "sleep" => GroupOf[thr[t].sig] \in groups
        /\ thr[t].pc = "newgroup" =>
               /\ mutex = t /\ thr[t].gen = 0
               /\ GroupOf[thr[t].sig] \notin groups
        /\ thr[t].pc = "woken" /\ thr[t].gen = created[thr[t].sig]
               /\ state[thr[t].sig] \in {"PENDING", "SIGNALED"}
           => received[thr[t].sig] > 0

SignaledInv == \A i \in Signals : state[i] = "SIGNALED" => received[i] > 0

IndInv ==
    /\ TypeOK /\ ThreadInv /\ SignaledInv
    /\ SignalNotLost /\ SuccessMeansSignal /\ NobodyLeftAsleep /\ CreatedStays

\* The inductive invariant holds when the session is opened.
THEOREM InitInv == Init => IndInv
  BY ConstAssumption DEF Init, IndInv, TypeOK, ThreadInv, SignaledInv,
     SignalNotLost, SuccessMeansSignal, NobodyLeftAsleep, CreatedStays, Known,
     Idle, States, Results

\* Every step keeps the types of the state words and completions.
LEMMA TypeStep == ASSUME TypeOK, ThreadInv, [Next]_vars PROVE TypeOK'
<1> USE ConstAssumption DEF TypeOK, States, Results, Idle
<1>1. CASE UNCHANGED vars
  BY <1>1 DEF vars
<1>2. ASSUME NEW t \in Threads, NEW i \in Signals, WaitEnter(t, i) PROVE TypeOK'
  BY <1>2 DEF WaitEnter, Known
<1>3. ASSUME NEW t \in Threads, WaitWoken(t) PROVE TypeOK'
  BY <1>3 DEF WaitWoken, ThreadInv
<1>4. ASSUME NEW t \in Threads, WaitGaveUp(t) PROVE TypeOK'
  BY <1>4 DEF WaitGaveUp, Leave
<1>5. ASSUME NEW t \in Threads, WaitFinish(t) PROVE TypeOK'
  <2>1. Leave(t, "intr") \/ Leave(t, "ok")
    BY <1>5 DEF WaitFinish
  <2>2. state' \in [Signals -> States]
    BY <1>5 DEF WaitFinish
  <2>3. UNCHANGED <<groups, done, all, mutex, created, received, released, live>>
    BY <1>5 DEF WaitFinish
  <2> QED
    BY <2>1, <2>2, <2>3 DEF Leave
<1>6. ASSUME NEW i \in Signals, NEW fresh \in SUBSET Groups, Created(i, fresh)
      PROVE  /\ groups' \subseteq Groups /\ state' \in [Signals -> States]
             /\ done' \in [Signals -> Nat] /\ all' \in [Signals -> BOOLEAN]
             /\ created' \in [Signals -> Nat] /\ received' \in [Signals -> Nat]
             /\ released' \in [Signals -> Nat] /\ live' \subseteq Signals
  <2>1. groups' \subseteq Groups /\ live' \subseteq Signals
    BY <1>6 DEF Created
  <2>2. state' \in [Signals -> States]
    BY <1>6 DEF Created
  <2>3. done' \in [Signals -> Nat]
    BY <1>6 DEF Created
  <2>4. all' \in [Signals -> BOOLEAN]
    BY <1>6 DEF Created
  <2>5. /\ created' \in [Signals -> Nat] /\ received' \in [Signals -> Nat]
        /\ released' \in [Signals -> Nat]
    BY <1>6 DEF Created
  <2> QED
    BY <2>1, <2>2, <2>3, <2>4, <2>5
<1>7. ASSUME NEW i \in Signals, Create(i) PROVE TypeOK'
  BY <1>7, <1>6 DEF Create
<1>8. ASSUME NEW t \in Threads, NEW i \in Signals, CreateGroup(t, i) PROVE TypeOK'
  BY <1>8 DEF CreateGroup
<1>9. ASSUME NEW t \in Threads, InstallGroup(t) PROVE TypeOK'
  <2> thr[t].sig \in Signals /\ {GroupOf[thr[t].sig]} \in SUBSET Groups
    BY <1>9 DEF InstallGroup, ThreadInv
  <2>1. \/ Created(thr[t].sig, {GroupOf[thr[t].sig]})
        \/ UNCHANGED <<groups, state, done, all, created, received, released, live>>
    BY <1>9 DEF InstallGroup
  <2>2. /\ groups' \subseteq Groups /\ state' \in [Signals -> States]
        /\ done' \in [Signals -> Nat] /\ all' \in [Signals -> BOOLEAN]
        /\ created' \in [Signals -> Nat] /\ received' \in [Signals -> Nat]
        /\ released' \in [Signals -> Nat] /\ live' \subseteq Signals
    <3>1. ASSUME Created(thr[t].sig, {GroupOf[thr[t].sig]})
          PROVE  /\ groups' \subseteq Groups /\ state' \in [Signals -> States]
                 /\ done' \in [Signals -> Nat] /\ all' \in [Signals -> BOOLEAN]
                 /\ created' \in [Signals -> Nat] /\ received' \in [Signals -> Nat]
                 /\ released' \in [Signals -> Nat] /\ live' \subseteq Signals
      BY <1>6, <3>1, Zenon
    <3> QED
      BY <2>1, <3>1
  <2>3. mutex' \in Threads \cup {NULL}
    BY <1>9 DEF InstallGroup
  <2>4. thr' \in [Threads -> [pc : {"idle", "sleep", "woken", "newgroup", "return"},
                             sig : Signals \cup {NULL}, gen : Nat, res : Results]]
    <3>1. PICK res \in Results : Leave(t, res)
      BY <1>9 DEF InstallGroup, Results
    <3>2. [thr[t] EXCEPT !.pc = "return", !.res = res] \in
             [pc : {"idle", "sleep", "woken", "newgroup", "return"},
              sig : Signals \cup {NULL}, gen : Nat, res : Results]
      <4>1. thr[t] \in [pc : {"idle", "sleep", "woken", "newgroup", "return"},
                        sig : Signals \cup {NULL}, gen : Nat, res : Results]
        OBVIOUS
      <4> HIDE ConstAssumption DEF IndInv, TypeOK, States, Idle
      <4> QED
        BY <4>1
    <3>3. thr' = [thr EXCEPT ![t] = [thr[t] EXCEPT !.pc = "return", !.res = res]]
      BY <3>1 DEF Leave
    <3> QED
      BY <3>2, <3>3
  <2> QED
    BY <2>2, <2>3, <2>4
<1>10. ASSUME NEW i \in Signals, Destroy(i) PROVE TypeOK'
  BY <1>10 DEF Destroy, CompleteAll
<1>11. ASSUME NEW i \in Signals, CancelWait(i) PROVE TypeOK'
  BY <1>11 DEF CancelWait, CompleteAll
<1>12. ASSUME NEW t \in Threads, Return(t) PROVE TypeOK'
  BY <1>12 DEF Return
<1>13. ASSUME NEW i \in Signals, HandleRemoteSignal(i) PROVE TypeOK'
  BY <1>13 DEF HandleRemoteSignal, Complete
<1> QED
  BY <1>1, <1>2, <1>3, <1>4, <1>5, <1>7, <1>8, <1>9, <1>10, <1>11, <1>12, <1>13
     DEF Next, ThreadStep, Ioctl

\* Every step keeps what is known of the threads inside dspsignal ioctls.
LEMMA ThreadInvStep == ASSUME IndInv, TypeOK', [Next]_vars PROVE ThreadInv'
<1> USE ConstAssumption DEF IndInv, TypeOK, States, Idle, ThreadInv
<1>1. CASE UNCHANGED vars
  BY <1>1 DEF vars
<1>2. ASSUME NEW t \in Threads, NEW i \in Signals, WaitEnter(t, i) PROVE ThreadInv'
  BY <1>2 DEF WaitEnter, Known
<1>3. ASSUME NEW t \in Threads, WaitWoken(t) PROVE ThreadInv'
  BY <1>3 DEF WaitWoken, SignalNotLost
<1>4. ASSUME NEW t \in Threads, WaitGaveUp(t) PROVE ThreadInv'
  BY <1>4 DEF WaitGaveUp, Leave
<1>5. ASSUME NEW t \in Threads, WaitFinish(t) PROVE ThreadInv'
  BY <1>5 DEF WaitFinish, Leave
<1>6. ASSUME NEW i \in Signals, Create(i) PROVE ThreadInv'
  BY <1>6 DEF Create, Created
<1>7. ASSUME NEW t \in Threads, NEW i \in Signals, CreateGroup(t, i) PROVE ThreadInv'
  BY <1>7 DEF CreateGroup
<1>8. ASSUME NEW t \in Threads, InstallGroup(t) PROVE ThreadInv'
  <2> DEFINE i == thr[t].sig
  <2>1. /\ i \in Signals /\ thr[t].gen = 0 /\ mutex' = NULL
        /\ \A u \in Threads \ {t} : thr[u].pc # "newgroup"
    BY <1>8 DEF InstallGroup
  <2>2. CASE Created(i, {GroupOf[i]}) /\ Leave(t, "ok")
    <3>1. /\ \A j \in Signals \ {i} : \/ state'[j] = "UNUSED"
                                      \/ state'[j] = state[j]
          /\ \A j \in Signals \ {i} : created'[j] = created[j]
                                      /\ received'[j] = received[j]
          /\ created'[i] = created[i] + 1 /\ groups \subseteq groups'
      BY <2>1, <2>2 DEF Created
    <3>2. /\ \A u \in Threads \ {t} : thr'[u] = thr[u]
          /\ thr'[t].pc = "return" /\ thr'[t].sig = i /\ thr'[t].gen = 0
      BY <2>1, <2>2 DEF Leave
    <3>3. ASSUME NEW u \in Threads \ {t}, thr[u].pc # "idle"
          PROVE  /\ thr[u].gen <= created'[thr[u].sig]
                 /\ thr[u].pc = "woken" /\ thr[u].gen = created'[thr[u].sig]
                       /\ state'[thr[u].sig] \in {"PENDING", "SIGNALED"}
                    => received'[thr[u].sig] > 0
      <4>1. /\ thr[u].sig \in Signals /\ thr[u].gen <= created[thr[u].sig]
            /\ thr[u].gen \in Nat /\ created[thr[u].sig] \in Nat
        BY <3>3
      <4>2. CASE thr[u].sig = i
        BY <3>1, <4>1, <4>2
      <4>3. CASE thr[u].sig # i
        BY <3>1, <3>3, <4>1, <4>3
      <4> QED
        BY <4>2, <4>3
    <3>4. ASSUME NEW u \in Threads \ {t}, thr[u].pc # "newgroup"
          PROVE  /\ thr'[u].pc # "idle" =>
                       thr'[u].sig \in Signals /\ thr'[u].gen <= created'[thr'[u].sig]
                 /\ thr'[u].pc = "sleep" => GroupOf[thr'[u].sig] \in groups'
                 /\ thr'[u].pc = "woken" /\ thr'[u].gen = created'[thr'[u].sig]
                       /\ state'[thr'[u].sig] \in {"PENDING", "SIGNALED"}
                    => received'[thr'[u].sig] > 0
      BY <3>1, <3>2, <3>3, <3>4
    <3> QED
      BY <2>1, <3>1, <3>2, <3>4
  <2>3. CASE /\ Leave(t, "nomem")
            /\ UNCHANGED <<groups, state, done, all, created, received,
                           released, live>>
    BY <2>1, <2>3 DEF Leave
  <2> QED
    BY <1>8, <2>2, <2>3 DEF InstallGroup
<1>9. ASSUME NEW i \in Signals, Destroy(i) PROVE ThreadInv'
  BY <1>9 DEF Destroy, CompleteAll
<1>10. ASSUME NEW i \in Signals, CancelWait(i) PROVE ThreadInv'
  BY <1>10 DEF CancelWait, CompleteAll
<1>11. ASSUME NEW t \in Threads, Return(t) PROVE ThreadInv'
  BY <1>11 DEF Return
<1>12. ASSUME NEW i \in Signals, HandleRemoteSignal(i) PROVE ThreadInv'
  BY <1>12 DEF HandleRemoteSignal, Complete
<1> QED
  BY <1>1, <1>2, <1>3, <1>4, <1>5, <1>6, <1>7, <1>8, <1>9, <1>10, <1>11, <1>12
     DEF Next, ThreadStep, Ioctl

\* Only handle_remote_signal makes a word SIGNALED, and it counts.
LEMMA SignaledStep == ASSUME IndInv, TypeOK', [Next]_vars PROVE SignaledInv'
<1> USE ConstAssumption DEF IndInv, TypeOK, States, Idle, SignaledInv
<1>1. CASE UNCHANGED vars
  BY <1>1 DEF vars
<1>2. ASSUME NEW t \in Threads, NEW i \in Signals, WaitEnter(t, i) PROVE SignaledInv'
  BY <1>2 DEF WaitEnter, Known
<1>3. ASSUME NEW t \in Threads, WaitWoken(t) PROVE SignaledInv'
  BY <1>3 DEF WaitWoken
<1>4. ASSUME NEW t \in Threads, WaitGaveUp(t) PROVE SignaledInv'
  BY <1>4 DEF WaitGaveUp, Leave
<1>5. ASSUME NEW t \in Threads, WaitFinish(t) PROVE SignaledInv'
  BY <1>5 DEF WaitFinish, Leave
<1>6. ASSUME NEW i \in Signals, Create(i) PROVE SignaledInv'
  BY <1>6 DEF Create, Created
<1>7. ASSUME NEW t \in Threads, NEW i \in Signals, CreateGroup(t, i) PROVE SignaledInv'
  BY <1>7 DEF CreateGroup
<1>8. ASSUME NEW t \in Threads, InstallGroup(t) PROVE SignaledInv'
  <2> DEFINE i == thr[t].sig
  <2>1. i \in Signals /\ GroupOf[i] \notin groups /\ thr[t].gen = 0
    BY <1>8 DEF InstallGroup, ThreadInv
  <2>2. CASE Created(i, {GroupOf[i]}) /\ Leave(t, "ok")
    BY <2>1, <2>2 DEF Created, Leave
  <2>3. CASE /\ Leave(t, "nomem")
            /\ UNCHANGED <<groups, state, done, all, created, received,
                           released, live>>
    BY <2>1, <2>3 DEF Leave
  <2> QED
    BY <1>8, <2>2, <2>3 DEF InstallGroup
<1>9. ASSUME NEW i \in Signals, Destroy(i) PROVE SignaledInv'
  BY <1>9 DEF Destroy, CompleteAll
<1>10. ASSUME NEW i \in Signals, CancelWait(i) PROVE SignaledInv'
  BY <1>10 DEF CancelWait, CompleteAll
<1>11. ASSUME NEW t \in Threads, Return(t) PROVE SignaledInv'
  BY <1>11 DEF Return
<1>12. ASSUME NEW i \in Signals, HandleRemoteSignal(i) PROVE SignaledInv'
  BY <1>12 DEF HandleRemoteSignal, Complete
<1> QED
  BY <1>1, <1>2, <1>3, <1>4, <1>5, <1>6, <1>7, <1>8, <1>9, <1>10, <1>11, <1>12
     DEF Next, ThreadStep, Ioctl

\* Every step keeps signals and completions in balance.
LEMMA NotLostStep == ASSUME IndInv, TypeOK', [Next]_vars PROVE SignalNotLost'
<1> USE ConstAssumption DEF IndInv, TypeOK, States, Idle, SignalNotLost, ThreadInv
<1>1. CASE UNCHANGED vars
  BY <1>1 DEF vars
<1>2. ASSUME NEW t \in Threads, NEW i \in Signals, WaitEnter(t, i) PROVE SignalNotLost'
  BY <1>2 DEF WaitEnter, Known
<1>3. ASSUME NEW t \in Threads, WaitWoken(t) PROVE SignalNotLost'
  BY <1>3 DEF WaitWoken
<1>4. ASSUME NEW t \in Threads, WaitGaveUp(t) PROVE SignalNotLost'
  <2>1. \A u \in Threads : thr[u].pc = "woken" => thr'[u] = thr[u]
    BY <1>4 DEF WaitGaveUp, Leave
  <2> QED
    BY <1>4, <2>1 DEF WaitGaveUp
<1>5. ASSUME NEW t \in Threads, WaitFinish(t) PROVE SignalNotLost'
  BY <1>5 DEF WaitFinish, Leave
<1>6. ASSUME NEW i \in Signals, Create(i) PROVE SignalNotLost'
  BY <1>6 DEF Create, Created
<1>7. ASSUME NEW t \in Threads, NEW i \in Signals, CreateGroup(t, i) PROVE SignalNotLost'
  BY <1>7 DEF CreateGroup
<1>8. ASSUME NEW t \in Threads, InstallGroup(t) PROVE SignalNotLost'
  <2> DEFINE i == thr[t].sig
  <2>1. i \in Signals /\ GroupOf[i] \notin groups /\ thr[t].gen = 0
    BY <1>8 DEF InstallGroup, ThreadInv
  <2>2. CASE Created(i, {GroupOf[i]}) /\ Leave(t, "ok")
    BY <2>1, <2>2 DEF Created, Leave
  <2>3. CASE /\ Leave(t, "nomem")
            /\ UNCHANGED <<groups, state, done, all, created, received,
                           released, live>>
    <3>1. \A u \in Threads : thr[u].pc = "woken" => thr'[u] = thr[u]
      BY <1>8, <2>3 DEF InstallGroup, Leave
    <3> QED
      BY <2>3, <3>1
  <2> QED
    BY <1>8, <2>2, <2>3 DEF InstallGroup
<1>9. ASSUME NEW i \in Signals, Destroy(i) PROVE SignalNotLost'
  BY <1>9 DEF Destroy, CompleteAll
<1>10. ASSUME NEW i \in Signals, CancelWait(i) PROVE SignalNotLost'
  BY <1>10 DEF CancelWait, CompleteAll
<1>11. ASSUME NEW t \in Threads, Return(t) PROVE SignalNotLost'
  BY <1>11 DEF Return
<1>12. ASSUME NEW i \in Signals, HandleRemoteSignal(i) PROVE SignalNotLost'
  BY <1>12 DEF HandleRemoteSignal, Complete
<1> QED
  BY <1>1, <1>2, <1>3, <1>4, <1>5, <1>6, <1>7, <1>8, <1>9, <1>10, <1>11, <1>12
     DEF Next, ThreadStep, Ioctl

\* No step lets a wait succeed without a signal.
LEMMA SuccessStep == ASSUME IndInv, TypeOK', [Next]_vars PROVE SuccessMeansSignal'
<1> USE ConstAssumption DEF IndInv, TypeOK, States, Idle, SuccessMeansSignal, ThreadInv, SignaledInv
<1>1. CASE UNCHANGED vars
  BY <1>1 DEF vars
<1>2. ASSUME NEW t \in Threads, NEW i \in Signals, WaitEnter(t, i) PROVE SuccessMeansSignal'
  BY <1>2 DEF WaitEnter, Known
<1>3. ASSUME NEW t \in Threads, WaitWoken(t) PROVE SuccessMeansSignal'
  BY <1>3 DEF WaitWoken
<1>4. ASSUME NEW t \in Threads, WaitGaveUp(t) PROVE SuccessMeansSignal'
  BY <1>4 DEF WaitGaveUp, Leave
<1>5. ASSUME NEW t \in Threads, WaitFinish(t) PROVE SuccessMeansSignal'
  BY <1>5 DEF WaitFinish, Leave
<1>6. ASSUME NEW i \in Signals, Create(i) PROVE SuccessMeansSignal'
  BY <1>6 DEF Create, Created
<1>7. ASSUME NEW t \in Threads, NEW i \in Signals, CreateGroup(t, i) PROVE SuccessMeansSignal'
  BY <1>7 DEF CreateGroup
<1>8. ASSUME NEW t \in Threads, InstallGroup(t) PROVE SuccessMeansSignal'
  <2> DEFINE i == thr[t].sig
  <2>1. i \in Signals /\ GroupOf[i] \notin groups /\ thr[t].gen = 0
    BY <1>8 DEF InstallGroup, ThreadInv
  <2>2. CASE Created(i, {GroupOf[i]}) /\ Leave(t, "ok")
    BY <2>1, <2>2 DEF Created, Leave
  <2>3. CASE /\ Leave(t, "nomem")
            /\ UNCHANGED <<groups, state, done, all, created, received,
                           released, live>>
    BY <2>1, <2>3 DEF Leave
  <2> QED
    BY <1>8, <2>2, <2>3 DEF InstallGroup
<1>9. ASSUME NEW i \in Signals, Destroy(i) PROVE SuccessMeansSignal'
  BY <1>9 DEF Destroy, CompleteAll
<1>10. ASSUME NEW i \in Signals, CancelWait(i) PROVE SuccessMeansSignal'
  BY <1>10 DEF CancelWait, CompleteAll
<1>11. ASSUME NEW t \in Threads, Return(t) PROVE SuccessMeansSignal'
  BY <1>11 DEF Return
<1>12. ASSUME NEW i \in Signals, HandleRemoteSignal(i) PROVE SuccessMeansSignal'
  BY <1>12 DEF HandleRemoteSignal, Complete
<1> QED
  BY <1>1, <1>2, <1>3, <1>4, <1>5, <1>6, <1>7, <1>8, <1>9, <1>10, <1>11, <1>12
     DEF Next, ThreadStep, Ioctl

\* No step leaves a sleeper on a dead signal without a completion.
LEMMA AsleepStep == ASSUME IndInv, TypeOK', [Next]_vars PROVE NobodyLeftAsleep'
<1> USE ConstAssumption DEF IndInv, TypeOK, States, Idle, NobodyLeftAsleep, ThreadInv
<1>1. CASE UNCHANGED vars
  BY <1>1 DEF vars
<1>2. ASSUME NEW t \in Threads, NEW i \in Signals, WaitEnter(t, i) PROVE NobodyLeftAsleep'
  BY <1>2 DEF WaitEnter, Known
<1>3. ASSUME NEW t \in Threads, WaitWoken(t) PROVE NobodyLeftAsleep'
  BY <1>3 DEF WaitWoken
<1>4. ASSUME NEW t \in Threads, WaitGaveUp(t) PROVE NobodyLeftAsleep'
  BY <1>4 DEF WaitGaveUp, Leave
<1>5. ASSUME NEW t \in Threads, WaitFinish(t) PROVE NobodyLeftAsleep'
  BY <1>5 DEF WaitFinish, Leave
<1>6. ASSUME NEW i \in Signals, Create(i) PROVE NobodyLeftAsleep'
  BY <1>6 DEF Create, Created
<1>7. ASSUME NEW t \in Threads, NEW i \in Signals, CreateGroup(t, i) PROVE NobodyLeftAsleep'
  BY <1>7 DEF CreateGroup
<1>8. ASSUME NEW t \in Threads, InstallGroup(t) PROVE NobodyLeftAsleep'
  <2> DEFINE i == thr[t].sig
  <2>1. i \in Signals /\ GroupOf[i] \notin groups /\ thr[t].gen = 0
    BY <1>8 DEF InstallGroup, ThreadInv
  <2>2. CASE Created(i, {GroupOf[i]}) /\ Leave(t, "ok")
    BY <2>1, <2>2 DEF Created, Leave
  <2>3. CASE /\ Leave(t, "nomem")
            /\ UNCHANGED <<groups, state, done, all, created, received,
                           released, live>>
    BY <2>1, <2>3 DEF Leave
  <2> QED
    BY <1>8, <2>2, <2>3 DEF InstallGroup
<1>9. ASSUME NEW i \in Signals, Destroy(i) PROVE NobodyLeftAsleep'
  BY <1>9 DEF Destroy, CompleteAll
<1>10. ASSUME NEW i \in Signals, CancelWait(i) PROVE NobodyLeftAsleep'
  BY <1>10 DEF CancelWait, CompleteAll
<1>11. ASSUME NEW t \in Threads, Return(t) PROVE NobodyLeftAsleep'
  BY <1>11 DEF Return
<1>12. ASSUME NEW i \in Signals, HandleRemoteSignal(i) PROVE NobodyLeftAsleep'
  BY <1>12 DEF HandleRemoteSignal, Complete
<1> QED
  BY <1>1, <1>2, <1>3, <1>4, <1>5, <1>6, <1>7, <1>8, <1>9, <1>10, <1>11, <1>12
     DEF Next, ThreadStep, Ioctl

\* No step but dspsignal_destroy removes a created signal.
LEMMA StaysStep == ASSUME IndInv, TypeOK', [Next]_vars PROVE CreatedStays'
<1> USE ConstAssumption DEF IndInv, TypeOK, States, Idle, CreatedStays, ThreadInv, Known
<1>1. CASE UNCHANGED vars
  BY <1>1 DEF vars
<1>2. ASSUME NEW t \in Threads, NEW i \in Signals, WaitEnter(t, i) PROVE CreatedStays'
  BY <1>2 DEF WaitEnter
<1>3. ASSUME NEW t \in Threads, WaitWoken(t) PROVE CreatedStays'
  BY <1>3 DEF WaitWoken
<1>4. ASSUME NEW t \in Threads, WaitGaveUp(t) PROVE CreatedStays'
  BY <1>4 DEF WaitGaveUp, Leave
<1>5. ASSUME NEW t \in Threads, WaitFinish(t) PROVE CreatedStays'
  BY <1>5 DEF WaitFinish, Leave
<1>6. ASSUME NEW i \in Signals, Create(i) PROVE CreatedStays'
  <2>1. /\ live' = live \cup {i} /\ groups' = groups /\ GroupOf[i] \in groups
        /\ state'[i] = "PENDING" /\ \A j \in Signals \ {i} : state'[j] = state[j]
    BY <1>6 DEF Create, Created
  <2> QED
    BY <2>1
<1>7. ASSUME NEW t \in Threads, NEW i \in Signals, CreateGroup(t, i) PROVE CreatedStays'
  BY <1>7 DEF CreateGroup
<1>8. ASSUME NEW t \in Threads, InstallGroup(t) PROVE CreatedStays'
  <2> DEFINE i == thr[t].sig
  <2>1. i \in Signals /\ GroupOf[i] \notin groups /\ thr[t].gen = 0
    BY <1>8 DEF InstallGroup, ThreadInv
  <2>2. CASE Created(i, {GroupOf[i]}) /\ Leave(t, "ok")
    BY <2>1, <2>2 DEF Created, Leave
  <2>3. CASE /\ Leave(t, "nomem")
            /\ UNCHANGED <<groups, state, done, all, created, received,
                           released, live>>
    BY <2>1, <2>3 DEF Leave
  <2> QED
    BY <1>8, <2>2, <2>3 DEF InstallGroup
<1>9. ASSUME NEW i \in Signals, Destroy(i) PROVE CreatedStays'
  BY <1>9 DEF Destroy, CompleteAll
<1>10. ASSUME NEW i \in Signals, CancelWait(i) PROVE CreatedStays'
  BY <1>10 DEF CancelWait, CompleteAll
<1>11. ASSUME NEW t \in Threads, Return(t) PROVE CreatedStays'
  BY <1>11 DEF Return
<1>12. ASSUME NEW i \in Signals, HandleRemoteSignal(i) PROVE CreatedStays'
  BY <1>12 DEF HandleRemoteSignal, Complete
<1> QED
  BY <1>1, <1>2, <1>3, <1>4, <1>5, <1>6, <1>7, <1>8, <1>9, <1>10, <1>11, <1>12
     DEF Next, ThreadStep, Ioctl

\* IndInv is inductive.
THEOREM StepInv == IndInv /\ [Next]_vars => IndInv'
  BY TypeStep, ThreadInvStep, SignaledStep, NotLostStep, SuccessStep,
     AsleepStep, StaysStep DEF IndInv

\* Every reachable state satisfies the inductive invariant.
THEOREM Invariance == Spec => []IndInv
  BY InitInv, StepInv, PTL DEF Spec

\* No signal handle_remote_signal accepts is lost between the state word and
\* the completion, whatever waiters, cancellers and creators do meanwhile.
THEOREM NotLost == Spec => []SignalNotLost
<1>1. IndInv => SignalNotLost
  BY DEF IndInv
<1> QED
  BY Invariance, <1>1, PTL

\* A wait that returns 0 has a received signal behind it, or the id was
\* created anew behind the waiter's back.
THEOREM SuccessSound == Spec => []SuccessMeansSignal
<1>1. IndInv => SuccessMeansSignal
  BY DEF IndInv
<1> QED
  BY Invariance, <1>1, PTL

\* Whoever sleeps on a cancelled or destroyed signal can wake up.
THEOREM NobodyAsleep == Spec => []NobodyLeftAsleep
<1>1. IndInv => NobodyLeftAsleep
  BY DEF IndInv
<1> QED
  BY Invariance, <1>1, PTL

\* No signal group is installed over another although the spinlock is dropped
\* for the allocation: what was created stays until it is destroyed.
THEOREM GroupsStay == Spec => []CreatedStays
<1>1. IndInv => CreatedStays
  BY DEF IndInv
<1> QED
  BY Invariance, <1>1, PTL

\* The variables keep their types.
THEOREM TypeCorrect == Spec => []TypeOK
<1>1. IndInv => TypeOK
  BY DEF IndInv
<1> QED
  BY Invariance, <1>1, PTL
====

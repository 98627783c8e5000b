------------------------------ MODULE DspSignal ------------------------------
(***************************************************************************)
(* DSP signals of one session (hfastrpc_dspsignal_* in                     *)
(* hybrid_fastrpc_core.c, handle_remote_signal in hybrid_fastrpc_vdev.c).  *)
(*                                                                         *)
(* A signal is a state word guarded by dspsignals_lock and a completion.   *)
(* Waiters look at the word, sleep on the completion without the lock, and *)
(* look again.  Signals live in groups allocated on demand; creation drops *)
(* the spinlock while it allocates and relies on signal_create_mutex.      *)
(*                                                                         *)
(* A completion is a counter; complete_all() saturates it, so that waiters *)
(* no longer consume it, until reinit_completion() resets it.              *)
(***************************************************************************)
EXTENDS Integers, FiniteSets

CONSTANTS
    Signals,      \* signal ids
    Groups,       \* signal groups
    GroupOf,      \* signal_id / DSPSIGNAL_GROUP_SIZE
    Threads,      \* ioctl threads of the session
    MaxReceived,  \* bounds: signals an id receives between creations
    MaxCreated,   \* bounds: creations of an id
    NULL

ASSUME ConstAssumption ==
    /\ GroupOf \in [Signals -> Groups]
    /\ MaxReceived \in [Signals -> Nat] /\ MaxCreated \in [Signals -> Nat]
    /\ NULL \notin Threads /\ NULL \notin Signals

VARIABLES
    groups,   \* groups that have been allocated (fl->signal_groups)
    state,    \* sig->state
    done,     \* sig->comp.done
    all,      \* complete_all() since the last reinit_completion()
    mutex,    \* owner of signal_create_mutex
    thr,      \* ioctl threads: program point, signal, result
    created,  \* history: creations of each id
    received, \* history: signals accepted since the id was last created
    released, \* history: sleepers released by a signal since then
    live      \* history: ids created and not destroyed

vars == <<groups, state, done, all, mutex, thr, created, received, released,
          live>>

States == {"UNUSED", "PENDING", "SIGNALED", "CANCELED"}

Results == {"none", "ok", "noent", "intr", "timedout", "restart", "nomem"}

\* gen is the incarnation of the signal a waiter found when it came in.
Idle == [pc |-> "idle", sig |-> NULL, gen |-> 0, res |-> "none"]

Init ==
    /\ groups = {}
    /\ state = [i \in Signals |-> "UNUSED"]
    /\ done = [i \in Signals |-> 0]
    /\ all = [i \in Signals |-> FALSE]
    /\ mutex = NULL
    /\ thr = [t \in Threads |-> Idle]
    /\ created = [i \in Signals |-> 0]
    /\ received = [i \in Signals |-> 0]
    /\ released = [i \in Signals |-> 0]
    /\ live = {}

-----------------------------------------------------------------------------
Known(i) == GroupOf[i] \in groups /\ state[i] # "UNUSED"

Leave(t, res) == thr' = [thr EXCEPT ![t].pc = "return", ![t].res = res]

\* complete() and complete_all()
Complete(i) == /\ done' = [done EXCEPT ![i] = @ + 1]
               /\ UNCHANGED all
CompleteAll(i) == /\ all' = [all EXCEPT ![i] = TRUE]
                  /\ UNCHANGED done

\* hfastrpc_dspsignal_wait up to the sleep.  A signal that has already been
\* received ends the wait at once and is left as it is.
WaitEnter(t, i) ==
    /\ thr[t].pc = "idle"
    /\ thr' = [thr EXCEPT ![t] =
           [pc |-> IF state[i] = "PENDING" /\ Known(i) THEN "sleep"
                   ELSE "return",
            sig |-> i, gen |-> created[i],
            res |-> CASE ~Known(i) -> "noent"
                      [] Known(i) /\ state[i] = "SIGNALED" -> "ok"
                      [] Known(i) /\ state[i] = "CANCELED" -> "intr"
                      [] OTHER -> "none"]]
    /\ UNCHANGED <<groups, state, done, all, mutex, created, received,
                   released, live>>

\* wait_for_completion_interruptible(_timeout) returns: completed, ...
WaitWoken(t) ==
    LET i == thr[t].sig
    IN  /\ thr[t].pc = "sleep"
        /\ done[i] > 0 \/ all[i]
        /\ done' = IF all[i] THEN done ELSE [done EXCEPT ![i] = @ - 1]
        /\ released' = IF all[i] THEN released
                       ELSE [released EXCEPT ![i] = @ + 1]
        /\ thr' = [thr EXCEPT ![t].pc = "woken"]
        /\ UNCHANGED <<groups, state, all, mutex, created, received, live>>

\* ... timed out (unless the timeout is infinite), or interrupted.
WaitGaveUp(t) ==
    /\ thr[t].pc = "sleep"
    /\ done[thr[t].sig] = 0 /\ ~all[thr[t].sig]
    /\ Leave(t, "timedout") \/ Leave(t, "restart")
    /\ UNCHANGED <<groups, state, done, all, mutex, created, received,
                   released, live>>

\* Fault: a wakeup is taken for a signal.
WaitFinish_NoCheck(t) ==
    LET i == thr[t].sig
    IN  /\ thr[t].pc = "woken"
        /\ Leave(t, "ok")
        /\ UNCHANGED <<groups, state, done, all, mutex, created, received,
                       released, live>>

\* The second look at the state word.
WaitFinish(t) ==
    LET i == thr[t].sig
    IN  /\ thr[t].pc = "woken"
        /\ state' = [state EXCEPT ![i] =
               IF @ = "SIGNALED" THEN "PENDING" ELSE @]
        /\ Leave(t, IF state[i] \in {"CANCELED", "UNUSED"} THEN "intr" ELSE "ok")
        /\ UNCHANGED <<groups, done, all, mutex, created, received, released,
                       live>>

\* reinit_completion() and a fresh state word, on a signal; the
\* other signals of a group that is being installed are unused.
Created(i, fresh) ==
    /\ state' = [j \in Signals |->
           IF j = i THEN "PENDING"
           ELSE IF GroupOf[j] \in fresh THEN "UNUSED" ELSE state[j]]
    /\ done' = [j \in Signals |->
           IF j = i \/ GroupOf[j] \in fresh THEN 0 ELSE done[j]]
    /\ all' = [j \in Signals |->
           IF j = i \/ GroupOf[j] \in fresh THEN FALSE ELSE all[j]]
    /\ groups' = groups \cup fresh
    /\ created' = [created EXCEPT ![i] = @ + 1]
    /\ received' = [received EXCEPT ![i] = 0]
    /\ released' = [released EXCEPT ![i] = 0]
    /\ live' = live \cup {i}

\* hfastrpc_dspsignal_create when the group exists: dspsignals_lock is held
\* throughout.  An id in use is refused.
Create(i) ==
    /\ mutex = NULL
    /\ GroupOf[i] \in groups /\ state[i] = "UNUSED"
    /\ created[i] < MaxCreated[i]
    /\ Created(i, {})
    /\ UNCHANGED <<mutex, thr>>

\* Fault: the mutex does not keep a second creator out.
CreateGroup_NoMutex(t, i) ==
    /\ thr[t].pc = "idle"
    /\ GroupOf[i] \notin groups
    /\ mutex' = t
    /\ thr' = [thr EXCEPT ![t] = [Idle EXCEPT !.pc = "newgroup", !.sig = i]]
    /\ UNCHANGED <<groups, state, done, all, created, received, released, live>>

\* ... when it does not: the spinlock is dropped for the allocation, the mutex
\* is kept.
CreateGroup(t, i) ==
    /\ thr[t].pc = "idle" /\ mutex = NULL
    /\ GroupOf[i] \notin groups
    /\ created[i] < MaxCreated[i]
    /\ mutex' = t
    /\ thr' = [thr EXCEPT ![t] = [Idle EXCEPT !.pc = "newgroup", !.sig = i]]
    /\ UNCHANGED <<groups, state, done, all, created, received, released, live>>

InstallGroup(t) ==
    /\ thr[t].pc = "newgroup"
    /\ mutex' = NULL
    /\ \/ /\ Created(thr[t].sig, {GroupOf[thr[t].sig]})
          /\ Leave(t, "ok")
       \/ /\ Leave(t, "nomem")
          /\ UNCHANGED <<groups, state, done, all, created, received, released,
                         live>>

\* hfastrpc_dspsignal_destroy; an unknown id is refused.
Destroy(i) ==
    /\ Known(i)
    /\ state' = [state EXCEPT ![i] = "UNUSED"]
    /\ CompleteAll(i)
    /\ live' = live \ {i}
    /\ UNCHANGED <<groups, mutex, thr, created, received, released>>

\* Fault: only one sleeper is woken.
CancelWait_One(i) ==
    /\ Known(i) /\ state[i] # "CANCELED"
    /\ state' = [state EXCEPT ![i] = "CANCELED"]
    /\ Complete(i)
    /\ UNCHANGED <<groups, mutex, thr, created, received, released, live>>

\* hfastrpc_dspsignal_cancel_wait
CancelWait(i) ==
    /\ Known(i) /\ state[i] # "CANCELED"
    /\ state' = [state EXCEPT ![i] = "CANCELED"]
    /\ CompleteAll(i)
    /\ UNCHANGED <<groups, mutex, thr, created, received, released, live>>

Return(t) ==
    /\ thr[t].pc = "return"
    /\ thr' = [thr EXCEPT ![t] = Idle]
    /\ UNCHANGED <<groups, state, done, all, mutex, created, received,
                   released, live>>

\* Fault: a second signal is not counted.
HandleRemoteSignal_Once(i) ==
    /\ received[i] < MaxReceived[i]
    /\ Known(i) /\ state[i] \in {"PENDING", "SIGNALED"}
    /\ IF state[i] = "PENDING" THEN Complete(i) ELSE UNCHANGED <<done, all>>
    /\ state' = [state EXCEPT ![i] = "SIGNALED"]
    /\ received' = [received EXCEPT ![i] = @ + 1]
    /\ UNCHANGED <<groups, mutex, thr, created, released, live>>

\* handle_remote_signal, in the transport's callback, for a signal of this
\* session; any other message leaves the session alone.
HandleRemoteSignal(i) ==
    /\ received[i] < MaxReceived[i]
    /\ Known(i) /\ state[i] \in {"PENDING", "SIGNALED"}
    /\ Complete(i)
    /\ state' = [state EXCEPT ![i] = "SIGNALED"]
    /\ received' = [received EXCEPT ![i] = @ + 1]
    /\ UNCHANGED <<groups, mutex, thr, created, released, live>>

-----------------------------------------------------------------------------
\* What a thread inside an ioctl does of its own accord.
ThreadStep(t) ==
    WaitWoken(t) \/ WaitFinish(t) \/ InstallGroup(t) \/ Return(t)

Ioctl(i) ==
    \/ \E t \in Threads : CreateGroup(t, i) \/ WaitEnter(t, i)
    \/ Create(i) \/ Destroy(i) \/ CancelWait(i)

Next ==
    \/ \E t \in Threads : ThreadStep(t) \/ WaitGaveUp(t)
    \/ \E i \in Signals : Ioctl(i) \/ HandleRemoteSignal(i)

Spec == Init /\ [][Next]_vars

\* Threads inside the driver are scheduled; nothing else need happen.
FairSpec == Spec /\ \A t \in Threads : WF_vars(ThreadStep(t))

-----------------------------------------------------------------------------
\* The shape of the variables.
TypeOK ==
    /\ groups \subseteq Groups
    /\ state \in [Signals -> States]
    /\ done \in [Signals -> Nat]
    /\ all \in [Signals -> BOOLEAN]
    /\ mutex \in Threads \cup {NULL}
    /\ thr \in [Threads -> [pc : {"idle", "sleep", "woken", "newgroup",
                                  "return"},
                            sig : Signals \cup {NULL}, gen : Nat,
                            res : Results]]
    /\ created \in [Signals -> Nat]
    /\ received \in [Signals -> Nat]
    /\ released \in [Signals -> Nat]
    /\ live \subseteq Signals

\* No signal is lost between the state word and the completion: what
\* handle_remote_signal accepted has released a sleeper or is still there to
\* release one, and a SIGNALED word always has a completion or a woken waiter
\* behind it.
SignalNotLost ==
    \A i \in Signals : state[i] \in {"PENDING", "SIGNALED"} =>
        /\ ~all[i]
        /\ received[i] = released[i] + done[i]
        /\ state[i] = "SIGNALED" =>
               \/ done[i] > 0
               \/ \E t \in Threads : thr[t].pc = "woken" /\ thr[t].sig = i

\* A wait reports success only if a signal was received, unless the signal
\* was destroyed and created again while the waiter was on its way
\* (dspsignal_wait against cancel and destroy).
SuccessMeansSignal ==
    \A t \in Threads :
        LET i == thr[t].sig
        IN  thr[t].pc = "return" /\ thr[t].res = "ok" /\ thr[t].gen > 0 =>
                received[i] > 0 \/ created[i] # thr[t].gen

\* Whoever sleeps on a cancelled or destroyed signal can wake up: the
\* completion is saturated (complete_all in cancel_wait and destroy).
NobodyLeftAsleep ==
    \A t \in Threads :
        thr[t].pc = "sleep" /\ state[thr[t].sig] \in {"CANCELED", "UNUSED"}
            => all[thr[t].sig]

\* A signal user space created is there until user space destroys it: no
\* group is installed over another (create drops dspsignals_lock to allocate).
CreatedStays == live = {i \in Signals : Known(i)}

\* A cancelled wait comes to an end, unless the signal is created anew before
\* the waiter gets to run.
CancelReleases ==
    \A t \in Threads, i \in Signals :
        /\ thr[t].pc = "sleep" /\ thr[t].sig = i
        /\ state[i] \in {"CANCELED", "UNUSED"}
        ~> thr[t].pc # "sleep" \/ state[i] = "PENDING"
====

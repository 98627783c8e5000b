# TLA+ models of the Qualcomm platform-kernel drivers

The repository holds out-of-tree kernel drivers for guests and automotive
platforms. Most of its code, and nearly all of its protocol logic, is the
virtualised FastRPC driver (`src/drivers/virtual_fastrpc/dsp`): user processes
call functions on a DSP through it. `subsystem_notif_virt.c` tells it, and other
clients in the guest, of restarts of the DSP. The remaining drivers are small
accessors. This directory models the FastRPC driver and the restart
notifications, checks the models with TLC and proves the central invariants
with TLAPS.

Abbreviations: HC `hybrid_fastrpc_core.c`, HV `hybrid_fastrpc_vdev.c`,
VC `virtio_fastrpc_core.c`, VB `virtio_fastrpc_base.c`,
MEM `virtio_fastrpc_mem.c`, CM `fastrpc_common.c`, Q `virtio_fastrpc_queue.c`,
IO `fastrpc_ioctl.c`, SN `subsystem_notif_virt.c`.

## 1. Inventory

There are two variants of the driver behind one ioctl interface (IO):
in the *hybrid* one, invocations go straight to the DSP over a transport and
only process creation, closing and SMMU mappings go through virtio to a
backend; in the *virtio* one, everything does.

| Component | State | Operations | What is hard | What makes it correct |
|---|---|---|---|---|
| Hybrid invocations (HC, HV) | context table, contexts on the pending and interrupted lists, job numbers, restart counts, `num_active_ctxs` | invoke, wait, interrupt, restore, free; response handler; restart notifier; release | late responses, reuse of slots and addresses, signals, restart, three locks | a response reaches its own call; one owner per context; every sleeper is woken; success is genuine |
| DSP signals (HC 2787-3070) | signal groups, state words, completions | wait, create, destroy, cancel, reception | state word and completion change in two steps; allocation outside the lock | no signal lost, none invented, cancel releases |
| Mappings of a session (MEM, HC) | maps with `refs`, `ctx_refs`, `dma_handle_refs` | map, unmap, `munmap_fd`, get_args, put_args, release | three counters shared by calls, ioctls and the DSP's fd list | no use after free, DSP mappings stay backed, release ends |
| Kernel buffers (MEM, HC) | buffer cache, heap list, persistent header pages | alloc, free, heap mmap and munmap, INVOKE2 headers, release | unlocked checks, limits, error paths | one owner per piece of memory, large enough, counted |
| Message layer and virtio invocations (CM, Q, VB, VC) | message table, transmit and receive buffers, async queue, interrupted commands | virt_alloc_msg, send, receive callback, wait, interrupt, restore, CLOSE, release | ids without generation, buffers owned by guest and backend in turn, callback against free | an answer reaches its own message, no buffer lost or shared, calls return |
| Session setup, process ids, notifications (HC, HV, CM) | session list, process-id array, DSP process and type of a session, notification queue and counter | open, get_info, set_session_info, init, control, wait for a notification, status callback, release | set-ups that fail half way, session used after the lock is dropped, ids and addresses reused, two readers for one notification | ids neither shared nor leaked, readers are woken exactly when there is something to read |
| Marshalling of the arguments (HC 1095-1164, 1643-2046) | overlap table, copy buffer, page list of one call | context_build_overlap, get_args, put_args | intervals that touch, nest, chain or wrap; alignment; room behind the metadata | the DSP works as if on the caller's memory |
| ioctl dispatch, 32-bit compat (IO, `fastrpc_compat.c`) | none | copying | - | - |
| Subsystem notifications (SN) | state and client-state registers, work items, notifier registrations | probe, interrupt, work function, native callback, removal | interrupts coalesce, the register is read late, probe and removal overlap with events | with a host that waits, every phase of a restart reaches the clients once and in order; otherwise at least the latest |
| Boot markers, silent boot, other drivers | lists and flags behind sysfs | read and write | little | - |

How they interact: ioctl threads call into every part; the transport callback
(HV) runs the response and signal handlers; the subsystem notifier wakes
contexts, in the order of phases that SN delivers; release (the last `fput`) tears down the session when no ioctl of the
file is running; the hybrid driver uses the message layer for INIT, CLOSE and
SMMU commands.

The full list of hazards, each at its line, is in `PROJECT.json`.

## 2. Modules

| Module | Models | Correspondence |
|---|---|---|
| `HybridInvoke` | invocations and restart | `thr[t].pc` is the point of `hfastrpc_internal_invoke` a thread has reached; each critical section (hlock, ctxlock, smd_mutex) is one action. `ctx` are addresses that are reused after `kfree`; `ctxtable` and `jobid` give the id; `responses` are in flight, in any order; `chan` is ssrcount, subsystemstate and the notifier's progress. |
| `DspSignal` | `hfastrpc_dspsignal_*`, `handle_remote_signal` | `state`, `done`, `all` are the state word and the completion of each signal; `created`, `received`, `released`, `live` are history. |
| `MapRefs` | `hfastrpc_mmap_*` and its callers | one record per map object; actions are the map_mutex sections; calls to the DSP happen between them. |
| `BufPool` | `hfastrpc_buf_alloc/free` and its callers | buffers and header pages are "pieces"; actions are the hlock sections. |
| `VirtioMsg` | message layer and the virtio driver's use of it | a message and its table entry are one record; `tx`, `rx`, `ring` and `cb` say where each buffer is; the backend is external. |
| `SessionSetup` | sessions from open to release, process ids, DSP processes, status notifications | `fl` are the session addresses, reused after `kfree`; `thr` is where an ioctl thread is; `cb` is the status callback between its search under `me->hlock` and its use of what it found; `dsp` (external) are the processes the DSP runs. |
| `ArgCopy` | `context_build_overlap`, `get_args`, `put_args` for the buffers of one call | memory is a function from addresses to bytes that remember where they come from; the loops over the arguments are steps (`CopyStep`, `PutStep`) or recursive functions (`MaxEnd`, the highest end so far; `Sums`, the size so far, of which `Needed` is the last). |
| `SubsystemNotif` | SN | one action per step of probe, removal, interrupt thread and worker; `line`, `queue` and `work` are the raised interrupts, the pending items and the running one; `waits` says whether the host waits for answers. |
| `RestartPhases` | what a client of the notifications may rely on | abstract specification implemented by `SubsystemNotif`; `fastrpc_restart_notifier_cb`, the restart of `HybridInvoke`, is such a client and takes the phases in this order. |
| `RemoteCalls` | what a caller may rely on about the execution of its calls | abstract specification implemented by `HybridInvoke`: a call is new, prepared, running, then finished or dropped, and never goes back. |
| `MC...` | TLC instances: constants and symmetry | |
| `HybridInvoke_proofs`, `ArgCopy_proofs`, `DspSignal_proofs`, `SubsystemNotif_proofs`, `SessionSetup_proofs`, `MapRefs_proofs`, `BufPool_proofs`, `VirtioMsg_proofs` | TLAPS proofs | section 5 |

Definitions named `X_Fault` next to `X` (for example `FreeRx_Forgets`) are
faulty variants. They are used by no specification; each shows that a property
can tell the code from a plausible bug in it (`mutants` in `PROJECT.json`).

Abstractions that matter:

- `HybridInvoke`: argument marshalling is a success or failure; scalars are a
  small set; `jobid` is an unbounded natural (48 bits in the code, which do not
  wrap in practice); `num_active_ctxs` keeps its wrap-around (`CounterMod`).
  The transport refuses messages to a subsystem that is down (external).
  `poll_mode` is never set by the code, so the poll mode always times out.
- INIT may come at any time, again, and while the session's calls run: the code
  does not prevent it. `InitProcess` is `hfastrpc_channel_open`, which copies the
  channel's restart count to the session; `InitOpened` and `InitFails` are the
  answer to OPEN, by when the subsystem may have gone down. A call that was
  allocated before a restart, was completed by its notifier, and passes the
  comparison of the counts only because an INIT refreshed the session's, is in
  the history `stale`: it is sent, and returns on the old completion.
  `DspOwnsBuffers` and `SuccessIsGenuine` are false of such a call and exempt
  it, and no other because of INIT.
- A response is accepted by its id (`Accepts`); the version field of the longer
  response format (HV 586-590) is taken to be the one the driver knows.
- `CloseMayFail`: when the backend cannot close the DSP process, the driver
  frees the session all the same (HC 1558); requests of such a session are
  exempt from `DspOwnsBuffers`. So are requests on which the DSP sent flags the
  driver does not know (HC 2344: the wait loop is left with an error while the
  DSP works on) and those whose result came through the poll word. `MapRefs` and
  `BufPool` have the failing CLOSE too (`closefail`): at the end of such a
  release, what the process has mapped is freed. During the release nothing is.
- `MapRefs`: `short` marks a kept map whose `hfastrpc_munmap` failed at the DSP
  and which is then one reference short (HC 801); the properties exempt it.
  `heap` marks a map asked for with the heap flags: it is refused after it was
  allocated, and `hfastrpc_mmap_free` only prints for such a map (MEM 747), so
  it leaks. A call has at most one handle that stays; that an earlier handle is
  given up when a later one cannot be mapped is `GetArgsRollback`, and the fd
  list of the DSP may name any number of maps.
- `BufPool`: `raced` marks two INVOKE2 calls that set up headers at once;
  `orphan` a header area freed while the DSP has it mapped.
- `VirtioMsg`: the backend answers a request at most once and answers CLOSE
  only when nothing else of the session is left. INIT is one of the commands,
  and calls do not wait for it, as in the code; a session without INIT sends no
  CLOSE at its release (VC 380). `unclosed` marks that a session was released
  whose CLOSE failed, or that sent none although a call of it was on the way;
  then answers may reach the wrong message and receive buffers go astray.
  Nothing is claimed after it, and no session follows. A command that fails
  before it needs a message has no effect here. `mmap`, `munmap`, `mem_map` and
  `mem_unmap` are one operation: they differ in their payload only. Failing
  queues, argument copies and allocations and answers of the wrong length (Q 65,
  VB 242) share the bound `MaxFails`; each loses a buffer at most.
- `SessionSetup`: one application process and one domain; the permission checks
  of INIT pass, and INIT may be repeated. The backend names processes from
  `Upids` as it likes, so two sessions may know theirs by the same name, as they
  may in the code when the processes are on different domains. `orphans` marks a
  close that failed; `PidsUnique` exempts it. No property says which session a
  status notification ends up in: the callback compares the name only (HV 413)
  and uses the session after it has dropped the lock (HV 419), so the code does
  not promise it. The release of contexts, buffers and maps is in the other
  modules.
- `ArgCopy`: the lists of buffers are any; the property speaks of those in which
  overlapping buffers are all mapped or all copied (`Consistent`). The overlap
  table makes no difference between the two and nothing refuses such a list, so
  a copied buffer that overlaps a mapped one is placed relative to bytes that
  are not in the copy; nothing is claimed of such calls. `HandleGone` is the
  second look at the maps of the call's handles (HC 1869): when one has gone,
  `get_args` leaves with `err` 0 before the copies are made, the call is sent
  all the same and ends in success. `CallIsTransparent` says what is left in the
  caller's memory then: the mapped outputs, and nothing of the others. Maps with
  `FASTRPC_ATTR_NOVA`, whose page entry names the whole mapping, are left out. The
  caller does not change its buffers during the call, and the DSP writes all of
  its outputs.
- `SubsystemNotif`: the host (external) raises the phases in their order, any
  number of times, and may raise other events in between. `lost` marks a
  subsystem with an event that met the driver before `INIT_WORK`, during a
  failing probe or during removal. Callbacks on descriptors that a failed probe
  left registered are not followed.
- `TypeOK` of `HybridInvoke`, `MapRefs`, `BufPool` and `VirtioMsg` documents the
  variables; it is part of what is proved of all four. The runs spend their time on the
  other invariants, most of which fail when a value leaves its type.

## 3. Runs

| Run | Instance | Shows |
|---|---|---|
| `invoke_core` | 2 threads, 1 session, 2 context addresses, 2 slots, 2 calls, 1 restart, early responses, INIT at any time, CLOSE may fail; 2.4M states | a slot never points to a freed context, one owner per context, responses reach their own call, sleepers are owed a wakeup, the DSP's buffers are not recycled, success is genuine, a call is executed at most once (implements `RemoteCalls`) |
| `invoke_quota` | 2 threads, 3 contexts, 3 slots (1 reserved), quota 0, 1 failed allocation; 0.9M states | what `num_active_ctxs` counts, how far the quota is exceeded, whom the reserve serves |
| `invoke_live` | 1 thread, kernel, sync and async calls, 2 scalars, all interim flags, 2 restarts; 0.4M states | the wait loop over early, hint, poll and unexpected responses does not sleep for ever: invocations return, a restart releases sleepers |
| `dsp_signals` | 2 signals of one group, 2 threads; 0.2M states | no signal lost or invented, nobody left asleep, creations share a group, cancel releases |
| `map_refs` | 3 maps of one descriptor, up to 3 references, 2 threads, CLOSE may fail; 2.3M states | no use after free, exact `ctx_refs`, DSP mappings backed, leaks only where known, release ends |
| `buffers` | 3 buffers, 2 header arrays, 2 threads, cache of 1, sizes below and at the size limit, CLOSE may fail; 5.2M states | one owner, large enough, the counter is the cache's length, DSP backed |
| `virtio_messages` | 2 threads, 2 ids, 2 buffers per direction, 1 failure, unlimited calls and reopenings, with and without INIT; 2.4M states | buffers accounted for, answers reach their message, jobs counted and taken once |
| `virtio_live` | 2 threads, 2 ids, 1 buffer per direction, no failures; 0.35M states | commands, `munmap_fd`, calls and releases end |
| `sessions` | 2 addresses, 2 threads, 2 sessions, 2 DSP processes, 1 queued notification, 2 ids, 1 process name, repeated INIT, closes may fail; 3.7M states | ids exact, DSP pids unique, the counter is the queue's length plus the wakes |
| `session_types` | the same without notifications, signed and unsigned processes | **violated**: one application gets a signed and an unsigned process (finding) |
| `arguments` | 3 buffers, lengths 0 to 3, 6 addresses, every split into inputs and outputs, mapped and copied, page 8, alignment 2, 3 bytes of metadata, handles that stay or have gone; 4.5M states | the call is transparent if mapped and copied buffers do not overlap, and refused only for a buffer that wraps |
| `restart_notifications` | 2 virtual subsystems (4 and 1 events) and a native one, host that waits or not, events during probe and removal; 0.3M states | implements `RestartPhases`; the latest state is seen; an answer follows the notification, and it comes |

Why the bounds are enough to be interesting: two calls on two addresses and two
slots let a slot and an address be reused while a response is under way, from
the same or from the other thread; restarts meet calls in every state; two
threads are enough for every pair of critical sections to interleave; a cache of
one buffer, one reserved slot and a quota of zero put the limits within reach;
three maps of one descriptor allow a shared map, a duplicate without address and
a second life. Two sessions on two addresses let an id and an address be reused
while the old DSP process, a status message or the callback is still under way.
Three buffers chain, nest and touch in every way that matters to the running
maximum of the overlap table; eight bytes of page behind three of metadata let
copies fit exactly, fail to by one byte, and need a buffer of their own; six
addresses let buffers wrap. Four events are a whole restart. In `virtio_messages` nothing but failures is bounded: the
behaviours are infinite. One buffer in `virtio_live` makes an unfetched answer
exhaust the pool. The wait loop is checked with one call (`invoke_live`), which
may be interrupted and resumed any number of times; responses that outlive their
call are the subject of `invoke_core`.

Deadlock is not checked where the modelled system may stop: sessions of `MapRefs`
and `BufPool` end with the release of the file, and `VirtioMsg` ends with a
session that the backend has not closed, with an answer dropped for its length,
or with a release that waits for a receive buffer that never comes;
`SessionSetup`, `ArgCopy` and `SubsystemNotif` end with their bounds, with the
call and with the driver's removal.

**Fairness.** `HybridInvoke`: threads inside the driver run (WF), responses that
arrived are handled, the notifier goes on once started. No fairness for callers,
signals, restarts or the DSP. `DspSignal`: threads inside the driver run.
`VirtioMsg`, where an answer of the wrong length is dropped for good and the live
run therefore has none: threads and the callback run (WF), a mutex waiter is served (SF,
the kernel's mutexes hand over), and the backend takes requests (WF) and
answers when it can again and again (SF); there the backend's cooperation is
what the code itself relies on, it waits without a timeout. `SubsystemNotif`:
the interrupt thread and the worker run, and a probe or removal once begun goes
on; nothing is assumed of the host.

**Refinement.** `PhasesInOrder` is `Phases!Spec`, where `Phases` instantiates
`RestartPhases` with the virtual subsystems and `lossless <- waits`; `count` and
`last` keep their names. Every step of probe, interrupt and work function is a
stutter but `WorkNotify`, which must be the next phase of the round whenever the
host waits. The coalescing of work items, the late read of the register, events
of other kinds and the half-initialised driver are what could break it. A host
that does not wait may overwrite a phase; then only `LatestSeen` is left, and a
client such as the FastRPC driver can miss the phase that wakes its callers.

`ExecutedAtMostOnce` is `Executions!Spec`, where `Executions` instantiates
`RemoteCalls` with the numbers of the calls. `status` is computed from where a
call is: with a thread between `context_alloc` and the send (`Prepared`), with
the DSP and not yet answered (`Running`), in `finished`, or in none of them.
Signals, the saved context, the resumed system call, the wait loop, responses
and `context_free` are stutters; the send, the end of a DSP process and a
restart are the steps. A resumed call that goes back before the send, or an
answer that leaves its request behind, breaks it.

## 4. Findings and observations

Finding (checked by `session_types`): `hfastrpc_init_process` sets
`is_unsigned_pd` before it compares the types of the application's sessions and
never clears it (HC 526). A session that runs a signed process counts as
unsigned after a second INIT for an unsigned one, whatever becomes of that, or
after an earlier unsigned INIT that failed. Another session's unsigned INIT then
passes the check whose comment says "Validate that any existing sessions of
process are of same pd type".

Other things met while modelling, listed as hazards: `hfastrpc_buf_free` compares
`num_cached_buf > MAX_CACHED_BUFS` before it adds a buffer, so the cache reaches
33 buffers (MEM 844) where the comment at MEM 30 says "Maximum buffers cached in
cached buffer list" of 32: `CacheCounted` checks the counter against the list and
claims no limit; `get_args` returns 0 when the map of a handle has gone, and the
call goes on without its copies (HC 1881); maps asked for with the heap flags are
never freed (MEM 747); a status notification is matched by the process name
alone, on whatever domain (HV 413); a virtio session without INIT is released
with its calls on the way (VC 380); the interrupt of a subsystem is requested
before its work item is initialised, and the result is ignored (SN 199); allocations that fail after
`kzalloc` decrement `num_active_ctxs` without an increment (HC 1389); a context
restored by its thread is matched by thread and scalars only; `mem_map` and
`mem_unmap` unlock a mutex they have not locked on one error path (HC 950);
transmit buffers are lost on failed sends; unfetched asynchronous answers can
hold every receive buffer and then even CLOSE waits for ever (VC 1144); an
interrupted `munmap_fd` reports success (VC 1428).

## 5. Proofs

All theorems hold for every value of the constants that satisfies the
assumption of the module (`ConstAssumption`, `NotifAssumption`,
`SetupAssumption`, `ArgAssumption`): any number of threads, sessions, contexts,
slots, signals, maps, buffers, arguments and subsystems, and bounds of any size.
The assumptions say that `NULL` is none of the values it stands beside, that
sizes and limits are naturals, that a page is not empty and that the copy
alignment divides it. TLC evaluates them in the runs.

| Theorem | States |
|---|---|
| `HybridInvoke_proofs!TypeCorrect` | `Spec => []TypeOK` |
| `HybridInvoke_proofs!SingleOwnership` | `Spec => []SingleOwner` |
| `HybridInvoke_proofs!TableSafe` | `Spec => []TableIsLive` |
| `HybridInvoke_proofs!ResponseMatches` | `Spec => []ResponseToOwnCall` |
| `HybridInvoke_proofs!NoWakeupLost` | `Spec => []NoLostWakeup` |
| `HybridInvoke_proofs!BuffersOwned` | `Spec => []DspOwnsBuffers` |
| `HybridInvoke_proofs!SuccessGenuine` | `Spec => []SuccessIsGenuine` |
| `HybridInvoke_proofs!ReserveKept` | `Spec => ReserveServesStatic` |
| `HybridInvoke_proofs!ActiveAccounted` | `Spec => []ActiveAccounting` |
| `HybridInvoke_proofs!CallsExecuteOnce` | `Spec => ExecutedAtMostOnce`, that is, `RemoteCalls` is implemented |
| `HybridInvoke_proofs!QuotaBounded` | `Spec => []QuotaOvershootBounded`, if `CtxMax + Cardinality(Threads) < CounterMod` |
| `DspSignal_proofs!TypeCorrect`, `NotLost`, `SuccessSound`, `NobodyAsleep`, `GroupsStay` | `TypeOK`, `SignalNotLost`, `SuccessMeansSignal`, `NobodyLeftAsleep`, `CreatedStays` |
| `SubsystemNotif_proofs!Refinement` | `Spec => PhasesInOrder`, that is, `RestartPhases` is implemented |
| `SubsystemNotif_proofs!LatestIsSeen`, `AnswerIsTrue` | `LatestSeen`, `AnswerTells` |
| `SessionSetup_proofs!IdsAreExact`, `PidsAreUnique`, `NotifsCounted` | `IdsExact`, `PidsUnique`, `NotifCounted` |
| `MapRefs_proofs!NoPointerDangles`, `CtxRefsAreExact`, `DspMappingIsBacked`, `MapsAreAccounted`, `CloseDoesEnd` | `NoUseAfterFree`, `CtxRefsExact`, `DspMappingBacked`, `MapsAccounted`, `CloseEnds` |
| `BufPool_proofs!BuffersHaveOneOwner`, `BuffersAreLarge`, `CacheIsCounted`, `DspMemoryIsBacked`, `HeadersAreSafe` | `OneOwner`, `LargeEnough`, `CacheCounted`, `DspBacked`, `HeadersSafe` |
| `VirtioMsg_proofs!TypeCorrect`, `LossBounded`, `BuffersInOnePlace`, `AnswersReachOwner`, `JobsAreOnce` | `TypeOK`, `LossInv` (losses against failures), `BuffersAccounted`, `ReplyToOwn`, `JobsOnce` |
| `ArgCopy_proofs!CallTransparent` | `Spec => []CallIsTransparent` |

Each module proves one inductive invariant (`IndInv`, theorem `Invariant` or
`Invariance`; `CallInv` of the arguments, theorem `ArgInvariance`), action by action, and the
properties follow from it; `HybridInvoke` adds `IdInv`, `CallInv` and `StageInv`
on top of its `IndInv`.

*Ownership of contexts.* `SingleOwner` is not inductive. `OwnInv` adds, per kind
of owner, that a thread's context carries its pid and session, that a linked
context belongs to a session that is not closed, and that threads of a session
under destruction are idle. Type correctness needs the part `HoldInv` (a thread
past the allocation holds a context), so the two are proved together as `IndInv`.
Most actions leave what `OwnInv` speaks of alone; lemma `Quiet` covers them.

*Ids of contexts.* `TableInv` says that an entry points to a live context with
that index and that a thread in the second half of `context_free` has left the
table. `JobInv` says that job numbers only grow and that a message with the id of
a live context belongs to that context's call. With both, the comparison of ids
in the response handler is enough for `ResponseToOwnCall`: a recycled slot has a
larger job number.

*Calls.* `CallInv` adds to the ids what the parties of a call know of each
other, joined by the number of the call, which is never reused. `ThreadInv`: a
thread before the send has no message under way, one in the wait loop is owed a
completion (`Owed`: by the DSP, by a final response, by the notifier, or by one
that came and was not consumed), one that is leaving has no request the DSP still
works on. `CtxInv`: the same for a context by itself, so that it survives on the
interrupted list while no thread holds it. `MsgInv`: one request per call, and no
final response beside it. `ChanInv`: what a restart has taken with it. `BufferInv`:
for which sessions and contexts the DSP works. `NoLostWakeup` alone is not
inductive because the wakeup of an interrupted call must outlive the thread's
absence; `SuccessIsGenuine` needs the rule for `done`: it is set by the final
response or the poll word, and then the DSP has finished the call, or by a
restart, and then the result is a reset and no message of the call is left.

*Execution.* `StageInv` says that prepared, running and finished calls are three
disjoint sets of numbers given out so far. `StepStage` shows that every step of
the driver does one of four things to these sets (`Publishes`, `Leaves`,
`Completes`, `Ends`); `StageStep` and `StageRefines` then speak of the sets only:
the four keep the sets apart and are steps of `RemoteCalls`. What the sets rest on
comes from `CallInv`: two threads before the send have different calls, because
they own different contexts (`OwnCall`), and there is one request per call.

*Quota.* `AccountInv` is `ActiveAccounting`; the work is to show that every other
step leaves the lists of a session alone (`CalmStep`) and that the counter counts
modulo its range (`CountMod`). `QuotaInv` adds the callers between the check and
the increment (`Arriving`) to the linked calls: an arrival is bounded by the
number of callers, a link moves a caller from one set to the other, and a failed
allocation pays with `fails`. The check is sound because at most `CtxMax` entries
and one context per thread are linked (`FewLinked`).

Hypotheses of these theorems. There are finitely many threads
(`FiniteAssumption`). `CtxMax + Cardinality(Threads) < CounterMod` sets the
entries of the fixed array `ctxtable` plus the kernel's threads against a 32-bit
counter. Nothing is assumed of INIT or of the flags the DSP sends: `Protected`
in the invariant is the negation of the exceptions in `DspOwnsBuffers`, and a
call enters `stale` only at the send, with its context completed.

*Signals.* `ThreadInv` describes what a thread inside an ioctl knows;
`SignaledInv` says a SIGNALED word has been received. The conservation law
`received = released + done` carries the rest.

*Restart notifications.* While the host waits, an event that is not answered yet
is in exactly one place, the interrupt line, the work queue, the work function or
`lost` (`OneCarrier`), and that place agrees with what the register holds and the
clients were told (`InStep`). So `WorkNotify` is the next phase of the round, and
every other step is a stutter of `RestartPhases`. Without a waiting host
`CatchesUp` is what remains: a subsystem that nothing carries is up to date. The
work queue holds a subsystem at most once (`QueuedOnce`), which `queue_work`
ensures.

*Session setup.* `IdInv` says who holds an id: a session from set-up to
`put_unique_hlos_process_id`, and no other; `PdInv` ties the ids of the DSP's
processes to the lives of sessions, and the exception `orphans` is the only way
out of it. `ThreadInv` and `FileInv` say that a thread inside an ioctl keeps its
session open and at which step of its set-up a session gets its id; `NotifCounted`
is inductive with them.

*Mappings.* The three counters are not tied to each other by any single action,
so `MapOK` compares them with what can be claimed of a map: `refs` is at least
the sum of the claims (each call in flight, a handle reference, a kept map, a
mapping on the DSP) while the map is listed (`ListOK`), `ctx_refs` is the number
of threads that hold it (`UsersOK`), an unlisted map is in the hands of one ioctl
(`IoctlOK`) and every map is in one place (`PlaceOK`). A map that a failed
`hfastrpc_munmap` left one reference short, and after the release the maps of a
session whose CLOSE failed, are exempt, in the invariant as in the properties.

*Buffers.* `OwnInv` says that the pieces of memory held by threads, the cache,
the heap list and the header areas are disjoint and that what is held is sound:
live, or a page marked in use. To keep it, `Backed` says the same of the memory
under a header area, which may itself be a page of an older area; `DspInv` says
that what the DSP has mapped is never in the cache or with a call; `HdrInv`
describes the session's header fields as long as one INVOKE2 at a time sets them
up. That every live buffer has an owner (`AreaInv`) is what makes the release
free everything. `AlignFacts` and `LargeKept` carry `LargeEnough`.

*Messages.* `TxInv` and `RxInv` say where each buffer is, `HoldInv` that a held
message and the thread that holds it name each other; `ThreadInv` and
`MessageInv` tie the point a thread has reached to its message. The code checks
an answer's msgid against nothing but the table, so `ReplyToOwn` rests on what is
on the way: `FlyInv` says that a request or its answer is in one place, at most
one per id, and that the message of that id waits for it, held by a thread in
its wait or kept on a list. A message is freed after its answer or before its
send, except at release, which frees whatever is on the lists. There `CloseInv`
is needed: a successful CLOSE is the last thing on the way, in the receive queue,
in the callback's hand and in the message, so the destructor runs when nothing
is (`Silent`). This uses that the backend answers CLOSE last, and that one thread
closes (`CloserAlone`). A session without INIT
sends no CLOSE; if nothing of it is on the way at its release it is as good as
closed, otherwise it is `unclosed`. From then on only the buffers, the types and
the holders remain accounted for, which is all the properties claim. `LossInv`
counts the buffers lost in failures against the failures.
`QueueInv` is `JobsOnce` with the state in which a session is opened again.

*Arguments.* The invariant `CallInv` is `ArgInv` for a call that goes through the
copy loop and `BailInv` for one that left `get_args` early, both under
`Consistent`, which no step changes. `ArgInv` follows the call through its loops. The overlap table
(`Table`) fixes an order of the arguments by address and, for each, what it adds
to the copy. `MaxEndIsMax` shows that the running `max.end` is the highest end of
the arguments so far and `Overlapped` that an argument that starts below it
overlaps one that is copied too. `CopyInv` is the invariant of the copy loop: any
two arguments placed so far are displaced alike or lie apart both in the caller's
memory and in the copy (`Apart`), and the copy ends where the furthest-reaching of
them ends. `args` never leaves the buffer because
it is the first address plus `Sums` of the arguments so far, and `Sums` bounds
every prefix by what was allocated (`SumsBounded`, `CopyRoom`); rounding commutes
with the buffer's address since pages are aligned (`AlignShift`). For the outputs,
`DirectAt` reads the last writer of an address off both memories. The facts about
the recursive functions are proved from the least index at which they would fail
(`LeastNat`), which needs no induction theorem with an operator parameter.

**Only model-checked:** every liveness property (`InvocationReturns`,
`RestartReleases`, `CancelReleases`, `CallsReturn`, `AnswerComes`), which is
outside what the prover handles.

## 6. Not modelled, and plan

Not modelled:

- profiling, CRC, logging, debugfs and the message log, which no decision of the
  driver depends on; `setmode` and session numbers, which are stored values;
- the ioctl dispatcher and its 32-bit twin, which copy arguments and keep no
  state: the interleavings of what they dispatch are in the modules above;
- probe and removal of the virtio device, which run alone, before the first and
  after the last session;
- mappings and kernel buffers of the virtio driver, a second copy of the code
  that `MapRefs` and `BufPool` model;
- boot markers (a list of timestamps under a spinlock), silent boot (an
  interrupt that sets a mode), and the drivers that only read and write a
  register or a sysfs file: no property of theirs takes more than one step;
- build files.

Plan:

1. `RemoteCalls` for the invocations of `VirtioMsg`, which are interrupted and
   resumed by a second copy of the same code, over another transport.
2. Mappings and kernel buffers of the virtio driver, should its copy of the code
   come to differ from the hybrid driver's.

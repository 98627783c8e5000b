------------------------------ MODULE MapRefs ------------------------------
(***************************************************************************)
(* The SMMU mappings of one initialised session: vfastrpc_mmap and its     *)
(* three counters (virtio_fastrpc_mem.c), taken and dropped by invocations *)
(* (get_args, put_args, context_free) and by the mapping ioctls            *)
(* (hybrid_fastrpc_core.c).                                                *)
(*                                                                         *)
(* map_mutex guards single look-ups and counter updates, one action each;  *)
(* internal_map_mutex is held by a mapping ioctl across its call to the    *)
(* DSP.  Invocations do not take it, so they find, use and release maps    *)
(* while an ioctl waits for the DSP.                                       *)
(*                                                                         *)
(* A map is identified by its file descriptor and by whether it has a user *)
(* address ("va") or was made for a DMA handle ("nova", address 0).  An    *)
(* address of Maps is used once, so that a stale pointer stays visible.    *)
(* The list has no order: where the code takes the first map that matches, *)
(* any of them is taken.                                                   *)
(***************************************************************************)
EXTENDS Integers, FiniteSets

CONSTANTS
    Maps,      \* map objects that can be allocated
    Fds,       \* dma-buf file descriptors
    Threads,   \* ioctl threads
    MaxRefs,   \* bound on refs (INT_MAX - 2 in the code)
    NULL

ASSUME ConstAssumption ==
    NULL \notin Maps /\ NULL \notin Threads /\ MaxRefs \in Nat \ {0}

VARIABLES
    map,     \* the map objects
    thr,     \* ioctl threads
    imutex,  \* owner of internal_map_mutex
    phase,   \* "open", "closing" or "closed"
    leaked,  \* history: maps nobody will free
    closefail   \* history: the CLOSE of hfastrpc_file_free failed

vars == <<map, thr, imutex, phase, leaked, closefail>>

Unborn ==
    [state |-> "unborn", listed |-> FALSE, fd |-> NULL, kind |-> "va",
     keep |-> FALSE, refs |-> 0, ctx |-> 0, dma |-> 0, dsp |-> FALSE,
     short |-> FALSE, heap |-> FALSE]

Idle == [pc |-> "idle", buf |-> NULL, out |-> FALSE, dma |-> NULL,
         m |-> NULL, op |-> "none"]

Init ==
    /\ map = [m \in Maps |-> Unborn]
    /\ thr = [t \in Threads |-> Idle]
    /\ imutex = NULL
    /\ phase = "open"
    /\ leaked = {}
    /\ closefail = FALSE

-----------------------------------------------------------------------------
(* virtio_fastrpc_mem.c, all under map_mutex.                              *)

Live(m) == map[m].state = "live"

\* vfastrpc_mmap_find
Find(fd, kind) ==
    {m \in Maps : map[m].listed /\ map[m].fd = fd /\ map[m].kind = kind}

\* hfastrpc_mmap_free of the map r, without force: r afterwards.
Put(r) ==
    IF r.refs <= 0 THEN r
    ELSE IF r.refs = 1 /\ r.ctx = 0 /\ r.dma = 0
         THEN [r EXCEPT !.refs = 0, !.state = "freed", !.listed = FALSE]
         ELSE [r EXCEPT !.refs = @ - 1]

\* Fault: FASTRPC_ATTR_KEEP_MAP holds no reference.
NewMap_OneRef(fd, kind, keep) ==
    [Unborn EXCEPT !.state = "live", !.fd = fd, !.kind = kind, !.keep = keep,
                   !.refs = 1]

\* A map object fresh from kzalloc; FASTRPC_ATTR_KEEP_MAP holds a reference
\* of its own.
NewMap(fd, kind, keep) ==
    [Unborn EXCEPT !.state = "live", !.fd = fd, !.kind = kind, !.keep = keep,
                   !.refs = IF keep THEN 2 ELSE 1]

\* hfastrpc_mmap_create: the outcomes, as [m |-> the map or NULL,
\* rec |-> its record, ok |-> is it on the list].  A map whose count is at
\* its limit is not found (-ETOOMANYREFS) and a second one is made.  A
\* creation that fails drops one reference, which frees the map unless it is
\* to be kept.
MmapCreate(fd, kind, keep) ==
    LET full == {f \in Find(fd, kind) : map[f].refs >= MaxRefs}
        fresh == {m \in Maps : /\ map[m].state = "unborn"
                               /\ Find(fd, kind) = {} \/ full # {}}
    IN  {[m |-> m, rec |-> [map[m] EXCEPT !.refs = @ + 1], ok |-> TRUE] :
            m \in Find(fd, kind) \ full}
        \cup
        {[m |-> m, ok |-> TRUE,
          rec |-> [NewMap(fd, kind, keep) EXCEPT !.listed = TRUE]] :
            m \in fresh}
        \cup
        {[m |-> m, ok |-> FALSE, rec |-> Put(NewMap(fd, kind, keep))] :
            m \in fresh}

\* The variables after outcome r of MmapCreate, with the caller's update.
Acquire(r, rec) ==
    /\ map' = [map EXCEPT ![r.m] = rec]
    /\ leaked' = IF ~r.ok /\ rec.state = "live" THEN leaked \cup {r.m}
                 ELSE leaked

-----------------------------------------------------------------------------
(* Invocations.                                                            *)

\* get_args: map the buffer argument.  A failed creation fails the call.
GetArgsBuf(t, fd, keep, out) ==
    /\ phase = "open" /\ thr[t].pc = "idle"
    /\ \E r \in MmapCreate(fd, "va", keep) :
        /\ Acquire(r, IF r.ok THEN [r.rec EXCEPT !.ctx = @ + 1] ELSE r.rec)
        /\ thr' = [thr EXCEPT ![t] =
               IF r.ok THEN [Idle EXCEPT !.pc = "handle", !.buf = r.m,
                                         !.out = out]
               ELSE Idle]
    /\ UNCHANGED <<imutex, phase, closefail>>

\* get_args: map the DMA handle argument, if the call has one.
GetArgsHandle(t, fd) ==
    /\ thr[t].pc = "handle"
    /\ \E r \in MmapCreate(fd, "nova", FALSE) :
        /\ Acquire(r, IF r.ok THEN [r.rec EXCEPT !.dma = @ + 1] ELSE r.rec)
        /\ thr' = [thr EXCEPT ![t].pc = IF r.ok THEN "check" ELSE "free",
                              ![t].dma = IF r.ok THEN fd ELSE NULL]
    /\ UNCHANGED <<imutex, phase, closefail>>

\* get_args: a later handle cannot be mapped, and the one mapped before it is
\* given up again, still under map_mutex.
GetArgsRollback(t, fd) ==
    /\ thr[t].pc = "handle"
    /\ \E r \in MmapCreate(fd, "nova", FALSE) :
        /\ r.ok
        /\ map' = [map EXCEPT ![r.m] = Put(r.rec)]
    /\ thr' = [thr EXCEPT ![t].pc = "free"]
    /\ UNCHANGED <<imutex, phase, leaked, closefail>>

GetArgsNoHandle(t) ==
    /\ thr[t].pc = "handle"
    /\ thr' = [thr EXCEPT ![t].pc = "flight"]
    /\ UNCHANGED <<map, imutex, phase, leaked, closefail>>

\* get_args looks the handle's map up again; when it has gone, the rest of the
\* arguments is not filled in and the call is sent all the same (err is 0).
GetArgsCheck(t) ==
    /\ thr[t].pc = "check"
    /\ thr' = [thr EXCEPT ![t].pc = "flight",
                          ![t].dma = IF Find(@, "nova") = {} THEN NULL ELSE @]
    /\ UNCHANGED <<map, imutex, phase, leaked, closefail>>

\* get_args fails later, or the send does, or the call ends in an error.
InvokeFails(t) ==
    /\ thr[t].pc \in {"check", "flight"}
    /\ thr' = [thr EXCEPT ![t].pc = "free"]
    /\ UNCHANGED <<map, imutex, phase, leaked, closefail>>

\* Fault: the context count stays up.
DropCtx_KeepsCount(r) == Put(r)

\* ctx_refs-- and hfastrpc_mmap_free
DropCtx(r) == Put([r EXCEPT !.ctx = IF @ > 0 THEN @ - 1 ELSE @])

\* Fault: maps[i] is not cleared, context_free will find it again.
PutArgsBuf_KeepsPointer(t) ==
    /\ thr[t].pc = "flight" /\ phase = "open"
    /\ map' = IF thr[t].out THEN [map EXCEPT ![thr[t].buf] = DropCtx(@)] ELSE map
    /\ thr' = [thr EXCEPT ![t].pc = "fdlist"]
    /\ UNCHANGED <<imutex, phase, leaked, closefail>>

\* put_args: an output map is dropped here and forgotten ...
PutArgsBuf(t) ==
    /\ thr[t].pc = "flight" /\ phase = "open"
    /\ IF thr[t].out
       THEN /\ map' = [map EXCEPT ![thr[t].buf] = DropCtx(@)]
            /\ thr' = [thr EXCEPT ![t].pc = "fdlist", ![t].buf = NULL]
       ELSE /\ thr' = [thr EXCEPT ![t].pc = "fdlist"]
            /\ UNCHANGED map
    /\ UNCHANGED <<imutex, phase, leaked, closefail>>

\* ... and the DSP names the handles it has released; ms are the maps the
\* look-ups of their descriptors find.
PutArgsFdList(t, ms) ==
    /\ thr[t].pc = "fdlist"
    /\ \A m \in ms : map[m].listed /\ map[m].kind = "nova"
    /\ map' = [m \in Maps |->
           IF m \in ms /\ map[m].dma > 0
           THEN Put([map[m] EXCEPT !.dma = 0])
           ELSE map[m]]
    /\ thr' = [thr EXCEPT ![t].pc = "free"]
    /\ UNCHANGED <<imutex, phase, leaked, closefail>>

\* context_free drops the buffer maps the context still has; the ones of its
\* handles are left to the DSP.
ContextFree(t) ==
    /\ \/ thr[t].pc = "free"
       \/ phase = "closing" /\ thr[t].pc = "flight"
    /\ map' = IF thr[t].buf = NULL THEN map
              ELSE [map EXCEPT ![thr[t].buf] = DropCtx(@)]
    /\ thr' = [thr EXCEPT ![t] = Idle]
    /\ UNCHANGED <<imutex, phase, leaked, closefail>>

-----------------------------------------------------------------------------
(* The mapping ioctls.                                                     *)

Finish(t) == /\ thr' = [thr EXCEPT ![t] = Idle]
             /\ imutex' = NULL

\* hfastrpc_mmap and hfastrpc_mem_map; only the latter refuses a map the DSP
\* already has.
MapEnter(t, fd, keep, op) ==
    /\ phase = "open" /\ thr[t].pc = "idle" /\ imutex = NULL
    /\ op \in {"mmap", "mem_map"} /\ (op = "mmap" => ~keep)
    /\ \E r \in MmapCreate(fd, "va", keep) :
        /\ Acquire(r, r.rec)
        /\ IF r.ok
           THEN /\ imutex' = t
                /\ thr' = [thr EXCEPT ![t] =
                       [Idle EXCEPT !.m = r.m, !.op = op,
                            !.pc = IF op = "mem_map" /\ r.rec.dsp
                                   THEN "mapfail" ELSE "mapdsp"]]
           ELSE UNCHANGED <<imutex, thr>>
    /\ UNCHANGED <<phase, closefail>>

\* The same with the flags ADSP_MMAP_HEAP_ADDR or ADSP_MMAP_REMOTE_HEAP_ADDR:
\* hfastrpc_mmap_create allocates a map, refuses the flags, and gives the map
\* to hfastrpc_mmap_free, which for these flags only prints.
MapEnterHeap(t, fd, keep) ==
    /\ phase = "open" /\ thr[t].pc = "idle" /\ imutex = NULL
    /\ \E m \in Maps :
        /\ map[m].state = "unborn"
        /\ map' = [map EXCEPT ![m] =
               [Unborn EXCEPT !.state = "live", !.fd = fd, !.keep = keep,
                              !.refs = 1, !.heap = TRUE]]
        /\ leaked' = leaked \cup {m}
    /\ UNCHANGED <<thr, imutex, phase, closefail>>

\* hfastrpc_mmap_on_dsp, hfastrpc_mem_map_to_dsp
MapDsp(t) ==
    /\ thr[t].pc = "mapdsp"
    /\ \/ /\ map' = [map EXCEPT ![thr[t].m].dsp = TRUE]
          /\ Finish(t)
       \/ /\ thr' = [thr EXCEPT ![t].pc = "mapfail"]
          /\ UNCHANGED <<map, imutex>>
    /\ UNCHANGED <<phase, leaked, closefail>>

MapFail(t) ==
    /\ thr[t].pc = "mapfail"
    /\ map' = [map EXCEPT ![thr[t].m] = Put(@)]
    /\ Finish(t)
    /\ UNCHANGED <<phase, leaked, closefail>>

\* The condition in vfastrpc_mmap_remove.  The caller names a map by the DSP
\* address a map call returned, or by 0 when there was none.
Removable(m) ==
    /\ map[m].listed
    /\ map[m].refs = 1 \/ (map[m].refs = 2 /\ map[m].keep)
    /\ map[m].ctx = 0 /\ map[m].dma = 0

\* hfastrpc_munmap and hfastrpc_mem_unmap: off the list ...
UnmapEnter(t, m, op) ==
    /\ phase = "open" /\ thr[t].pc = "idle" /\ imutex = NULL
    /\ op \in {"munmap", "mem_unmap"}
    /\ Removable(m)
    /\ map' = [map EXCEPT ![m].listed = FALSE,
                          ![m].refs = IF map[m].keep THEN @ - 1 ELSE @]
    /\ imutex' = t
    /\ thr' = [thr EXCEPT ![t] = [Idle EXCEPT !.pc = "unmapdsp", !.m = m,
                                              !.op = op]]
    /\ UNCHANGED <<phase, leaked, closefail>>

\* ... unmap on the DSP ...
UnmapDsp(t) ==
    /\ thr[t].pc = "unmapdsp"
    /\ \/ /\ map' = [map EXCEPT ![thr[t].m].dsp = FALSE]
          /\ thr' = [thr EXCEPT ![t].pc = "unmapfree"]
       \/ /\ thr' = [thr EXCEPT ![t].pc = "unmapback"]
          /\ UNCHANGED map
    /\ UNCHANGED <<imutex, phase, leaked, closefail>>

\* ... and free it; a map whose count has already reached 0 is passed over.
UnmapFree(t) ==
    /\ thr[t].pc = "unmapfree"
    /\ map' = [map EXCEPT ![thr[t].m] = Put(@)]
    /\ leaked' = IF map[thr[t].m].refs = 0 THEN leaked \cup {thr[t].m}
                 ELSE leaked
    /\ Finish(t)
    /\ UNCHANGED <<phase, closefail>>

\* Fault: the map is not put back on the list.
UnmapBack_Forgets(t) ==
    /\ thr[t].pc = "unmapback"
    /\ Finish(t)
    /\ UNCHANGED <<map, phase, leaked, closefail>>

\* When the DSP refuses, the map goes back on the list.  Only mem_unmap gives
\* a kept map its second reference back.
UnmapBack(t) ==
    LET keep == map[thr[t].m].keep
    IN  /\ thr[t].pc = "unmapback"
        /\ map' = [map EXCEPT
               ![thr[t].m].listed = TRUE,
               ![thr[t].m].refs = IF keep /\ thr[t].op = "mem_unmap"
                                  THEN @ + 1 ELSE @,
               ![thr[t].m].short = @ \/ (keep /\ thr[t].op = "munmap")]
        /\ Finish(t)
        /\ UNCHANGED <<phase, leaked, closefail>>

\* Fault: the attribute is not cleared.
MunmapFd_KeepsAttr(t, fd) ==
    /\ phase = "open" /\ thr[t].pc = "idle" /\ imutex = NULL
    /\ map' = [m \in Maps |->
           IF map[m].listed /\ map[m].fd = fd /\ map[m].keep
           THEN Put(map[m])
           ELSE map[m]]
    /\ UNCHANGED <<thr, imutex, phase, leaked, closefail>>

\* hfastrpc_munmap_fd
MunmapFd(t, fd) ==
    /\ phase = "open" /\ thr[t].pc = "idle" /\ imutex = NULL
    /\ map' = [m \in Maps |->
           IF map[m].listed /\ map[m].fd = fd /\ map[m].keep
           THEN Put([map[m] EXCEPT !.keep = FALSE])
           ELSE map[m]]
    /\ UNCHANGED <<thr, imutex, phase, leaked, closefail>>

\* hfastrpc_file_free: no ioctl is running, interrupted invocations are.  The
\* DSP process is closed; virt_fastrpc_close may fail, which is not looked at,
\* and then the process keeps what it has mapped.  The contexts are freed ...
FileFreeStart ==
    /\ phase = "open"
    /\ \A t \in Threads : thr[t].pc \in {"idle", "flight"}
    /\ phase' = "closing"
    /\ \/ /\ map' = [m \in Maps |-> [map[m] EXCEPT !.dsp = FALSE]]
          /\ UNCHANGED closefail
       \/ /\ closefail' = TRUE
          /\ UNCHANGED map
    /\ UNCHANGED <<thr, imutex, leaked>>

\* ... and the maps left on the list are freed by force.  The loop looks at
\* the head of the list until the list is empty; a map without references is
\* not removed, so with one of those on the list it does not end.
FileFreeEnd ==
    /\ phase = "closing"
    /\ \A t \in Threads : thr[t].pc = "idle"
    /\ \A m \in Maps : map[m].listed => map[m].refs > 0
    /\ phase' = "closed"
    /\ map' = [m \in Maps |->
           IF map[m].listed
           THEN [map[m] EXCEPT !.refs = 0, !.ctx = 0, !.dma = 0,
                               !.state = "freed", !.listed = FALSE]
           ELSE map[m]]
    /\ UNCHANGED <<thr, imutex, leaked, closefail>>

-----------------------------------------------------------------------------
Invocation(t) ==
    \/ \E fd \in Fds, keep, out \in BOOLEAN : GetArgsBuf(t, fd, keep, out)
    \/ \E fd \in Fds : GetArgsHandle(t, fd) \/ GetArgsRollback(t, fd)
    \/ GetArgsNoHandle(t) \/ GetArgsCheck(t) \/ InvokeFails(t)
    \/ PutArgsBuf(t)
    \/ \E ms \in SUBSET Maps : PutArgsFdList(t, ms)
    \/ ContextFree(t)

Mapping(t) ==
    \/ \E fd \in Fds, keep \in BOOLEAN, op \in {"mmap", "mem_map"} :
           MapEnter(t, fd, keep, op)
    \/ \E fd \in Fds, keep \in BOOLEAN : MapEnterHeap(t, fd, keep)
    \/ MapDsp(t) \/ MapFail(t)
    \/ \E m \in Maps, op \in {"munmap", "mem_unmap"} : UnmapEnter(t, m, op)
    \/ UnmapDsp(t) \/ UnmapFree(t) \/ UnmapBack(t)
    \/ \E fd \in Fds : MunmapFd(t, fd)

Next ==
    \/ \E t \in Threads : Invocation(t) \/ Mapping(t)
    \/ FileFreeStart \/ FileFreeEnd

Spec == Init /\ [][Next]_vars

-----------------------------------------------------------------------------
\* The shape of the variables; no counter goes below zero.
TypeOK ==
    /\ map \in [Maps ->
           [state : {"unborn", "live", "freed"}, listed : BOOLEAN,
            fd : Fds \cup {NULL}, kind : {"va", "nova"}, keep : BOOLEAN,
            refs : Nat, ctx : Nat, dma : Nat, dsp : BOOLEAN,
            short : BOOLEAN, heap : BOOLEAN]]
    /\ thr \in [Threads ->
           [pc : {"idle", "handle", "check", "flight", "fdlist", "free",
                  "mapdsp", "mapfail", "unmapdsp", "unmapfree", "unmapback"},
            buf : Maps \cup {NULL}, out : BOOLEAN, dma : Fds \cup {NULL},
            m : Maps \cup {NULL},
            op : {"none", "mmap", "mem_map", "munmap", "mem_unmap"}]]
    /\ imutex \in Threads \cup {NULL}
    /\ phase \in {"open", "closing", "closed"}
    /\ leaked \subseteq Maps
    /\ closefail \in BOOLEAN

\* No pointer to a freed map: neither an invocation's buffer (get_args,
\* put_args, context_free) nor the map of an ioctl waiting for the DSP.  A
\* kept map whose hfastrpc_munmap failed is one reference short: for it this
\* does not hold.
NoUseAfterFree ==
    \A t \in Threads : \A m \in {thr[t].buf, thr[t].m} \ {NULL} :
        Live(m) \/ map[m].short

\* ctx_refs counts the invocations that hold the map, exactly.
CtxRefsExact ==
    \A m \in Maps : Live(m) =>
        map[m].ctx = Cardinality({t \in Threads : thr[t].buf = m})

\* What the DSP has mapped is backed by a live mapping: munmap_fd, a failed
\* map call, the rollback of get_args, the end of an invocation, and a release
\* that is under way never unmap it behind the DSP's back.  Two things of the
\* code do: an earlier hfastrpc_munmap of a kept map that failed, and the
\* forced free at the end of a release whose CLOSE failed.
DspMappingBacked ==
    \A m \in Maps : map[m].dsp =>
        Live(m) \/ map[m].short \/ (closefail /\ phase = "closed")

\* Every live map is on the session's list, in the hands of an unmap ioctl,
\* or one of the leaks the code has: a map asked for with the heap flags, a
\* kept map whose creation failed, and a kept map unmapped again after
\* hfastrpc_munmap failed once.
MapsAccounted ==
    /\ \A m \in Maps : Live(m) /\ ~map[m].listed =>
           m \in leaked \/ \E t \in Threads : thr[t].m = m
    /\ \A m \in leaked : map[m].keep \/ map[m].heap

\* The loop of hfastrpc_file_free ends: no map is on the list without a
\* reference, unless a failed hfastrpc_munmap of a kept map lost one before.
CloseEnds ==
    \A m \in Maps : map[m].listed => map[m].refs > 0 \/ map[m].short
====

------------------------------ MODULE BufPool ------------------------------
(***************************************************************************)
(* The kernel buffers of one session: hfastrpc_buf_alloc and               *)
(* hfastrpc_buf_free (virtio_fastrpc_mem.c) with the list of cached        *)
(* buffers, the list of heap pages given to the DSP and the persistent     *)
(* header pages, as invocations, the heap ioctls, INVOKE2 and file release *)
(* use them (hybrid_fastrpc_core.c).                                       *)
(*                                                                         *)
(* hlock guards one list operation at a time, one action each.  A piece of *)
(* memory is <<"buf", b>>, a buffer of its own, or <<"page", a, i>>, page  *)
(* i of the header array a.  An address of Bufs is used once.              *)
(***************************************************************************)
EXTENDS Integers, FiniteSets

CONSTANTS
    Bufs,      \* buffers that can be allocated
    Arrays,    \* header arrays that can be allocated (kcalloc)
    Threads,   \* ioctl threads
    Sizes,     \* sizes an invocation or a heap ioctl asks for
    Headers,   \* user_concurrency values of INVOKE2
    PageSize,
    MAX_CACHED_BUFS, MAX_CACHE_BUF_SIZE, MAX_PERSISTENT_HEADERS,
    NULL

Pages == 1..MAX_PERSISTENT_HEADERS
Pieces == ({"buf"} \X Bufs) \cup ({"page"} \X Arrays \X Pages)

ASSUME ConstAssumption ==
    /\ NULL \notin Bufs \cup Arrays \cup Threads \cup Pieces
    /\ Sizes \subseteq Nat \ {0} /\ Headers \subseteq Nat
    /\ PageSize \in Nat \ {0}
    /\ {MAX_CACHED_BUFS, MAX_CACHE_BUF_SIZE, MAX_PERSISTENT_HEADERS} \subseteq Nat

VARIABLES
    buf,     \* the buffers
    cached,  \* fl->cached_bufs
    num_cached_buf,
    remote,  \* fl->remote_bufs
    area,    \* the header arrays: base piece, pages in use
    hdr,     \* pers_hdr_buf, hdr_bufs and num_pers_hdrs of the session
    thr,     \* ioctl threads
    imutex,  \* owner of internal_map_mutex
    phase,   \* "open", "closing" or "closed"
    closefail,  \* history: the CLOSE of hfastrpc_file_free failed
    raced    \* history: two INVOKE2 calls have set up headers at once

vars == <<buf, cached, num_cached_buf, remote, area, hdr, thr, imutex, phase,
          closefail, raced>>

NoHeaders == [buf |-> NULL, arr |-> NULL, n |-> 0]
Idle == [pc |-> "idle", op |-> "none", want |-> 0, got |-> NULL,
         meta |-> NULL, metalen |-> 0, n |-> 0]

Init ==
    /\ buf = [b \in Bufs |-> [state |-> "unborn", size |-> 0, dsp |-> "none"]]
    /\ cached = {} /\ num_cached_buf = 0 /\ remote = {}
    /\ area = [a \in Arrays |-> [base |-> NULL, use |-> {}]]
    /\ hdr = NoHeaders
    /\ thr = [t \in Threads |-> Idle]
    /\ imutex = NULL
    /\ phase = "open"
    /\ closefail = FALSE
    /\ raced = FALSE

-----------------------------------------------------------------------------
(* virtio_fastrpc_mem.c                                                    *)

PageAlign(s) == ((s + PageSize - 1) \div PageSize) * PageSize

\* No buffer changes.
Keep == UNCHANGED <<buf, cached, num_cached_buf, remote, area>>

Live(b) == buf[b].state = "live"
Size(p) == IF p[1] = "buf" THEN buf[p[2]].size ELSE PageSize

\* The metadata of a call and of the header area have a type of their own;
\* heap pages neither come from the cache nor are they rounded up.
IsMeta(op) == op \in {"invoke", "headers"}
IsHeap(op) == op = "mmap"

\* hfastrpc_get_persistent_buf: the header page of lowest index not in use.
\* num_pers_hdrs is tested before hdr_bufs is read.
GetPersistentBuf(t) ==
    LET free == {i \in 1..hdr.n : i \notin area[hdr.arr].use}
        usable == hdr.n > 0 /\ IsMeta(thr[t].op) /\ thr[t].want <= PageSize
    IN  /\ thr[t].pc = "persistent"
        /\ \/ /\ usable /\ hdr.arr = NULL
              /\ thr' = [thr EXCEPT ![t].pc = "oops"]
              /\ UNCHANGED area
           \/ /\ usable /\ hdr.arr # NULL
              /\ \E i \in free :
                  /\ \A j \in free : i <= j
                  /\ area' = [area EXCEPT ![hdr.arr].use = @ \cup {i}]
                  /\ thr' = [thr EXCEPT ![t].pc = "got",
                                        ![t].got = <<"page", hdr.arr, i>>]
           \/ /\ usable /\ hdr.arr # NULL => free = {}
              /\ ~usable \/ hdr.arr # NULL
              /\ thr' = [thr EXCEPT ![t].pc = "cached"]
              /\ UNCHANGED area
        /\ UNCHANGED <<buf, cached, num_cached_buf, remote, hdr, imutex, phase,
                       closefail, raced>>

\* Fault: any cached buffer is taken.
FitsIn_Any(size) == cached

\* The cached buffers that hold size bytes.
FitsIn(size) == {b \in cached : buf[b].size >= size}

\* Fault: the buffer stays on the list.
GetCachedBuf_LeavesIt(t) ==
    LET fit == FitsIn(thr[t].want)
    IN  /\ thr[t].pc = "cached"
        /\ thr' = [thr EXCEPT ![t] =
               IF IsHeap(@.op) \/ fit = {} THEN [@ EXCEPT !.pc = "fresh"]
               ELSE [@ EXCEPT !.pc = "got",
                              !.got = <<"buf", CHOOSE b \in fit : TRUE>>]]
        /\ Keep /\ UNCHANGED <<hdr, imutex, phase, closefail, raced>>

\* Fault: num_cached_buf stays as it is.
GetCachedBuf_KeepsCount(t) ==
    LET fit == FitsIn(thr[t].want)
    IN  /\ thr[t].pc = "cached"
        /\ IF IsHeap(thr[t].op) \/ fit = {}
           THEN /\ thr' = [thr EXCEPT ![t].pc = "fresh"]
                /\ UNCHANGED cached
           ELSE \E b \in fit :
                    /\ cached' = cached \ {b}
                    /\ thr' = [thr EXCEPT ![t].pc = "got", ![t].got = <<"buf", b>>]
        /\ UNCHANGED <<buf, num_cached_buf, remote, area, hdr, imutex, phase,
                       closefail, raced>>

\* hfastrpc_get_cached_buf: a smallest one of them leaves the cache.
GetCachedBuf(t) ==
    LET fit == FitsIn(thr[t].want)
    IN  /\ thr[t].pc = "cached"
        /\ IF IsHeap(thr[t].op) \/ fit = {}
           THEN /\ thr' = [thr EXCEPT ![t].pc = "fresh"]
                /\ UNCHANGED <<cached, num_cached_buf>>
           ELSE \E b \in fit :
                    /\ \A c \in fit : buf[b].size <= buf[c].size
                    /\ cached' = cached \ {b}
                    /\ num_cached_buf' = num_cached_buf - 1
                    /\ thr' = [thr EXCEPT ![t].pc = "got", ![t].got = <<"buf", b>>]
        /\ UNCHANGED <<buf, remote, area, hdr, imutex, phase, closefail, raced>>

\* hfastrpc_buf_alloc, the rest: a new buffer, mapped through the SMMU and,
\* for heap pages, linked; when a step fails nothing remains of it.
FreshBuf(t) ==
    /\ thr[t].pc = "fresh"
    /\ \/ \E b \in Bufs :
           /\ buf[b].state = "unborn"
           /\ buf' = [buf EXCEPT ![b] =
                  [state |-> "live", dsp |-> "none",
                   size |-> IF IsHeap(thr[t].op) THEN thr[t].want
                            ELSE PageAlign(thr[t].want)]]
           /\ remote' = IF IsHeap(thr[t].op) THEN remote \cup {b} ELSE remote
           /\ thr' = [thr EXCEPT ![t].pc = "got", ![t].got = <<"buf", b>>]
       \/ /\ thr' = [thr EXCEPT ![t].pc = "failed"]
          /\ UNCHANGED <<buf, remote>>
    /\ UNCHANGED <<cached, num_cached_buf, area, hdr, imutex, phase, closefail,
                   raced>>

\* May the buffer b be cached?
Cacheable(b) ==
    /\ buf[b].size < MAX_CACHE_BUF_SIZE
    /\ ~(num_cached_buf > MAX_CACHED_BUFS)

\* hfastrpc_buf_free
BufFree(p, cache) ==
    IF p = NULL THEN Keep
    ELSE IF p[1] = "page"
    THEN /\ area' = [area EXCEPT ![p[2]].use = @ \ {p[3]}]
         /\ UNCHANGED <<buf, cached, num_cached_buf, remote>>
    ELSE LET b == p[2] IN
         /\ IF cache /\ Cacheable(b)
            THEN /\ cached' = cached \cup {b}
                 /\ num_cached_buf' = num_cached_buf + 1
                 /\ UNCHANGED <<buf, remote>>
            ELSE /\ buf' = [buf EXCEPT ![b].state = "freed"]
                 /\ remote' = remote \ {b}
                 /\ UNCHANGED <<cached, num_cached_buf>>
         /\ UNCHANGED area

-----------------------------------------------------------------------------
(* Invocations: get_args takes a buffer for the metadata and one for what  *)
(* is copied, context_free gives them back.                                *)

InvokeStart(t, metalen) ==
    /\ phase = "open" /\ thr[t].pc = "idle"
    /\ thr' = [thr EXCEPT ![t] = [Idle EXCEPT !.pc = "persistent",
                                       !.op = "invoke", !.want = metalen]]
    /\ Keep /\ UNCHANGED <<hdr, imutex, phase, closefail, raced>>

\* ctx->buf is set; nothing is copied, or copylen bytes are.
InvokeMeta(t) ==
    /\ thr[t].op = "invoke" /\ thr[t].pc = "got"
    /\ \E copylen \in Sizes \cup {0} :
        thr' = [thr EXCEPT ![t] =
            [@ EXCEPT !.meta = thr[t].got, !.metalen = thr[t].want,
                      !.got = NULL, !.want = copylen, !.op = "copy",
                      !.pc = IF copylen = 0 THEN "flight" ELSE "persistent"]]
    /\ Keep /\ UNCHANGED <<hdr, imutex, phase, closefail, raced>>

InvokeCopy(t) ==
    /\ thr[t].op = "copy" /\ thr[t].pc = "got"
    /\ thr' = [thr EXCEPT ![t].pc = "flight"]
    /\ Keep /\ UNCHANGED <<hdr, imutex, phase, closefail, raced>>

\* context_free: ctx->buf ...
ContextFreeMeta(t) ==
    /\ thr[t].op \in {"invoke", "copy"} /\ thr[t].pc \in {"flight", "failed"}
    /\ BufFree(thr[t].meta, TRUE)
    /\ thr' = [thr EXCEPT ![t].pc = "freecopy", ![t].meta = NULL]
    /\ UNCHANGED <<hdr, imutex, phase, closefail, raced>>

\* ... then ctx->copybuf.
ContextFreeCopy(t) ==
    /\ thr[t].pc = "freecopy"
    /\ BufFree(thr[t].got, TRUE)
    /\ thr' = [thr EXCEPT ![t] = Idle]
    /\ UNCHANGED <<hdr, imutex, phase, closefail, raced>>

-----------------------------------------------------------------------------
(* Heap pages for the DSP, under internal_map_mutex.                       *)

\* hfastrpc_mmap with ADSP_MMAP_ADD_PAGES
MmapStart(t, size) ==
    /\ phase = "open" /\ thr[t].pc = "idle" /\ imutex = NULL
    /\ imutex' = t
    /\ thr' = [thr EXCEPT ![t] = [Idle EXCEPT !.pc = "persistent",
                                       !.op = "mmap", !.want = size]]
    /\ Keep /\ UNCHANGED <<hdr, phase, closefail, raced>>

\* hfastrpc_mmap_on_dsp answers; raddr is set, or the buffer is freed.
MmapDsp(t) ==
    /\ thr[t].op = "mmap" /\ thr[t].pc \in {"got", "failed"}
    /\ \/ /\ thr[t].pc = "got"
          /\ buf' = [buf EXCEPT ![thr[t].got[2]].dsp = "mapped"]
          /\ UNCHANGED <<cached, num_cached_buf, remote, area>>
       \/ BufFree(thr[t].got, FALSE)
    /\ imutex' = NULL
    /\ thr' = [thr EXCEPT ![t] = Idle]
    /\ UNCHANGED <<hdr, phase, closefail, raced>>

\* hfastrpc_munmap finds the pages by the address the DSP has for them ...
MunmapStart(t, b) ==
    /\ phase = "open" /\ thr[t].pc = "idle" /\ imutex = NULL
    /\ b \in remote /\ buf[b].dsp = "mapped"
    /\ imutex' = t
    /\ thr' = [thr EXCEPT ![t] = [Idle EXCEPT !.pc = "munmap", !.op = "munmap",
                                              !.got = <<"buf", b>>]]
    /\ Keep /\ UNCHANGED <<hdr, phase, closefail, raced>>

\* Fault: the pages are freed before the answer is looked at.
MunmapDsp_FreesFirst(t) ==
    /\ thr[t].pc = "munmap"
    /\ BufFree(thr[t].got, FALSE)
    /\ imutex' = NULL
    /\ thr' = [thr EXCEPT ![t] = Idle]
    /\ UNCHANGED <<hdr, phase, closefail, raced>>

\* ... and frees them when the DSP has let go of them.
MunmapDsp(t) ==
    /\ thr[t].pc = "munmap"
    /\ \/ /\ buf' = [buf EXCEPT ![thr[t].got[2]].state = "freed",
                                ![thr[t].got[2]].dsp = "none"]
          /\ remote' = remote \ {thr[t].got[2]}
          /\ UNCHANGED <<cached, num_cached_buf, area>>
       \/ Keep
    /\ imutex' = NULL
    /\ thr' = [thr EXCEPT ![t] = Idle]
    /\ UNCHANGED <<hdr, phase, closefail, raced>>

-----------------------------------------------------------------------------
(* hfastrpc_create_persistent_headers                                      *)

\* Is some thread setting up headers?
Creating == \E t \in Threads : thr[t].op = "headers"

\* pers_hdr_buf is read without hlock.
HeadersStart(t, concurrency) ==
    /\ phase = "open" /\ thr[t].pc = "idle"
    /\ hdr.buf = NULL /\ concurrency > 0
    /\ LET n == IF concurrency > MAX_PERSISTENT_HEADERS
                THEN MAX_PERSISTENT_HEADERS ELSE concurrency
       IN  thr' = [thr EXCEPT ![t] =
               [Idle EXCEPT !.pc = "persistent", !.op = "headers",
                            !.want = n * PageSize, !.n = n]]
    /\ raced' = (raced \/ Creating)
    /\ Keep /\ UNCHANGED <<hdr, imutex, phase, closefail>>

\* The DSP's view of the buffer p, when it is one.
SetDsp(p, d) ==
    buf' = [b \in Bufs |->
        IF p = <<"buf", b>> THEN [buf[b] EXCEPT !.dsp = d] ELSE buf[b]]

\* hfastrpc_mem_map_to_dsp of the whole area
HeadersMap(t) ==
    /\ thr[t].op = "headers" /\ thr[t].pc = "got"
    /\ \/ /\ thr' = [thr EXCEPT ![t].pc = "mapped"]
          /\ SetDsp(thr[t].got, "mapped")
       \/ /\ thr' = [thr EXCEPT ![t].pc = "failed"]
          /\ UNCHANGED buf
    /\ UNCHANGED <<cached, num_cached_buf, remote, area, hdr, imutex, phase,
                   closefail, raced>>

\* The array is allocated and everything is published under hlock ...
HeadersPublish(t) ==
    /\ thr[t].pc = "mapped"
    /\ \E a \in Arrays :
        /\ area[a].base = NULL
        /\ area' = [area EXCEPT ![a] = [base |-> thr[t].got, use |-> {}]]
        /\ hdr' = [buf |-> thr[t].got, arr |-> a, n |-> thr[t].n]
    /\ thr' = [thr EXCEPT ![t] = Idle]
    /\ UNCHANGED <<buf, cached, num_cached_buf, remote, imutex, phase, closefail,
                   raced>>

\* ... or there is no memory for it, and the area will be freed while
\* the DSP has it mapped.
HeadersNoArray(t) ==
    /\ thr[t].pc = "mapped"
    /\ thr' = [thr EXCEPT ![t].pc = "failed"]
    /\ SetDsp(thr[t].got, "orphan")
    /\ UNCHANGED <<cached, num_cached_buf, remote, area, hdr, imutex, phase,
                   closefail, raced>>

\* The error path clears the session's fields one by one, without hlock ...
HeadersFail(t) ==
    /\ thr[t].op = "headers" /\ thr[t].pc = "failed"
    /\ hdr' = [hdr EXCEPT !.buf = NULL, !.arr = NULL]
    /\ thr' = [thr EXCEPT ![t].pc = "clearnum"]
    /\ Keep /\ UNCHANGED <<imutex, phase, closefail, raced>>

\* ... and frees the area.
HeadersClear(t) ==
    /\ thr[t].pc = "clearnum"
    /\ hdr' = [hdr EXCEPT !.n = 0]
    /\ BufFree(thr[t].got, FALSE)
    /\ thr' = [thr EXCEPT ![t] = Idle]
    /\ UNCHANGED <<imutex, phase, closefail, raced>>

-----------------------------------------------------------------------------
(* hfastrpc_file_free: no ioctl is running; calls may still be in flight.  *)

\* The DSP process is closed; virt_fastrpc_close may fail, which is not looked
\* at, and then the process keeps what it has mapped.
FileFreeStart ==
    /\ phase = "open"
    /\ \A t \in Threads : thr[t].pc \in {"idle", "flight"}
    /\ phase' = "closing"
    /\ \/ /\ buf' = [b \in Bufs |-> [buf[b] EXCEPT !.dsp = "none"]]
          /\ UNCHANGED closefail
       \/ /\ closefail' = TRUE
          /\ UNCHANGED buf
    /\ UNCHANGED <<cached, num_cached_buf, remote, area, hdr, thr, imutex, raced>>

\* Fault: the area behind the headers is forgotten.
FileFreeEnd_NoHeaders ==
    /\ phase = "closing" /\ \A t \in Threads : thr[t].pc = "idle"
    /\ phase' = "closed"
    /\ buf' = [b \in Bufs |->
           IF b \in cached \cup remote THEN [buf[b] EXCEPT !.state = "freed"]
           ELSE buf[b]]
    /\ cached' = {} /\ num_cached_buf' = num_cached_buf - Cardinality(cached)
    /\ remote' = {} /\ hdr' = NoHeaders
    /\ UNCHANGED <<area, thr, imutex, closefail, raced>>

\* Cached buffers, heap pages and the header area are freed.
FileFreeEnd ==
    /\ phase = "closing" /\ \A t \in Threads : thr[t].pc = "idle"
    /\ phase' = "closed"
    /\ buf' = [b \in Bufs |->
           IF b \in cached \cup remote \/ hdr.buf = <<"buf", b>>
           THEN [buf[b] EXCEPT !.state = "freed"] ELSE buf[b]]
    /\ area' = [a \in Arrays |->
           [area[a] EXCEPT !.use = {i \in @ : hdr.buf # <<"page", a, i>>}]]
    /\ cached' = {} /\ num_cached_buf' = num_cached_buf - Cardinality(cached)
    /\ remote' = {} /\ hdr' = NoHeaders
    /\ UNCHANGED <<thr, imutex, closefail, raced>>

-----------------------------------------------------------------------------
Alloc(t) == GetPersistentBuf(t) \/ GetCachedBuf(t) \/ FreshBuf(t)

Invocation(t) ==
    \/ \E s \in Sizes : InvokeStart(t, s)
    \/ InvokeMeta(t) \/ InvokeCopy(t)
    \/ ContextFreeMeta(t) \/ ContextFreeCopy(t)

Heap(t) ==
    \/ \E s \in Sizes : MmapStart(t, s)
    \/ MmapDsp(t)
    \/ \E b \in Bufs : MunmapStart(t, b)
    \/ MunmapDsp(t)

CreateHeaders(t) ==
    \/ \E n \in Headers : HeadersStart(t, n)
    \/ HeadersMap(t) \/ HeadersPublish(t) \/ HeadersNoArray(t)
    \/ HeadersFail(t) \/ HeadersClear(t)

Next ==
    \/ \E t \in Threads :
           Alloc(t) \/ Invocation(t) \/ Heap(t) \/ CreateHeaders(t)
    \/ FileFreeStart \/ FileFreeEnd

Spec == Init /\ [][Next]_vars

-----------------------------------------------------------------------------
\* The shape of the variables.
TypeOK ==
    /\ buf \in [Bufs -> [state : {"unborn", "live", "freed"}, size : Nat,
                         dsp : {"none", "mapped", "orphan"}]]
    /\ cached \subseteq Bufs /\ remote \subseteq Bufs
    /\ num_cached_buf \in Nat
    /\ area \in [Arrays -> [base : Pieces \cup {NULL}, use : SUBSET Pages]]
    /\ hdr \in [buf : Pieces \cup {NULL}, arr : Arrays \cup {NULL}, n : Nat]
    /\ thr \in [Threads ->
           [pc : {"idle", "persistent", "cached", "fresh", "got", "failed",
                  "flight", "freecopy", "munmap", "mapped", "clearnum", "oops"},
            op : {"none", "invoke", "copy", "mmap", "munmap", "headers"},
            want : Nat, got : Pieces \cup {NULL}, meta : Pieces \cup {NULL},
            metalen : Nat, n : Nat]]
    /\ imutex \in Threads \cup {NULL}
    /\ phase \in {"open", "closing", "closed"}
    /\ closefail \in BOOLEAN /\ raced \in BOOLEAN

\* Every thread's fields that own a piece of memory.  While heap pages are
\* being mapped or unmapped the list owns them.
Held(t) == {p \in {thr[t].meta} \cup
                  (IF thr[t].op \in {"mmap", "munmap"} THEN {} ELSE {thr[t].got}) :
            p # NULL}

\* A piece of memory never serves two purposes: two calls, a call and the
\* cache, a call and the header area, the cache and the DSP's heap.  What is
\* in use is never freed: hfastrpc_buf_free and the lists agree on who owns a
\* buffer.
OneOwner ==
    /\ \A t, u \in Threads : t # u => Held(t) \cap Held(u) = {}
    /\ \A t \in Threads :
        /\ thr[t].meta # NULL => thr[t].meta # thr[t].got
        /\ \A p \in Held(t) :
            /\ p[1] = "buf" => Live(p[2]) /\ p[2] \notin cached \cup remote
            /\ p[1] = "page" => p[3] \in area[p[2]].use
            /\ \A a \in Arrays : p # area[a].base
    /\ cached \cap remote = {}
    /\ \A b \in cached \cup remote :
        Live(b) /\ \A a \in Arrays : <<"buf", b>> # area[a].base

\* A call works on buffers as large as it asked for, whether new, cached or a
\* header page.
LargeEnough ==
    \A t \in Threads :
        /\ thr[t].meta # NULL => Size(thr[t].meta) >= thr[t].metalen
        /\ thr[t].pc \in {"got", "mapped", "flight"} /\ thr[t].got # NULL
              /\ thr[t].op # "munmap"
           => Size(thr[t].got) >= thr[t].want

\* num_cached_buf is the number of buffers on cached_bufs, whoever puts one on
\* the list or takes one off: the limit of the cache is applied to what is
\* really cached, and file release does not drive the count below zero.
CacheCounted == num_cached_buf = Cardinality(cached)

\* What the DSP has mapped is not freed under it, neither by an ioctl nor while
\* a release is under way.  The code has two exceptions: a header area whose
\* array could not be allocated is freed and stays mapped ("orphan"), and a
\* release whose CLOSE failed ends by freeing what the DSP still has.
DspBacked ==
    \A b \in Bufs : buf[b].dsp = "mapped" =>
        Live(b) \/ (closefail /\ phase = "closed")

\* Unless two INVOKE2 calls set up headers at once, nobody reads hdr_bufs
\* after it has been cleared, and file release frees every buffer.
HeadersSafe ==
    ~raced => /\ \A t \in Threads : thr[t].pc # "oops"
              /\ phase = "closed" => \A b \in Bufs : ~Live(b)
====

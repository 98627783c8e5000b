--------------------------- MODULE BufPool_proofs ---------------------------
(***************************************************************************)
(* The safety properties of BufPool, for any number of buffers, header     *)
(* arrays, threads and any sizes and limits.                               *)
(***************************************************************************)
EXTENDS BufPool, FiniteSetTheorems, TLAPS

\* What a buffer, a header array and a thread can be.
BufRecord == [state : {"unborn", "live", "freed"}, size : Nat,
              dsp : {"none", "mapped", "orphan"}]
AreaRecord == [base : Pieces \cup {NULL}, use : SUBSET Pages]
ThreadRecord ==
    [pc : {"idle", "persistent", "cached", "fresh", "got", "failed",
           "flight", "freecopy", "munmap", "mapped", "clearnum", "oops"},
     op : {"none", "invoke", "copy", "mmap", "munmap", "headers"},
     want : Nat, got : Pieces \cup {NULL}, meta : Pieces \cup {NULL},
     metalen : Nat, n : Nat]

HdrRecord == [buf : Pieces \cup {NULL}, arr : Arrays \cup {NULL}, n : Nat]

HeapOps == {"mmap", "munmap"}
BufferOps == {"invoke", "copy", "mmap", "headers"}

\* The fields of a thread at each place of hfastrpc_buf_alloc and its callers.
Shape(r) ==
    /\ r.op = "none" => r.got = NULL
    /\ r.op # "copy" => r.meta = NULL
    /\ r.pc = "idle" => r.op = "none"
    /\ r.pc \in {"persistent", "cached", "fresh", "oops"} =>
        r.op \in BufferOps /\ r.got = NULL
    /\ r.pc \in {"got", "failed"} => r.op \in BufferOps
    /\ r.pc \in {"got", "mapped", "munmap"} => r.got # NULL
    /\ r.pc = "failed" /\ r.op # "headers" => r.got = NULL
    /\ r.pc = "flight" => r.op = "copy"
    /\ r.pc = "freecopy" => r.op \in {"invoke", "copy"} /\ r.meta = NULL
    /\ r.pc = "munmap" => r.op = "munmap"
    /\ r.pc \in {"mapped", "clearnum"} => r.op = "headers"
    /\ r.op = "headers" => r.n <= MAX_PERSISTENT_HEADERS
    /\ r.meta # NULL => r.meta # r.got

\* Heap pages are handled under internal_map_mutex and stay on their list; a
\* closing session has calls in flight only.
ThreadInv ==
    \A t \in Threads :
        /\ Shape(thr[t])
        /\ thr[t].op \in HeapOps =>
            /\ imutex = t
            /\ thr[t].got # NULL =>
                \E b \in remote : /\ thr[t].got = <<"buf", b>>
                                  /\ thr[t].op = "mmap" => buf[b].dsp # "mapped"
        /\ phase = "closing" => thr[t].pc \in {"idle", "flight", "freecopy"}
        /\ phase = "closed" => thr[t].pc = "idle"

\* A piece of memory in use by a call or by the set-up of the headers.
Sound(p) ==
    /\ p[1] = "buf" => Live(p[2]) /\ p[2] \notin cached \cup remote
    /\ p[1] = "page" => p[3] \in area[p[2]].use
    /\ \A a \in Arrays : p # area[a].base

\* The lists and the threads own disjoint pieces.
OwnInv ==
    /\ \A t, u \in Threads : t # u => Held(t) \cap Held(u) = {}
    /\ \A t \in Threads : \A p \in Held(t) : Sound(p)
    /\ cached \cap remote = {}
    /\ \A b \in cached \cup remote :
        Live(b) /\ \A a \in Arrays : <<"buf", b>> # area[a].base

\* The memory behind the header arrays is allocated.
Backed ==
    /\ \A c \in Arrays, b \in Bufs : area[c].base = <<"buf", b>> => Live(b)
    /\ \A c \in Arrays, a \in Arrays, i \in Pages :
        area[c].base = <<"page", a, i>> => i \in area[a].use

\* It stays so until the session is closed, an array that does not exist has no
\* page in use, and every live buffer has an owner.
AreaInv ==
    /\ \A a \in Arrays : area[a].base = NULL => area[a].use = {}
    /\ phase # "closed" => Backed
    /\ \A b \in Bufs : Live(b) =>
        \/ b \in cached \cup remote
        \/ \E t \in Threads : <<"buf", b>> \in Held(t)
        \/ \E a \in Arrays : area[a].base = <<"buf", b>>

\* What the DSP has mapped: heap pages, a header area or one that is being set
\* up, never a buffer of a call or of the cache; after the open phase nothing,
\* unless the CLOSE failed.
DspInv ==
    /\ phase = "open" \/ closefail \/ \A b \in Bufs : buf[b].dsp # "mapped"
    /\ phase # "closed" => \A b \in Bufs : buf[b].dsp = "mapped" =>
        /\ Live(b) /\ b \notin cached
        /\ \A t \in Threads : <<"buf", b>> \in Held(t) => thr[t].pc = "mapped"

\* The header fields of the session, while one INVOKE2 at a time sets them up.
HdrInv ==
    /\ hdr.n <= MAX_PERSISTENT_HEADERS
    /\ hdr.arr # NULL => area[hdr.arr].base # NULL
    /\ ~raced =>
        /\ hdr.buf = NULL \/ hdr.arr = NULL =>
            hdr.buf = NULL /\ hdr.arr = NULL /\ hdr.n = 0
        /\ phase # "closed" => \A a \in Arrays :
            area[a].base # NULL => hdr.buf = area[a].base
        /\ \A t, u \in Threads :
            thr[t].op = "headers" => hdr.buf = NULL /\ (thr[u].op = "headers" => t = u)

\* The cache is finite and counted.
CacheInv == IsFiniteSet(cached) /\ CacheCounted

IndInv ==
    /\ TypeOK /\ ThreadInv /\ OwnInv /\ AreaInv /\ DspInv /\ HdrInv /\ CacheInv
    /\ LargeEnough /\ HeadersSafe

-----------------------------------------------------------------------------
(* Pieces of memory and what the operators of BufPool do with them.        *)

\* A piece is a buffer or a page of an array, and is not NULL.
LEMMA PieceFacts ==
    /\ \A p \in Pieces : \/ \E b \in Bufs : p = <<"buf", b>>
                         \/ \E a \in Arrays, i \in Pages : p = <<"page", a, i>>
    /\ \A b \in Bufs : /\ <<"buf", b>> \in Pieces /\ <<"buf", b>> # NULL
                       /\ <<"buf", b>>[1] = "buf" /\ <<"buf", b>>[2] = b
    /\ \A a \in Arrays, i \in Pages :
        /\ <<"page", a, i>> \in Pieces /\ <<"page", a, i>> # NULL
        /\ <<"page", a, i>>[1] = "page" /\ <<"page", a, i>>[2] = a
        /\ <<"page", a, i>>[3] = i
<1>1. NULL \notin Pieces
  BY ConstAssumption
<1> QED
  BY <1>1 DEF Pieces

\* Different names are different pieces.
LEMMA PieceNames ==
    /\ \A b, c : <<"buf", b>> = <<"buf", c>> => b = c
    /\ \A b, a, i : <<"buf", b>> # <<"page", a, i>>
    /\ \A a, i, c, j : <<"page", a, i>> = <<"page", c, j>> => a = c /\ i = j
<1>1. \A b, c : <<"buf", b>> = <<"buf", c>> => b = c
  OBVIOUS
<1>2. \A b, a, i : <<"buf", b>> # <<"page", a, i>>
  OBVIOUS
<1>3. \A a, i, c, j : <<"page", a, i>> = <<"page", c, j>> => a = c /\ i = j
  OBVIOUS
<1> QED
  BY <1>1, <1>2, <1>3

\* Rounding up to whole pages never yields less.
LEMMA AlignFacts == \A s \in Nat : PageAlign(s) \in Nat /\ PageAlign(s) >= s
<1> SUFFICES ASSUME NEW s \in Nat PROVE PageAlign(s) \in Nat /\ PageAlign(s) >= s
  OBVIOUS
<1>1. PageSize \in Nat /\ PageSize >= 1
  BY ConstAssumption
<1> DEFINE x == s + PageSize - 1
           q == x \div PageSize
           r == x % PageSize
<1>2. x \in Nat /\ x = s + PageSize - 1
  BY <1>1
<1> HIDE DEF x
<1>3. q \in Nat /\ r \in Nat /\ r < PageSize /\ x = PageSize * q + r
  BY <1>1, <1>2
<1>4. PageAlign(s) = q * PageSize
  BY DEF PageAlign, x
<1> HIDE DEF q, r
<1> QED
  BY <1>1, <1>2, <1>3, <1>4

\* The values of TypeOK by name.
LEMMA Typed ==
    ASSUME TypeOK
    PROVE  /\ buf \in [Bufs -> BufRecord] /\ cached \subseteq Bufs /\ remote \subseteq Bufs
           /\ area \in [Arrays -> AreaRecord] /\ thr \in [Threads -> ThreadRecord]
           /\ num_cached_buf \in Nat /\ hdr \in HdrRecord /\ raced \in BOOLEAN
           /\ hdr.buf \in Pieces \cup {NULL} /\ hdr.arr \in Arrays \cup {NULL} /\ hdr.n \in Nat
  BY DEF TypeOK, BufRecord, AreaRecord, ThreadRecord, HdrRecord

\* What a thread with the fields r holds.
HeldBy(r) == {p \in {r.meta} \cup (IF r.op \in HeapOps THEN {} ELSE {r.got}) : p # NULL}

\* A step of the thread t: its fields become r, the others keep theirs.
LEMMA ThreadMoves ==
    ASSUME thr \in [Threads -> ThreadRecord], NEW t \in Threads, NEW r \in ThreadRecord,
           thr' = [thr EXCEPT ![t] = r]
    PROVE  /\ thr' \in [Threads -> ThreadRecord] /\ thr'[t] = r
           /\ \A u \in Threads \ {t} : thr'[u] = thr[u] /\ Held(u)' = Held(u)
           /\ Held(t)' = HeldBy(r) /\ Held(t) = HeldBy(thr[t])
<1>1. /\ thr' \in [Threads -> ThreadRecord] /\ thr'[t] = r
      /\ \A u \in Threads \ {t} : thr'[u] = thr[u]
  OBVIOUS
<1>2. \A u \in Threads \ {t} : Held(u)' = Held(u)
  BY <1>1 DEF Held
<1>3. Held(t)' = HeldBy(r) /\ Held(t) = HeldBy(thr[t])
  BY <1>1 DEF Held, HeldBy, HeapOps
<1> QED
  BY <1>1, <1>2, <1>3

\* What is held is a piece of memory, and sound by its name.
LEMMA HeldPieces ==
    ASSUME TypeOK, NEW t \in Threads
    PROVE  /\ Held(t) \subseteq Pieces
           /\ \A p \in Held(t) : \/ \E b \in Bufs : p = <<"buf", b>>
                                 \/ \E a \in Arrays, i \in Pages : p = <<"page", a, i>>
<1>1. thr[t].meta \in Pieces \cup {NULL} /\ thr[t].got \in Pieces \cup {NULL}
  BY DEF TypeOK
<1>2. Held(t) \subseteq Pieces
  BY <1>1 DEF Held
<1> QED
  BY <1>2, PieceFacts

\* Sound and the memory of a header array, by the names of the pieces.
LEMMA SoundNames ==
    /\ \A b \in Bufs : Sound(<<"buf", b>>) <=>
        /\ Live(b) /\ b \notin cached \cup remote
        /\ \A c \in Arrays : area[c].base # <<"buf", b>>
    /\ \A a \in Arrays, i \in Pages : Sound(<<"page", a, i>>) <=>
        /\ i \in area[a].use
        /\ \A c \in Arrays : area[c].base # <<"page", a, i>>
<1>1. ASSUME NEW b \in Bufs
      PROVE  Sound(<<"buf", b>>) <=>
                /\ Live(b) /\ b \notin cached \cup remote
                /\ \A c \in Arrays : area[c].base # <<"buf", b>>
  BY DEF Sound
<1>2. ASSUME NEW a \in Arrays, NEW i \in Pages
      PROVE  Sound(<<"page", a, i>>) <=>
                /\ i \in area[a].use
                /\ \A c \in Arrays : area[c].base # <<"page", a, i>>
  BY DEF Sound
<1> QED
  BY <1>1, <1>2

\* The same in the next state.
LEMMA SoundNamesNext ==
    /\ \A b \in Bufs : Sound(<<"buf", b>>)' <=>
        /\ Live(b)' /\ b \notin cached' \cup remote'
        /\ \A c \in Arrays : area'[c].base # <<"buf", b>>
    /\ \A a \in Arrays, i \in Pages : Sound(<<"page", a, i>>)' <=>
        /\ i \in area'[a].use
        /\ \A c \in Arrays : area'[c].base # <<"page", a, i>>
<1>1. ASSUME NEW b \in Bufs
      PROVE  Sound(<<"buf", b>>)' <=>
                /\ Live(b)' /\ b \notin cached' \cup remote'
                /\ \A c \in Arrays : area'[c].base # <<"buf", b>>
  BY DEF Sound
<1>2. ASSUME NEW a \in Arrays, NEW i \in Pages
      PROVE  Sound(<<"page", a, i>>)' <=>
                /\ i \in area'[a].use
                /\ \A c \in Arrays : area'[c].base # <<"page", a, i>>
  BY DEF Sound
<1> QED
  BY <1>1, <1>2

-----------------------------------------------------------------------------
(* The lists, the arrays and the threads after an operation.               *)

MemInv == OwnInv /\ AreaInv /\ CacheInv

\* What keeps a held piece sound.
LEMMA SoundKept ==
    ASSUME TypeOK, NEW u \in Threads, NEW q \in Held(u), Sound(q),
           \A b \in Bufs : q = <<"buf", b>> /\ Live(b) /\ b \notin cached \cup remote =>
               Live(b)' /\ b \notin cached' \cup remote',
           \A a \in Arrays, i \in Pages :
               q = <<"page", a, i>> /\ i \in area[a].use => i \in area'[a].use,
           \A c \in Arrays : area'[c].base # area[c].base => area'[c].base # q
    PROVE  Sound(q)'
<1>1. \A c \in Arrays : area'[c].base # q
  BY DEF Sound
<1>2. CASE \E b \in Bufs : q = <<"buf", b>>
  <2> PICK b \in Bufs : q = <<"buf", b>>
    BY <1>2
  <2>1. Live(b) /\ b \notin cached \cup remote
    BY SoundNames
  <2> QED
    BY <1>1, <2>1, SoundNamesNext
<1>3. CASE \E a \in Arrays, i \in Pages : q = <<"page", a, i>>
  <2> PICK a \in Arrays, i \in Pages : q = <<"page", a, i>>
    BY <1>3
  <2>1. i \in area[a].use
    BY SoundNames
  <2> QED
    BY <1>1, <2>1, SoundNamesNext
<1> QED
  BY <1>2, <1>3, HeldPieces

\* Nothing changes hands.
LEMMA KeepMem ==
    ASSUME IndInv, \A u \in Threads : Held(u)' = Held(u),
           UNCHANGED <<cached, num_cached_buf, remote, area>>, phase' = "closed" => phase = "closed",
           phase = "closed" => phase' = "closed",
           \A b \in Bufs : (Live(b)' <=> Live(b)) /\ buf'[b].size = buf[b].size
    PROVE  MemInv'
<1>0. TypeOK /\ cached \subseteq Bufs /\ remote \subseteq Bufs /\ OwnInv /\ AreaInv /\ CacheInv
  BY Typed DEF IndInv
<1>1. OwnInv'
  <2>1. ASSUME NEW t \in Threads, NEW p \in Held(t) PROVE Sound(p)'
    <3>1. Sound(p)
      BY <1>0 DEF OwnInv
    <3> QED
      BY <1>0, <3>1, SoundKept
  <2> QED
    BY <1>0, <2>1 DEF OwnInv
<1>2. AreaInv'
  BY <1>0 DEF AreaInv, Backed
<1>3. CacheInv'
  BY <1>0 DEF CacheInv, CacheCounted
<1> QED
  BY <1>1, <1>2, <1>3 DEF MemInv

\* hfastrpc_get_persistent_buf: a page nobody uses becomes the thread's.
LEMMA TakePage ==
    ASSUME IndInv, NEW t \in Threads, NEW a \in Arrays, NEW i \in Pages,
           i \notin area[a].use, area[a].base # NULL,
           area' = [area EXCEPT ![a].use = @ \cup {i}],
           UNCHANGED <<buf, cached, num_cached_buf, remote, phase, closefail>>, phase = "open",
           \A u \in Threads \ {t} : Held(u)' = Held(u),
           Held(t)' = Held(t) \cup {<<"page", a, i>>}
    PROVE  MemInv' /\ <<"page", a, i>> \notin Held(t)
<1> DEFINE p == <<"page", a, i>>
<1>0. /\ TypeOK /\ cached \subseteq Bufs /\ remote \subseteq Bufs /\ OwnInv /\ AreaInv
      /\ CacheInv /\ area \in [Arrays -> AreaRecord]
  BY Typed DEF IndInv
<1>1. \A c \in Arrays : /\ area'[c].base = area[c].base /\ area[c].use \subseteq area'[c].use
                        /\ c # a => area'[c].use = area[c].use
  BY <1>0 DEF AreaRecord
<1>2. i \in area'[a].use
  BY <1>0 DEF AreaRecord
<1>3. \A b \in Bufs : Live(b)' <=> Live(b)
  BY DEF Live
<1>4. ~Sound(p) /\ \A u \in Threads : p \notin Held(u)
  BY <1>0, SoundNames DEF OwnInv
<1>5. Sound(p)'
  <2>1. Backed
    BY <1>0 DEF AreaInv
  <2>2. \A c \in Arrays : area'[c].base # p
    BY <1>1, <2>1 DEF Backed
  <2> QED
    BY <1>2, <2>2, SoundNamesNext
<1>6. OwnInv'
  <2>1. ASSUME NEW u \in Threads, NEW q \in Held(u) PROVE Sound(q)'
    <3>1. Sound(q)
      BY <1>0 DEF OwnInv
    <3> QED
      BY <1>0, <1>1, <1>3, <3>1, SoundKept
  <2>2. ASSUME NEW u \in Threads, NEW v \in Threads, u # v PROVE Held(u)' \cap Held(v)' = {}
    BY <1>0, <1>4, <2>2 DEF OwnInv
  <2>3. \A u \in Threads : \A q \in Held(u)' : Sound(q)'
    BY <1>5, <2>1
  <2>4. /\ cached' \cap remote' = {}
        /\ \A b \in cached' \cup remote' :
             Live(b)' /\ \A c \in Arrays : <<"buf", b>> # area'[c].base
    BY <1>0, <1>1, <1>3 DEF OwnInv
  <2> QED
    BY <2>2, <2>3, <2>4 DEF OwnInv
<1>7. AreaInv'
  <2>1. \A c \in Arrays : area'[c].base = NULL => area'[c].use = {}
    BY <1>0, <1>1 DEF AreaInv
  <2>2. Backed'
    BY <1>0, <1>1, <1>3 DEF AreaInv, Backed
  <2>3. \A b \in Bufs : Live(b)' =>
          \/ b \in cached' \cup remote'
          \/ \E u \in Threads : <<"buf", b>> \in Held(u)'
          \/ \E c \in Arrays : area'[c].base = <<"buf", b>>
    <3> TAKE b \in Bufs
    <3> HAVE Live(b)'
    <3>1. \A u \in Threads : Held(u) \subseteq Held(u)'
      OBVIOUS
    <3>2. \/ b \in cached \cup remote
          \/ \E u \in Threads : <<"buf", b>> \in Held(u)
          \/ \E c \in Arrays : area[c].base = <<"buf", b>>
      BY <1>0, <1>3 DEF AreaInv
    <3>3. CASE b \in cached \cup remote
      BY <3>3
    <3>4. CASE \E u \in Threads : <<"buf", b>> \in Held(u)
      BY <3>1, <3>4
    <3>5. CASE \E c \in Arrays : area[c].base = <<"buf", b>>
      BY <1>1, <3>5
    <3> QED
      BY <3>2, <3>3, <3>4, <3>5
  <2> QED
    BY <2>1, <2>2, <2>3 DEF AreaInv
<1>8. CacheInv'
  BY <1>0 DEF CacheInv, CacheCounted
<1> QED
  BY <1>4, <1>6, <1>7, <1>8 DEF MemInv

\* While a thread works, what the DSP has mapped is live and neither cached nor
\* a call's.
LEMMA MappedNow ==
    ASSUME IndInv, NEW t \in Threads, thr[t].pc # "idle"
    PROVE  \A b \in Bufs : buf[b].dsp = "mapped" =>
               /\ Live(b) /\ b \notin cached
               /\ \A u \in Threads : <<"buf", b>> \in Held(u) => thr[u].pc = "mapped"
<1>1. phase # "closed"
  BY DEF IndInv, ThreadInv
<1> QED
  BY <1>1 DEF IndInv, DspInv

\* hfastrpc_get_cached_buf: a buffer leaves the cache.
LEMMA TakeCached ==
    ASSUME IndInv, NEW t \in Threads, thr[t].pc # "idle", NEW b \in cached,
           cached' = cached \ {b},
           num_cached_buf' = num_cached_buf - 1,
           UNCHANGED <<buf, remote, area, phase, closefail>>,
           \A u \in Threads \ {t} : Held(u)' = Held(u),
           Held(t)' = Held(t) \cup {<<"buf", b>>}
    PROVE  /\ MemInv' /\ <<"buf", b>> \notin Held(t)
           /\ buf[b].dsp # "mapped" /\ num_cached_buf' \in Nat
<1> DEFINE p == <<"buf", b>>
<1>0. /\ TypeOK /\ cached \subseteq Bufs /\ remote \subseteq Bufs /\ OwnInv /\ AreaInv
      /\ CacheInv /\ b \in Bufs /\ DspInv
  BY Typed DEF IndInv
<1>1. \A c \in Bufs : Live(c)' <=> Live(c)
  BY DEF Live
<1>2. Live(b) /\ b \notin remote /\ \A c \in Arrays : area[c].base # p
  BY <1>0 DEF OwnInv
<1>3. \A u \in Threads : p \notin Held(u)
  BY <1>0, SoundNames DEF OwnInv
<1>4. Sound(p)'
  BY <1>0, <1>1, <1>2, SoundNamesNext
<1>5. OwnInv'
  <2>1. ASSUME NEW u \in Threads, NEW q \in Held(u) PROVE Sound(q)'
    <3>1. Sound(q)
      BY <1>0 DEF OwnInv
    <3> QED
      BY <1>0, <1>1, <3>1, SoundKept
  <2>2. ASSUME NEW u \in Threads, NEW v \in Threads, u # v PROVE Held(u)' \cap Held(v)' = {}
    BY <1>0, <1>3, <2>2 DEF OwnInv
  <2>3. \A u \in Threads : \A q \in Held(u)' : Sound(q)'
    BY <1>4, <2>1
  <2>4. /\ cached' \cap remote' = {}
        /\ \A c \in cached' \cup remote' :
             Live(c)' /\ \A a \in Arrays : <<"buf", c>> # area'[a].base
    BY <1>0, <1>1 DEF OwnInv
  <2> QED
    BY <2>2, <2>3, <2>4 DEF OwnInv
<1>6. AreaInv'
  <2>1. phase' # "closed" => Backed'
    BY <1>0, <1>1 DEF AreaInv, Backed
  <2>2. \A c \in Bufs : Live(c)' =>
          \/ c \in cached' \cup remote'
          \/ \E u \in Threads : <<"buf", c>> \in Held(u)'
          \/ \E a \in Arrays : area'[a].base = <<"buf", c>>
    <3>1. p \in Held(t)'
      OBVIOUS
    <3> QED
      BY <1>0, <1>1, <3>1 DEF AreaInv
  <2> QED
    BY <1>0, <2>1, <2>2 DEF AreaInv
<1>7. /\ IsFiniteSet(cached') /\ Cardinality(cached') = Cardinality(cached) - 1
      /\ Cardinality(cached') \in Nat
  BY <1>0, FS_RemoveElement, FS_CardinalityType DEF CacheInv
<1>8. CacheInv'
  <2>1. num_cached_buf = Cardinality(cached) /\ num_cached_buf \in Nat
    BY <1>0, Typed DEF CacheInv, CacheCounted
  <2> QED
    BY <1>7, <2>1 DEF CacheInv, CacheCounted
<1>9. buf[b].dsp # "mapped"
  BY <1>0, MappedNow
<1> QED
  BY <1>3, <1>5, <1>6, <1>7, <1>8, <1>9 DEF MemInv, CacheInv, CacheCounted

\* hfastrpc_buf_alloc makes a buffer for the thread or for the heap list.
LEMMA TakeFresh ==
    ASSUME IndInv, NEW t \in Threads, NEW b \in Bufs, buf[b].state = "unborn",
           NEW r \in BufRecord, r.state = "live", buf' = [buf EXCEPT ![b] = r],
           UNCHANGED <<cached, num_cached_buf, area, phase, closefail>>, phase = "open",
           \A u \in Threads \ {t} : Held(u)' = Held(u),
           \/ remote' = remote /\ Held(t)' = Held(t) \cup {<<"buf", b>>}
           \/ remote' = remote \cup {b} /\ Held(t)' = Held(t)
    PROVE  /\ MemInv' /\ <<"buf", b>> \notin Held(t)
<1> DEFINE p == <<"buf", b>>
<1>0. /\ TypeOK /\ cached \subseteq Bufs /\ remote \subseteq Bufs /\ OwnInv /\ AreaInv
      /\ CacheInv /\ buf \in [Bufs -> BufRecord]
  BY Typed DEF IndInv
<1>1. /\ buf'[b] = r /\ \A c \in Bufs \ {b} : buf'[c] = buf[c]
  BY <1>0
<1>2. ~Live(b) /\ Live(b)' /\ \A c \in Bufs \ {b} : Live(c)' <=> Live(c)
  BY <1>1 DEF Live
<1>3. /\ b \notin cached \cup remote /\ (\A u \in Threads : p \notin Held(u))
      /\ \A c \in Arrays : area[c].base # p
  BY <1>0, <1>2, SoundNames DEF OwnInv, AreaInv, Backed
<1>4. remote' = remote => Sound(p)'
  BY <1>2, <1>3, SoundNamesNext
<1>5. OwnInv'
  <2>1. ASSUME NEW u \in Threads, NEW q \in Held(u) PROVE Sound(q)'
    <3>1. Sound(q) /\ q # p
      BY <1>0, <1>3 DEF OwnInv
    <3>2. \A c \in Bufs : q = <<"buf", c>> => c # b
      BY <3>1
    <3> QED
      BY <1>0, <1>2, <3>1, <3>2, SoundKept
  <2>2. ASSUME NEW u \in Threads, NEW v \in Threads, u # v PROVE Held(u)' \cap Held(v)' = {}
    BY <1>0, <1>3, <2>2 DEF OwnInv
  <2>3. \A u \in Threads : \A q \in Held(u)' : Sound(q)'
    BY <1>3, <1>4, <2>1
  <2>4. /\ cached' \cap remote' = {}
        /\ \A c \in cached' \cup remote' :
             Live(c)' /\ \A a \in Arrays : <<"buf", c>> # area'[a].base
    BY <1>0, <1>2, <1>3 DEF OwnInv
  <2> QED
    BY <2>2, <2>3, <2>4 DEF OwnInv
<1>6. AreaInv'
  <2>1. Backed'
    BY <1>0, <1>2, <1>3 DEF AreaInv, Backed
  <2>2. \A c \in Bufs : Live(c)' =>
          \/ c \in cached' \cup remote'
          \/ \E u \in Threads : <<"buf", c>> \in Held(u)'
          \/ \E a \in Arrays : area'[a].base = <<"buf", c>>
    <3>1. p \in Held(t)' \/ b \in remote'
      OBVIOUS
    <3>2. remote \subseteq remote' /\ \A u \in Threads : Held(u) \subseteq Held(u)'
      OBVIOUS
    <3> QED
      BY <1>0, <1>2, <3>1, <3>2 DEF AreaInv
  <2> QED
    BY <1>0, <2>1, <2>2 DEF AreaInv
<1>7. CacheInv'
  BY <1>0, <1>1, <1>3 DEF CacheInv, CacheCounted
<1> QED
  BY <1>3, <1>5, <1>6, <1>7 DEF MemInv

\* Heap pages are freed, by the ioctl that has them.
LEMMA DropHeap ==
    ASSUME IndInv, NEW b \in remote, remote' = remote \ {b},
           buf'[b].state = "freed", \A c \in Bufs \ {b} : buf'[c] = buf[c],
           UNCHANGED <<cached, num_cached_buf, area, phase, closefail>>,
           \A u \in Threads : Held(u)' = Held(u)
    PROVE  MemInv'
<1> DEFINE p == <<"buf", b>>
<1>0. /\ TypeOK /\ cached \subseteq Bufs /\ remote \subseteq Bufs /\ OwnInv /\ AreaInv
      /\ CacheInv /\ b \in Bufs
  BY Typed DEF IndInv
<1>1. ~Live(b)' /\ \A c \in Bufs \ {b} : Live(c)' <=> Live(c)
  BY DEF Live
<1>2. b \notin cached /\ \A c \in Arrays : area[c].base # p
  BY <1>0 DEF OwnInv
<1>3. \A u \in Threads : p \notin Held(u)
  BY <1>0, SoundNames DEF OwnInv
<1>4. OwnInv'
  <2>1. ASSUME NEW u \in Threads, NEW q \in Held(u) PROVE Sound(q)'
    <3>1. Sound(q) /\ q # p
      BY <1>0, <1>3 DEF OwnInv
    <3>2. \A c \in Bufs : q = <<"buf", c>> => c # b
      BY <3>1
    <3> QED
      BY <1>0, <1>1, <3>1, <3>2, SoundKept
  <2>2. /\ cached' \cap remote' = {}
        /\ \A c \in cached' \cup remote' :
             Live(c)' /\ \A a \in Arrays : <<"buf", c>> # area'[a].base
    BY <1>0, <1>1, <1>2 DEF OwnInv
  <2> QED
    BY <1>0, <2>1, <2>2 DEF OwnInv
<1>5. AreaInv'
  <2>1. phase' # "closed" => Backed'
    BY <1>0, <1>1, <1>2 DEF AreaInv, Backed
  <2>2. \A c \in Bufs : Live(c)' =>
          \/ c \in cached' \cup remote'
          \/ \E u \in Threads : <<"buf", c>> \in Held(u)'
          \/ \E a \in Arrays : area'[a].base = <<"buf", c>>
    BY <1>0, <1>1 DEF AreaInv
  <2> QED
    BY <1>0, <2>1, <2>2 DEF AreaInv
<1>6. CacheInv'
  BY <1>0, <1>2 DEF CacheInv, CacheCounted
<1> QED
  BY <1>4, <1>5, <1>6 DEF MemInv

\* hfastrpc_buf_free of a piece the thread holds: the page is free again, the
\* buffer is cached or freed.
LEMMA DropMem ==
    ASSUME IndInv, NEW t \in Threads, NEW p \in Held(t), NEW cache \in BOOLEAN,
           BufFree(p, cache), UNCHANGED <<phase, closefail>>,
           \A u \in Threads \ {t} : Held(u)' = Held(u), Held(t)' = Held(t) \ {p}
    PROVE  /\ MemInv' /\ buf' \in [Bufs -> BufRecord] /\ cached' \subseteq Bufs
           /\ remote' = remote /\ num_cached_buf' \in Nat /\ area' \in [Arrays -> AreaRecord]
           /\ \A a \in Arrays : area'[a].base = area[a].base
           /\ \A b \in Bufs : buf'[b].size = buf[b].size /\ buf'[b].dsp = buf[b].dsp
           /\ \A b \in Bufs : p # <<"buf", b>> =>
                (Live(b)' <=> Live(b)) /\ (b \in cached' <=> b \in cached)
<1>0. /\ TypeOK /\ cached \subseteq Bufs /\ remote \subseteq Bufs /\ OwnInv /\ AreaInv
      /\ CacheInv /\ buf \in [Bufs -> BufRecord] /\ area \in [Arrays -> AreaRecord]
      /\ num_cached_buf \in Nat
  BY Typed DEF IndInv
<1>1. Sound(p) /\ \A u \in Threads : p \notin Held(u)'
  BY <1>0 DEF OwnInv
<1>2. \A u \in Threads : Held(u)' \subseteq Held(u)
  OBVIOUS
<1>3. \A u \in Threads, v \in Threads : u # v => Held(u)' \cap Held(v)' = {}
  BY <1>0, <1>2 DEF OwnInv
<1>4. CASE \E a \in Arrays, i \in Pages : p = <<"page", a, i>>
  <2> PICK a \in Arrays, i \in Pages : p = <<"page", a, i>>
    BY <1>4
  <2>1. area' = [area EXCEPT ![a].use = @ \ {i}] /\ UNCHANGED <<buf, cached, num_cached_buf, remote>>
    BY PieceFacts DEF BufFree
  <2>2. /\ area' \in [Arrays -> AreaRecord]
        /\ \A c \in Arrays : /\ area'[c].base = area[c].base
                             /\ area'[c].use = IF c = a THEN area[c].use \ {i} ELSE area[c].use
    BY <1>0, <2>1 DEF AreaRecord
  <2>3. /\ \A c \in Bufs : Live(c)' <=> Live(c)
        /\ \A c \in Arrays : area[c].base # p
    BY <1>1, <2>1 DEF Live, Sound
  <2>4. OwnInv'
    <3>1. ASSUME NEW u \in Threads, NEW q \in Held(u)' PROVE Sound(q)'
      <4>1. q \in Held(u) /\ Sound(q) /\ q # p
        BY <1>0, <1>1, <1>2 DEF OwnInv
      <4>2. \A c \in Arrays, j \in Pages :
              q = <<"page", c, j>> /\ j \in area[c].use => j \in area'[c].use
        BY <2>2, <4>1
      <4> QED
        BY <1>0, <2>1, <2>2, <2>3, <4>1, <4>2, SoundKept
    <3>2. \A c \in cached' \cup remote' :
             Live(c)' /\ \A d \in Arrays : <<"buf", c>> # area'[d].base
      BY <1>0, <2>1, <2>2, <2>3 DEF OwnInv
    <3> QED
      BY <1>0, <1>3, <2>1, <3>1, <3>2 DEF OwnInv
  <2>5. AreaInv'
    <3>1. phase' # "closed" => Backed'
      <4>1. \A c \in Arrays, d \in Arrays, j \in Pages :
              area[c].base = <<"page", d, j>> => d # a \/ j # i
        BY <2>3
      <4>2. \A d \in Arrays, j \in Pages :
              (d # a \/ j # i) /\ j \in area[d].use => j \in area'[d].use
        BY <2>2
      <4>3. ASSUME Backed PROVE Backed'
        <5>1. \A c \in Arrays, b \in Bufs : area'[c].base = <<"buf", b>> => Live(b)'
          BY <2>2, <2>3, <4>3 DEF Backed
        <5>2. \A c \in Arrays, d \in Arrays, j \in Pages :
                area'[c].base = <<"page", d, j>> => j \in area'[d].use
          <6>1. \A c \in Arrays : area'[c].base = area[c].base
            BY <2>2
          <6>2. \A c \in Arrays, d \in Arrays, j \in Pages :
                  area[c].base = <<"page", d, j>> => j \in area[d].use
            BY <4>3 DEF Backed
          <6> QED
            BY <4>1, <4>2, <6>1, <6>2
        <5> QED
          BY <5>1, <5>2 DEF Backed
      <4> QED
        BY <1>0, <4>3 DEF AreaInv
    <3>2. \A c \in Bufs : Live(c)' =>
            \/ c \in cached' \cup remote'
            \/ \E u \in Threads : <<"buf", c>> \in Held(u)'
            \/ \E d \in Arrays : area'[d].base = <<"buf", c>>
      <4>1. \A c \in Bufs, u \in Threads : <<"buf", c>> \in Held(u) => <<"buf", c>> \in Held(u)'
        BY PieceNames
      <4> QED
        BY <1>0, <2>1, <2>2, <2>3, <4>1 DEF AreaInv
    <3> QED
      BY <1>0, <2>2, <3>1, <3>2 DEF AreaInv
  <2>6. CacheInv'
    BY <1>0, <2>1 DEF CacheInv, CacheCounted
  <2> QED
    BY <1>0, <2>1, <2>2, <2>3, <2>4, <2>5, <2>6 DEF MemInv
<1>5. CASE \E b \in Bufs : p = <<"buf", b>>
  <2> PICK b \in Bufs : p = <<"buf", b>>
    BY <1>5
  <2>1. /\ Live(b) /\ b \notin cached \cup remote /\ (\A c \in Arrays : area[c].base # p)
    BY <1>1, SoundNames
  <2>2. /\ \/ /\ cache /\ Cacheable(b)
              /\ cached' = cached \cup {b} /\ num_cached_buf' = num_cached_buf + 1
              /\ UNCHANGED <<buf, remote>>
           \/ /\ buf' = [buf EXCEPT ![b].state = "freed"]
              /\ remote' = remote \ {b}
              /\ UNCHANGED <<cached, num_cached_buf>>
        /\ area' = area
    BY PieceFacts DEF BufFree
  <2>3. remote' = remote
    BY <2>1, <2>2
  <2>4. /\ buf' \in [Bufs -> BufRecord] /\ \A c \in Bufs \ {b} : buf'[c] = buf[c]
        /\ buf'[b].size = buf[b].size /\ buf'[b].dsp = buf[b].dsp
        /\ buf' = buf \/ buf'[b].state = "freed"
    BY <1>0, <2>2 DEF BufRecord
  <2>5. /\ \A c \in Bufs \ {b} : (Live(c)' <=> Live(c)) /\ (c \in cached' <=> c \in cached)
        /\ b \in cached' <=> Live(b)'
    <3>1. CASE cached' = cached \cup {b} /\ buf' = buf
      BY <2>1, <3>1 DEF Live
    <3>2. CASE cached' = cached /\ buf' = [buf EXCEPT ![b].state = "freed"]
      <4>1. buf'[b].state = "freed"
        BY <1>0, <3>2 DEF BufRecord
      <4> QED
        BY <2>1, <2>4, <3>2, <4>1 DEF Live
    <3> QED
      BY <2>2, <3>1, <3>2
  <2>6. OwnInv'
    <3>1. ASSUME NEW u \in Threads, NEW q \in Held(u)' PROVE Sound(q)'
      <4>1. q \in Held(u) /\ Sound(q) /\ q # p
        BY <1>0, <1>1, <1>2 DEF OwnInv
      <4>2. \A c \in Bufs : q = <<"buf", c>> => c # b
        BY <4>1
      <4> QED
        BY <1>0, <2>2, <2>3, <2>5, <4>1, <4>2, SoundKept
    <3>2. \A c \in cached' \cup remote' :
             Live(c)' /\ \A d \in Arrays : <<"buf", c>> # area'[d].base
      BY <1>0, <2>1, <2>2, <2>3, <2>5 DEF OwnInv
    <3>3. cached' \cap remote' = {}
      BY <1>0, <2>1, <2>2, <2>3 DEF OwnInv
    <3> QED
      BY <1>3, <3>1, <3>2, <3>3 DEF OwnInv
  <2>7. AreaInv'
    <3>1. phase' # "closed" => Backed'
      BY <1>0, <2>1, <2>2, <2>5 DEF AreaInv, Backed
    <3>2. \A c \in Bufs : Live(c)' =>
            \/ c \in cached' \cup remote'
            \/ \E u \in Threads : <<"buf", c>> \in Held(u)'
            \/ \E d \in Arrays : area'[d].base = <<"buf", c>>
      <4>1. \A c \in Bufs \ {b}, u \in Threads : <<"buf", c>> \in Held(u) => <<"buf", c>> \in Held(u)'
        BY PieceNames
      <4> QED
        BY <1>0, <2>2, <2>3, <2>5, <4>1 DEF AreaInv
    <3> QED
      BY <1>0, <2>2, <3>1, <3>2 DEF AreaInv
  <2>8. CacheInv' /\ num_cached_buf' \in Nat
    <3>1. num_cached_buf = Cardinality(cached) /\ IsFiniteSet(cached)
      BY <1>0 DEF CacheInv, CacheCounted
    <3>2. CASE /\ Cacheable(b) /\ buf' = buf
               /\ cached' = cached \cup {b} /\ num_cached_buf' = num_cached_buf + 1
      <4>1. IsFiniteSet(cached') /\ Cardinality(cached') = Cardinality(cached) + 1
        BY <2>1, <3>1, <3>2, FS_AddElement
      <4> QED
        BY <1>0, <3>1, <3>2, <4>1 DEF CacheInv, CacheCounted
    <3>3. CASE UNCHANGED <<cached, num_cached_buf>>
      BY <1>0, <2>1, <2>4, <3>1, <3>3 DEF CacheInv, CacheCounted
    <3> QED
      BY <2>2, <3>2, <3>3
  <2>9. \A c \in Bufs : buf'[c].size = buf[c].size /\ buf'[c].dsp = buf[c].dsp
    BY <2>4
  <2>10. cached' \subseteq Bufs /\ \A c \in Bufs : p # <<"buf", c>> => c # b
    BY <1>0, <2>2
  <2> QED
    BY <1>0, <2>2, <2>3, <2>4, <2>5, <2>6, <2>7, <2>8, <2>9, <2>10 DEF MemInv
<1> QED
  BY <1>0, <1>4, <1>5, HeldPieces

\* The header area passes from the thread to the array it published.
LEMMA PublishMem ==
    ASSUME IndInv, NEW t \in Threads, NEW p \in Held(t), NEW a \in Arrays,
           area[a].base = NULL, area' = [area EXCEPT ![a] = [base |-> p, use |-> {}]],
           UNCHANGED <<buf, cached, num_cached_buf, remote, phase, closefail>>,
           \A u \in Threads \ {t} : Held(u)' = Held(u), Held(t)' = Held(t) \ {p}
    PROVE  MemInv'
<1>0. /\ TypeOK /\ cached \subseteq Bufs /\ remote \subseteq Bufs /\ OwnInv /\ AreaInv
      /\ CacheInv /\ area \in [Arrays -> AreaRecord]
  BY Typed DEF IndInv
<1>1. Sound(p) /\ \A u \in Threads : p \notin Held(u)'
  BY <1>0 DEF OwnInv
<1>2. \A u \in Threads : Held(u)' \subseteq Held(u)
  OBVIOUS
<1>3. \A u \in Threads, v \in Threads : u # v => Held(u)' \cap Held(v)' = {}
  BY <1>0, <1>2 DEF OwnInv
<1>4. /\ area'[a].base = p /\ area'[a].use = {} /\ area[a].use = {}
      /\ \A c \in Arrays \ {a} : area'[c] = area[c]
  BY <1>0 DEF AreaInv
<1>5. \A c \in Bufs : Live(c)' <=> Live(c)
  BY DEF Live
<1>6. \A c \in Arrays : area'[c].use = area[c].use
  BY <1>4
<1>7. OwnInv'
  <2>1. ASSUME NEW u \in Threads, NEW q \in Held(u)' PROVE Sound(q)'
    <3>1. q \in Held(u) /\ Sound(q) /\ q # p
      BY <1>0, <1>1, <1>2 DEF OwnInv
    <3> QED
      BY <1>0, <1>4, <1>5, <1>6, <3>1, SoundKept
  <2>2. \A c \in cached' \cup remote' :
           Live(c)' /\ \A d \in Arrays : <<"buf", c>> # area'[d].base
    <3>1. \A c \in cached \cup remote : <<"buf", c>> # p
      BY <1>0, <1>1, SoundNames
    <3> QED
      BY <1>0, <1>4, <1>5, <3>1 DEF OwnInv
  <2> QED
    BY <1>0, <1>3, <2>1, <2>2 DEF OwnInv
<1>8. AreaInv'
  <2>1. p # NULL
    BY <1>0, HeldPieces, PieceFacts
  <2>2. phase' # "closed" => Backed'
    <3>1. /\ \A b \in Bufs : p = <<"buf", b>> => Live(b)
          /\ \A c \in Arrays, i \in Pages : p = <<"page", c, i>> => i \in area[c].use
      BY <1>1, SoundNames
    <3>2. \A c \in Arrays : area'[c].base = IF c = a THEN p ELSE area[c].base
      BY <1>4
    <3>3. ASSUME Backed PROVE Backed'
      <4>1. \A c \in Arrays, b \in Bufs : area'[c].base = <<"buf", b>> => Live(b)'
        BY <1>5, <3>1, <3>2, <3>3 DEF Backed
      <4>2. \A c \in Arrays, d \in Arrays, j \in Pages :
              area'[c].base = <<"page", d, j>> => j \in area'[d].use
        <5>1. \A c \in Arrays, d \in Arrays, j \in Pages :
                area[c].base = <<"page", d, j>> => j \in area[d].use
          BY <3>3 DEF Backed
        <5>2. \A c \in Arrays, d \in Arrays, j \in Pages :
                area'[c].base = <<"page", d, j>> => j \in area[d].use
          BY <3>1, <3>2, <5>1
        <5> QED
          BY <1>6, <5>2
      <4> QED
        BY <4>1, <4>2 DEF Backed
    <3> QED
      BY <1>0, <3>3 DEF AreaInv
  <2>3. \A c \in Bufs : Live(c)' =>
          \/ c \in cached' \cup remote'
          \/ \E u \in Threads : <<"buf", c>> \in Held(u)'
          \/ \E d \in Arrays : area'[d].base = <<"buf", c>>
    <3>1. \A c \in Bufs, u \in Threads :
             <<"buf", c>> \in Held(u) => <<"buf", c>> \in Held(u)' \/ p = <<"buf", c>>
      OBVIOUS
    <3>2. \A c \in Bufs, d \in Arrays : area[d].base = <<"buf", c>> => d # a
      BY PieceFacts
    <3> QED
      BY <1>0, <1>4, <1>5, <3>1, <3>2 DEF AreaInv
  <2> QED
    BY <1>0, <1>4, <2>1, <2>2, <2>3 DEF AreaInv
<1>9. CacheInv'
  BY <1>0 DEF CacheInv, CacheCounted
<1> QED
  BY <1>7, <1>8, <1>9 DEF MemInv

-----------------------------------------------------------------------------
(* A step of one thread.                                                   *)

\* The DSP's mappings after a step of the thread t that adds none.
LEMMA DspKeep ==
    ASSUME IndInv, NEW t \in Threads, UNCHANGED <<phase, closefail>>,
           \A u \in Threads \ {t} : thr'[u] = thr[u] /\ Held(u)' = Held(u),
           \A b \in Bufs : buf'[b].dsp = "mapped" =>
               /\ buf[b].dsp = "mapped" /\ Live(b)' /\ b \notin cached'
               /\ <<"buf", b>> \notin Held(t)'
    PROVE  DspInv'
  BY DEF IndInv, DspInv

\* The headers after a step of the thread t that does not touch them.
LEMMA HdrKeep ==
    ASSUME IndInv, NEW t \in Threads, UNCHANGED <<phase, closefail>>, hdr' = hdr, raced' = raced,
           \A u \in Threads \ {t} : thr'[u] = thr[u],
           thr'[t].op = "headers" => thr[t].op = "headers",
           \A a \in Arrays : area'[a].base = area[a].base
    PROVE  HdrInv'
<1>1. hdr.arr \in Arrays \cup {NULL}
  BY Typed DEF IndInv
<1> QED
  BY <1>1 DEF IndInv, HdrInv

\* The size of a piece of live memory does not change.
LEMMA SizeKept ==
    ASSUME NEW p \in Pieces,
           \A b \in Bufs : Live(b) => buf'[b].size = buf[b].size,
           \A b \in Bufs : p = <<"buf", b>> => Live(b)
    PROVE  Size(p)' = Size(p)
<1>1. CASE \E b \in Bufs : p = <<"buf", b>>
  <2> PICK b \in Bufs : p = <<"buf", b>>
    BY <1>1
  <2>1. buf'[b].size = buf[b].size
    OBVIOUS
  <2> QED
    BY <2>1, PieceFacts DEF Size
<1>2. CASE \E a \in Arrays, i \in Pages : p = <<"page", a, i>>
  <2> PICK a \in Arrays, i \in Pages : p = <<"page", a, i>>
    BY <1>2
  <2> QED
    BY PieceFacts DEF Size
<1> QED
  BY <1>1, <1>2, PieceFacts

\* The buffers of a thread with the fields k are large enough.
Large(k) ==
    /\ k.meta # NULL => Size(k.meta) >= k.metalen
    /\ k.pc \in {"got", "mapped", "flight"} /\ k.got # NULL /\ k.op # "munmap" =>
        Size(k.got) >= k.want

\* A call's buffers stay as large as they are.
LEMMA LargeKept ==
    ASSUME IndInv, NEW u \in Threads, NEW k \in ThreadRecord, thr[u] = k,
           \A b \in Bufs : Live(b) => buf'[b].size = buf[b].size
    PROVE  Large(k)'
<1>0. /\ k.meta \in Pieces \cup {NULL} /\ k.got \in Pieces \cup {NULL}
      /\ OwnInv /\ ThreadInv /\ remote \subseteq Bufs /\ Large(k)
  BY DEF IndInv, TypeOK, LargeEnough, ThreadRecord, Large
<1>1. ASSUME k.meta # NULL PROVE Size(k.meta)' = Size(k.meta)
  <2>1. k.meta \in Held(u)
    BY <1>1 DEF Held
  <2>2. Sound(k.meta)
    BY <1>0, <2>1 DEF OwnInv
  <2>3. \A b \in Bufs : k.meta = <<"buf", b>> => Live(b)
    BY <2>2, SoundNames
  <2> QED
    BY <1>0, <1>1, <2>3, SizeKept
<1>2. ASSUME k.got # NULL PROVE Size(k.got)' = Size(k.got)
  <2>1. CASE k.op \notin HeapOps
    <3>1. k.got \in Held(u)
      BY <1>2, <2>1 DEF Held, HeapOps
    <3>2. Sound(k.got)
      BY <1>0, <3>1 DEF OwnInv
    <3>3. \A b \in Bufs : k.got = <<"buf", b>> => Live(b)
      BY <3>2, SoundNames
    <3> QED
      BY <1>0, <1>2, <3>3, SizeKept
  <2>2. CASE k.op \in HeapOps
    <3> PICK b \in remote : k.got = <<"buf", b>>
      BY <1>0, <1>2, <2>2 DEF ThreadInv
    <3>1. Live(b)
      BY <1>0 DEF OwnInv
    <3>2. \A c \in Bufs : k.got = <<"buf", c>> => Live(c)
      BY <3>1
    <3> QED
      BY <1>0, <1>2, <3>2, SizeKept
  <2> QED
    BY <2>1, <2>2
<1> QED
  BY <1>0, <1>1, <1>2 DEF Large

\* What a step of the thread t has to establish.
LEMMA StepInv ==
    ASSUME IndInv, NEW t \in Threads, NEW r \in ThreadRecord, thr' = [thr EXCEPT ![t] = r],
           Shape(r), UNCHANGED <<phase, closefail>>, phase # "closed",
           phase # "open" => r.pc \in {"idle", "freecopy"},
           buf' \in [Bufs -> BufRecord], cached' \subseteq Bufs, remote' \subseteq Bufs,
           num_cached_buf' \in Nat, area' \in [Arrays -> AreaRecord],
           hdr' \in HdrRecord, raced' \in BOOLEAN, raced => raced',
           \A b \in Bufs : Live(b) => buf'[b].size = buf[b].size,
           \A b \in remote : thr[t].op \notin HeapOps =>
               b \in remote' /\ (buf'[b].dsp = "mapped" => buf[b].dsp = "mapped"),
           \/ imutex' = imutex
           \/ imutex = NULL /\ imutex' = t
           \/ imutex = t /\ imutex' = NULL,
           r.op \in HeapOps =>
               /\ imutex' = t
               /\ r.got # NULL =>
                    \E b \in remote' : /\ r.got = <<"buf", b>>
                                       /\ r.op = "mmap" => buf'[b].dsp # "mapped",
           MemInv', DspInv', HdrInv',
           Large(r)', r.pc = "oops" => raced'
    PROVE  IndInv'
<1>0. TypeOK /\ thr \in [Threads -> ThreadRecord] /\ ThreadInv /\ NULL \notin Threads
  BY Typed, ConstAssumption DEF IndInv
<1>1. /\ thr' \in [Threads -> ThreadRecord] /\ thr'[t] = r
      /\ \A u \in Threads \ {t} : thr'[u] = thr[u]
  BY <1>0, ThreadMoves
<1>2. TypeOK'
  BY <1>0, <1>1 DEF TypeOK, BufRecord, AreaRecord, ThreadRecord, HdrRecord
<1>3. ThreadInv'
  <2> SUFFICES ASSUME NEW u \in Threads
               PROVE  /\ Shape(thr'[u])
                      /\ thr'[u].op \in HeapOps =>
                            /\ imutex' = u
                            /\ thr'[u].got # NULL =>
                                \E b \in remote' : /\ thr'[u].got = <<"buf", b>>
                                                   /\ thr'[u].op = "mmap" => buf'[b].dsp # "mapped"
                      /\ phase' = "closing" => thr'[u].pc \in {"idle", "flight", "freecopy"}
                      /\ phase' = "closed" => thr'[u].pc = "idle"
    BY DEF ThreadInv, Shape
  <2>1. CASE u = t
    BY <1>1, <2>1
  <2>2. CASE u # t
    <3>1. /\ Shape(thr[u]) /\ thr'[u] = thr[u]
          /\ phase = "closing" => thr[u].pc \in {"idle", "flight", "freecopy"}
      BY <1>0, <1>1, <2>2 DEF ThreadInv
    <3>2. ASSUME thr[u].op \in HeapOps
          PROVE  /\ imutex' = u
                 /\ thr[u].got # NULL =>
                      \E b \in remote' : /\ thr[u].got = <<"buf", b>>
                                         /\ thr[u].op = "mmap" => buf'[b].dsp # "mapped"
      <4>1. imutex = u /\ thr[t].op \notin HeapOps
        BY <1>0, <2>2, <3>2 DEF ThreadInv
      <4>2. imutex' = u
        BY <1>0, <2>2, <4>1
      <4>3. ASSUME thr[u].got # NULL
            PROVE  \E b \in remote' : /\ thr[u].got = <<"buf", b>>
                                      /\ thr[u].op = "mmap" => buf'[b].dsp # "mapped"
        <5> PICK b \in remote : /\ thr[u].got = <<"buf", b>>
                                /\ thr[u].op = "mmap" => buf[b].dsp # "mapped"
          BY <1>0, <3>2, <4>3 DEF ThreadInv
        <5> QED
          BY <4>1
      <4> QED
        BY <4>2, <4>3
    <3> QED
      BY <3>1, <3>2
  <2> QED
    BY <2>1, <2>2
<1>4. LargeEnough'
  <2>1. ASSUME NEW u \in Threads, NEW k \in ThreadRecord, thr'[u] = k PROVE Large(k)'
    <3>1. CASE u = t
      BY <1>1, <2>1, <3>1
    <3>2. CASE u # t
      <4>1. thr[u] = k
        BY <1>1, <2>1, <3>2
      <4> QED
        BY <4>1, LargeKept
    <3> QED
      BY <3>1, <3>2
  <2>2. ASSUME NEW u \in Threads
        PROVE  /\ thr'[u].meta # NULL => Size(thr[u].meta)' >= thr'[u].metalen
               /\ thr'[u].pc \in {"got", "mapped", "flight"} /\ thr'[u].got # NULL
                     /\ thr'[u].op # "munmap"
                  => Size(thr[u].got)' >= thr'[u].want
    <3> PICK k \in ThreadRecord : thr'[u] = k
      BY <1>1
    <3>1. Large(k)'
      BY <2>1
    <3> QED
      BY <3>1 DEF Large, Size
  <2> QED
    BY <2>2 DEF LargeEnough
<1>5. HeadersSafe'
  <2>1. ~raced => \A u \in Threads : thr[u].pc # "oops"
    BY DEF IndInv, HeadersSafe
  <2> QED
    BY <1>1, <2>1 DEF HeadersSafe
<1> QED
  BY <1>2, <1>3, <1>4, <1>5 DEF IndInv, MemInv

\* The facts every step starts from.
LEMMA Now ==
    ASSUME IndInv, NEW t \in Threads
    PROVE  /\ buf \in [Bufs -> BufRecord] /\ cached \subseteq Bufs /\ remote \subseteq Bufs
           /\ area \in [Arrays -> AreaRecord] /\ thr \in [Threads -> ThreadRecord]
           /\ num_cached_buf \in Nat /\ hdr \in HdrRecord /\ raced \in BOOLEAN
           /\ thr[t] \in ThreadRecord /\ Shape(thr[t]) /\ Large(thr[t])
           /\ phase # "open" => thr[t].pc \in {"idle", "flight", "freecopy"}
           /\ phase = "closed" => thr[t].pc = "idle"
           /\ thr[t].op \in HeapOps => imutex = t
<1>1. /\ buf \in [Bufs -> BufRecord] /\ cached \subseteq Bufs /\ remote \subseteq Bufs
      /\ area \in [Arrays -> AreaRecord] /\ thr \in [Threads -> ThreadRecord]
      /\ num_cached_buf \in Nat /\ hdr \in HdrRecord /\ raced \in BOOLEAN
  BY Typed DEF IndInv
<1>2. /\ Shape(thr[t]) /\ phase # "open" => thr[t].pc \in {"idle", "flight", "freecopy"}
  BY DEF IndInv, ThreadInv, TypeOK
<1>3. /\ phase = "closed" => thr[t].pc = "idle"
      /\ thr[t].op \in HeapOps => imutex = t
      /\ Large(thr[t])
  BY DEF IndInv, ThreadInv, LargeEnough, Large
<1>4. Shape(thr[t])
  BY DEF IndInv, ThreadInv
<1> QED
  BY <1>1, <1>2, <1>3, <1>4

\* A step in which no memory changes hands.
LEMMA QuietStep ==
    ASSUME IndInv, NEW t \in Threads, NEW r \in ThreadRecord, thr' = [thr EXCEPT ![t] = r],
           Shape(r), UNCHANGED <<phase, closefail>>, phase = "open",
           UNCHANGED <<buf, cached, num_cached_buf, remote, area>>,
           hdr' \in HdrRecord, raced' \in BOOLEAN, raced => raced', HdrInv',
           \/ imutex' = imutex
           \/ imutex = NULL /\ imutex' = t
           \/ imutex = t /\ imutex' = NULL,
           r.op \in HeapOps =>
               /\ imutex' = t
               /\ r.got # NULL => \E b \in remote : r.got = <<"buf", b>> /\ r.op # "mmap",
           HeldBy(r) = HeldBy(thr[t]), thr[t].pc # "mapped", Large(r),
           r.pc = "oops" => raced'
    PROVE  IndInv'
<1>0. /\ buf \in [Bufs -> BufRecord] /\ cached \subseteq Bufs /\ remote \subseteq Bufs
      /\ area \in [Arrays -> AreaRecord] /\ thr \in [Threads -> ThreadRecord]
      /\ num_cached_buf \in Nat
  BY Now
<1>1. /\ thr'[t] = r /\ Held(t)' = Held(t)
      /\ \A u \in Threads \ {t} : thr'[u] = thr[u] /\ Held(u)' = Held(u)
  BY <1>0, ThreadMoves
<1>2. \A b \in Bufs : (Live(b)' <=> Live(b)) /\ buf'[b].size = buf[b].size
  BY DEF Live
<1>3. MemInv'
  BY <1>1, <1>2, KeepMem
<1>4. DspInv'
  <2>1. \A b \in Bufs : buf'[b].dsp = "mapped" =>
               /\ buf[b].dsp = "mapped" /\ Live(b)' /\ b \notin cached'
               /\ <<"buf", b>> \notin Held(t)'
    BY <1>1, <1>2 DEF IndInv, DspInv
  <2> QED
    BY <1>1, <2>1, DspKeep
<1>5. Large(r)'
  BY DEF Large, Size
<1>6. phase # "closed" /\ (phase # "open" => r.pc \in {"idle", "freecopy"})
  OBVIOUS
<1>7. r.op \in HeapOps =>
         /\ imutex' = t
         /\ r.got # NULL =>
              \E b \in remote' : /\ r.got = <<"buf", b>>
                                 /\ r.op = "mmap" => buf'[b].dsp # "mapped"
  OBVIOUS
<1>8. /\ buf' \in [Bufs -> BufRecord] /\ cached' \subseteq Bufs /\ remote' \subseteq Bufs
      /\ area' \in [Arrays -> AreaRecord] /\ num_cached_buf' \in Nat
      /\ \A b \in Bufs : Live(b) => buf'[b].size = buf[b].size
      /\ \A b \in remote : thr[t].op \notin HeapOps =>
               b \in remote' /\ (buf'[b].dsp = "mapped" => buf[b].dsp = "mapped")
  BY <1>0
<1> QED
  BY <1>3, <1>4, <1>5, <1>6, <1>7, <1>8, StepInv

\* What an idle thread holds.
LEMMA IdleFacts ==
    /\ Idle \in ThreadRecord /\ Shape(Idle) /\ HeldBy(Idle) = {} /\ Large(Idle)
    /\ Idle.pc = "idle" /\ Idle.op = "none" /\ Idle.got = NULL /\ Idle.meta = NULL
<1>1. /\ Idle \in ThreadRecord
      /\ Idle.pc = "idle" /\ Idle.op = "none" /\ Idle.got = NULL /\ Idle.meta = NULL
  BY DEF Idle, ThreadRecord
<1> QED
  BY <1>1 DEF Shape, HeldBy, HeapOps, Large, BufferOps

\* The start of an operation that has no memory yet.
LEMMA StartStep ==
    ASSUME IndInv, NEW t \in Threads, thr[t].pc = "idle", phase = "open",
           UNCHANGED <<phase, closefail>>,
           NEW r \in ThreadRecord, thr' = [thr EXCEPT ![t] = r],
           r.pc = "persistent", r.op \in {"invoke", "mmap", "headers"}, r.got = NULL,
           r.meta = NULL, r.n <= MAX_PERSISTENT_HEADERS,
           Keep, hdr' = hdr, raced' \in BOOLEAN, raced => raced', HdrInv',
           r.op = "mmap" => imutex = NULL /\ imutex' = t,
           r.op # "mmap" => imutex' = imutex
    PROVE  IndInv'
<1>2. Shape(r) /\ Large(r) /\ HeldBy(r) = {}
  BY DEF Shape, Large, HeldBy, BufferOps
<1>3. HeldBy(thr[t]) = {}
  BY Now DEF Shape, HeldBy
<1>5. hdr' \in HdrRecord /\ UNCHANGED <<buf, cached, num_cached_buf, remote, area>>
  BY Now DEF Keep
<1>6. r.op \in HeapOps =>
         /\ imutex' = t
         /\ r.got # NULL => \E b \in remote : r.got = <<"buf", b>> /\ r.op # "mmap"
  BY DEF HeapOps
<1>7. r.pc # "oops" /\ thr[t].pc # "mapped" /\ HeldBy(r) = HeldBy(thr[t])
  BY <1>2, <1>3
<1> QED
  BY <1>2, <1>5, <1>6, <1>7, QuietStep

\* A call starts.
LEMMA InvokeStartStep ==
    ASSUME IndInv, NEW t \in Threads, NEW s \in Sizes, InvokeStart(t, s) PROVE IndInv'
<1> DEFINE r == [Idle EXCEPT !.pc = "persistent", !.op = "invoke", !.want = s]
<1>0. s \in Nat
  BY ConstAssumption
<1>1. r \in ThreadRecord
  BY <1>0 DEF Idle, ThreadRecord
<1>2. r.pc = "persistent" /\ r.op = "invoke" /\ r.got = NULL /\ r.meta = NULL /\ r.n = 0
  BY DEF Idle
<1>3. /\ thr' = [thr EXCEPT ![t] = r] /\ thr[t].pc = "idle" /\ phase = "open"
      /\ UNCHANGED <<phase, closefail>>
      /\ Keep /\ hdr' = hdr /\ imutex' = imutex /\ raced' = raced
  BY DEF InvokeStart
<1> HIDE DEF r
<1>4. thr \in [Threads -> ThreadRecord] /\ raced' \in BOOLEAN /\ 0 <= MAX_PERSISTENT_HEADERS
  BY <1>3, Now, ConstAssumption
<1>5. \A u \in Threads \ {t} : thr'[u] = thr[u]
  BY <1>1, <1>3, <1>4, ThreadMoves
<1>6. thr'[t].op # "headers"
  BY <1>2, <1>3, <1>4
<1>7. HdrInv'
  BY <1>3, <1>5, <1>6, HdrKeep DEF Keep
<1> QED
  BY <1>1, <1>2, <1>3, <1>4, <1>7, StartStep

\* A heap mmap starts: internal_map_mutex is taken.
LEMMA MmapStartStep ==
    ASSUME IndInv, NEW t \in Threads, NEW s \in Sizes, MmapStart(t, s) PROVE IndInv'
<1> DEFINE r == [Idle EXCEPT !.pc = "persistent", !.op = "mmap", !.want = s]
<1>0. s \in Nat
  BY ConstAssumption
<1>1. r \in ThreadRecord
  BY <1>0 DEF Idle, ThreadRecord
<1>2. r.pc = "persistent" /\ r.op = "mmap" /\ r.got = NULL /\ r.meta = NULL /\ r.n = 0
  BY DEF Idle
<1>3. /\ thr' = [thr EXCEPT ![t] = r] /\ thr[t].pc = "idle" /\ phase = "open"
      /\ UNCHANGED <<phase, closefail>>
      /\ Keep /\ hdr' = hdr /\ imutex = NULL /\ imutex' = t /\ raced' = raced
  BY DEF MmapStart
<1> HIDE DEF r
<1>4. thr \in [Threads -> ThreadRecord] /\ raced' \in BOOLEAN /\ 0 <= MAX_PERSISTENT_HEADERS
  BY <1>3, Now, ConstAssumption
<1>5. \A u \in Threads \ {t} : thr'[u] = thr[u]
  BY <1>1, <1>3, <1>4, ThreadMoves
<1>6. thr'[t].op # "headers"
  BY <1>2, <1>3, <1>4
<1>7. HdrInv'
  BY <1>3, <1>5, <1>6, HdrKeep DEF Keep
<1> QED
  BY <1>1, <1>2, <1>3, <1>4, <1>7, StartStep

\* The set-up of the headers starts: pers_hdr_buf has been seen unset.
LEMMA HeadersStartStep ==
    ASSUME IndInv, NEW t \in Threads, NEW c \in Headers, HeadersStart(t, c) PROVE IndInv'
<1>0. PICK n \in Nat : /\ n = IF c > MAX_PERSISTENT_HEADERS THEN MAX_PERSISTENT_HEADERS ELSE c
                       /\ n <= MAX_PERSISTENT_HEADERS
  BY ConstAssumption
<1> DEFINE r == [Idle EXCEPT !.pc = "persistent", !.op = "headers",
                             !.want = n * PageSize, !.n = n]
<1>1. r \in ThreadRecord
  <2>1. PICK w \in Nat : w = n * PageSize
    BY ConstAssumption
  <2>2. [Idle EXCEPT !.pc = "persistent", !.op = "headers", !.want = w, !.n = n] \in ThreadRecord
    BY DEF Idle, ThreadRecord
  <2> QED
    BY <2>1, <2>2
<1>2. r.pc = "persistent" /\ r.op = "headers" /\ r.got = NULL /\ r.meta = NULL /\ r.n = n
  BY DEF Idle
<1>3. /\ thr' = [thr EXCEPT ![t] = r] /\ thr[t].pc = "idle" /\ phase = "open"
      /\ UNCHANGED <<phase, closefail>>
      /\ Keep /\ hdr' = hdr /\ imutex' = imutex /\ raced' = (raced \/ Creating)
      /\ hdr.buf = NULL
  BY <1>0 DEF HeadersStart
<1> HIDE DEF r
<1>4. thr \in [Threads -> ThreadRecord] /\ raced' \in BOOLEAN /\ (raced => raced')
  BY <1>3, Now
<1>5. thr'[t] = r /\ \A u \in Threads \ {t} : thr'[u] = thr[u]
  BY <1>1, <1>3, <1>4, ThreadMoves
<1>6. HdrInv /\ hdr.arr \in Arrays \cup {NULL}
  BY Typed DEF IndInv
<1>7. ~raced' => \A u \in Threads : thr[u].op # "headers"
  BY <1>3 DEF Creating
<1>8. HdrInv'
  <2>1. area' = area
    BY <1>3 DEF Keep
  <2>2. ~raced' => \A x, y \in Threads :
           thr'[x].op = "headers" => hdr'.buf = NULL /\ (thr'[y].op = "headers" => x = y)
    BY <1>3, <1>5, <1>7
  <2> QED
    BY <1>3, <1>4, <1>6, <2>1, <2>2 DEF HdrInv
<1> QED
  BY <1>0, <1>1, <1>2, <1>3, <1>4, <1>8, StartStep

\* An munmap finds the pages: they stay on the list.
LEMMA MunmapStartStep ==
    ASSUME IndInv, NEW t \in Threads, NEW b \in Bufs, MunmapStart(t, b) PROVE IndInv'
<1> DEFINE r == [Idle EXCEPT !.pc = "munmap", !.op = "munmap", !.got = <<"buf", b>>]
<1>a. <<"buf", b>> \in Pieces /\ <<"buf", b>> # NULL
  BY PieceFacts
<1>0. PICK p \in Pieces : p = <<"buf", b>> /\ p # NULL
  BY <1>a, Zenon
<1>1. r \in ThreadRecord
  <2>1. [Idle EXCEPT !.pc = "munmap", !.op = "munmap", !.got = p] \in ThreadRecord
    BY DEF Idle, ThreadRecord
  <2> QED
    BY <1>0, <2>1
<1>2. r.pc = "munmap" /\ r.op = "munmap" /\ r.got = <<"buf", b>> /\ r.meta = NULL
  BY DEF Idle
<1>3. /\ thr' = [thr EXCEPT ![t] = r] /\ thr[t].pc = "idle" /\ phase = "open"
      /\ UNCHANGED <<phase, closefail>>
      /\ Keep /\ hdr' = hdr /\ imutex = NULL /\ imutex' = t /\ raced' = raced /\ b \in remote
  BY DEF MunmapStart
<1> HIDE DEF r
<1>4. thr \in [Threads -> ThreadRecord] /\ raced' \in BOOLEAN /\ hdr' \in HdrRecord
  BY <1>3, Now
<1>5. \A u \in Threads \ {t} : thr'[u] = thr[u]
  BY <1>1, <1>3, <1>4, ThreadMoves
<1>6. thr'[t].op # "headers"
  BY <1>2, <1>3, <1>4
<1>7. HdrInv'
  BY <1>3, <1>5, <1>6, HdrKeep DEF Keep
<1>8. Shape(r) /\ Large(r) /\ HeldBy(r) = {}
  BY <1>0, <1>2 DEF Shape, Large, HeldBy, BufferOps, HeapOps
<1>9. HeldBy(thr[t]) = {}
  BY <1>3, Now DEF Shape, HeldBy
<1>10. UNCHANGED <<buf, cached, num_cached_buf, remote, area>>
  BY <1>3 DEF Keep
<1>11. /\ r.pc # "oops" /\ thr[t].pc # "mapped" /\ HeldBy(r) = HeldBy(thr[t])
       /\ r.op \in HeapOps =>
           /\ imutex' = t
           /\ r.got # NULL => \E d \in remote : r.got = <<"buf", d>> /\ r.op # "mmap"
  BY <1>2, <1>3, <1>8, <1>9
<1> QED
  BY <1>1, <1>3, <1>4, <1>7, <1>8, <1>10, <1>11, QuietStep

-----------------------------------------------------------------------------
(* Steps in which the thread only moves on.                                *)

PCs == {"idle", "persistent", "cached", "fresh", "got", "failed",
        "flight", "freecopy", "munmap", "mapped", "clearnum", "oops"}

\* A thread that moves on keeps its other fields.
LEMMA PcMove ==
    ASSUME NEW k \in ThreadRecord, NEW x \in PCs
    PROVE  /\ [k EXCEPT !.pc = x] \in ThreadRecord
           /\ [k EXCEPT !.pc = x].pc = x /\ [k EXCEPT !.pc = x].op = k.op
           /\ [k EXCEPT !.pc = x].want = k.want /\ [k EXCEPT !.pc = x].got = k.got
           /\ [k EXCEPT !.pc = x].meta = k.meta /\ [k EXCEPT !.pc = x].metalen = k.metalen
           /\ [k EXCEPT !.pc = x].n = k.n
  BY DEF ThreadRecord, PCs

\* The steps of hfastrpc_buf_alloc that find nothing, and the callers' steps
\* that touch no memory.
LEMMA MoveStep ==
    ASSUME IndInv, NEW t \in Threads, NEW x \in PCs, thr' = [thr EXCEPT ![t].pc = x],
           \/ thr[t].pc \in {"persistent", "cached"} /\ x \in {"cached", "fresh", "oops"}
           \/ thr[t].pc = "fresh" /\ x = "failed"
           \/ thr[t].pc = "got" /\ thr[t].op = "copy" /\ x = "flight"
           \/ thr[t].pc = "got" /\ thr[t].op = "headers" /\ x = "failed"
           \/ thr[t].pc = "failed" /\ thr[t].op = "headers" /\ x = "clearnum",
           UNCHANGED <<phase, closefail>>,
           UNCHANGED <<buf, cached, num_cached_buf, remote, area, imutex, raced>>,
           hdr' \in HdrRecord, x = "oops" => raced, hdr' = hdr \/ HdrInv'
    PROVE  IndInv'
<1> DEFINE r == [thr[t] EXCEPT !.pc = x]
<1>0. /\ thr[t] \in ThreadRecord /\ thr \in [Threads -> ThreadRecord] /\ Shape(thr[t])
      /\ Large(thr[t]) /\ raced \in BOOLEAN
      /\ phase # "open" => thr[t].pc \in {"idle", "flight", "freecopy"}
      /\ thr[t].op \in HeapOps => imutex = t
  BY Now
<1>1. /\ r \in ThreadRecord /\ r.pc = x /\ r.op = thr[t].op /\ r.want = thr[t].want
      /\ r.got = thr[t].got /\ r.meta = thr[t].meta /\ r.metalen = thr[t].metalen
      /\ r.n = thr[t].n
  BY <1>0, PcMove
<1>2. thr' = [thr EXCEPT ![t] = r]
  OBVIOUS
<1> HIDE DEF r
<1>3. HeldBy(r) = HeldBy(thr[t])
  BY <1>1 DEF HeldBy
<1>4. Shape(r)
  BY <1>0, <1>1 DEF Shape, BufferOps
<1>5. Large(r)
  BY <1>0, <1>1 DEF Large, Shape
<1>6. r.op \in HeapOps =>
         /\ imutex' = t
         /\ r.got # NULL => \E d \in remote : r.got = <<"buf", d>> /\ r.op # "mmap"
  BY <1>0, <1>1 DEF Shape, HeapOps, BufferOps
<1>7. phase = "open" /\ thr[t].pc # "mapped"
  BY <1>0
<1>8. HdrInv'
  <2>1. thr'[t] = r /\ \A u \in Threads \ {t} : thr'[u] = thr[u]
    BY <1>0, <1>1, <1>2, ThreadMoves
  <2>2. thr'[t].op = "headers" => thr[t].op = "headers"
    BY <1>1, <2>1
  <2> QED
    BY <2>1, <2>2, HdrKeep
<1>9. raced' \in BOOLEAN /\ (raced => raced') /\ (r.pc = "oops" => raced')
  BY <1>0, <1>1
<1> QED
  BY <1>1, <1>2, <1>3, <1>4, <1>5, <1>6, <1>7, <1>8, <1>9, QuietStep

\* ctx->buf is set.
LEMMA InvokeMetaStep ==
    ASSUME IndInv, NEW t \in Threads, InvokeMeta(t) PROVE IndInv'
<1> PICK len \in Nat :
        thr' = [thr EXCEPT ![t] =
            [thr[t] EXCEPT !.meta = thr[t].got, !.metalen = thr[t].want,
                           !.got = NULL, !.want = len, !.op = "copy",
                           !.pc = IF len = 0 THEN "flight" ELSE "persistent"]]
  BY ConstAssumption DEF InvokeMeta
<1> DEFINE r == [thr[t] EXCEPT !.meta = thr[t].got, !.metalen = thr[t].want,
                           !.got = NULL, !.want = len, !.op = "copy",
                           !.pc = IF len = 0 THEN "flight" ELSE "persistent"]
<1>0. /\ thr[t] \in ThreadRecord /\ thr \in [Threads -> ThreadRecord] /\ Shape(thr[t])
      /\ Large(thr[t]) /\ raced \in BOOLEAN
      /\ phase # "open" => thr[t].pc \in {"idle", "flight", "freecopy"}
      /\ hdr \in HdrRecord
  BY Now
<1>1. r \in ThreadRecord
  BY <1>0 DEF ThreadRecord
<1>2. /\ r.pc \in {"flight", "persistent"} /\ r.op = "copy" /\ r.want = len
      /\ r.got = NULL /\ r.meta = thr[t].got /\ r.metalen = thr[t].want
  BY <1>0 DEF ThreadRecord
<1>3. thr' = [thr EXCEPT ![t] = r]
  OBVIOUS
<1> HIDE DEF r
<1>4. /\ thr[t].op = "invoke" /\ thr[t].pc = "got" /\ UNCHANGED <<phase, closefail>> /\ hdr' = hdr
      /\ UNCHANGED <<buf, cached, num_cached_buf, remote, area, imutex, raced>>
  BY DEF InvokeMeta, Keep
<1>5. thr[t].got # NULL /\ thr[t].meta = NULL
  BY <1>0, <1>4 DEF Shape
<1>6. HeldBy(r) = HeldBy(thr[t])
  BY <1>2, <1>4, <1>5 DEF HeldBy, HeapOps
<1>7. Shape(r)
  BY <1>2, <1>5 DEF Shape, BufferOps
<1>8. Large(r)
  BY <1>0, <1>2, <1>4, <1>5 DEF Large
<1>9. phase = "open" /\ thr[t].pc # "mapped" /\ r.op \notin HeapOps /\ r.pc # "oops"
  BY <1>0, <1>2, <1>4 DEF HeapOps
<1>10. HdrInv'
  <2>1. thr'[t] = r /\ \A u \in Threads \ {t} : thr'[u] = thr[u]
    BY <1>0, <1>1, <1>3, ThreadMoves
  <2>2. thr'[t].op = "headers" => thr[t].op = "headers"
    BY <1>2, <2>1
  <2> QED
    BY <1>4, <2>1, <2>2, HdrKeep
<1> QED
  BY <1>0, <1>1, <1>3, <1>4, <1>6, <1>7, <1>8, <1>9, <1>10, QuietStep

\* ctx->copybuf is set.
LEMMA InvokeCopyStep ==
    ASSUME IndInv, NEW t \in Threads, InvokeCopy(t) PROVE IndInv'
<1>1. "flight" \in PCs /\ hdr \in HdrRecord
  BY Now DEF PCs
<1>2. /\ thr' = [thr EXCEPT ![t].pc = "flight"]
      /\ thr[t].pc = "got" /\ thr[t].op = "copy" /\ UNCHANGED <<phase, closefail>> /\ hdr' = hdr
      /\ UNCHANGED <<buf, cached, num_cached_buf, remote, area, imutex, raced>>
  BY DEF InvokeCopy, Keep
<1> QED
  BY <1>1, <1>2, MoveStep

\* The error path of the header set-up clears the session's fields: they were
\* unset, unless two threads set them up.
LEMMA HeadersFailStep ==
    ASSUME IndInv, NEW t \in Threads, HeadersFail(t) PROVE IndInv'
<1>1. "clearnum" \in PCs /\ hdr \in HdrRecord /\ HdrInv
  BY Now DEF PCs, IndInv
<1>2. /\ thr' = [thr EXCEPT ![t].pc = "clearnum"]
      /\ thr[t].pc = "failed" /\ thr[t].op = "headers" /\ UNCHANGED <<phase, closefail>>
      /\ hdr' = [hdr EXCEPT !.buf = NULL, !.arr = NULL]
      /\ UNCHANGED <<buf, cached, num_cached_buf, remote, area, imutex, raced>>
  BY DEF HeadersFail, Keep
<1>3. hdr' \in HdrRecord
  BY <1>1, <1>2 DEF HdrRecord
<1>4. hdr'.buf = NULL /\ hdr'.arr = NULL /\ hdr'.n = hdr.n
  BY <1>1, <1>2 DEF HdrRecord
<1>5. \A u \in Threads : thr'[u].op = thr[u].op
  BY <1>1, <1>2, Now
<1>6. HdrInv'
  <2>1. ~raced => hdr.buf = NULL /\ hdr.arr = NULL /\ hdr.n = 0
    BY <1>1, <1>2 DEF HdrInv
  <2> QED
    BY <1>1, <1>2, <1>4, <1>5, <2>1 DEF HdrInv
<1> QED
  BY <1>1, <1>2, <1>3, <1>6, MoveStep

-----------------------------------------------------------------------------
(* hfastrpc_buf_alloc: steps that find memory.                             *)

\* The fields of a thread that is given the piece p.
LEMMA TakeFields ==
    ASSUME IndInv, NEW t \in Threads, NEW p \in Pieces,
           thr' = [thr EXCEPT ![t].pc = "got", ![t].got = p],
           thr[t].pc \in {"persistent", "cached", "fresh"}
    PROVE  \E r \in ThreadRecord :
             /\ thr' = [thr EXCEPT ![t] = r]
             /\ r.pc = "got" /\ r.got = p /\ r.op = thr[t].op /\ r.want = thr[t].want
             /\ r.meta = thr[t].meta /\ r.metalen = thr[t].metalen
             /\ thr[t].op \in BufferOps
             /\ p \notin Held(t) => Shape(r)
             /\ Held(t)' = IF thr[t].op = "mmap" THEN Held(t) ELSE Held(t) \cup {p}
             /\ \A u \in Threads \ {t} : thr'[u] = thr[u] /\ Held(u)' = Held(u)
<1> DEFINE r == [thr[t] EXCEPT !.pc = "got", !.got = p]
<1>0. /\ thr[t] \in ThreadRecord /\ thr \in [Threads -> ThreadRecord] /\ Shape(thr[t])
  BY Now
<1>1. r \in ThreadRecord
  BY <1>0 DEF ThreadRecord
<1>2. /\ r.pc = "got" /\ r.got = p /\ r.op = thr[t].op /\ r.want = thr[t].want
      /\ r.meta = thr[t].meta /\ r.metalen = thr[t].metalen /\ r.n = thr[t].n
  BY <1>0 DEF ThreadRecord
<1>3. thr' = [thr EXCEPT ![t] = r]
  BY <1>0
<1> HIDE DEF r
<1>4. /\ thr[t].op \in BufferOps /\ thr[t].got = NULL /\ p # NULL
  BY <1>0, PieceFacts DEF Shape
<1>5. HeldBy(r) = IF thr[t].op = "mmap" THEN HeldBy(thr[t]) ELSE HeldBy(thr[t]) \cup {p}
  BY <1>2, <1>4 DEF HeldBy, BufferOps, HeapOps
<1>6. /\ Held(t)' = HeldBy(r) /\ Held(t) = HeldBy(thr[t])
      /\ \A u \in Threads \ {t} : thr'[u] = thr[u] /\ Held(u)' = Held(u)
  BY <1>0, <1>1, <1>3, ThreadMoves
<1>7. p \notin Held(t) => Shape(r)
  <2> SUFFICES ASSUME p \notin Held(t) PROVE Shape(r)
    OBVIOUS
  <2>1. r.meta # NULL => r.meta # p
    BY <1>2 DEF Held
  <2> QED
    BY <1>0, <1>2, <1>4, <2>1 DEF Shape, BufferOps
<1> QED
  BY <1>1, <1>2, <1>3, <1>4, <1>5, <1>6, <1>7

\* The invariant after the thread t was given the piece p.
LEMMA TookStep ==
    ASSUME IndInv, NEW t \in Threads, NEW p \in Pieces,
           thr' = [thr EXCEPT ![t].pc = "got", ![t].got = p],
           thr[t].pc \in {"persistent", "cached", "fresh"},
           UNCHANGED <<hdr, imutex, phase, closefail, raced>>,
           buf' \in [Bufs -> BufRecord], cached' \subseteq Bufs, remote' \subseteq Bufs,
           remote \subseteq remote', num_cached_buf' \in Nat, area' \in [Arrays -> AreaRecord],
           \A a \in Arrays : area'[a].base = area[a].base,
           \A b \in Bufs : Live(b) => buf'[b].size = buf[b].size,
           \A b \in Bufs : buf'[b].dsp = "mapped" =>
               /\ buf[b].dsp = "mapped" /\ Live(b)' /\ b \notin cached' /\ p # <<"buf", b>>,
           MemInv', p \notin Held(t),
           thr[t].op = "mmap" => \E b \in remote' : p = <<"buf", b>>,
           Size(p)' >= thr[t].want
    PROVE  IndInv'
<1>0. /\ thr[t] \in ThreadRecord /\ raced \in BOOLEAN /\ hdr \in HdrRecord
      /\ phase # "open" => thr[t].pc \in {"idle", "flight", "freecopy"}
      /\ thr[t].op \in HeapOps => imutex = t
  BY Now
<1>1. PICK r \in ThreadRecord :
         /\ thr' = [thr EXCEPT ![t] = r]
         /\ r.pc = "got" /\ r.got = p /\ r.op = thr[t].op /\ r.want = thr[t].want
         /\ r.meta = thr[t].meta /\ r.metalen = thr[t].metalen
         /\ thr[t].op \in BufferOps
         /\ p \notin Held(t) => Shape(r)
         /\ Held(t)' = IF thr[t].op = "mmap" THEN Held(t) ELSE Held(t) \cup {p}
         /\ \A u \in Threads \ {t} : thr'[u] = thr[u] /\ Held(u)' = Held(u)
  BY TakeFields, Zenon
<1>2. phase = "open" /\ Shape(r)
  BY <1>0, <1>1
<1>3. DspInv'
  <2>1. \A b \in Bufs : buf[b].dsp = "mapped" => <<"buf", b>> \notin Held(t)
    BY MappedNow
  <2>2. \A b \in Bufs : buf'[b].dsp = "mapped" =>
           /\ buf[b].dsp = "mapped" /\ Live(b)' /\ b \notin cached'
           /\ <<"buf", b>> \notin Held(t)'
    BY <1>1, <2>1
  <2> QED
    BY <1>1, <2>2, DspKeep
<1>4. HdrInv'
  <2>1. thr'[t] = r
    BY <1>1, Now
  <2>2. thr'[t].op = "headers" => thr[t].op = "headers"
    BY <1>1, <2>1
  <2> QED
    BY <1>1, <2>2, HdrKeep
<1>5. Large(r)'
  <2>1. PICK k \in ThreadRecord : k = thr[t]
    BY <1>0
  <2>2. Large(k)'
    BY <2>1, LargeKept
  <2> QED
    BY <1>1, <2>1, <2>2 DEF Large
<1>6. r.op \in HeapOps =>
         /\ imutex' = t
         /\ r.got # NULL =>
              \E b \in remote' : /\ r.got = <<"buf", b>>
                                 /\ r.op = "mmap" => buf'[b].dsp # "mapped"
  BY <1>0, <1>1 DEF HeapOps, BufferOps
<1>7. /\ phase # "closed" /\ hdr' \in HdrRecord /\ raced' \in BOOLEAN /\ (raced => raced')
      /\ (phase # "open" => r.pc \in {"idle", "freecopy"}) /\ (r.pc = "oops" => raced')
      /\ \A b \in remote : thr[t].op \notin HeapOps =>
               b \in remote' /\ (buf'[b].dsp = "mapped" => buf[b].dsp = "mapped")
  <2>1. remote \subseteq Bufs
    BY Now
  <2> QED
    BY <1>0, <1>1, <1>2, <2>1
<1> QED
  BY <1>1, <1>2, <1>3, <1>4, <1>5, <1>6, <1>7, StepInv

\* A header page is taken, or there is none.
LEMMA GetPersistentBufStep ==
    ASSUME IndInv, NEW t \in Threads, GetPersistentBuf(t) PROVE IndInv'
<1> DEFINE free == {i \in 1..hdr.n : i \notin area[hdr.arr].use}
           usable == hdr.n > 0 /\ IsMeta(thr[t].op) /\ thr[t].want <= PageSize
<1>0. /\ thr[t].pc = "persistent" /\ UNCHANGED <<buf, cached, num_cached_buf, remote, hdr>>
      /\ UNCHANGED <<imutex, phase, closefail, raced>>
  BY DEF GetPersistentBuf
<1>1. /\ buf \in [Bufs -> BufRecord] /\ cached \subseteq Bufs /\ remote \subseteq Bufs
      /\ area \in [Arrays -> AreaRecord] /\ num_cached_buf \in Nat /\ hdr \in HdrRecord
      /\ HdrInv /\ raced \in BOOLEAN
      /\ phase # "open" => thr[t].pc \in {"idle", "flight", "freecopy"}
  BY Now DEF IndInv
<1>2. hdr.n \in Nat /\ hdr.arr \in Arrays \cup {NULL}
  BY <1>1 DEF HdrRecord
<1>3. CASE usable /\ hdr.arr = NULL /\ thr' = [thr EXCEPT ![t].pc = "oops"] /\ UNCHANGED area
  <2>1. raced
    BY <1>2, <1>3, <1>1 DEF HdrInv
  <2>2. "oops" \in PCs
    BY DEF PCs
  <2> QED
    BY <1>0, <1>1, <1>3, <2>1, <2>2, MoveStep
<1>4. CASE thr' = [thr EXCEPT ![t].pc = "cached"] /\ UNCHANGED area
  <2>2. "cached" \in PCs
    BY DEF PCs
  <2> QED
    BY <1>0, <1>1, <1>4, <2>2, MoveStep
<1>5. CASE /\ usable /\ hdr.arr # NULL
           /\ \E i \in free :
                /\ area' = [area EXCEPT ![hdr.arr].use = @ \cup {i}]
                /\ thr' = [thr EXCEPT ![t].pc = "got", ![t].got = <<"page", hdr.arr, i>>]
  <2>2. PICK i \in free : /\ area' = [area EXCEPT ![hdr.arr].use = @ \cup {i}]
                          /\ thr' = [thr EXCEPT ![t].pc = "got", ![t].got = <<"page", hdr.arr, i>>]
    BY <1>5
  <2>3. PICK a \in Arrays : a = hdr.arr /\ area[a].base # NULL
    BY <1>1, <1>2, <1>5 DEF HdrInv
  <2>4. i \in Pages /\ i \notin area[a].use
    BY <1>1, <1>2, <2>3, ConstAssumption DEF HdrInv, Pages
  <2>5. PICK p \in Pieces : p = <<"page", a, i>>
    BY <2>4, PieceFacts
  <2>6. /\ area' = [area EXCEPT ![a].use = @ \cup {i}]
        /\ thr' = [thr EXCEPT ![t].pc = "got", ![t].got = p]
        /\ thr[t].op # "mmap" /\ thr[t].want <= PageSize /\ phase = "open"
    BY <1>0, <1>1, <1>5, <2>2, <2>3, <2>5 DEF IsMeta
  <2>7. /\ Held(t)' = Held(t) \cup {p}
        /\ \A u \in Threads \ {t} : Held(u)' = Held(u)
    BY <1>0, <2>6, TakeFields
  <2>8. MemInv' /\ p \notin Held(t)
    BY <1>0, <2>3, <2>4, <2>5, <2>6, <2>7, TakePage
  <2>9. area' \in [Arrays -> AreaRecord] /\ \A c \in Arrays : area'[c].base = area[c].base
    BY <1>1, <2>4, <2>6 DEF AreaRecord
  <2>10. Size(p)' = PageSize
    BY <2>4, <2>5, PieceFacts DEF Size
  <2>11. \A b \in Bufs : buf'[b].dsp = "mapped" =>
               /\ buf[b].dsp = "mapped" /\ Live(b)' /\ b \notin cached' /\ p # <<"buf", b>>
    <3>1. \A b \in Bufs : buf[b].dsp = "mapped" => Live(b) /\ b \notin cached
      BY <1>0, MappedNow
    <3>2. \A b \in Bufs : p # <<"buf", b>>
      BY <2>5, PieceNames
    <3> QED
      BY <1>0, <3>1, <3>2 DEF Live
  <2>12. thr[t].want \in Nat /\ PageSize \in Nat
    BY Now, ConstAssumption DEF ThreadRecord
  <2>13. Size(p)' >= thr[t].want
    BY <2>6, <2>10, <2>12
  <2> QED
    BY <1>0, <1>1, <2>6, <2>8, <2>9, <2>11, <2>13, TookStep
<1> QED
  BY <1>3, <1>4, <1>5 DEF GetPersistentBuf

\* A cached buffer is taken, or none fits.
LEMMA GetCachedBufStep ==
    ASSUME IndInv, NEW t \in Threads, GetCachedBuf(t) PROVE IndInv'
<1>0. /\ thr[t].pc = "cached" /\ UNCHANGED <<buf, remote, area, hdr, imutex, phase, closefail, raced>>
  BY DEF GetCachedBuf
<1>1. /\ buf \in [Bufs -> BufRecord] /\ cached \subseteq Bufs /\ remote \subseteq Bufs
      /\ area \in [Arrays -> AreaRecord] /\ num_cached_buf \in Nat /\ hdr \in HdrRecord
  BY Now
<1>2. CASE thr' = [thr EXCEPT ![t].pc = "fresh"] /\ UNCHANGED <<cached, num_cached_buf>>
  <2>1. "fresh" \in PCs
    BY DEF PCs
  <2> QED
    BY <1>0, <1>1, <1>2, <2>1, MoveStep
<1>3. CASE /\ ~IsHeap(thr[t].op)
           /\ \E b \in FitsIn(thr[t].want) :
                /\ cached' = cached \ {b} /\ num_cached_buf' = num_cached_buf - 1
                /\ thr' = [thr EXCEPT ![t].pc = "got", ![t].got = <<"buf", b>>]
  <2>1. PICK b \in cached :
           /\ buf[b].size >= thr[t].want
           /\ cached' = cached \ {b} /\ num_cached_buf' = num_cached_buf - 1
           /\ thr' = [thr EXCEPT ![t].pc = "got", ![t].got = <<"buf", b>>]
    BY <1>3 DEF FitsIn
  <2>2. b \in Bufs /\ thr[t].op # "mmap"
    BY <1>1, <1>3 DEF IsHeap
  <2>3. PICK p \in Pieces : p = <<"buf", b>>
    BY <2>2, PieceFacts
  <2>4. thr' = [thr EXCEPT ![t].pc = "got", ![t].got = p]
    BY <2>1, <2>3
  <2>5. /\ Held(t)' = Held(t) \cup {p}
        /\ \A u \in Threads \ {t} : Held(u)' = Held(u)
    BY <1>0, <2>2, <2>4, TakeFields
  <2>6. /\ MemInv' /\ p \notin Held(t)
        /\ buf[b].dsp # "mapped" /\ num_cached_buf' \in Nat
    BY <1>0, <2>1, <2>3, <2>5, TakeCached
  <2>7. Size(p)' = buf[b].size
    BY <1>0, <2>2, <2>3, PieceFacts DEF Size
  <2>8. \A d \in Bufs : buf'[d].dsp = "mapped" =>
               /\ buf[d].dsp = "mapped" /\ Live(d)' /\ d \notin cached' /\ p # <<"buf", d>>
    <3>1. \A d \in Bufs : buf[d].dsp = "mapped" => Live(d) /\ d \notin cached
      BY <1>0, MappedNow
    <3>2. \A d \in Bufs : p = <<"buf", d>> => d = b
      BY <2>3, PieceNames
    <3> QED
      BY <1>0, <2>1, <2>6, <3>1, <3>2 DEF Live
  <2>9. /\ \A a \in Arrays : area'[a].base = area[a].base
        /\ \A d \in Bufs : Live(d) => buf'[d].size = buf[d].size
        /\ cached' \subseteq Bufs /\ remote \subseteq remote' /\ Size(p)' >= thr[t].want
    BY <1>0, <1>1, <2>1, <2>7
  <2> QED
    BY <1>0, <1>1, <2>2, <2>4, <2>6, <2>8, <2>9, TookStep
<1> QED
  BY <1>2, <1>3 DEF GetCachedBuf

\* A new buffer, or there is no memory.
LEMMA FreshBufStep ==
    ASSUME IndInv, NEW t \in Threads, FreshBuf(t) PROVE IndInv'
<1>0. /\ thr[t].pc = "fresh"
      /\ UNCHANGED <<cached, num_cached_buf, area, hdr, imutex, phase, closefail, raced>>
  BY DEF FreshBuf
<1>1. /\ buf \in [Bufs -> BufRecord] /\ cached \subseteq Bufs /\ remote \subseteq Bufs
      /\ area \in [Arrays -> AreaRecord] /\ num_cached_buf \in Nat /\ hdr \in HdrRecord
      /\ phase # "open" => thr[t].pc \in {"idle", "flight", "freecopy"}
  BY Now
<1>2. CASE thr' = [thr EXCEPT ![t].pc = "failed"] /\ UNCHANGED <<buf, remote>>
  <2>1. "failed" \in PCs
    BY DEF PCs
  <2> QED
    BY <1>0, <1>1, <1>2, <2>1, MoveStep
<1>3. CASE \E b \in Bufs :
           /\ buf[b].state = "unborn"
           /\ buf' = [buf EXCEPT ![b] =
                  [state |-> "live", dsp |-> "none",
                   size |-> IF IsHeap(thr[t].op) THEN thr[t].want
                            ELSE PageAlign(thr[t].want)]]
           /\ remote' = IF IsHeap(thr[t].op) THEN remote \cup {b} ELSE remote
           /\ thr' = [thr EXCEPT ![t].pc = "got", ![t].got = <<"buf", b>>]
  <2>1. PICK size \in Nat : /\ size = IF IsHeap(thr[t].op) THEN thr[t].want
                                      ELSE PageAlign(thr[t].want)
                            /\ size >= thr[t].want
    <3>1. thr[t].want \in Nat
      BY Now DEF ThreadRecord
    <3> QED
      BY <3>1, AlignFacts
  <2>2. PICK b \in Bufs :
           /\ buf[b].state = "unborn"
           /\ buf' = [buf EXCEPT ![b] = [state |-> "live", dsp |-> "none", size |-> size]]
           /\ remote' = IF IsHeap(thr[t].op) THEN remote \cup {b} ELSE remote
           /\ thr' = [thr EXCEPT ![t].pc = "got", ![t].got = <<"buf", b>>]
    BY <1>3, <2>1
  <2>3. PICK r \in BufRecord : /\ r.state = "live" /\ r.dsp = "none" /\ r.size = size
                               /\ r = [state |-> "live", dsp |-> "none", size |-> size]
    BY DEF BufRecord
  <2>4. buf' = [buf EXCEPT ![b] = r]
    BY <2>2, <2>3
  <2>5. PICK p \in Pieces : p = <<"buf", b>>
    BY PieceFacts
  <2>6. thr' = [thr EXCEPT ![t].pc = "got", ![t].got = p]
    BY <2>2, <2>5
  <2>7. /\ Held(t)' = IF thr[t].op = "mmap" THEN Held(t) ELSE Held(t) \cup {p}
        /\ \A u \in Threads \ {t} : Held(u)' = Held(u)
    BY <1>0, <2>6, TakeFields
  <2>8. \/ remote' = remote /\ Held(t)' = Held(t) \cup {<<"buf", b>>}
        \/ remote' = remote \cup {b} /\ Held(t)' = Held(t)
    BY <2>2, <2>5, <2>7 DEF IsHeap
  <2>9. phase = "open"
    BY <1>0, <1>1
  <2>10. MemInv' /\ p \notin Held(t)
    <3>1. /\ UNCHANGED <<cached, num_cached_buf, area, phase, closefail>>
          /\ buf[b].state = "unborn" /\ r.state = "live"
          /\ \A u \in Threads \ {t} : Held(u)' = Held(u)
      BY <1>0, <2>2, <2>3, <2>7
    <3>2. MemInv' /\ <<"buf", b>> \notin Held(t)
      BY <2>4, <2>8, <2>9, <3>1, TakeFresh
    <3> QED
      BY <2>5, <3>2
  <2>11. /\ buf' \in [Bufs -> BufRecord] /\ buf'[b] = r
         /\ \A d \in Bufs \ {b} : buf'[d] = buf[d]
    BY <1>1, <2>4
  <2>12. Size(p)' = size
    BY <2>3, <2>5, <2>11, PieceFacts DEF Size
  <2>13. \A d \in Bufs : buf'[d].dsp = "mapped" =>
               /\ buf[d].dsp = "mapped" /\ Live(d)' /\ d \notin cached' /\ p # <<"buf", d>>
    <3>1. \A d \in Bufs : buf[d].dsp = "mapped" => Live(d) /\ d \notin cached
      BY <1>0, MappedNow
    <3>2. \A d \in Bufs : p = <<"buf", d>> => d = b
      BY <2>5, PieceNames
    <3> QED
      BY <1>0, <2>3, <2>11, <3>1, <3>2 DEF Live
  <2>14. /\ \A a \in Arrays : area'[a].base = area[a].base
         /\ remote' \subseteq Bufs /\ remote \subseteq remote'
         /\ Size(p)' >= thr[t].want
         /\ thr[t].op = "mmap" => \E d \in remote' : p = <<"buf", d>>
    BY <1>0, <1>1, <2>1, <2>2, <2>5, <2>12 DEF IsHeap
  <2>15. \A d \in Bufs : Live(d) => buf'[d].size = buf[d].size
    BY <2>2, <2>11 DEF Live
  <2> QED
    BY <1>0, <1>1, <2>6, <2>10, <2>11, <2>13, <2>14, <2>15, TookStep
<1> QED
  BY <1>2, <1>3 DEF FreshBuf

-----------------------------------------------------------------------------
(* hfastrpc_buf_free                                                       *)

\* A thread gives back the piece p, when it has one.
LEMMA GiveBackStep ==
    ASSUME IndInv, NEW t \in Threads, NEW r \in ThreadRecord, thr' = [thr EXCEPT ![t] = r],
           NEW p \in Pieces \cup {NULL}, NEW cache \in BOOLEAN, BufFree(p, cache),
           Shape(r), r.pc \in {"idle", "freecopy"}, r.meta = NULL, r.op \notin HeapOps,
           thr[t].pc \notin {"idle", "mapped"}, thr[t].op \notin HeapOps,
           p # NULL => p \in Held(t), HeldBy(r) = Held(t) \ {p},
           UNCHANGED <<imutex, phase, closefail, raced>>, hdr' \in HdrRecord,
           (\A a \in Arrays : area'[a].base = area[a].base) => HdrInv'
    PROVE  IndInv'
<1>0. /\ buf \in [Bufs -> BufRecord] /\ cached \subseteq Bufs /\ remote \subseteq Bufs
      /\ area \in [Arrays -> AreaRecord] /\ num_cached_buf \in Nat /\ raced \in BOOLEAN
      /\ thr \in [Threads -> ThreadRecord]
      /\ phase = "closed" => thr[t].pc = "idle"
  BY Now
<1>1. /\ Held(t)' = Held(t) \ {p}
      /\ \A u \in Threads \ {t} : thr'[u] = thr[u] /\ Held(u)' = Held(u)
  BY <1>0, ThreadMoves
<1>2. /\ MemInv' /\ buf' \in [Bufs -> BufRecord] /\ cached' \subseteq Bufs
      /\ remote' = remote /\ num_cached_buf' \in Nat /\ area' \in [Arrays -> AreaRecord]
      /\ \A a \in Arrays : area'[a].base = area[a].base
      /\ \A b \in Bufs : buf'[b].size = buf[b].size /\ buf'[b].dsp = buf[b].dsp
      /\ \A b \in Bufs : p # <<"buf", b>> =>
           (Live(b)' <=> Live(b)) /\ (b \in cached' <=> b \in cached)
  <2>1. CASE p = NULL
    <3>1. UNCHANGED <<buf, cached, num_cached_buf, remote, area>>
      BY <2>1 DEF BufFree, Keep
    <3>2. \A b \in Bufs : (Live(b)' <=> Live(b)) /\ buf'[b].size = buf[b].size
      BY <3>1 DEF Live
    <3>3. Held(t)' = Held(t)
      BY <1>1, <2>1 DEF Held
    <3>4. MemInv'
      BY <1>1, <3>1, <3>2, <3>3, KeepMem
    <3> QED
      BY <1>0, <3>1, <3>2, <3>4
  <2>2. CASE p # NULL
    <3>1. p \in Held(t)
      BY <2>2
    <3> QED
      BY <1>1, <3>1, DropMem
  <2> QED
    BY <2>1, <2>2
<1>3. DspInv'
  <2>1. \A b \in Bufs : buf[b].dsp = "mapped" =>
           /\ Live(b) /\ b \notin cached /\ <<"buf", b>> \notin Held(t)
    BY MappedNow
  <2>2. \A b \in Bufs : p = <<"buf", b>> => <<"buf", b>> \in Held(t)
    BY PieceFacts
  <2>3. \A b \in Bufs : buf'[b].dsp = "mapped" =>
           /\ buf[b].dsp = "mapped" /\ Live(b)' /\ b \notin cached'
           /\ <<"buf", b>> \notin Held(t)'
    BY <1>1, <1>2, <2>1, <2>2
  <2> QED
    BY <1>1, <2>3, DspKeep
<1>4. Large(r)'
  BY DEF Large
<1>5. /\ phase # "closed" /\ raced' \in BOOLEAN /\ (raced => raced') /\ r.pc # "oops"
      /\ \A b \in Bufs : Live(b) => buf'[b].size = buf[b].size
      /\ \A b \in remote : thr[t].op \notin HeapOps =>
               b \in remote' /\ (buf'[b].dsp = "mapped" => buf[b].dsp = "mapped")
      /\ remote' \subseteq Bufs
  BY <1>0, <1>2
<1> QED
  BY <1>2, <1>3, <1>4, <1>5, StepInv

\* context_free gives back the metadata ...
LEMMA ContextFreeMetaStep ==
    ASSUME IndInv, NEW t \in Threads, ContextFreeMeta(t) PROVE IndInv'
<1> DEFINE r == [thr[t] EXCEPT !.pc = "freecopy", !.meta = NULL]
<1>0. /\ thr[t] \in ThreadRecord /\ thr \in [Threads -> ThreadRecord] /\ Shape(thr[t])
      /\ hdr \in HdrRecord
  BY Now
<1>1. r \in ThreadRecord
  BY <1>0 DEF ThreadRecord
<1>2. /\ r.pc = "freecopy" /\ r.op = thr[t].op /\ r.got = thr[t].got /\ r.meta = NULL
      /\ thr[t].meta \in Pieces \cup {NULL}
  BY <1>0 DEF ThreadRecord
<1>3. /\ thr' = [thr EXCEPT ![t] = r] /\ thr[t].op \in {"invoke", "copy"}
      /\ thr[t].pc \in {"flight", "failed"}
      /\ BufFree(thr[t].meta, TRUE) /\ UNCHANGED <<hdr, imutex, phase, closefail, raced>>
  BY <1>0 DEF ContextFreeMeta
<1> HIDE DEF r
<1>4. Shape(r)
  BY <1>0, <1>2, <1>3 DEF Shape, BufferOps
<1>5. r.op \notin HeapOps /\ thr[t].op \notin HeapOps
  BY <1>2, <1>3 DEF HeapOps
<1>6. thr[t].meta # NULL => thr[t].meta \in Held(t)
  BY DEF Held
<1>7. HeldBy(r) = Held(t) \ {thr[t].meta}
  <2>1. thr[t].meta # NULL => thr[t].meta # thr[t].got
    BY <1>0 DEF Shape
  <2>2. HeldBy(r) = {q \in {r.meta, r.got} : q # NULL}
    BY <1>5 DEF HeldBy
  <2>3. Held(t) = {q \in {thr[t].meta, thr[t].got} : q # NULL}
    BY <1>5 DEF Held, HeapOps
  <2> QED
    BY <1>2, <2>1, <2>2, <2>3
<1>8. ASSUME \A a \in Arrays : area'[a].base = area[a].base PROVE HdrInv'
  <2>1. thr'[t] = r /\ \A u \in Threads \ {t} : thr'[u] = thr[u]
    BY <1>0, <1>1, <1>3, ThreadMoves
  <2>2. thr'[t].op = "headers" => thr[t].op = "headers"
    BY <1>2, <2>1
  <2> QED
    BY <1>3, <1>8, <2>1, <2>2, HdrKeep
<1>9. PICK p \in Pieces \cup {NULL} : p = thr[t].meta
  BY <1>2
<1>10. /\ BufFree(p, TRUE) /\ (p # NULL => p \in Held(t)) /\ HeldBy(r) = Held(t) \ {p}
       /\ r.pc \in {"idle", "freecopy"} /\ thr[t].pc \notin {"idle", "mapped"}
       /\ hdr' \in HdrRecord
  BY <1>0, <1>2, <1>3, <1>6, <1>7, <1>9
<1> QED
  BY <1>1, <1>2, <1>3, <1>4, <1>5, <1>8, <1>10, GiveBackStep

\* ... and the buffer of the copied arguments.
LEMMA ContextFreeCopyStep ==
    ASSUME IndInv, NEW t \in Threads, ContextFreeCopy(t) PROVE IndInv'
<1>0. /\ thr[t] \in ThreadRecord /\ thr \in [Threads -> ThreadRecord] /\ Shape(thr[t])
      /\ hdr \in HdrRecord
  BY Now
<1>1. /\ Idle \in ThreadRecord /\ Shape(Idle) /\ HeldBy(Idle) = {}
      /\ Idle.pc = "idle" /\ Idle.op = "none" /\ Idle.meta = NULL
  BY IdleFacts
<1>2. /\ thr' = [thr EXCEPT ![t] = Idle] /\ thr[t].pc = "freecopy"
      /\ BufFree(thr[t].got, TRUE) /\ UNCHANGED <<hdr, imutex, phase, closefail, raced>>
  BY DEF ContextFreeCopy
<1>3. thr[t].op \in {"invoke", "copy"} /\ thr[t].meta = NULL
  BY <1>0, <1>2 DEF Shape
<1>4. Idle.op \notin HeapOps /\ thr[t].op \notin HeapOps
  BY <1>1, <1>3 DEF HeapOps
<1>5. PICK p \in Pieces \cup {NULL} : p = thr[t].got
  BY <1>0 DEF ThreadRecord
<1>6. Held(t) = {q \in {p} : q # NULL}
  BY <1>3, <1>5 DEF Held
<1>7. ASSUME \A a \in Arrays : area'[a].base = area[a].base PROVE HdrInv'
  <2>1. thr'[t] = Idle /\ \A u \in Threads \ {t} : thr'[u] = thr[u]
    BY <1>0, <1>1, <1>2, ThreadMoves
  <2>2. thr'[t].op = "headers" => thr[t].op = "headers"
    BY <1>1, <2>1
  <2> QED
    BY <1>2, <1>7, <2>1, <2>2, HdrKeep
<1>8. /\ BufFree(p, TRUE) /\ (p # NULL => p \in Held(t)) /\ HeldBy(Idle) = Held(t) \ {p}
      /\ Idle.pc \in {"idle", "freecopy"} /\ thr[t].pc \notin {"idle", "mapped"}
      /\ hdr' \in HdrRecord
  BY <1>0, <1>1, <1>2, <1>5, <1>6
<1> QED
  BY <1>1, <1>2, <1>4, <1>7, <1>8, GiveBackStep

\* The error path of the header set-up ends.
LEMMA HeadersClearStep ==
    ASSUME IndInv, NEW t \in Threads, HeadersClear(t) PROVE IndInv'
<1>0. /\ thr[t] \in ThreadRecord /\ thr \in [Threads -> ThreadRecord] /\ Shape(thr[t])
      /\ hdr \in HdrRecord /\ HdrInv
  BY Now DEF IndInv
<1>1. /\ Idle \in ThreadRecord /\ Shape(Idle) /\ HeldBy(Idle) = {}
      /\ Idle.pc = "idle" /\ Idle.op = "none" /\ Idle.meta = NULL
  BY IdleFacts
<1>2. /\ thr' = [thr EXCEPT ![t] = Idle] /\ thr[t].pc = "clearnum"
      /\ BufFree(thr[t].got, FALSE) /\ UNCHANGED <<imutex, phase, closefail, raced>>
      /\ hdr' = [hdr EXCEPT !.n = 0]
  BY DEF HeadersClear
<1>3. thr[t].op = "headers" /\ thr[t].meta = NULL
  BY <1>0, <1>2 DEF Shape
<1>4. Idle.op \notin HeapOps /\ thr[t].op \notin HeapOps
  BY <1>1, <1>3 DEF HeapOps
<1>5. PICK p \in Pieces \cup {NULL} : p = thr[t].got
  BY <1>0 DEF ThreadRecord
<1>6. Held(t) = {q \in {p} : q # NULL}
  BY <1>3, <1>5 DEF Held
<1>7. hdr' \in HdrRecord
  BY <1>0, <1>2 DEF HdrRecord
<1>8. hdr'.buf = hdr.buf /\ hdr'.arr = hdr.arr /\ hdr'.n = 0 /\ hdr.arr \in Arrays \cup {NULL}
  BY <1>0, <1>2 DEF HdrRecord
<1>9. ASSUME \A a \in Arrays : area'[a].base = area[a].base PROVE HdrInv'
  <2>1. thr'[t] = Idle /\ \A u \in Threads \ {t} : thr'[u] = thr[u]
    BY <1>0, <1>1, <1>2, ThreadMoves
  <2>2. \A u \in Threads : thr'[u].op = "headers" => thr[u].op = "headers"
    BY <1>1, <2>1
  <2>3. 0 <= MAX_PERSISTENT_HEADERS
    BY ConstAssumption
  <2> QED
    BY <1>0, <1>2, <1>8, <1>9, <2>2, <2>3 DEF HdrInv
<1>10. /\ BufFree(p, FALSE) /\ (p # NULL => p \in Held(t)) /\ HeldBy(Idle) = Held(t) \ {p}
       /\ Idle.pc \in {"idle", "freecopy"} /\ thr[t].pc \notin {"idle", "mapped"}
  BY <1>0, <1>1, <1>2, <1>5, <1>6
<1> QED
  BY <1>1, <1>2, <1>4, <1>7, <1>9, <1>10, GiveBackStep

-----------------------------------------------------------------------------
(* Heap pages                                                              *)

\* A heap ioctl ends: internal_map_mutex is released.
LEMMA HeapDone ==
    ASSUME IndInv, NEW t \in Threads, thr' = [thr EXCEPT ![t] = Idle],
           thr[t].op \in HeapOps, thr[t].pc # "idle", imutex' = NULL,
           UNCHANGED <<cached, num_cached_buf, area, hdr, phase, closefail, raced>>,
           buf' \in [Bufs -> BufRecord], remote' \subseteq Bufs,
           \A b \in Bufs : buf'[b].size = buf[b].size,
           (\A u \in Threads : Held(u)' = Held(u)) => MemInv',
           (\A u \in Threads \ {t} : thr'[u] = thr[u] /\ Held(u)' = Held(u)) /\ Held(t)' = {}
              => DspInv'
    PROVE  IndInv'
<1>0. /\ thr[t] \in ThreadRecord /\ thr \in [Threads -> ThreadRecord] /\ Shape(thr[t])
      /\ cached \subseteq Bufs /\ area \in [Arrays -> AreaRecord] /\ num_cached_buf \in Nat
      /\ hdr \in HdrRecord /\ raced \in BOOLEAN /\ imutex = t
      /\ phase = "closed" => thr[t].pc = "idle"
      /\ phase # "open" => thr[t].pc \in {"idle", "flight", "freecopy"}
  BY Now
<1>1. /\ Idle \in ThreadRecord /\ Shape(Idle) /\ HeldBy(Idle) = {}
      /\ Idle.pc = "idle" /\ Idle.op = "none" /\ Idle.meta = NULL /\ Idle.got = NULL
  BY IdleFacts
<1>2. HeldBy(thr[t]) = {}
  BY <1>0 DEF HeldBy, Shape, HeapOps
<1>3. /\ \A u \in Threads \ {t} : thr'[u] = thr[u] /\ Held(u)' = Held(u)
      /\ Held(t)' = {} /\ Held(t) = {} /\ thr'[t] = Idle
  BY <1>0, <1>1, <1>2, ThreadMoves
<1>4. MemInv' /\ DspInv'
  BY <1>3
<1>5. HdrInv'
  <2>1. thr'[t].op = "headers" => thr[t].op = "headers"
    BY <1>1, <1>3
  <2> QED
    BY <1>3, <2>1, HdrKeep
<1>6. Large(Idle)'
  BY <1>1 DEF Large
<1>7. /\ phase # "closed" /\ raced' \in BOOLEAN /\ (raced => raced') /\ Idle.pc # "oops"
      /\ \A b \in Bufs : Live(b) => buf'[b].size = buf[b].size
      /\ \A b \in remote : thr[t].op \notin HeapOps =>
               b \in remote' /\ (buf'[b].dsp = "mapped" => buf[b].dsp = "mapped")
      /\ Idle.op \notin HeapOps /\ cached' \subseteq Bufs /\ num_cached_buf' \in Nat
      /\ area' \in [Arrays -> AreaRecord] /\ hdr' \in HdrRecord
      /\ Idle.pc \in {"idle", "freecopy"}
  BY <1>0, <1>1 DEF HeapOps
<1> QED
  BY <1>0, <1>1, <1>4, <1>5, <1>6, <1>7, StepInv

\* Heap pages are freed: the DSP does not have them.
LEMMA HeapFreed ==
    ASSUME IndInv, NEW t \in Threads, thr' = [thr EXCEPT ![t] = Idle],
           thr[t].op \in HeapOps, thr[t].pc # "idle", imutex' = NULL,
           UNCHANGED <<cached, num_cached_buf, area, hdr, phase, closefail, raced>>,
           NEW b \in remote, remote' = remote \ {b}, NEW r \in BufRecord,
           buf' = [buf EXCEPT ![b] = r], r.state = "freed", r.dsp # "mapped",
           r.size = buf[b].size
    PROVE  IndInv'
<1>0. buf \in [Bufs -> BufRecord] /\ remote \subseteq Bufs
  BY Now
<1>1. /\ buf' \in [Bufs -> BufRecord] /\ buf'[b] = r
      /\ \A c \in Bufs \ {b} : buf'[c] = buf[c]
  BY <1>0
<1>2. (\A u \in Threads : Held(u)' = Held(u)) => MemInv'
  BY <1>1, DropHeap
<1>3. ASSUME (\A u \in Threads \ {t} : thr'[u] = thr[u] /\ Held(u)' = Held(u)) /\ Held(t)' = {}
      PROVE  DspInv'
  <2>1. \A c \in Bufs : buf'[c].dsp = "mapped" => c # b
    BY <1>1
  <2>2. \A c \in Bufs : buf'[c].dsp = "mapped" =>
               /\ buf[c].dsp = "mapped" /\ Live(c)' /\ c \notin cached'
               /\ <<"buf", c>> \notin Held(t)'
    BY <1>1, <1>3, <2>1, MappedNow DEF Live
  <2> QED
    BY <1>3, <2>2, DspKeep
<1>4. /\ remote' \subseteq Bufs
      /\ \A c \in Bufs : buf'[c].size = buf[c].size
  BY <1>0, <1>1
<1> QED
  BY <1>1, <1>2, <1>3, <1>4, HeapDone

\* Nothing happens to the memory.
LEMMA HeapKept ==
    ASSUME IndInv, NEW t \in Threads, thr' = [thr EXCEPT ![t] = Idle],
           thr[t].op \in HeapOps, thr[t].pc # "idle", imutex' = NULL, Keep,
           UNCHANGED <<hdr, phase, closefail, raced>>
    PROVE  IndInv'
<1>0. buf \in [Bufs -> BufRecord] /\ remote \subseteq Bufs
  BY Now
<1>1. UNCHANGED <<buf, cached, num_cached_buf, remote, area>>
  BY DEF Keep
<1>2. \A b \in Bufs : (Live(b)' <=> Live(b)) /\ buf'[b].size = buf[b].size
  BY <1>1 DEF Live
<1>3. (\A u \in Threads : Held(u)' = Held(u)) => MemInv'
  BY <1>1, <1>2, KeepMem
<1>4. ASSUME (\A u \in Threads \ {t} : thr'[u] = thr[u] /\ Held(u)' = Held(u)) /\ Held(t)' = {}
      PROVE  DspInv'
  <2>1. \A c \in Bufs : buf'[c].dsp = "mapped" =>
               /\ buf[c].dsp = "mapped" /\ Live(c)' /\ c \notin cached'
               /\ <<"buf", c>> \notin Held(t)'
    BY <1>1, <1>2, <1>4, MappedNow
  <2> QED
    BY <1>4, <2>1, DspKeep
<1>5. buf' \in [Bufs -> BufRecord] /\ remote' \subseteq Bufs
  BY <1>0, <1>1
<1> QED
  BY <1>1, <1>2, <1>3, <1>4, <1>5, HeapDone

\* What a thread with heap pages works on.
LEMMA HeapPiece ==
    ASSUME IndInv, NEW t \in Threads, thr[t].op \in HeapOps, thr[t].got # NULL
    PROVE  \E b \in remote : /\ thr[t].got = <<"buf", b>> /\ thr[t].got[1] = "buf"
                             /\ thr[t].got[2] = b /\ b \in Bufs
                             /\ thr[t].op = "mmap" => buf[b].dsp # "mapped"
<1>1. PICK b \in remote : /\ thr[t].got = <<"buf", b>>
                          /\ thr[t].op = "mmap" => buf[b].dsp # "mapped"
  BY DEF IndInv, ThreadInv
<1>2. b \in Bufs
  BY Now
<1> QED
  BY <1>1, <1>2, PieceFacts

\* A freed buffer keeps its size.
LEMMA FreedRecord ==
    ASSUME NEW k \in BufRecord
    PROVE  /\ [k EXCEPT !.state = "freed"] \in BufRecord
           /\ [k EXCEPT !.state = "freed"].state = "freed"
           /\ [k EXCEPT !.state = "freed"].dsp = k.dsp
           /\ [k EXCEPT !.state = "freed"].size = k.size
           /\ [k EXCEPT !.state = "freed", !.dsp = "none"] \in BufRecord
           /\ [k EXCEPT !.state = "freed", !.dsp = "none"].state = "freed"
           /\ [k EXCEPT !.state = "freed", !.dsp = "none"].dsp = "none"
           /\ [k EXCEPT !.state = "freed", !.dsp = "none"].size = k.size
  BY DEF BufRecord

\* The DSP has the pages, or they are freed.
LEMMA MmapDspStep ==
    ASSUME IndInv, NEW t \in Threads, MmapDsp(t) PROVE IndInv'
<1>0. /\ thr[t].op = "mmap" /\ thr[t].op \in HeapOps /\ thr[t].pc \in {"got", "failed"}
      /\ imutex' = NULL /\ thr' = [thr EXCEPT ![t] = Idle] /\ UNCHANGED <<hdr, phase, closefail, raced>>
  BY DEF MmapDsp, HeapOps
<1>1. /\ buf \in [Bufs -> BufRecord] /\ remote \subseteq Bufs /\ Shape(thr[t])
      /\ phase # "open" => thr[t].pc \in {"idle", "flight", "freecopy"}
  BY Now
<1>2. CASE /\ thr[t].pc = "got"
           /\ buf' = [buf EXCEPT ![thr[t].got[2]].dsp = "mapped"]
           /\ UNCHANGED <<cached, num_cached_buf, remote, area>>
  <2>1. thr[t].got # NULL
    BY <1>1, <1>2 DEF Shape
  <2>2. PICK b \in remote : thr[t].got[2] = b /\ b \in Bufs
    BY <1>0, <2>1, HeapPiece
  <2>3. buf' = [buf EXCEPT ![b].dsp = "mapped"]
    BY <1>2, <2>2
  <2>4. buf' \in [Bufs -> BufRecord]
    BY <1>1, <2>3 DEF BufRecord
  <2>5. \A c \in Bufs : /\ (Live(c)' <=> Live(c)) /\ buf'[c].size = buf[c].size
                        /\ c # b => buf'[c].dsp = buf[c].dsp
    BY <1>1, <2>3 DEF BufRecord, Live
  <2>6. (\A u \in Threads : Held(u)' = Held(u)) => MemInv'
    BY <1>0, <1>2, <2>5, KeepMem
  <2>7. ASSUME (\A u \in Threads \ {t} : thr'[u] = thr[u] /\ Held(u)' = Held(u)) /\ Held(t)' = {}
        PROVE  DspInv'
    <3>1. Live(b) /\ b \notin cached /\ \A u \in Threads : <<"buf", b>> \notin Held(u)
      BY <2>2, SoundNames DEF IndInv, OwnInv
    <3>2. phase' = "open"
      BY <1>0, <1>1
    <3>3. \A c \in Bufs : buf[c].dsp = "mapped" =>
            /\ Live(c) /\ c \notin cached
            /\ \A u \in Threads : <<"buf", c>> \in Held(u) => thr[u].pc = "mapped"
      BY <1>0, MappedNow
    <3> QED
      BY <1>2, <2>5, <2>7, <3>1, <3>2, <3>3 DEF DspInv
  <2>8. remote' \subseteq Bufs /\ \A c \in Bufs : buf'[c].size = buf[c].size
    BY <1>1, <1>2, <2>5
  <2> QED
    BY <1>0, <1>2, <2>4, <2>6, <2>7, <2>8, HeapDone
<1>3. CASE BufFree(thr[t].got, FALSE)
  <2>1. CASE thr[t].got = NULL
    <3>1. Keep
      BY <1>3, <2>1 DEF BufFree
    <3> QED
      BY <1>0, <3>1, HeapKept
  <2>2. CASE thr[t].got # NULL
    <3>1. PICK b \in remote : /\ thr[t].got[1] = "buf" /\ thr[t].got[2] = b /\ b \in Bufs
                              /\ buf[b].dsp # "mapped"
      BY <1>0, <2>2, HeapPiece
    <3>2. /\ buf' = [buf EXCEPT ![b].state = "freed"] /\ remote' = remote \ {b}
          /\ UNCHANGED <<cached, num_cached_buf, area>>
      BY <1>3, <2>2, <3>1 DEF BufFree
    <3> DEFINE r == [buf[b] EXCEPT !.state = "freed"]
    <3>3. r \in BufRecord /\ r.state = "freed" /\ r.dsp = buf[b].dsp /\ r.size = buf[b].size
      BY <1>1, <3>1, FreedRecord
    <3>4. buf' = [buf EXCEPT ![b] = r]
      BY <3>2
    <3> HIDE DEF r
    <3> QED
      BY <1>0, <3>1, <3>2, <3>3, <3>4, HeapFreed
  <2> QED
    BY <2>1, <2>2
<1> QED
  BY <1>2, <1>3 DEF MmapDsp

\* The DSP has let go of the pages and they are freed, or it has not.
LEMMA MunmapDspStep ==
    ASSUME IndInv, NEW t \in Threads, MunmapDsp(t) PROVE IndInv'
<1>0. /\ thr[t].pc = "munmap"
      /\ imutex' = NULL /\ thr' = [thr EXCEPT ![t] = Idle] /\ UNCHANGED <<hdr, phase, closefail, raced>>
  BY DEF MunmapDsp
<1>1. buf \in [Bufs -> BufRecord] /\ Shape(thr[t])
  BY Now
<1>2. thr[t].op \in HeapOps /\ thr[t].got # NULL
  BY <1>0, <1>1 DEF Shape, HeapOps
<1>3. CASE Keep
  BY <1>0, <1>2, <1>3, HeapKept
<1>4. CASE /\ buf' = [buf EXCEPT ![thr[t].got[2]].state = "freed", ![thr[t].got[2]].dsp = "none"]
           /\ remote' = remote \ {thr[t].got[2]}
           /\ UNCHANGED <<cached, num_cached_buf, area>>
  <2>1. PICK b \in remote : thr[t].got[2] = b /\ b \in Bufs
    BY <1>2, HeapPiece
  <2> DEFINE r == [buf[b] EXCEPT !.state = "freed", !.dsp = "none"]
  <2>2. r \in BufRecord /\ r.state = "freed" /\ r.dsp = "none" /\ r.size = buf[b].size
    BY <1>1, <2>1, FreedRecord
  <2>3. buf' = [buf EXCEPT ![b] = r] /\ remote' = remote \ {b}
    BY <1>1, <1>4, <2>1
  <2> HIDE DEF r
  <2> QED
    BY <1>0, <1>2, <1>4, <2>1, <2>2, <2>3, HeapFreed
<1> QED
  BY <1>3, <1>4 DEF MunmapDsp

-----------------------------------------------------------------------------
(* The persistent headers                                                  *)

\* SetDsp changes what the DSP has, and nothing else.
LEMMA SetDspFacts ==
    ASSUME buf \in [Bufs -> BufRecord], NEW p, NEW d \in {"none", "mapped", "orphan"}, SetDsp(p, d)
    PROVE  /\ buf' \in [Bufs -> BufRecord]
           /\ \A b \in Bufs : /\ (Live(b)' <=> Live(b)) /\ buf'[b].size = buf[b].size
                              /\ buf'[b].dsp = IF p = <<"buf", b>> THEN d ELSE buf[b].dsp
<1>1. \A b \in Bufs : buf[b] \in BufRecord
  OBVIOUS
<1>2. \A k \in BufRecord : /\ [k EXCEPT !.dsp = d] \in BufRecord
                           /\ [k EXCEPT !.dsp = d].state = k.state
                           /\ [k EXCEPT !.dsp = d].size = k.size
                           /\ [k EXCEPT !.dsp = d].dsp = d
  BY DEF BufRecord
<1>3. /\ buf' \in [Bufs -> BufRecord]
      /\ \A b \in Bufs : buf'[b] = IF p = <<"buf", b>> THEN [buf[b] EXCEPT !.dsp = d] ELSE buf[b]
  BY <1>1, <1>2, Zenon DEF SetDsp
<1>4. ASSUME NEW b \in Bufs
      PROVE  /\ (Live(b)' <=> Live(b)) /\ buf'[b].size = buf[b].size
             /\ buf'[b].dsp = IF p = <<"buf", b>> THEN d ELSE buf[b].dsp
  <2> DEFINE k == [buf[b] EXCEPT !.dsp = d]
  <2>1. k.state = buf[b].state /\ k.size = buf[b].size /\ k.dsp = d
    BY <1>1, <1>2
  <2>2. buf'[b] = IF p = <<"buf", b>> THEN k ELSE buf[b]
    BY <1>3
  <2> HIDE DEF k
  <2> QED
    BY <2>1, <2>2 DEF Live
<1> QED
  BY <1>3, <1>4

\* The area is handed to the DSP, or the DSP keeps it although its array could
\* not be allocated.
LEMMA AreaStep ==
    ASSUME IndInv, NEW t \in Threads, NEW x \in {"mapped", "failed"},
           thr' = [thr EXCEPT ![t].pc = x], thr[t].op = "headers",
           \/ thr[t].pc = "got" /\ x = "mapped" /\ SetDsp(thr[t].got, "mapped")
           \/ thr[t].pc = "mapped" /\ x = "failed" /\ SetDsp(thr[t].got, "orphan"),
           UNCHANGED <<cached, num_cached_buf, remote, area, hdr, imutex, phase, closefail, raced>>
    PROVE  IndInv'
<1> DEFINE k == [thr[t] EXCEPT !.pc = x]
<1>0. /\ thr[t] \in ThreadRecord /\ thr \in [Threads -> ThreadRecord] /\ Shape(thr[t])
      /\ buf \in [Bufs -> BufRecord] /\ cached \subseteq Bufs /\ remote \subseteq Bufs
      /\ area \in [Arrays -> AreaRecord] /\ num_cached_buf \in Nat /\ hdr \in HdrRecord
      /\ raced \in BOOLEAN
      /\ phase # "open" => thr[t].pc \in {"idle", "flight", "freecopy"}
  BY Now
<1>1. x \in PCs
  BY DEF PCs
<1>a. /\ k \in ThreadRecord /\ k.pc = x /\ k.op = thr[t].op /\ k.want = thr[t].want
      /\ k.got = thr[t].got /\ k.meta = thr[t].meta /\ k.metalen = thr[t].metalen
      /\ k.n = thr[t].n
  BY <1>0, <1>1, PcMove
<1>b. thr' = [thr EXCEPT ![t] = k]
  OBVIOUS
<1> HIDE DEF k
<1>c. PICK r \in ThreadRecord : r = k
  BY <1>a
<1>2. /\ r \in ThreadRecord /\ r.pc = x /\ r.op = thr[t].op /\ r.want = thr[t].want
      /\ r.got = thr[t].got /\ r.meta = thr[t].meta /\ r.metalen = thr[t].metalen
      /\ r.n = thr[t].n
  BY <1>a, <1>c
<1>3. thr' = [thr EXCEPT ![t] = r]
  BY <1>b, <1>c
<1>4. thr[t].got # NULL /\ thr[t].meta = NULL
  BY <1>0 DEF Shape
<1>5. PICK p \in Pieces : p = thr[t].got /\ p # NULL
  BY <1>0, <1>4 DEF ThreadRecord
<1>6. HeldBy(r) = {p} /\ HeldBy(thr[t]) = {p}
  BY <1>2, <1>4, <1>5 DEF HeldBy, HeapOps
<1>7. /\ Held(t)' = {p} /\ Held(t) = {p} /\ thr'[t] = r
      /\ \A u \in Threads \ {t} : thr'[u] = thr[u] /\ Held(u)' = Held(u)
  BY <1>0, <1>2, <1>3, <1>6, ThreadMoves
<1>8. PICK d \in {"mapped", "orphan"} : SetDsp(p, d) /\ (d = "mapped" => x = "mapped")
  BY <1>5
<1>9. /\ buf' \in [Bufs -> BufRecord]
      /\ \A b \in Bufs : /\ (Live(b)' <=> Live(b)) /\ buf'[b].size = buf[b].size
                         /\ buf'[b].dsp = IF p = <<"buf", b>> THEN d ELSE buf[b].dsp
  BY <1>0, <1>8, SetDspFacts
<1>10. MemInv'
  BY <1>7, <1>9, KeepMem
<1>11. Sound(p) /\ \A u \in Threads \ {t} : p \notin Held(u)
  BY <1>7 DEF IndInv, OwnInv
<1>12. \A b \in Bufs : p = <<"buf", b>> => Live(b) /\ b \notin cached \cup remote
  BY <1>11, SoundNames
<1>13. DspInv'
  <2>1. phase' = "open"
    BY <1>0
  <2>2. \A b \in Bufs : buf[b].dsp = "mapped" =>
          /\ Live(b) /\ b \notin cached
          /\ \A u \in Threads : <<"buf", b>> \in Held(u) => thr[u].pc = "mapped"
    BY MappedNow
  <2>3. ASSUME NEW b \in Bufs, buf'[b].dsp = "mapped"
        PROVE  /\ Live(b)' /\ b \notin cached'
               /\ \A u \in Threads : <<"buf", b>> \in Held(u)' => thr'[u].pc = "mapped"
    <3>1. CASE p = <<"buf", b>>
      <4>1. x = "mapped" /\ Live(b)' /\ b \notin cached'
        BY <1>8, <1>9, <1>12, <2>3, <3>1
      <4>2. ASSUME NEW u \in Threads, <<"buf", b>> \in Held(u)' PROVE thr'[u].pc = "mapped"
        BY <1>2, <1>7, <1>11, <3>1, <4>1, <4>2
      <4> QED
        BY <2>1, <4>1, <4>2
    <3>2. CASE p # <<"buf", b>>
      <4>1. buf[b].dsp = "mapped"
        BY <1>9, <2>3, <3>2
      <4> QED
        BY <1>7, <1>9, <2>1, <2>2, <3>2, <4>1
    <3> QED
      BY <3>1, <3>2
  <2> QED
    BY <2>1, <2>3 DEF DspInv
<1>14. HdrInv'
  <2>1. thr'[t].op = "headers" => thr[t].op = "headers"
    OBVIOUS
  <2> QED
    BY <1>7, <2>1, HdrKeep
<1>15. Shape(r)
  BY <1>0, <1>2 DEF Shape, BufferOps
<1>16. Large(r)'
  <2>1. PICK j \in ThreadRecord : j = thr[t]
    BY <1>0
  <2>2. \A b \in Bufs : Live(b) => buf'[b].size = buf[b].size
    BY <1>9
  <2>3. Large(j)'
    BY <2>1, <2>2, LargeKept
  <2> QED
    BY <1>2, <1>4, <2>1, <2>3 DEF Large
<1>17. /\ phase # "closed" /\ raced' \in BOOLEAN /\ (raced => raced') /\ r.pc # "oops"
       /\ (phase # "open" => r.pc \in {"idle", "freecopy"})
       /\ r.op \notin HeapOps /\ cached' \subseteq Bufs /\ num_cached_buf' \in Nat
       /\ area' \in [Arrays -> AreaRecord] /\ hdr' \in HdrRecord /\ remote' \subseteq Bufs
  BY <1>0, <1>2 DEF HeapOps
<1>18. /\ \A b \in Bufs : Live(b) => buf'[b].size = buf[b].size
       /\ \A b \in remote : thr[t].op \notin HeapOps =>
               b \in remote' /\ (buf'[b].dsp = "mapped" => buf[b].dsp = "mapped")
  BY <1>0, <1>9, <1>12
<1> QED
  BY <1>2, <1>3, <1>9, <1>10, <1>13, <1>14, <1>15, <1>16, <1>17, <1>18, StepInv

\* The area is mapped on the DSP, or it is not.
LEMMA HeadersMapStep ==
    ASSUME IndInv, NEW t \in Threads, HeadersMap(t) PROVE IndInv'
<1>0. /\ thr[t].op = "headers" /\ thr[t].pc = "got"
      /\ UNCHANGED <<cached, num_cached_buf, remote, area, hdr, imutex, phase, closefail, raced>>
  BY DEF HeadersMap
<1>1. CASE thr' = [thr EXCEPT ![t].pc = "mapped"] /\ SetDsp(thr[t].got, "mapped")
  BY <1>0, <1>1, AreaStep
<1>2. CASE thr' = [thr EXCEPT ![t].pc = "failed"] /\ UNCHANGED buf
  <2>1. "failed" \in PCs /\ hdr \in HdrRecord
    BY Now DEF PCs
  <2> QED
    BY <1>0, <1>2, <2>1, MoveStep
<1> QED
  BY <1>1, <1>2 DEF HeadersMap

\* There is no memory for the array.
LEMMA HeadersNoArrayStep ==
    ASSUME IndInv, NEW t \in Threads, HeadersNoArray(t) PROVE IndInv'
<1>0. /\ thr[t].pc = "mapped" /\ thr' = [thr EXCEPT ![t].pc = "failed"]
      /\ SetDsp(thr[t].got, "orphan")
      /\ UNCHANGED <<cached, num_cached_buf, remote, area, hdr, imutex, phase, closefail, raced>>
  BY DEF HeadersNoArray
<1>1. thr[t].op = "headers"
  BY <1>0, Now DEF Shape
<1> QED
  BY <1>0, <1>1, AreaStep

\* The headers are published.
LEMMA HeadersPublishStep ==
    ASSUME IndInv, NEW t \in Threads, HeadersPublish(t) PROVE IndInv'
<1>0. /\ thr[t] \in ThreadRecord /\ thr \in [Threads -> ThreadRecord] /\ Shape(thr[t])
      /\ buf \in [Bufs -> BufRecord] /\ cached \subseteq Bufs /\ remote \subseteq Bufs
      /\ area \in [Arrays -> AreaRecord] /\ num_cached_buf \in Nat /\ hdr \in HdrRecord
      /\ raced \in BOOLEAN /\ HdrInv
      /\ phase # "open" => thr[t].pc \in {"idle", "flight", "freecopy"}
  BY Now DEF IndInv
<1>1. /\ Idle \in ThreadRecord /\ Shape(Idle) /\ HeldBy(Idle) = {}
      /\ Idle.pc = "idle" /\ Idle.op = "none" /\ Idle.meta = NULL /\ Idle.got = NULL
  BY IdleFacts
<1>2. /\ thr[t].pc = "mapped" /\ thr' = [thr EXCEPT ![t] = Idle]
      /\ UNCHANGED <<buf, cached, num_cached_buf, remote, imutex, phase, closefail, raced>>
  BY DEF HeadersPublish
<1>3. thr[t].op = "headers" /\ thr[t].got # NULL /\ thr[t].meta = NULL
  BY <1>0, <1>2 DEF Shape
<1>4. PICK p \in Pieces : p = thr[t].got /\ p # NULL
  BY <1>0, <1>3 DEF ThreadRecord
<1>5. PICK a \in Arrays : /\ area[a].base = NULL
                          /\ area' = [area EXCEPT ![a] = [base |-> p, use |-> {}]]
                          /\ hdr' = [buf |-> p, arr |-> a, n |-> thr[t].n]
  BY <1>4 DEF HeadersPublish
<1>6. HeldBy(thr[t]) = {p}
  BY <1>3, <1>4 DEF HeldBy, HeapOps
<1>7. /\ Held(t)' = {} /\ Held(t) = {p} /\ thr'[t] = Idle
      /\ \A u \in Threads \ {t} : thr'[u] = thr[u] /\ Held(u)' = Held(u)
  BY <1>0, <1>1, <1>2, <1>6, ThreadMoves
<1>8. MemInv'
  <2>1. p \in Held(t) /\ Held(t)' = Held(t) \ {p}
    BY <1>7
  <2> QED
    BY <1>2, <1>5, <1>7, <2>1, PublishMem
<1>9. DspInv'
  <2>1. \A b \in Bufs : buf'[b].dsp = "mapped" =>
               /\ buf[b].dsp = "mapped" /\ Live(b)' /\ b \notin cached'
               /\ <<"buf", b>> \notin Held(t)'
    BY <1>2, <1>7, MappedNow DEF Live
  <2> QED
    BY <1>2, <1>7, <2>1, DspKeep
<1>10. area' \in [Arrays -> AreaRecord]
  <2>1. [base |-> p, use |-> {}] \in AreaRecord
    BY DEF AreaRecord
  <2> QED
    BY <1>0, <1>5, <2>1
<1>11. area'[a].base = p /\ \A c \in Arrays \ {a} : area'[c] = area[c]
  BY <1>0, <1>5
<1>12. PICK n \in Nat : n = thr[t].n /\ n <= MAX_PERSISTENT_HEADERS
  BY <1>0, <1>3 DEF ThreadRecord, Shape
<1>13. hdr' \in HdrRecord /\ hdr'.buf = p /\ hdr'.arr = a /\ hdr'.n = n
  BY <1>5, <1>12 DEF HdrRecord
<1>14. HdrInv'
  <2>1. a # NULL
    BY ConstAssumption
  <2>2. ~raced => hdr.buf = NULL /\ \A u \in Threads : thr[u].op = "headers" => u = t
    BY <1>0, <1>3 DEF HdrInv
  <2>3. \A u \in Threads : thr'[u].op = "headers" => u # t /\ thr[u].op = "headers"
    BY <1>1, <1>7
  <2>4. phase = "open"
    BY <1>0, <1>2
  <2>5. ~raced => \A c \in Arrays : area'[c].base # NULL => area'[c].base = p
    BY <1>0, <1>11, <2>2, <2>4 DEF HdrInv
  <2> QED
    BY <1>2, <1>4, <1>11, <1>12, <1>13, <2>1, <2>2, <2>3, <2>5 DEF HdrInv
<1>15. Large(Idle)'
  BY <1>1 DEF Large
<1>16. /\ phase # "closed" /\ raced' \in BOOLEAN /\ (raced => raced') /\ Idle.pc # "oops"
       /\ (phase # "open" => Idle.pc \in {"idle", "freecopy"})
       /\ Idle.op \notin HeapOps /\ cached' \subseteq Bufs /\ num_cached_buf' \in Nat
       /\ remote' \subseteq Bufs /\ buf' \in [Bufs -> BufRecord]
       /\ \A b \in Bufs : Live(b) => buf'[b].size = buf[b].size
       /\ \A b \in remote : thr[t].op \notin HeapOps =>
               b \in remote' /\ (buf'[b].dsp = "mapped" => buf[b].dsp = "mapped")
  BY <1>0, <1>1, <1>2 DEF HeapOps
<1> QED
  BY <1>1, <1>2, <1>8, <1>9, <1>10, <1>13, <1>14, <1>15, <1>16, StepInv

-----------------------------------------------------------------------------
(* hfastrpc_file_free                                                      *)

\* The session closes: the DSP lets go of everything, or keeps it all.
LEMMA FileFreeStartStep == ASSUME IndInv, FileFreeStart PROVE IndInv'
<1>0. /\ TypeOK /\ ThreadInv /\ HdrInv /\ LargeEnough /\ HeadersSafe /\ DspInv
      /\ buf \in [Bufs -> BufRecord] /\ thr \in [Threads -> ThreadRecord]
  BY Typed DEF IndInv
<1>1. /\ phase = "open" /\ phase' = "closing"
      /\ \A t \in Threads : thr[t].pc \in {"idle", "flight"}
      /\ \/ /\ buf' = [b \in Bufs |-> [buf[b] EXCEPT !.dsp = "none"]]
            /\ closefail' = closefail
         \/ closefail' = TRUE /\ buf' = buf
      /\ UNCHANGED <<cached, num_cached_buf, remote, area, hdr, thr, imutex, raced>>
  BY DEF FileFreeStart
<1>2. \A k \in BufRecord : /\ [k EXCEPT !.dsp = "none"] \in BufRecord
                           /\ [k EXCEPT !.dsp = "none"].state = k.state
                           /\ [k EXCEPT !.dsp = "none"].size = k.size
                           /\ [k EXCEPT !.dsp = "none"].dsp = "none"
  BY DEF BufRecord
<1>3. /\ buf' \in [Bufs -> BufRecord]
      /\ \A b \in Bufs : /\ (Live(b)' <=> Live(b)) /\ buf'[b].size = buf[b].size
                         /\ buf'[b].dsp = "none" \/ (closefail' /\ buf'[b].dsp = buf[b].dsp)
  <2>1. CASE buf' = [b \in Bufs |-> [buf[b] EXCEPT !.dsp = "none"]]
    <3>1. \A b \in Bufs : buf[b] \in BufRecord /\ buf'[b] = [buf[b] EXCEPT !.dsp = "none"]
      BY <1>0, <2>1
    <3>2. buf' \in [Bufs -> BufRecord]
      BY <1>2, <2>1, <3>1, Zenon
    <3>3. ASSUME NEW b \in Bufs
          PROVE  (Live(b)' <=> Live(b)) /\ buf'[b].size = buf[b].size /\ buf'[b].dsp = "none"
      <4> DEFINE k == [buf[b] EXCEPT !.dsp = "none"]
      <4>1. k.state = buf[b].state /\ k.size = buf[b].size /\ k.dsp = "none" /\ buf'[b] = k
        BY <1>2, <3>1
      <4> HIDE DEF k
      <4> QED
        BY <4>1 DEF Live
    <3> QED
      BY <3>2, <3>3
  <2>2. CASE closefail' = TRUE /\ buf' = buf
    BY <1>0, <2>2 DEF Live
  <2> QED
    BY <1>1, <2>1, <2>2
<1>4. buf' \in [Bufs -> BufRecord]
  BY <1>3
<1>5. \A b \in Bufs : (Live(b)' <=> Live(b)) /\ buf'[b].size = buf[b].size
  BY <1>3
<1>6. TypeOK'
  <2>1. closefail' \in BOOLEAN
    <3>1. closefail \in BOOLEAN
      BY <1>0 DEF TypeOK
    <3> QED
      BY <1>1, <3>1, Zenon
  <2> QED
    BY <1>0, <1>1, <1>4, <2>1 DEF TypeOK, BufRecord
<1>7. ThreadInv'
  <2>1. \A t \in Threads : Shape(thr[t]) /\ thr[t].op \notin HeapOps
    BY <1>0, <1>1 DEF ThreadInv, Shape, HeapOps
  <2>2. \A t \in Threads : Shape(thr'[t])
    BY <1>1, <2>1
  <2> QED
    BY <1>1, <2>1, <2>2 DEF ThreadInv, Shape
<1>8. MemInv'
  <2>1. \A u \in Threads : Held(u)' = Held(u)
    BY <1>1 DEF Held
  <2> QED
    BY <1>1, <1>5, <2>1, KeepMem
<1>9. DspInv'
  <2>1. \A t \in Threads : Held(t)' = Held(t)
    BY <1>1 DEF Held
  <2>2. \A b \in Bufs : buf'[b].dsp = "mapped" =>
           closefail' /\ buf[b].dsp = "mapped" /\ Live(b)'
    BY <1>0, <1>1, <1>3 DEF DspInv
  <2> QED
    BY <1>0, <1>1, <2>1, <2>2 DEF DspInv
<1>10. HdrInv'
  <2>1. hdr.arr \in Arrays \cup {NULL}
    BY <1>0, Typed
  <2> QED
    BY <1>0, <1>1, <2>1 DEF HdrInv
<1>11. LargeEnough'
  <2>1. ASSUME NEW p \in Pieces PROVE Size(p)' = Size(p)
    BY <1>5, PieceFacts DEF Size
  <2>2. ASSUME NEW t \in Threads
        PROVE  /\ thr'[t].meta # NULL => Size(thr[t].meta)' >= thr'[t].metalen
               /\ thr'[t].pc \in {"got", "mapped", "flight"} /\ thr'[t].got # NULL
                     /\ thr'[t].op # "munmap"
                  => Size(thr[t].got)' >= thr'[t].want
    <3>1. PICK k \in ThreadRecord : k = thr[t] /\ k = thr'[t]
      BY <1>0, <1>1
    <3>2. k.meta \in Pieces \cup {NULL} /\ k.got \in Pieces \cup {NULL}
      BY DEF ThreadRecord
    <3>3. /\ k.meta # NULL => Size(k.meta)' >= k.metalen
          /\ k.pc \in {"got", "mapped", "flight"} /\ k.got # NULL /\ k.op # "munmap"
             => Size(k.got)' >= k.want
      BY <1>0, <2>1, <3>1, <3>2 DEF LargeEnough
    <3> QED
      BY <3>1, <3>3 DEF Size
  <2> QED
    BY <2>2 DEF LargeEnough
<1>12. HeadersSafe'
  BY <1>0, <1>1 DEF HeadersSafe
<1> QED
  BY <1>6, <1>7, <1>8, <1>9, <1>10, <1>11, <1>12 DEF IndInv, MemInv

\* The session is closed: the lists and the header area are freed, and unless
\* two threads set up headers at once that is everything.
LEMMA FileFreeEndStep == ASSUME IndInv, FileFreeEnd PROVE IndInv'
<1>0. /\ TypeOK /\ ThreadInv /\ OwnInv /\ AreaInv /\ DspInv /\ HdrInv /\ CacheInv
      /\ buf \in [Bufs -> BufRecord] /\ area \in [Arrays -> AreaRecord]
      /\ thr \in [Threads -> ThreadRecord]
  BY Typed DEF IndInv
<1>1. /\ phase = "closing" /\ phase' = "closed" /\ \A t \in Threads : thr[t].pc = "idle"
      /\ buf' = [b \in Bufs |->
           IF b \in cached \cup remote \/ hdr.buf = <<"buf", b>>
           THEN [buf[b] EXCEPT !.state = "freed"] ELSE buf[b]]
      /\ area' = [a \in Arrays |->
           [area[a] EXCEPT !.use = {i \in area[a].use : hdr.buf # <<"page", a, i>>}]]
      /\ cached' = {} /\ num_cached_buf' = num_cached_buf - Cardinality(cached)
      /\ remote' = {} /\ hdr' = NoHeaders
      /\ UNCHANGED <<thr, imutex, closefail, raced>>
  BY DEF FileFreeEnd
<1>2. \A t \in Threads :
         /\ thr[t].op = "none" /\ thr[t].got = NULL /\ thr[t].meta = NULL /\ Held(t) = {}
  BY <1>0, <1>1 DEF ThreadInv, Shape, Held
<1>3. /\ buf' \in [Bufs -> BufRecord]
      /\ \A b \in Bufs : /\ buf'[b].dsp = buf[b].dsp
                         /\ Live(b)' => /\ Live(b) /\ b \notin cached \cup remote
                                        /\ hdr.buf # <<"buf", b>>
  <2>1. \A b \in Bufs : buf[b] \in BufRecord /\ [buf[b] EXCEPT !.state = "freed"] \in BufRecord
    BY <1>0, FreedRecord
  <2>2. buf' \in [Bufs -> BufRecord]
    BY <1>1, <2>1
  <2>3. ASSUME NEW b \in Bufs
        PROVE  /\ buf'[b].dsp = buf[b].dsp
               /\ Live(b)' => /\ Live(b) /\ b \notin cached \cup remote
                              /\ hdr.buf # <<"buf", b>>
    <3> DEFINE k == [buf[b] EXCEPT !.state = "freed"]
    <3>1. k.state = "freed" /\ k.dsp = buf[b].dsp
      BY <2>1, FreedRecord
    <3>2. buf'[b] = IF b \in cached \cup remote \/ hdr.buf = <<"buf", b>> THEN k ELSE buf[b]
      BY <1>1
    <3> HIDE DEF k
    <3> QED
      BY <3>1, <3>2 DEF Live
  <2> QED
    BY <2>2, <2>3
<1>4. /\ area' \in [Arrays -> AreaRecord]
      /\ \A a \in Arrays : /\ area'[a].base = area[a].base
                           /\ area'[a].use \subseteq area[a].use
  <2>1. ASSUME NEW a \in Arrays, NEW use \in SUBSET Pages
        PROVE  /\ [area[a] EXCEPT !.use = use] \in AreaRecord
               /\ [area[a] EXCEPT !.use = use].base = area[a].base
               /\ [area[a] EXCEPT !.use = use].use = use
    BY <1>0 DEF AreaRecord
  <2>2. \A a \in Arrays : {i \in area[a].use : hdr.buf # <<"page", a, i>>} \in SUBSET Pages
    BY <1>0 DEF AreaRecord
  <2>3. ASSUME NEW a \in Arrays
        PROVE  /\ area'[a] \in AreaRecord /\ area'[a].base = area[a].base
               /\ area'[a].use \subseteq area[a].use
    <3>1. PICK use \in SUBSET Pages : use = {i \in area[a].use : hdr.buf # <<"page", a, i>>}
      BY <2>2
    <3>2. area'[a] = [area[a] EXCEPT !.use = use]
      BY <1>1, <3>1
    <3>3. use \subseteq area[a].use
      BY <3>1
    <3> QED
      BY <2>1, <3>2, <3>3
  <2>4. area' \in [Arrays -> AreaRecord]
    BY <1>1, <2>3
  <2> QED
    BY <2>3, <2>4
<1>5. /\ hdr' \in HdrRecord /\ hdr'.buf = NULL /\ hdr'.arr = NULL /\ hdr'.n = 0
  BY <1>1 DEF NoHeaders, HdrRecord
<1>6. /\ IsFiniteSet({}) /\ Cardinality({}) = 0
  BY FS_EmptySet
<1>7. num_cached_buf' = 0
  <2>1. num_cached_buf \in Nat /\ num_cached_buf = Cardinality(cached)
    BY <1>0, Typed DEF CacheInv, CacheCounted
  <2> QED
    BY <1>1, <2>1
<1>8. \A b \in Bufs : Live(b)' => \E a \in Arrays : area[a].base = <<"buf", b>>
  BY <1>0, <1>2, <1>3 DEF AreaInv
<1>9. TypeOK'
  BY <1>0, <1>1, <1>3, <1>4, <1>5, <1>7 DEF TypeOK, BufRecord, AreaRecord, HdrRecord
<1>10. ThreadInv'
  <2>1. \A t \in Threads : Shape(thr'[t]) /\ thr'[t].op \notin HeapOps
    BY <1>0, <1>1, <1>2 DEF ThreadInv, HeapOps
  <2> QED
    BY <1>1, <2>1 DEF ThreadInv, Shape
<1>11. OwnInv'
  <2>1. \A t \in Threads : Held(t)' = {}
    BY <1>1, <1>2 DEF Held
  <2> QED
    BY <1>1, <2>1 DEF OwnInv
<1>12. AreaInv'
  BY <1>0, <1>1, <1>4, <1>8 DEF AreaInv
<1>13. DspInv'
  BY <1>0, <1>1, <1>3 DEF DspInv
<1>14. HdrInv'
  BY <1>1, <1>2, <1>5, ConstAssumption DEF HdrInv
<1>15. CacheInv'
  BY <1>1, <1>6, <1>7 DEF CacheInv, CacheCounted
<1>16. LargeEnough'
  BY <1>1, <1>2 DEF LargeEnough
<1>17. HeadersSafe'
  <2>1. ASSUME ~raced, NEW b \in Bufs PROVE ~Live(b)'
    <3>1. \A a \in Arrays : area[a].base # NULL => hdr.buf = area[a].base
      BY <1>0, <1>1, <2>1 DEF HdrInv
    <3> SUFFICES ASSUME Live(b)' PROVE FALSE
      OBVIOUS
    <3>2. PICK a \in Arrays : area[a].base = <<"buf", b>>
      BY <1>8
    <3>3. <<"buf", b>> # NULL
      BY PieceFacts
    <3>4. hdr.buf # <<"buf", b>>
      BY <1>3
    <3> QED
      BY <3>1, <3>2, <3>3, <3>4
  <2> QED
    BY <1>1, <2>1 DEF HeadersSafe
<1> QED
  BY <1>9, <1>10, <1>11, <1>12, <1>13, <1>14, <1>15, <1>16, <1>17 DEF IndInv

-----------------------------------------------------------------------------
(* The theorems                                                            *)

\* A session starts without buffers.
LEMMA InitInv == ASSUME Init PROVE IndInv
<1>1. /\ Idle \in ThreadRecord /\ Shape(Idle)
      /\ Idle.pc = "idle" /\ Idle.op = "none" /\ Idle.got = NULL /\ Idle.meta = NULL
  BY IdleFacts
<1>2. \A t \in Threads : thr[t] = Idle /\ Held(t) = {}
  BY <1>1 DEF Init, Held
<1>3. /\ hdr.buf = NULL /\ hdr.arr = NULL /\ hdr.n = 0 /\ hdr \in HdrRecord
      /\ phase = "open" /\ closefail = FALSE /\ raced = FALSE /\ imutex = NULL
      /\ cached = {} /\ remote = {} /\ num_cached_buf = 0
  BY DEF Init, NoHeaders, HdrRecord
<1>4. IsFiniteSet({}) /\ Cardinality({}) = 0
  BY FS_EmptySet
<1>5. /\ buf \in [Bufs -> BufRecord]
      /\ \A b \in Bufs : buf[b].dsp = "none" /\ ~Live(b)
  BY DEF Init, BufRecord, Live
<1>6. /\ area \in [Arrays -> AreaRecord]
      /\ \A a \in Arrays : area[a].base = NULL /\ area[a].use = {}
  BY DEF Init, AreaRecord
<1>7. thr \in [Threads -> ThreadRecord]
  BY <1>1 DEF Init
<1>8. TypeOK
  BY <1>3, <1>5, <1>6, <1>7 DEF TypeOK, BufRecord, AreaRecord, ThreadRecord, HdrRecord
<1>9. ThreadInv
  BY <1>1, <1>2, <1>3 DEF ThreadInv, HeapOps
<1>10. OwnInv
  BY <1>2, <1>3 DEF OwnInv
<1>11. AreaInv
  <2>1. \A b \in Bufs, a \in Arrays : area[a].base # <<"buf", b>>
    BY <1>6, PieceFacts
  <2>2. \A c \in Arrays, a \in Arrays, i \in Pages : area[c].base # <<"page", a, i>>
    <3> TAKE c \in Arrays, a \in Arrays, i \in Pages
    <3>1. <<"page", a, i>> # NULL
      BY PieceFacts
    <3> QED
      BY <1>6, <3>1
  <2> QED
    BY <1>5, <1>6, <2>1, <2>2 DEF AreaInv, Backed
<1>12. DspInv
  BY <1>5 DEF DspInv
<1>13. HdrInv
  BY <1>1, <1>2, <1>3, <1>6, ConstAssumption DEF HdrInv
<1>14. CacheInv
  BY <1>3, <1>4 DEF CacheInv, CacheCounted
<1>15. LargeEnough /\ HeadersSafe
  BY <1>1, <1>2, <1>3 DEF LargeEnough, HeadersSafe
<1> QED
  BY <1>8, <1>9, <1>10, <1>11, <1>12, <1>13, <1>14, <1>15 DEF IndInv

\* A step that changes nothing.
LEMMA StutterStep == ASSUME IndInv, UNCHANGED vars PROVE IndInv'
<1>1. \A t \in Threads : Held(t)' = Held(t)
  BY DEF vars, Held
<1>2. \A b \in Bufs : (Live(b)' <=> Live(b)) /\ buf'[b].size = buf[b].size
  BY DEF vars, Live
<1>3. MemInv'
  BY <1>1, <1>2, KeepMem DEF vars
<1>4. TypeOK' /\ ThreadInv' /\ DspInv' /\ HdrInv'
  <2>1. TypeOK'
    BY DEF IndInv, TypeOK, vars
  <2>2. ThreadInv'
    BY DEF IndInv, ThreadInv, Shape, vars
  <2>3. DspInv'
    BY <1>1, <1>2 DEF IndInv, DspInv, vars
  <2>4. HdrInv'
    BY DEF IndInv, HdrInv, vars
  <2> QED
    BY <2>1, <2>2, <2>3, <2>4
<1>5. LargeEnough' /\ HeadersSafe'
  BY <1>2 DEF IndInv, LargeEnough, HeadersSafe, Size, vars
<1> QED
  BY <1>3, <1>4, <1>5 DEF IndInv, MemInv

\* Every step preserves the invariant.
LEMMA NextInv == ASSUME IndInv, [Next]_vars PROVE IndInv'
<1>1. ASSUME NEW t \in Threads, Alloc(t) PROVE IndInv'
  BY <1>1, GetPersistentBufStep, GetCachedBufStep, FreshBufStep DEF Alloc
<1>2. ASSUME NEW t \in Threads, Invocation(t) PROVE IndInv'
  BY <1>2, InvokeStartStep, InvokeMetaStep, InvokeCopyStep, ContextFreeMetaStep,
     ContextFreeCopyStep DEF Invocation
<1>3. ASSUME NEW t \in Threads, Heap(t) PROVE IndInv'
  BY <1>3, MmapStartStep, MmapDspStep, MunmapStartStep, MunmapDspStep DEF Heap
<1>4. ASSUME NEW t \in Threads, CreateHeaders(t) PROVE IndInv'
  BY <1>4, HeadersStartStep, HeadersMapStep, HeadersPublishStep, HeadersNoArrayStep,
     HeadersFailStep, HeadersClearStep DEF CreateHeaders
<1>5. CASE FileFreeStart
  BY <1>5, FileFreeStartStep
<1>6. CASE FileFreeEnd
  BY <1>6, FileFreeEndStep
<1>7. CASE UNCHANGED vars
  BY <1>7, StutterStep
<1> QED
  BY <1>1, <1>2, <1>3, <1>4, <1>5, <1>6, <1>7 DEF Next

\* The inductive invariant holds in every reachable state of a session, for any
\* number of buffers, arrays and threads, and any sizes and limits.
THEOREM Invariance == Spec => []IndInv
<1>1. Init => IndInv
  BY InitInv
<1>2. IndInv /\ [Next]_vars => IndInv'
  BY NextInv
<1> QED
  BY <1>1, <1>2, PTL DEF Spec

\* No piece of memory of hfastrpc_buf_alloc serves two owners, and none in use
\* is freed by hfastrpc_buf_free.
THEOREM BuffersHaveOneOwner == Spec => []OneOwner
<1>1. IndInv => OneOwner
  <2> SUFFICES ASSUME IndInv PROVE OneOwner
    OBVIOUS
  <2>1. OwnInv /\ ThreadInv
    BY DEF IndInv
  <2>2. \A t \in Threads : thr[t].meta # NULL => thr[t].meta # thr[t].got
    BY <2>1 DEF ThreadInv, Shape
  <2> QED
    BY <2>1, <2>2 DEF OwnInv, OneOwner, Sound
<1> QED
  BY <1>1, Invariance, PTL

\* A call's buffers, new, cached or header pages, are as large as it asked for.
THEOREM BuffersAreLarge == Spec => []LargeEnough
<1>1. IndInv => LargeEnough
  BY DEF IndInv
<1> QED
  BY <1>1, Invariance, PTL

\* num_cached_buf is the length of cached_bufs.
THEOREM CacheIsCounted == Spec => []CacheCounted
<1>1. IndInv => CacheCounted
  BY DEF IndInv, CacheInv
<1> QED
  BY <1>1, Invariance, PTL

\* What hfastrpc_mmap and the header set-up mapped on the DSP is not freed
\* while it is mapped, except at the end of a release whose CLOSE failed.
THEOREM DspMemoryIsBacked == Spec => []DspBacked
<1>1. IndInv => DspBacked
  BY DEF IndInv, DspInv, DspBacked
<1> QED
  BY <1>1, Invariance, PTL

\* Unless two INVOKE2 calls set up headers at once, hdr_bufs is never read
\* after it was cleared, and hfastrpc_file_free leaks no buffer.
THEOREM HeadersAreSafe == Spec => []HeadersSafe
<1>1. IndInv => HeadersSafe
  BY DEF IndInv
<1> QED
  BY <1>1, Invariance, PTL
=============================================================================

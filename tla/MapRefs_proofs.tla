--------------------------- MODULE MapRefs_proofs ---------------------------
(***************************************************************************)
(* The safety properties of MapRefs, for any number of maps, descriptors   *)
(* and threads.                                                            *)
(***************************************************************************)
EXTENDS MapRefs, FiniteSetTheorems, TLAPS

\* What an object of vfastrpc_mmap and a thread can be.
MapRecord ==
    [state : {"unborn", "live", "freed"}, listed : BOOLEAN,
     fd : Fds \cup {NULL}, kind : {"va", "nova"}, keep : BOOLEAN,
     refs : Nat, ctx : Nat, dma : Nat, dsp : BOOLEAN,
     short : BOOLEAN, heap : BOOLEAN]
ThreadRecord ==
    [pc : {"idle", "handle", "check", "flight", "fdlist", "free",
           "mapdsp", "mapfail", "unmapdsp", "unmapfree", "unmapback"},
     buf : Maps \cup {NULL}, out : BOOLEAN, dma : Fds \cup {NULL},
     m : Maps \cup {NULL},
     op : {"none", "mmap", "mem_map", "munmap", "mem_unmap"}]

Invoking == {"idle", "handle", "check", "flight", "fdlist", "free"}
MappingPcs == {"mapdsp", "mapfail"}
UnmappingPcs == {"unmapdsp", "unmapfree", "unmapback"}

\* Who holds the map m: invocations, a map ioctl, an unmap ioctl.
Users(m) == {t \in Threads : thr[t].buf = m}
Mapper(m) == \E t \in Threads : thr[t].pc \in MappingPcs /\ thr[t].m = m
Unmapper(m) == \E t \in Threads : thr[t].pc \in UnmappingPcs /\ thr[t].m = m

\* A mapping ioctl owns internal_map_mutex and one map; an invocation has the
\* map of its buffer until put_args or context_free takes it; once the session
\* closes only interrupted invocations are left, and the DSP has no map unless
\* its CLOSE failed.
ThreadInv ==
    /\ \A t \in Threads :
        /\ thr[t].pc \in MappingPcs \cup UnmappingPcs =>
            imutex = t /\ thr[t].m \in Maps /\ thr[t].buf = NULL
        /\ thr[t].pc \in UnmappingPcs => thr[t].op \in {"munmap", "mem_unmap"}
        /\ thr[t].pc \in Invoking => thr[t].m = NULL
        /\ thr[t].pc \in {"handle", "check", "flight"} => thr[t].buf \in Maps
        /\ thr[t].pc = "idle" => thr[t].buf = NULL
        /\ thr[t].pc = "unmapfree" => ~map[thr[t].m].dsp
    /\ phase # "open" =>
        /\ \A t \in Threads : thr[t].pc \in {"idle", "flight", "free"}
        /\ closefail \/ \A m \in Maps : ~map[m].dsp

\* The references a map on the list must have: one for each invocation that
\* uses it, one for the DMA handles, one to be kept, one for the DSP's
\* mapping and one for the ioctl that is making it.
One(b) == IF b THEN 1 ELSE 0
Claims(r, mapper) == r.ctx + One(r.dma > 0) + One(r.keep) + One(r.dsp) + One(mapper)

\* The contexts a map counts are the invocations that point at it.
UsersOK(m) ==
    /\ IsFiniteSet(Users(m))
    /\ map[m].state = "live" => map[m].ctx = Cardinality(Users(m))
    /\ Users(m) # {} => map[m].listed

\* A map on the list is live and has a reference for every claim on it, unless
\* a failed munmap took the one of the attribute.
ListOK(m) ==
    /\ map[m].listed => map[m].state = "live"
    /\ map[m].listed /\ ~map[m].short =>
        map[m].refs >= 1 /\ map[m].refs >= Claims(map[m], Mapper(m))

\* The map of an ioctl: still on the list while it is mapped, off the list and
\* with at most one reference while it is unmapped.
IoctlOK(m) ==
    /\ Mapper(m) => \/ map[m].state = "live" /\ map[m].listed
                    \/ map[m].state # "live" /\ map[m].short
    /\ Unmapper(m) =>
        /\ map[m].state = "live" /\ ~map[m].listed
        /\ map[m].ctx = 0 /\ map[m].dma = 0 /\ map[m].refs <= 1
        /\ map[m].refs = 0 => map[m].keep
        /\ map[m].dsp /\ ~map[m].short => map[m].refs = 1

\* Where a map is: on the list, with an unmap ioctl or leaked; until the session
\* is closed the DSP has none that is gone.
PlaceOK(m) ==
    /\ map[m].state = "live" /\ ~map[m].listed => m \in leaked \/ Unmapper(m)
    /\ m \in leaked => /\ map[m].state = "live" /\ ~map[m].listed
                       /\ map[m].keep \/ map[m].heap
                       /\ ~Unmapper(m)
    /\ map[m].dsp /\ phase # "closed" => map[m].state = "live" \/ map[m].short
    /\ map[m].state = "unborn" => ~map[m].short

MapOK(m) == UsersOK(m) /\ ListOK(m) /\ IoctlOK(m) /\ PlaceOK(m)

IndInv == TypeOK /\ ThreadInv /\ \A m \in Maps : MapOK(m)

-----------------------------------------------------------------------------
(* The operations on one map.                                              *)

\* The fields that only creation and the ioctls change.
SameMap(r, s) ==
    /\ r.state = s.state /\ (r.listed <=> s.listed) /\ (r.keep <=> s.keep)
    /\ (r.dsp <=> s.dsp) /\ (r.short <=> s.short) /\ (r.heap <=> s.heap)

\* hfastrpc_mmap_free frees the map with its last reference and otherwise
\* drops one.
LEMMA PutFacts ==
    ASSUME NEW r \in MapRecord
    PROVE  /\ Put(r) \in MapRecord /\ Put(r).ctx = r.ctx /\ Put(r).dma = r.dma
           /\ r.refs = 0 => SameMap(Put(r), r) /\ Put(r).refs = 0
           /\ r.refs = 1 /\ r.ctx = 0 /\ r.dma = 0 =>
                /\ Put(r).state = "freed" /\ ~Put(r).listed /\ Put(r).refs = 0
                /\ (Put(r).keep <=> r.keep) /\ (Put(r).dsp <=> r.dsp)
                /\ (Put(r).short <=> r.short)
           /\ r.refs > 1 \/ (r.refs = 1 /\ (r.ctx # 0 \/ r.dma # 0)) =>
                SameMap(Put(r), r) /\ Put(r).refs = r.refs - 1
<1>0. r.refs \in Nat /\ r.ctx \in Nat /\ r.dma \in Nat
  BY DEF MapRecord
<1>1. CASE r.refs = 0
  BY <1>0, <1>1 DEF Put, SameMap
<1>2. CASE r.refs = 1 /\ r.ctx = 0 /\ r.dma = 0
  <2> DEFINE p == [r EXCEPT !.refs = 0, !.state = "freed", !.listed = FALSE]
  <2>1. Put(r) = p
    BY <1>2 DEF Put
  <2>2. p \in MapRecord
    BY DEF MapRecord
  <2>3. /\ p.ctx = r.ctx /\ p.dma = r.dma /\ p.state = "freed" /\ ~p.listed
        /\ p.refs = 0 /\ (p.keep <=> r.keep) /\ (p.dsp <=> r.dsp)
        /\ (p.short <=> r.short)
    BY DEF MapRecord
  <2> HIDE DEF p
  <2> QED
    BY <1>2, <2>1, <2>2, <2>3
<1>3. CASE r.refs > 1 \/ (r.refs = 1 /\ (r.ctx # 0 \/ r.dma # 0))
  <2> PICK n \in Nat : n = r.refs - 1
    BY <1>0, <1>3
  <2> DEFINE p == [r EXCEPT !.refs = n]
  <2>1. Put(r) = p
    BY <1>0, <1>3 DEF Put
  <2>2. p \in MapRecord
    BY DEF MapRecord
  <2>3. p.ctx = r.ctx /\ p.dma = r.dma /\ SameMap(p, r) /\ p.refs = n
    BY DEF MapRecord, SameMap
  <2> HIDE DEF p
  <2> QED
    BY <1>0, <1>3, <2>1, <2>2, <2>3
<1> QED
  BY <1>0, <1>1, <1>2, <1>3

\* What the number of claims on a map says of its counters.
LEMMA ClaimFacts ==
    ASSUME NEW r \in MapRecord, NEW b
    PROVE  /\ Claims(r, b) \in Nat /\ Claims(r, b) >= r.ctx
           /\ r.dma > 0 => Claims(r, b) >= r.ctx + 1
           /\ Claims(r, b) = 0 => r.ctx = 0 /\ r.dma = 0 /\ ~r.dsp /\ ~b
<1>1. r.ctx \in Nat /\ r.dma \in Nat
  BY DEF MapRecord
<1>2. /\ One(r.dma > 0) \in {0, 1} /\ One(r.keep) \in {0, 1}
      /\ One(r.dsp) \in {0, 1} /\ One(b) \in {0, 1}
      /\ r.dma > 0 => One(r.dma > 0) = 1
      /\ r.dsp => One(r.dsp) = 1
      /\ b => One(b) = 1
  BY DEF One
<1> QED
  BY <1>1, <1>2 DEF Claims

\* A reference dropped by one of several claimants: the map is freed exactly
\* when no claim is left.
LEMMA PutClaims ==
    ASSUME NEW r \in MapRecord, NEW b, r.state = "live", r.listed
    PROVE  /\ \/ Put(r).state = "live" /\ Put(r).listed
              \/ Put(r).state = "freed" /\ ~Put(r).listed /\ r.ctx = 0
           /\ Put(r).ctx = r.ctx
           /\ (Put(r).short <=> r.short) /\ (Put(r).dsp <=> r.dsp)
           /\ r.refs >= Claims(r, b) + 1 =>
                \/ /\ Put(r).listed /\ Put(r).refs >= 1
                   /\ Put(r).refs >= Claims(Put(r), b)
                \/ Put(r).state = "freed" /\ ~r.dsp /\ ~b
<1>1. r.refs \in Nat /\ r.ctx \in Nat /\ r.dma \in Nat
  BY DEF MapRecord
<1>2. /\ Claims(r, b) \in Nat /\ Claims(r, b) >= r.ctx
      /\ r.dma > 0 => Claims(r, b) >= r.ctx + 1
      /\ Claims(r, b) = 0 => r.ctx = 0 /\ r.dma = 0 /\ ~r.dsp /\ ~b
  BY ClaimFacts
<1>3. SameMap(Put(r), r) => Claims(Put(r), b) = Claims(r, b)
  <2>1. Put(r).ctx = r.ctx /\ Put(r).dma = r.dma
    BY PutFacts
  <2>2. SameMap(Put(r), r) => One(Put(r).keep) = One(r.keep) /\ One(Put(r).dsp) = One(r.dsp)
    BY DEF SameMap, One
  <2> QED
    BY <2>1, <2>2 DEF Claims
<1>4. CASE r.refs = 0
  BY <1>1, <1>2, <1>4, PutFacts DEF SameMap
<1>5. CASE r.refs = 1 /\ r.ctx = 0 /\ r.dma = 0
  BY <1>1, <1>2, <1>5, PutFacts
<1>6. CASE r.refs > 1 \/ (r.refs = 1 /\ (r.ctx # 0 \/ r.dma # 0))
  <2>1. SameMap(Put(r), r) /\ Put(r).refs = r.refs - 1 /\ Put(r).ctx = r.ctx
    BY <1>6, PutFacts
  <2>2. r.refs >= Claims(r, b) + 1 => r.refs - 1 >= 1 /\ r.refs - 1 >= Claims(r, b)
    BY <1>1, <1>2, <1>6
  <2> QED
    BY <1>3, <2>1, <2>2 DEF SameMap
<1> QED
  BY <1>1, <1>4, <1>5, <1>6

\* hfastrpc_mmap_create finds a map on the list, makes one, or fails to.
LEMMA CreateFacts ==
    ASSUME TypeOK, NEW fd \in Fds, NEW kind \in {"va", "nova"}, NEW keep \in BOOLEAN,
           NEW r \in MmapCreate(fd, kind, keep)
    PROVE  /\ r.m \in Maps /\ r.rec \in MapRecord
           /\ \/ /\ r.ok /\ map[r.m].listed /\ SameMap(r.rec, map[r.m])
                 /\ r.rec.refs = map[r.m].refs + 1
                 /\ r.rec.ctx = map[r.m].ctx /\ r.rec.dma = map[r.m].dma
              \/ /\ r.ok /\ map[r.m].state = "unborn"
                 /\ r.rec.state = "live" /\ r.rec.listed
                 /\ r.rec.refs = IF r.rec.keep THEN 2 ELSE 1
                 /\ r.rec.ctx = 0 /\ r.rec.dma = 0 /\ ~r.rec.dsp /\ ~r.rec.short
              \/ /\ ~r.ok /\ map[r.m].state = "unborn"
                 /\ r.rec.state \in {"live", "freed"} /\ ~r.rec.listed
                 /\ r.rec.state = "live" => r.rec.keep
                 /\ r.rec.ctx = 0 /\ ~r.rec.dsp /\ ~r.rec.short
<1> DEFINE n == [Unborn EXCEPT !.state = "live", !.fd = fd, !.kind = kind,
                               !.keep = keep, !.refs = IF keep THEN 2 ELSE 1]
           l == [n EXCEPT !.listed = TRUE]
<1>1. /\ n \in MapRecord /\ n.state = "live" /\ ~n.listed /\ (n.keep <=> keep)
      /\ n.refs = (IF keep THEN 2 ELSE 1) /\ n.ctx = 0 /\ n.dma = 0 /\ ~n.dsp /\ ~n.short
  <2> PICK k \in Nat : k = IF keep THEN 2 ELSE 1
    OBVIOUS
  <2>1. /\ Unborn \in MapRecord /\ ~Unborn.listed /\ Unborn.ctx = 0
        /\ Unborn.dma = 0 /\ ~Unborn.dsp /\ ~Unborn.short
    BY DEF Unborn, MapRecord
  <2>2. n = [Unborn EXCEPT !.state = "live", !.fd = fd, !.kind = kind,
                           !.keep = keep, !.refs = k]
    OBVIOUS
  <2>3. n \in MapRecord
    BY <2>1, <2>2 DEF MapRecord
  <2>4. /\ n.state = "live" /\ ~n.listed /\ (n.keep <=> keep)
        /\ n.refs = k /\ n.ctx = 0 /\ n.dma = 0 /\ ~n.dsp /\ ~n.short
    BY <2>1, <2>2 DEF MapRecord
  <2> HIDE DEF n
  <2> QED
    BY <2>3, <2>4
<1>2. NewMap(fd, kind, keep) = n
  BY DEF NewMap
<1> HIDE DEF n
<1>3. /\ l \in MapRecord /\ l.state = "live" /\ l.listed /\ (l.keep <=> keep)
      /\ l.refs = (IF keep THEN 2 ELSE 1) /\ l.ctx = 0 /\ l.dma = 0 /\ ~l.dsp /\ ~l.short
  <2>1. l \in MapRecord
    BY <1>1 DEF MapRecord
  <2> QED
    BY <1>1, <2>1 DEF MapRecord
<1> HIDE DEF l
<1>4. CASE \E m \in Find(fd, kind) :
             r = [m |-> m, rec |-> [map[m] EXCEPT !.refs = @ + 1], ok |-> TRUE]
  <2> PICK m \in Find(fd, kind) :
             r = [m |-> m, rec |-> [map[m] EXCEPT !.refs = @ + 1], ok |-> TRUE]
    BY <1>4
  <2>1. m \in Maps /\ map[m].listed /\ map[m] \in MapRecord
    BY DEF Find, TypeOK, MapRecord
  <2>2. PICK k \in Nat : k = map[m].refs + 1
    BY <2>1 DEF MapRecord
  <2> DEFINE s == [map[m] EXCEPT !.refs = k]
  <2>3. r.m = m /\ r.rec = s /\ r.ok
    BY <2>2
  <2>4. s \in MapRecord
    BY <2>1 DEF MapRecord
  <2>5. SameMap(s, map[m]) /\ s.refs = k /\ s.ctx = map[m].ctx /\ s.dma = map[m].dma
    BY <2>1 DEF MapRecord, SameMap
  <2> HIDE DEF s
  <2> QED
    BY <2>1, <2>2, <2>3, <2>4, <2>5
<1>5. CASE \E m \in Maps : /\ map[m].state = "unborn"
                           /\ r = [m |-> m, ok |-> TRUE, rec |-> l]
  BY <1>3, <1>5
<1>6. CASE \E m \in Maps : /\ map[m].state = "unborn"
                           /\ r = [m |-> m, ok |-> FALSE, rec |-> Put(n)]
  <2> PICK m \in Maps : /\ map[m].state = "unborn"
                        /\ r = [m |-> m, ok |-> FALSE, rec |-> Put(n)]
    BY <1>6
  <2>1. r.m = m /\ ~r.ok /\ r.rec = Put(n)
    OBVIOUS
  <2>2. CASE keep
    <3>1. n.refs = 2 /\ 2 > 1
      BY <1>1, <2>2
    <3>2. SameMap(Put(n), n) /\ Put(n) \in MapRecord /\ Put(n).ctx = n.ctx
      BY <1>1, <3>1, PutFacts
    <3> QED
      BY <1>1, <2>1, <2>2, <3>2 DEF SameMap
  <2>3. CASE ~keep
    <3>1. n.refs = 1
      BY <1>1, <2>3
    <3>2. /\ Put(n) \in MapRecord /\ Put(n).ctx = n.ctx /\ Put(n).state = "freed"
          /\ ~Put(n).listed /\ (Put(n).dsp <=> n.dsp) /\ (Put(n).short <=> n.short)
      BY <1>1, <3>1, PutFacts
    <3> QED
      BY <1>1, <2>1, <3>2
  <2> QED
    BY <2>2, <2>3
<1>7. \/ \E m \in Find(fd, kind) :
           r = [m |-> m, rec |-> [map[m] EXCEPT !.refs = @ + 1], ok |-> TRUE]
      \/ \E m \in Maps : /\ map[m].state = "unborn"
                         /\ r = [m |-> m, ok |-> TRUE, rec |-> l]
      \/ \E m \in Maps : /\ map[m].state = "unborn"
                         /\ r = [m |-> m, ok |-> FALSE, rec |-> Put(n)]
  BY <1>2 DEF MmapCreate, l
<1> QED
  BY <1>4, <1>5, <1>6, <1>7

-----------------------------------------------------------------------------
(* Maps after a step.                                                      *)

\* A map that a step neither changes nor hands over stays right.
LEMMA FrameMap ==
    ASSUME NEW m \in Maps, MapOK(m), map'[m] = map[m], Users(m)' = Users(m),
           Mapper(m)' <=> Mapper(m), Unmapper(m)' <=> Unmapper(m),
           (m \in leaked') <=> (m \in leaked), phase = "closed" => phase' = "closed"
    PROVE  MapOK(m)'
<1>1. UsersOK(m)' /\ ListOK(m)'
  <2>1. One(Mapper(m)') = One(Mapper(m))
    BY DEF One
  <2> QED
    BY <2>1 DEF MapOK, UsersOK, ListOK, Claims
<1>2. IoctlOK(m)' /\ PlaceOK(m)'
  BY DEF MapOK, IoctlOK, PlaceOK
<1> QED
  BY <1>1, <1>2 DEF MapOK

\* A live map on the list is right when it has its references.
LEMMA ListedMap ==
    ASSUME NEW m \in Maps, map'[m].state = "live", map'[m].listed,
           IsFiniteSet(Users(m)'), map'[m].ctx = Cardinality(Users(m)'),
           ~map'[m].short => /\ map'[m].refs >= 1
                             /\ map'[m].refs >= Claims(map'[m], Mapper(m)'),
           m \notin leaked', ~Unmapper(m)'
    PROVE  MapOK(m)'
  BY DEF MapOK, UsersOK, ListOK, IoctlOK, PlaceOK

\* A map is freed rightly when nobody uses it, and neither the DSP nor a map
\* ioctl has it, unless it is short of a reference.
LEMMA FreedMap ==
    ASSUME NEW m \in Maps, map'[m].state = "freed", ~map'[m].listed, Users(m)' = {},
           ~map'[m].short => ~map'[m].dsp /\ ~Mapper(m)',
           m \notin leaked', ~Unmapper(m)'
    PROVE  MapOK(m)'
<1>1. IsFiniteSet(Users(m)')
  BY FS_EmptySet
<1> QED
  BY <1>1 DEF MapOK, UsersOK, ListOK, IoctlOK, PlaceOK

\* A map that a creation failed to undo is leaked.
LEMMA LeakedMap ==
    ASSUME NEW m \in Maps, map'[m].state = "live", ~map'[m].listed, map'[m].ctx = 0,
           map'[m].keep \/ map'[m].heap, Users(m)' = {}, m \in leaked', ~Unmapper(m)', ~Mapper(m)'
    PROVE  MapOK(m)'
<1>1. IsFiniteSet(Users(m)') /\ Cardinality(Users(m)') = 0
  BY FS_EmptySet
<1> QED
  BY <1>1 DEF MapOK, UsersOK, ListOK, IoctlOK, PlaceOK

\* hfastrpc_mmap_free of a map with a reference to spare.
LEMMA PutListed ==
    ASSUME NEW m \in Maps, NEW r \in MapRecord, r.state = "live", r.listed,
           map'[m] = Put(r), m \notin leaked', ~Unmapper(m)',
           IsFiniteSet(Users(m)'), r.ctx = Cardinality(Users(m)'),
           ~r.short => r.refs >= Claims(r, Mapper(m)') + 1
    PROVE  MapOK(m)'
<1>1. m \notin leaked'
  OBVIOUS
<1>2. /\ \/ Put(r).state = "live" /\ Put(r).listed
         \/ Put(r).state = "freed" /\ ~Put(r).listed /\ r.ctx = 0
      /\ Put(r).ctx = r.ctx
      /\ (Put(r).short <=> r.short) /\ (Put(r).dsp <=> r.dsp)
      /\ r.refs >= Claims(r, Mapper(m)') + 1 =>
           \/ /\ Put(r).listed /\ Put(r).refs >= 1
              /\ Put(r).refs >= Claims(Put(r), Mapper(m)')
           \/ Put(r).state = "freed" /\ ~r.dsp /\ ~Mapper(m)'
  BY PutClaims
<1>3. CASE Put(r).state = "live" /\ Put(r).listed
  BY <1>1, <1>2, <1>3, ListedMap
<1>4. CASE Put(r).state = "freed" /\ ~Put(r).listed /\ r.ctx = 0
  <2>1. Users(m)' = {}
    BY <1>4, FS_EmptySet
  <2> QED
    BY <1>1, <1>2, <1>4, <2>1, FreedMap
<1> QED
  BY <1>2, <1>3, <1>4

\* hfastrpc_mmap_free of a map on the list, by one of those who claim it.
LEMMA PutMap ==
    ASSUME NEW m \in Maps, MapOK(m), map[m].listed,
           NEW r \in MapRecord, r.state = "live", r.listed,
           map'[m] = Put(r), leaked' = leaked, ~Unmapper(m)',
           IsFiniteSet(Users(m)'), r.ctx = Cardinality(Users(m)'),
           ~r.short => r.refs >= Claims(r, Mapper(m)') + 1
    PROVE  MapOK(m)'
<1>1. m \notin leaked'
  BY DEF MapOK, PlaceOK
<1> QED
  BY <1>1, PutListed

-----------------------------------------------------------------------------
(* Invocations.                                                            *)

\* The users of the maps after a step of the thread t.
LEMMA MovedUsers ==
    ASSUME NEW t \in Threads, \A u \in Threads \ {t} : thr'[u] = thr[u]
    PROVE  \A m : /\ thr'[t].buf = m => Users(m)' = Users(m) \cup {t}
                  /\ thr'[t].buf # m => Users(m)' = Users(m) \ {t}
  BY DEF Users

\* An invocation neither becomes nor ends an ioctl of internal_map_mutex.
LEMMA InvokerMoves ==
    ASSUME NEW t \in Threads, \A u \in Threads \ {t} : thr'[u] = thr[u],
           thr[t].pc \in Invoking, thr'[t].pc \in Invoking
    PROVE  \A m : (Mapper(m)' <=> Mapper(m)) /\ (Unmapper(m)' <=> Unmapper(m))
  BY DEF Mapper, Unmapper, Invoking, MappingPcs, UnmappingPcs

\* A step of an invocation that leaves every map right.
LEMMA InvokerStep ==
    ASSUME IndInv, NEW t \in Threads, thr' \in [Threads -> ThreadRecord],
           \A u \in Threads \ {t} : thr'[u] = thr[u],
           thr[t].pc \in Invoking, thr'[t].pc \in Invoking, thr'[t].m = NULL,
           thr'[t].pc \in {"handle", "check", "flight"} => thr'[t].buf \in Maps,
           thr'[t].pc = "idle" => thr'[t].buf = NULL,
           phase # "open" => thr'[t].pc \in {"idle", "flight", "free"},
           map' \in [Maps -> MapRecord], \A m \in Maps : map'[m].dsp => map[m].dsp,
           leaked' \subseteq Maps, UNCHANGED <<imutex, phase, closefail>>,
           \A m \in Maps : MapOK(m)'
    PROVE  IndInv'
<1>1. TypeOK'
  BY DEF IndInv, TypeOK, MapRecord, ThreadRecord
<1>2. ThreadInv'
  BY DEF IndInv, ThreadInv, Invoking, MappingPcs, UnmappingPcs
<1> QED
  BY <1>1, <1>2 DEF IndInv

\* The steps of an invocation that touch no map.
LEMMA QuietStep ==
    ASSUME IndInv, NEW t \in Threads,
           GetArgsNoHandle(t) \/ GetArgsCheck(t) \/ InvokeFails(t)
    PROVE  IndInv'
<1>1. /\ UNCHANGED <<map, imutex, phase, leaked, closefail>>
      /\ thr[t].pc \in {"handle", "check", "flight"} /\ thr[t] \in ThreadRecord
      /\ phase # "open" => thr[t].pc = "flight"
  BY DEF GetArgsNoHandle, GetArgsCheck, InvokeFails, IndInv, TypeOK, ThreadInv,
         ThreadRecord
<1>2. PICK pc \in {"flight", "free"}, d \in Fds \cup {NULL} :
         /\ thr' = [thr EXCEPT ![t].pc = pc, ![t].dma = d]
         /\ thr[t].pc = "flight" => pc = "free"
  <2>1. thr[t].dma \in Fds \cup {NULL} /\ thr \in [Threads -> ThreadRecord]
    BY <1>1 DEF IndInv, TypeOK, ThreadRecord
  <2>2. CASE GetArgsNoHandle(t)
    <3>1. thr' = [thr EXCEPT ![t].pc = "flight", ![t].dma = thr[t].dma]
      BY <2>1, <2>2 DEF GetArgsNoHandle, ThreadRecord
    <3> QED
      BY <2>1, <2>2, <3>1 DEF GetArgsNoHandle
  <2>3. CASE GetArgsCheck(t)
    <3> PICK d \in Fds \cup {NULL} :
            d = IF Find(thr[t].dma, "nova") = {} THEN NULL ELSE thr[t].dma
      BY <2>1
    <3>1. thr' = [thr EXCEPT ![t].pc = "flight", ![t].dma = d]
      BY <2>1, <2>3 DEF GetArgsCheck, ThreadRecord
    <3> QED
      BY <2>3, <3>1 DEF GetArgsCheck
  <2>4. CASE InvokeFails(t)
    <3>1. thr' = [thr EXCEPT ![t].pc = "free", ![t].dma = thr[t].dma]
      BY <2>1, <2>4 DEF InvokeFails, ThreadRecord
    <3> QED
      BY <2>1, <3>1
  <2> QED
    BY <2>2, <2>3, <2>4
<1>3. /\ thr' \in [Threads -> ThreadRecord] /\ thr'[t].pc = pc
      /\ thr'[t].buf = thr[t].buf /\ thr'[t].m = thr[t].m
      /\ \A u \in Threads \ {t} : thr'[u] = thr[u]
  <2> DEFINE r == [thr[t] EXCEPT !.pc = pc, !.dma = d]
  <2>1. r \in ThreadRecord
    BY <1>1 DEF ThreadRecord
  <2>2. r.pc = pc /\ r.buf = thr[t].buf /\ r.m = thr[t].m
    BY <1>1 DEF ThreadRecord
  <2>3. thr \in [Threads -> ThreadRecord]
    BY DEF IndInv, TypeOK, ThreadRecord
  <2>4. thr' = [thr EXCEPT ![t] = r]
    BY <1>2, <2>3
  <2> HIDE DEF r
  <2> QED
    BY <2>1, <2>2, <2>3, <2>4
<1>4. /\ thr[t].pc \in Invoking /\ thr'[t].pc \in Invoking
      /\ thr[t].buf \in Maps /\ thr[t].m = NULL
  BY <1>1, <1>2, <1>3 DEF Invoking, IndInv, ThreadInv
<1>5. \A m \in Maps : MapOK(m)'
  <2>1. \A m \in Maps : Users(m)' = Users(m)
    BY <1>3 DEF Users
  <2> QED
    BY <1>1, <1>3, <1>4, <2>1, InvokerMoves, FrameMap DEF IndInv
<1>6. map' \in [Maps -> MapRecord] /\ leaked' \subseteq Maps
  BY <1>1 DEF IndInv, TypeOK, MapRecord
<1> QED
  BY <1>1, <1>2, <1>3, <1>4, <1>5, <1>6, InvokerStep

\* A step of an invocation that changes one map, or none of the others.
LEMMA OneMapStep ==
    ASSUME IndInv, NEW t \in Threads, thr' \in [Threads -> ThreadRecord],
           \A u \in Threads \ {t} : thr'[u] = thr[u],
           thr[t].pc \in Invoking, thr'[t].pc \in Invoking, thr'[t].m = NULL,
           thr'[t].pc \in {"handle", "check", "flight"} => thr'[t].buf \in Maps,
           thr'[t].pc = "idle" => thr'[t].buf = NULL,
           phase # "open" => thr'[t].pc \in {"idle", "flight", "free"},
           NEW m \in Maps, NEW r \in MapRecord, map' = [map EXCEPT ![m] = r],
           r.dsp => map[m].dsp,
           \A n \in Maps \ {m} : /\ thr'[t].buf = n <=> thr[t].buf = n
                                 /\ (n \in leaked') <=> (n \in leaked),
           leaked' \subseteq Maps, UNCHANGED <<imutex, phase, closefail>>, MapOK(m)'
    PROVE  IndInv'
<1>1. /\ map' \in [Maps -> MapRecord] /\ map'[m] = r
      /\ \A n \in Maps \ {m} : map'[n] = map[n]
  BY DEF IndInv, TypeOK, MapRecord
<1>2. \A n \in Maps \ {m} : Users(n)' = Users(n)
  BY DEF Users
<1>3. \A n \in Maps \ {m} : MapOK(n)'
  BY <1>1, <1>2, InvokerMoves, FrameMap DEF IndInv
<1> QED
  BY <1>1, <1>3, InvokerStep

\* A map that hfastrpc_mmap_create returned, with the claim its caller adds.
LEMMA AcquiredMap ==
    ASSUME IndInv, NEW fd \in Fds, NEW kind \in {"va", "nova"}, NEW keep \in BOOLEAN,
           NEW r \in MmapCreate(fd, kind, keep), r.ok,
           NEW q \in MapRecord, SameMap(q, r.rec), q.refs = r.rec.refs, NEW b,
           \/ q.ctx = r.rec.ctx + 1 /\ q.dma = r.rec.dma /\ (b <=> Mapper(r.m))
           \/ q.ctx = r.rec.ctx /\ q.dma = r.rec.dma + 1 /\ (b <=> Mapper(r.m))
           \/ q.ctx = r.rec.ctx /\ q.dma = r.rec.dma /\ ~Mapper(r.m)
    PROVE  /\ r.m \in Maps /\ q.state = "live" /\ q.listed /\ (q.dsp => map[r.m].dsp)
           /\ ~q.short => q.refs >= 1 /\ q.refs >= Claims(q, b)
           /\ r.m \notin leaked /\ ~Unmapper(r.m)
           /\ IsFiniteSet(Users(r.m)) /\ r.rec.ctx = Cardinality(Users(r.m))
<1> DEFINE m == r.m
<1>0. /\ m \in Maps /\ r.rec \in MapRecord
      /\ \/ /\ map[m].listed /\ SameMap(r.rec, map[m])
            /\ r.rec.refs = map[m].refs + 1
            /\ r.rec.ctx = map[m].ctx /\ r.rec.dma = map[m].dma
         \/ /\ map[m].state = "unborn"
            /\ r.rec.state = "live" /\ r.rec.listed
            /\ r.rec.refs = IF r.rec.keep THEN 2 ELSE 1
            /\ r.rec.ctx = 0 /\ r.rec.dma = 0 /\ ~r.rec.dsp /\ ~r.rec.short
  BY CreateFacts DEF IndInv
<1> HIDE DEF m
<1>1. MapOK(m) /\ map[m] \in MapRecord
  BY <1>0 DEF IndInv, TypeOK, MapRecord
<1>2. /\ q.refs \in Nat /\ q.ctx \in Nat /\ q.dma \in Nat
      /\ map[m].refs \in Nat /\ map[m].ctx \in Nat /\ map[m].dma \in Nat
  BY <1>1 DEF MapRecord
<1>3. CASE /\ map[m].listed /\ SameMap(r.rec, map[m])
           /\ r.rec.refs = map[m].refs + 1
           /\ r.rec.ctx = map[m].ctx /\ r.rec.dma = map[m].dma
  <2>1. /\ SameMap(q, map[m]) /\ q.refs = map[m].refs + 1
        /\ \/ q.ctx = map[m].ctx + 1 /\ q.dma = map[m].dma /\ (b <=> Mapper(m))
           \/ q.ctx = map[m].ctx /\ q.dma = map[m].dma + 1 /\ (b <=> Mapper(m))
           \/ q.ctx = map[m].ctx /\ q.dma = map[m].dma /\ ~Mapper(m)
    BY <1>3 DEF SameMap, m
  <2>2. Claims(q, b) <= Claims(map[m], Mapper(m)) + 1
    <3>1. One(q.keep) = One(map[m].keep) /\ One(q.dsp) = One(map[m].dsp)
      BY <2>1 DEF SameMap, One
    <3>2. /\ One(q.keep) \in {0, 1} /\ One(q.dsp) \in {0, 1}
          /\ One(q.dma > 0) \in {0, 1} /\ One(map[m].dma > 0) \in {0, 1}
          /\ One(b) \in {0, 1} /\ One(Mapper(m)) \in {0, 1}
          /\ (b <=> Mapper(m)) => One(b) = One(Mapper(m))
          /\ q.dma = map[m].dma => One(q.dma > 0) = One(map[m].dma > 0)
          /\ ~Mapper(m) => One(Mapper(m)) = 0
      BY DEF One
    <3> QED
      BY <1>2, <2>1, <3>1, <3>2 DEF Claims
  <2>3. Claims(q, b) \in Nat /\ Claims(map[m], Mapper(m)) \in Nat
    BY <1>1, ClaimFacts
  <2>4. ~q.short => map[m].refs >= 1 /\ map[m].refs >= Claims(map[m], Mapper(m))
    BY <1>1, <1>3, <2>1 DEF MapOK, ListOK, SameMap
  <2>5. ~q.short => q.refs >= 1 /\ q.refs >= Claims(q, b)
    BY <1>2, <2>1, <2>2, <2>3, <2>4
  <2>6. map[m].state = "live" /\ m \notin leaked /\ ~Unmapper(m)
    BY <1>1, <1>3 DEF MapOK, ListOK, PlaceOK, IoctlOK
  <2>7. IsFiniteSet(Users(m)) /\ r.rec.ctx = Cardinality(Users(m))
    BY <1>1, <1>3, <2>6 DEF MapOK, UsersOK
  <2> QED
    BY <1>0, <1>3, <2>1, <2>5, <2>6, <2>7 DEF SameMap, m
<1>4. CASE /\ map[m].state = "unborn"
           /\ r.rec.state = "live" /\ r.rec.listed
           /\ r.rec.refs = IF r.rec.keep THEN 2 ELSE 1
           /\ r.rec.ctx = 0 /\ r.rec.dma = 0 /\ ~r.rec.dsp /\ ~r.rec.short
  <2>1. ~Mapper(m) /\ ~Unmapper(m) /\ m \notin leaked /\ Users(m) = {}
    BY <1>1, <1>4 DEF MapOK, UsersOK, ListOK, IoctlOK, PlaceOK
  <2>2. IsFiniteSet(Users(m)) /\ Cardinality(Users(m)) = 0
    BY <2>1, FS_EmptySet
  <2>3. /\ q.state = "live" /\ q.listed /\ ~q.dsp /\ ~q.short
        /\ q.refs = IF q.keep THEN 2 ELSE 1
    BY <1>4 DEF SameMap
  <2>4. Claims(q, b) <= One(q.keep) + 1
    <3>1. /\ One(q.dsp) = 0 /\ One(q.keep) \in {0, 1}
          /\ One(q.dma > 0) \in {0, 1} /\ One(b) \in {0, 1}
          /\ ~b => One(b) = 0
          /\ q.dma = 0 => One(q.dma > 0) = 0
      BY <2>3 DEF One
    <3>2. \/ q.ctx = 1 /\ q.dma = 0 /\ ~b
          \/ q.ctx = 0 /\ q.dma = 1 /\ ~b
          \/ q.ctx = 0 /\ q.dma = 0
      BY <1>4, <2>1 DEF m
    <3> QED
      BY <1>2, <3>1, <3>2 DEF Claims
  <2>5. q.refs >= 1 /\ q.refs >= Claims(q, b)
    <3>1. q.refs = One(q.keep) + 1 /\ One(q.keep) \in {0, 1}
      BY <2>3 DEF One
    <3>2. Claims(q, b) \in Nat
      BY ClaimFacts
    <3> QED
      BY <2>4, <3>1, <3>2
  <2> QED
    BY <1>0, <1>4, <2>1, <2>2, <2>3, <2>5 DEF m
<1> QED
  BY <1>0, <1>3, <1>4

\* The effect of a step on the table of threads.
LEMMA ThreadStore ==
    ASSUME IndInv, NEW t \in Threads, NEW r \in ThreadRecord,
           thr' = [thr EXCEPT ![t] = r]
    PROVE  /\ thr' \in [Threads -> ThreadRecord] /\ thr'[t] = r
           /\ \A u \in Threads \ {t} : thr'[u] = thr[u]
<1>1. thr \in [Threads -> ThreadRecord]
  BY DEF IndInv, TypeOK, ThreadRecord
<1> QED
  BY <1>1

\* A thread outside the driver holds nothing.
LEMMA IdleFacts ==
    Idle \in ThreadRecord /\ Idle.pc = "idle" /\ Idle.buf = NULL /\ Idle.m = NULL
  BY DEF Idle, ThreadRecord

\* hfastrpc_mmap_create fails: the new map is freed, or leaked when it is to be
\* kept.
LEMMA FailedMap ==
    ASSUME IndInv, NEW fd \in Fds, NEW kind \in {"va", "nova"}, NEW keep \in BOOLEAN,
           NEW r \in MmapCreate(fd, kind, keep), ~r.ok,
           map' = [map EXCEPT ![r.m] = r.rec],
           leaked' = IF r.rec.state = "live" THEN leaked \cup {r.m} ELSE leaked,
           Users(r.m)' \subseteq Users(r.m),
           Mapper(r.m)' => Mapper(r.m), Unmapper(r.m)' => Unmapper(r.m)
    PROVE  r.m \in Maps /\ r.rec \in MapRecord /\ ~r.rec.dsp /\ MapOK(r.m)'
<1> DEFINE m == r.m
<1>1. /\ m \in Maps /\ r.rec \in MapRecord /\ map[m].state = "unborn"
      /\ r.rec.state \in {"live", "freed"} /\ ~r.rec.listed
      /\ r.rec.state = "live" => r.rec.keep
      /\ r.rec.ctx = 0 /\ ~r.rec.dsp /\ ~r.rec.short
  BY CreateFacts DEF IndInv
<1>2. map'[m] = r.rec
  BY <1>1 DEF IndInv, TypeOK
<1> HIDE DEF m
<1>3. ~Mapper(m) /\ ~Unmapper(m) /\ m \notin leaked /\ Users(m) = {}
  <2>1. MapOK(m)
    BY <1>1 DEF IndInv
  <2> QED
    BY <1>1, <2>1 DEF MapOK, UsersOK, ListOK, IoctlOK, PlaceOK
<1>4. ~Mapper(m)' /\ ~Unmapper(m)' /\ Users(m)' = {}
  BY <1>3 DEF m
<1>5. CASE r.rec.state = "live"
  <2>1. m \in leaked'
    BY <1>5 DEF m
  <2>2. MapOK(m)'
    BY <1>1, <1>2, <1>4, <1>5, <2>1, LeakedMap
  <2> QED
    BY <1>1, <2>2 DEF m
<1>6. CASE r.rec.state = "freed"
  <2>1. m \notin leaked'
    BY <1>3, <1>6 DEF m
  <2>2. MapOK(m)'
    BY <1>1, <1>2, <1>4, <1>6, <2>1, FreedMap
  <2> QED
    BY <1>1, <2>2 DEF m
<1> QED
  BY <1>1, <1>5, <1>6

\* get_args maps the buffer and counts its context.
LEMMA GetArgsBufStep ==
    ASSUME IndInv, NEW t \in Threads, NEW fd \in Fds, NEW keep \in BOOLEAN,
           NEW out \in BOOLEAN, GetArgsBuf(t, fd, keep, out)
    PROVE  IndInv'
<1>1. PICK r \in MmapCreate(fd, "va", keep) :
        /\ Acquire(r, IF r.ok THEN [r.rec EXCEPT !.ctx = @ + 1] ELSE r.rec)
        /\ thr' = [thr EXCEPT ![t] =
               IF r.ok THEN [Idle EXCEPT !.pc = "handle", !.buf = r.m, !.out = out]
               ELSE Idle]
  BY DEF GetArgsBuf
<1>2. /\ phase = "open" /\ thr[t].pc = "idle" /\ UNCHANGED <<imutex, phase, closefail>>
      /\ thr[t].buf = NULL /\ thr[t].m = NULL /\ thr[t].pc \in Invoking
  BY DEF GetArgsBuf, IndInv, ThreadInv, Invoking
<1>3. /\ "va" \in {"va", "nova"} /\ r.m \in Maps /\ r.rec \in MapRecord
      /\ leaked \subseteq Maps /\ map[r.m] \in MapRecord /\ NULL \notin Maps
  BY CreateFacts, ConstAssumption DEF IndInv, TypeOK, MapRecord
<1>4. CASE r.ok
  <2> DEFINE c == r.rec.ctx + 1
             q == [r.rec EXCEPT !.ctx = c]
             k == [Idle EXCEPT !.pc = "handle", !.buf = r.m, !.out = out]
  <2>1. c \in Nat
    BY <1>3 DEF MapRecord
  <2>2. q \in MapRecord
    BY <1>3, <2>1 DEF MapRecord
  <2>3. /\ SameMap(q, r.rec) /\ q.refs = r.rec.refs /\ q.ctx = r.rec.ctx + 1
        /\ q.dma = r.rec.dma
    BY <1>3, <2>1 DEF MapRecord, SameMap
  <2>4. map' = [map EXCEPT ![r.m] = q] /\ leaked' = leaked /\ thr' = [thr EXCEPT ![t] = k]
    BY <1>1, <1>4 DEF Acquire
  <2>5. k \in ThreadRecord /\ k.pc = "handle" /\ k.buf = r.m /\ k.m = NULL
    BY <1>3 DEF Idle, ThreadRecord
  <2> HIDE DEF q, c, k
  <2>6. /\ thr' \in [Threads -> ThreadRecord] /\ thr'[t] = k
        /\ \A u \in Threads \ {t} : thr'[u] = thr[u]
    BY <2>4, <2>5, ThreadStore
  <2>7. thr'[t].pc \in Invoking /\ map'[r.m] = q
    BY <1>3, <2>4, <2>5, <2>6 DEF Invoking, IndInv, TypeOK
  <2>8. (Mapper(r.m)' <=> Mapper(r.m)) /\ (Unmapper(r.m)' <=> Unmapper(r.m))
    BY <1>2, <2>6, <2>7, InvokerMoves
  <2>9. /\ q.state = "live" /\ q.listed /\ (q.dsp => map[r.m].dsp)
        /\ ~q.short => q.refs >= 1 /\ q.refs >= Claims(q, Mapper(r.m)')
        /\ r.m \notin leaked /\ ~Unmapper(r.m)
        /\ IsFiniteSet(Users(r.m)) /\ r.rec.ctx = Cardinality(Users(r.m))
    BY <1>3, <1>4, <2>2, <2>3, <2>8, AcquiredMap
  <2>10. IsFiniteSet(Users(r.m)') /\ q.ctx = Cardinality(Users(r.m)')
    <3>1. Users(r.m)' = Users(r.m) \cup {t} /\ t \notin Users(r.m)
      BY <1>2, <1>3, <2>5, <2>6, MovedUsers DEF Users
    <3> QED
      BY <2>3, <2>9, <3>1, FS_AddElement
  <2>11. MapOK(r.m)'
    BY <1>3, <2>4, <2>7, <2>8, <2>9, <2>10, ListedMap
  <2>12. \A n \in Maps \ {r.m} : /\ thr'[t].buf = n <=> thr[t].buf = n
                                 /\ (n \in leaked') <=> (n \in leaked)
    BY <1>2, <1>3, <2>4, <2>5, <2>6
  <2>13. thr'[t].m = NULL /\ thr'[t].pc = "handle" /\ thr'[t].buf \in Maps
    BY <1>3, <2>5, <2>6
  <2> QED
    BY <1>2, <1>3, <2>2, <2>4, <2>6, <2>7, <2>9, <2>11, <2>12, <2>13, OneMapStep
<1>5. CASE ~r.ok
  <2>1. /\ map' = [map EXCEPT ![r.m] = r.rec] /\ thr' = [thr EXCEPT ![t] = Idle]
        /\ leaked' = IF r.rec.state = "live" THEN leaked \cup {r.m} ELSE leaked
    BY <1>1, <1>5 DEF Acquire
  <2>2. /\ thr' \in [Threads -> ThreadRecord] /\ thr'[t] = Idle
        /\ \A u \in Threads \ {t} : thr'[u] = thr[u]
    BY <2>1, IdleFacts, ThreadStore
  <2>3. thr'[t].pc \in Invoking
    BY <2>2, IdleFacts DEF Invoking
  <2>4. /\ (Mapper(r.m)' <=> Mapper(r.m)) /\ (Unmapper(r.m)' <=> Unmapper(r.m))
        /\ Users(r.m)' \subseteq Users(r.m)
    BY <1>2, <1>3, <2>2, <2>3, IdleFacts, InvokerMoves, MovedUsers
  <2>5. MapOK(r.m)' /\ ~r.rec.dsp
    BY <1>3, <1>5, <2>1, <2>4, FailedMap
  <2>6. \A n \in Maps \ {r.m} : /\ thr'[t].buf = n <=> thr[t].buf = n
                                /\ (n \in leaked') <=> (n \in leaked)
    BY <1>2, <2>1, <2>2, IdleFacts
  <2>7. /\ thr'[t].m = NULL /\ thr'[t].pc = "idle" /\ thr'[t].buf = NULL
        /\ leaked' \subseteq Maps
    BY <1>3, <2>1, <2>2, IdleFacts
  <2> QED
    BY <1>2, <1>3, <2>1, <2>2, <2>3, <2>5, <2>6, <2>7, OneMapStep
<1> QED
  BY <1>4, <1>5

\* get_args maps the DMA handle and counts it.
LEMMA GetArgsHandleStep ==
    ASSUME IndInv, NEW t \in Threads, NEW fd \in Fds, GetArgsHandle(t, fd)
    PROVE  IndInv'
<1>1. PICK r \in MmapCreate(fd, "nova", FALSE) :
        /\ Acquire(r, IF r.ok THEN [r.rec EXCEPT !.dma = @ + 1] ELSE r.rec)
        /\ thr' = [thr EXCEPT ![t].pc = IF r.ok THEN "check" ELSE "free",
                              ![t].dma = IF r.ok THEN fd ELSE NULL]
  BY DEF GetArgsHandle
<1>2. /\ phase = "open" /\ thr[t].pc = "handle" /\ UNCHANGED <<imutex, phase, closefail>>
      /\ thr[t].buf \in Maps /\ thr[t].m = NULL /\ thr[t].pc \in Invoking
      /\ thr[t] \in ThreadRecord
  BY DEF GetArgsHandle, IndInv, ThreadInv, Invoking, TypeOK, ThreadRecord
<1>3. /\ "nova" \in {"va", "nova"} /\ FALSE \in BOOLEAN /\ r.m \in Maps
      /\ r.rec \in MapRecord /\ leaked \subseteq Maps /\ map[r.m] \in MapRecord
  BY CreateFacts DEF IndInv, TypeOK, MapRecord
<1>4. PICK pc \in {"check", "free"}, d \in Fds \cup {NULL} :
        /\ pc = (IF r.ok THEN "check" ELSE "free") /\ d = (IF r.ok THEN fd ELSE NULL)
        /\ thr' = [thr EXCEPT ![t].pc = pc, ![t].dma = d]
  BY <1>1
<1> DEFINE k == [thr[t] EXCEPT !.pc = pc, !.dma = d]
<1>5. thr' = [thr EXCEPT ![t] = k]
  <2>1. thr \in [Threads -> ThreadRecord]
    BY DEF IndInv, TypeOK, ThreadRecord
  <2> QED
    BY <1>4, <2>1
<1>6. k \in ThreadRecord /\ k.pc = pc /\ k.buf = thr[t].buf /\ k.m = NULL
  BY <1>2 DEF ThreadRecord
<1> HIDE DEF k
<1>7. /\ thr' \in [Threads -> ThreadRecord] /\ thr'[t] = k
      /\ \A u \in Threads \ {t} : thr'[u] = thr[u]
  BY <1>5, <1>6, ThreadStore
<1>8. /\ thr'[t].pc \in Invoking
      /\ thr'[t].pc \in {"handle", "check", "flight"} => thr'[t].buf \in Maps
      /\ thr'[t].pc # "idle"
  BY <1>2, <1>4, <1>6, <1>7 DEF Invoking
<1>9. /\ (Mapper(r.m)' <=> Mapper(r.m)) /\ (Unmapper(r.m)' <=> Unmapper(r.m))
      /\ Users(r.m)' = Users(r.m)
  <2>1. Users(r.m)' = Users(r.m)
    BY <1>6, <1>7 DEF Users
  <2> QED
    BY <1>2, <1>7, <1>8, <2>1, InvokerMoves
<1>10. CASE r.ok
  <2> DEFINE c == r.rec.dma + 1
             q == [r.rec EXCEPT !.dma = c]
  <2>1. c \in Nat
    BY <1>3 DEF MapRecord
  <2>2. q \in MapRecord
    BY <1>3, <2>1 DEF MapRecord
  <2>3. /\ SameMap(q, r.rec) /\ q.refs = r.rec.refs /\ q.ctx = r.rec.ctx
        /\ q.dma = r.rec.dma + 1
    BY <1>3, <2>1 DEF MapRecord, SameMap
  <2>4. map' = [map EXCEPT ![r.m] = q] /\ leaked' = leaked
    BY <1>1, <1>10 DEF Acquire
  <2> HIDE DEF q, c
  <2>5. map'[r.m] = q
    BY <1>3, <2>4 DEF IndInv, TypeOK
  <2>6. /\ q.state = "live" /\ q.listed /\ (q.dsp => map[r.m].dsp)
        /\ ~q.short => q.refs >= 1 /\ q.refs >= Claims(q, Mapper(r.m)')
        /\ r.m \notin leaked /\ ~Unmapper(r.m)
        /\ IsFiniteSet(Users(r.m)) /\ r.rec.ctx = Cardinality(Users(r.m))
    BY <1>3, <1>9, <1>10, <2>2, <2>3, AcquiredMap
  <2>7. MapOK(r.m)'
    BY <1>3, <1>9, <2>3, <2>4, <2>5, <2>6, ListedMap
  <2> QED
    BY <1>2, <1>3, <1>6, <1>7, <1>8, <2>2, <2>4, <2>6, <2>7, OneMapStep
<1>11. CASE ~r.ok
  <2>1. /\ map' = [map EXCEPT ![r.m] = r.rec]
        /\ leaked' = IF r.rec.state = "live" THEN leaked \cup {r.m} ELSE leaked
    BY <1>1, <1>11 DEF Acquire
  <2>2. MapOK(r.m)' /\ ~r.rec.dsp
    BY <1>3, <1>9, <1>11, <2>1, FailedMap
  <2> QED
    BY <1>2, <1>3, <1>6, <1>7, <1>8, <2>1, <2>2, OneMapStep
<1> QED
  BY <1>10, <1>11

\* get_args gives up a handle it has just mapped.
LEMMA GetArgsRollbackStep ==
    ASSUME IndInv, NEW t \in Threads, NEW fd \in Fds, GetArgsRollback(t, fd)
    PROVE  IndInv'
<1> DEFINE k == [thr[t] EXCEPT !.pc = "free"]
<1>1. PICK r \in MmapCreate(fd, "nova", FALSE) :
        r.ok /\ map' = [map EXCEPT ![r.m] = Put(r.rec)]
  BY DEF GetArgsRollback
<1>2. /\ phase = "open" /\ UNCHANGED <<imutex, phase, leaked, closefail>>
      /\ thr[t].m = NULL /\ thr[t].pc \in Invoking /\ thr[t] \in ThreadRecord
      /\ thr' = [thr EXCEPT ![t] = k]
  BY DEF GetArgsRollback, IndInv, ThreadInv, Invoking, TypeOK, ThreadRecord
<1>3. k \in ThreadRecord /\ k.pc = "free" /\ k.buf = thr[t].buf /\ k.m = NULL
  BY <1>2 DEF ThreadRecord
<1> HIDE DEF k
<1>4. /\ thr' \in [Threads -> ThreadRecord] /\ thr'[t] = k
      /\ \A u \in Threads \ {t} : thr'[u] = thr[u]
  BY <1>2, <1>3, ThreadStore
<1>5. thr'[t].pc \in Invoking
  BY <1>3, <1>4 DEF Invoking
<1> PICK m \in Maps, s \in MapRecord : m = r.m /\ s = r.rec
  BY CreateFacts DEF IndInv
<1>6. /\ (Mapper(m)' <=> Mapper(m)) /\ (Unmapper(m)' <=> Unmapper(m))
      /\ Users(m)' = Users(m)
  <2>1. Users(m)' = Users(m)
    BY <1>3, <1>4 DEF Users
  <2> QED
    BY <1>2, <1>4, <1>5, <2>1, InvokerMoves
<1> PICK c \in Nat : c = s.ctx + 1
  BY DEF MapRecord
<1> DEFINE q == [s EXCEPT !.ctx = c]
<1>7. q \in MapRecord
  BY DEF MapRecord
<1>8. SameMap(q, s) /\ q.refs = s.refs /\ q.ctx = s.ctx + 1 /\ q.dma = s.dma
  BY DEF MapRecord, SameMap
<1> HIDE DEF q
<1>9. /\ q.state = "live" /\ q.listed /\ (q.dsp => map[m].dsp)
      /\ ~q.short => q.refs >= 1 /\ q.refs >= Claims(q, Mapper(m)')
      /\ m \notin leaked /\ ~Unmapper(m)
      /\ IsFiniteSet(Users(m)) /\ s.ctx = Cardinality(Users(m))
  <2>1. "nova" \in {"va", "nova"} /\ FALSE \in BOOLEAN
    OBVIOUS
  <2> QED
    BY <1>1, <1>6, <1>7, <1>8, <2>1, AcquiredMap
<1>10. s.state = "live" /\ s.listed /\ (s.dsp => map[m].dsp) /\ (s.short <=> q.short)
  BY <1>8, <1>9 DEF SameMap
<1>11. ~s.short => s.refs >= Claims(s, Mapper(m)') + 1
  <2>1. Claims(q, Mapper(m)') = Claims(s, Mapper(m)') + 1
    <3>1. /\ One(q.keep) = One(s.keep) /\ One(q.dsp) = One(s.dsp)
          /\ One(q.dma > 0) = One(s.dma > 0)
      BY <1>8 DEF SameMap, One
    <3>2. PICK a \in Nat, b \in Nat, d \in Nat, e \in Nat, f \in Nat :
             /\ a = s.ctx /\ b = One(s.dma > 0) /\ d = One(s.keep)
             /\ e = One(s.dsp) /\ f = One(Mapper(m)')
      BY DEF MapRecord, One
    <3>3. /\ Claims(q, Mapper(m)') = a + 1 + b + d + e + f
          /\ Claims(s, Mapper(m)') = a + b + d + e + f
      BY <1>8, <3>1, <3>2 DEF Claims
    <3> QED
      BY <3>3
  <2> QED
    BY <1>8, <1>9, <1>10, <2>1
<1>12. map'[m] = Put(s) /\ map' = [map EXCEPT ![m] = Put(s)]
  BY <1>1 DEF IndInv, TypeOK
<1>13. MapOK(m)'
  BY <1>2, <1>6, <1>9, <1>10, <1>11, <1>12, PutListed
<1>14. Put(s) \in MapRecord /\ (Put(s).dsp => map[m].dsp)
  BY <1>10, PutFacts, PutClaims
<1>15. /\ thr'[t].pc = "free" /\ thr'[t].m = NULL /\ thr'[t].buf = thr[t].buf
       /\ leaked' \subseteq Maps /\ leaked' = leaked
  BY <1>2, <1>3, <1>4 DEF IndInv, TypeOK
<1> QED
  BY <1>2, <1>4, <1>5, <1>12, <1>13, <1>14, <1>15, OneMapStep

\* put_args and context_free drop a buffer's context and its reference.
LEMMA DropStep ==
    ASSUME IndInv, NEW t \in Threads, thr[t].pc \in Invoking,
           NEW m \in Maps, thr[t].buf = m, map' = [map EXCEPT ![m] = DropCtx(@)],
           NEW k \in ThreadRecord, thr' = [thr EXCEPT ![t] = k],
           k.pc \in {"idle", "fdlist"}, k.buf = NULL, k.m = NULL,
           phase # "open" => k.pc = "idle",
           UNCHANGED <<imutex, phase, leaked, closefail>>
    PROVE  IndInv'
<1>1. /\ thr' \in [Threads -> ThreadRecord] /\ thr'[t] = k
      /\ \A u \in Threads \ {t} : thr'[u] = thr[u]
  BY ThreadStore
<1>2. thr'[t].pc \in Invoking
  BY <1>1 DEF Invoking
<1>3. /\ MapOK(m) /\ map[m] \in MapRecord /\ leaked \subseteq Maps /\ NULL \notin Maps
      /\ map[m].ctx \in Nat
  BY ConstAssumption DEF IndInv, TypeOK, MapRecord
<1>4. t \in Users(m) /\ Users(m)' = Users(m) \ {t}
  BY <1>1, <1>3, MovedUsers DEF Users
<1>5. /\ map[m].listed /\ map[m].state = "live" /\ ~Unmapper(m)
      /\ IsFiniteSet(Users(m)) /\ map[m].ctx = Cardinality(Users(m))
  BY <1>3, <1>4 DEF MapOK, UsersOK, ListOK, IoctlOK
<1>6. /\ IsFiniteSet(Users(m)') /\ map[m].ctx > 0
      /\ map[m].ctx - 1 = Cardinality(Users(m)')
  <2>1. IsFiniteSet(Users(m)') /\ Cardinality(Users(m)') = Cardinality(Users(m)) - 1
    BY <1>4, <1>5, FS_RemoveElement
  <2>2. Cardinality(Users(m)') \in Nat
    BY <2>1, FS_CardinalityType
  <2> QED
    BY <1>3, <1>5, <2>1, <2>2
<1> PICK c \in Nat : c = map[m].ctx - 1
  BY <1>3, <1>6
<1> DEFINE r == [map[m] EXCEPT !.ctx = c]
<1>7. r \in MapRecord
  BY <1>3 DEF MapRecord
<1>8. SameMap(r, map[m]) /\ r.refs = map[m].refs /\ r.ctx = c /\ r.dma = map[m].dma
  BY <1>3 DEF MapRecord, SameMap
<1>9. map' = [map EXCEPT ![m] = Put(r)] /\ map'[m] = Put(r)
  BY <1>6 DEF DropCtx, IndInv, TypeOK
<1> HIDE DEF r
<1>10. (Mapper(m)' <=> Mapper(m)) /\ (Unmapper(m)' <=> Unmapper(m))
  BY <1>1, <1>2, InvokerMoves
<1>11. ~r.short => r.refs >= Claims(r, Mapper(m)') + 1
  <2>1. ~r.short => map[m].refs >= Claims(map[m], Mapper(m))
    BY <1>3, <1>5, <1>8 DEF MapOK, ListOK, SameMap
  <2>2. Claims(map[m], Mapper(m)) = Claims(r, Mapper(m)') + 1
    <3>1. /\ One(r.keep) = One(map[m].keep) /\ One(r.dsp) = One(map[m].dsp)
          /\ One(Mapper(m)') = One(Mapper(m)) /\ One(r.dma > 0) = One(map[m].dma > 0)
      BY <1>8, <1>10 DEF SameMap, One
    <3>2. /\ One(map[m].keep) \in Nat /\ One(map[m].dsp) \in Nat
          /\ One(Mapper(m)) \in Nat /\ One(map[m].dma > 0) \in Nat
      BY DEF One
    <3>3. map[m].ctx = r.ctx + 1
      BY <1>3, <1>8
    <3> QED
      BY <1>8, <3>1, <3>2, <3>3 DEF Claims
  <2> QED
    BY <1>8, <2>1, <2>2
<1>12. MapOK(m)'
  BY <1>3, <1>5, <1>6, <1>7, <1>8, <1>9, <1>10, <1>11, PutMap DEF SameMap
<1>13. Put(r) \in MapRecord /\ (Put(r).dsp <=> r.dsp)
  BY <1>5, <1>7, <1>8, PutFacts, PutClaims DEF SameMap
<1>14. \A n \in Maps \ {m} : /\ thr'[t].buf = n <=> thr[t].buf = n
                             /\ (n \in leaked') <=> (n \in leaked)
  BY <1>1, <1>3
<1>15. /\ thr'[t].m = NULL /\ thr'[t].pc \notin {"handle", "check", "flight"}
       /\ thr'[t].buf = NULL /\ phase # "open" => thr'[t].pc = "idle"
       /\ Put(r).dsp => map[m].dsp
  BY <1>1, <1>8, <1>13 DEF SameMap
<1> QED
  BY <1>1, <1>2, <1>3, <1>9, <1>12, <1>13, <1>14, <1>15, OneMapStep

\* A step of an invocation that touches no map.
LEMMA QuietMove ==
    ASSUME IndInv, NEW t \in Threads, thr[t].pc \in Invoking,
           NEW k \in ThreadRecord, thr' = [thr EXCEPT ![t] = k],
           k.pc \in {"idle", "fdlist"}, k.buf = thr[t].buf, k.m = NULL,
           k.pc = "idle" => k.buf = NULL, phase # "open" => k.pc = "idle",
           UNCHANGED <<map, imutex, phase, leaked, closefail>>
    PROVE  IndInv'
<1>1. /\ thr' \in [Threads -> ThreadRecord] /\ thr'[t] = k
      /\ \A u \in Threads \ {t} : thr'[u] = thr[u]
  BY ThreadStore
<1>2. thr'[t].pc \in Invoking
  BY <1>1 DEF Invoking
<1>3. \A m \in Maps : MapOK(m)'
  <2>1. \A m \in Maps : Users(m)' = Users(m)
    BY <1>1 DEF Users
  <2> QED
    BY <1>1, <1>2, <2>1, InvokerMoves, FrameMap DEF IndInv
<1>4. map' \in [Maps -> MapRecord] /\ leaked' \subseteq Maps
  BY DEF IndInv, TypeOK, MapRecord
<1> QED
  BY <1>1, <1>2, <1>3, <1>4, InvokerStep

\* put_args: the map of the call loses its context reference.
LEMMA PutArgsBufStep ==
    ASSUME IndInv, NEW t \in Threads, PutArgsBuf(t) PROVE IndInv'
<1>1. /\ thr[t].pc = "flight" /\ phase = "open" /\ UNCHANGED <<imutex, phase, leaked, closefail>>
      /\ thr[t] \in ThreadRecord /\ thr[t].buf \in Maps /\ thr[t].m = NULL
      /\ thr[t].pc \in Invoking /\ thr \in [Threads -> ThreadRecord]
  BY DEF PutArgsBuf, IndInv, TypeOK, ThreadRecord, ThreadInv, Invoking
<1>2. CASE thr[t].out
  <2> DEFINE k == [thr[t] EXCEPT !.pc = "fdlist", !.buf = NULL]
  <2>1. k \in ThreadRecord
    BY <1>1 DEF ThreadRecord
  <2>2. k.pc = "fdlist" /\ k.buf = NULL /\ k.m = NULL
    BY <1>1 DEF ThreadRecord
  <2>3. thr' = [thr EXCEPT ![t] = k] /\ map' = [map EXCEPT ![thr[t].buf] = DropCtx(@)]
    BY <1>1, <1>2 DEF PutArgsBuf
  <2> HIDE DEF k
  <2> QED
    BY <1>1, <2>1, <2>2, <2>3, DropStep
<1>3. CASE ~thr[t].out
  <2> DEFINE k == [thr[t] EXCEPT !.pc = "fdlist"]
  <2>1. k \in ThreadRecord
    BY <1>1 DEF ThreadRecord
  <2>2. k.pc = "fdlist" /\ k.buf = thr[t].buf /\ k.m = NULL
    BY <1>1 DEF ThreadRecord
  <2>3. thr' = [thr EXCEPT ![t] = k] /\ UNCHANGED map
    BY <1>1, <1>3 DEF PutArgsBuf
  <2> HIDE DEF k
  <2> QED
    BY <1>1, <2>1, <2>2, <2>3, QuietMove
<1> QED
  BY <1>2, <1>3

\* context_free: the map of the call is given up.
LEMMA ContextFreeStep ==
    ASSUME IndInv, NEW t \in Threads, ContextFree(t) PROVE IndInv'
<1>1. /\ thr[t].pc \in {"free", "flight"} /\ UNCHANGED <<imutex, phase, leaked, closefail>>
      /\ thr[t].buf \in Maps \cup {NULL} /\ thr[t].pc \in Invoking
      /\ thr' = [thr EXCEPT ![t] = Idle]
  BY DEF ContextFree, IndInv, TypeOK, Invoking
<1>2. CASE thr[t].buf = NULL
  <2>1. UNCHANGED map
    BY <1>2 DEF ContextFree
  <2> QED
    BY <1>1, <1>2, <2>1, IdleFacts, QuietMove
<1>3. CASE thr[t].buf \in Maps
  <2>1. map' = [map EXCEPT ![thr[t].buf] = DropCtx(@)]
    BY <1>3, ConstAssumption DEF ContextFree
  <2> QED
    BY <1>1, <1>3, <2>1, IdleFacts, DropStep
<1> QED
  BY <1>1, <1>2, <1>3

\* put_args drops the handles the DSP has released, all their counts at once.
LEMMA PutArgsFdListStep ==
    ASSUME IndInv, NEW t \in Threads, NEW ms \in SUBSET Maps, PutArgsFdList(t, ms)
    PROVE  IndInv'
<1> DEFINE Done(m) == m \in ms /\ map[m].dma > 0
           k == [thr[t] EXCEPT !.pc = "free"]
<1>1. /\ thr[t].pc = "fdlist" /\ UNCHANGED <<imutex, phase, leaked, closefail>>
      /\ thr[t] \in ThreadRecord /\ thr[t].m = NULL /\ phase = "open"
      /\ thr[t].pc \in Invoking /\ thr \in [Threads -> ThreadRecord]
  BY DEF PutArgsFdList, IndInv, TypeOK, ThreadRecord, ThreadInv, Invoking
<1>2. /\ map' = [m \in Maps |-> IF Done(m) THEN Put([map[m] EXCEPT !.dma = 0]) ELSE map[m]]
      /\ thr' = [thr EXCEPT ![t] = k]
  BY <1>1 DEF PutArgsFdList
<1>3. k \in ThreadRecord
  BY <1>1 DEF ThreadRecord
<1>4. k.pc = "free" /\ k.buf = thr[t].buf /\ k.m = NULL
  BY <1>1 DEF ThreadRecord
<1> HIDE DEF k
<1>5. /\ thr' \in [Threads -> ThreadRecord] /\ thr'[t] = k
      /\ \A u \in Threads \ {t} : thr'[u] = thr[u]
  BY <1>2, <1>3, ThreadStore
<1>6. thr'[t].pc \in Invoking
  BY <1>4, <1>5 DEF Invoking
<1>7. \A m \in Maps : /\ Users(m)' = Users(m) /\ (Mapper(m)' <=> Mapper(m))
                      /\ (Unmapper(m)' <=> Unmapper(m))
  <2>1. \A m \in Maps : Users(m)' = Users(m)
    BY <1>4, <1>5 DEF Users
  <2> QED
    BY <1>1, <1>5, <1>6, <2>1, InvokerMoves
<1>8. \A m \in Maps : Done(m) => map[m].listed /\ map[m].dma > 0
  BY DEF PutArgsFdList
<1> HIDE DEF Done
<1>9. \A m \in Maps : map'[m] \in MapRecord /\ (map'[m].dsp => map[m].dsp) /\ MapOK(m)'
  <2> SUFFICES ASSUME NEW m \in Maps
               PROVE  map'[m] \in MapRecord /\ (map'[m].dsp => map[m].dsp) /\ MapOK(m)'
    OBVIOUS
  <2>1. map[m] \in MapRecord /\ MapOK(m)
    BY DEF IndInv, TypeOK, MapRecord
  <2>2. CASE ~Done(m)
    <3>1. map'[m] = map[m]
      BY <1>2, <2>2
    <3> QED
      BY <1>1, <1>7, <2>1, <3>1, FrameMap
  <2>3. CASE Done(m)
    <3> DEFINE r == [map[m] EXCEPT !.dma = 0]
    <3>1. r \in MapRecord
      BY <2>1 DEF MapRecord
    <3>2. SameMap(r, map[m]) /\ r.refs = map[m].refs /\ r.ctx = map[m].ctx /\ r.dma = 0
      BY <2>1 DEF MapRecord, SameMap
    <3>3. map'[m] = Put(r)
      BY <1>2, <2>3
    <3> HIDE DEF r
    <3>4. /\ map[m].listed /\ map[m].state = "live" /\ ~Unmapper(m)
          /\ IsFiniteSet(Users(m)) /\ map[m].ctx = Cardinality(Users(m))
      BY <1>8, <2>1, <2>3 DEF MapOK, UsersOK, ListOK, IoctlOK
    <3>5. ~r.short => r.refs >= Claims(r, Mapper(m)') + 1
      <4>1. ~r.short => map[m].refs >= Claims(map[m], Mapper(m))
        BY <2>1, <3>2, <3>4 DEF MapOK, ListOK, SameMap
      <4>2. Claims(map[m], Mapper(m)) = Claims(r, Mapper(m)') + 1
        <5>1. /\ One(r.keep) = One(map[m].keep) /\ One(r.dsp) = One(map[m].dsp)
              /\ One(Mapper(m)') = One(Mapper(m))
              /\ One(r.dma > 0) = 0 /\ One(map[m].dma > 0) = 1
          BY <1>7, <1>8, <2>3, <3>2 DEF SameMap, One
        <5>2. /\ One(map[m].keep) \in Nat /\ One(map[m].dsp) \in Nat
              /\ One(Mapper(m)) \in Nat /\ map[m].ctx \in Nat
          BY <2>1 DEF One, MapRecord
        <5> QED
          BY <3>2, <5>1, <5>2 DEF Claims
      <4> QED
        BY <3>2, <4>1, <4>2
    <3>6. MapOK(m)'
      BY <1>1, <1>7, <2>1, <3>1, <3>2, <3>3, <3>4, <3>5, PutMap DEF SameMap
    <3>7. Put(r) \in MapRecord /\ (Put(r).dsp <=> r.dsp)
      BY <3>1, <3>2, <3>4, PutFacts, PutClaims DEF SameMap
    <3> QED
      BY <3>2, <3>3, <3>6, <3>7 DEF SameMap
  <2> QED
    BY <2>2, <2>3
<1>10. map' \in [Maps -> MapRecord] /\ leaked' \subseteq Maps
  <2>1. leaked' \subseteq Maps
    BY <1>1 DEF IndInv, TypeOK
  <2> QED
    BY <1>2, <1>9, <2>1
<1> QED
  BY <1>1, <1>4, <1>5, <1>6, <1>9, <1>10, InvokerStep

-----------------------------------------------------------------------------
(* The mapping ioctls.                                                     *)

IoctlPcs == MappingPcs \cup UnmappingPcs

\* internal_map_mutex: while a thread is inside a mapping ioctl, or may enter
\* one, no other is inside.
LEMMA Alone ==
    ASSUME IndInv, NEW t \in Threads, thr[t].pc \in IoctlPcs \/ imutex = NULL
    PROVE  \A u \in Threads \ {t} : thr[u].pc \notin IoctlPcs
<1>1. NULL \notin Threads
  BY ConstAssumption
<1> QED
  BY <1>1 DEF IndInv, ThreadInv, IoctlPcs

\* Who holds a map when the thread t alone may be inside an ioctl.
LEMMA AloneHolds ==
    ASSUME NEW t \in Threads, \A u \in Threads \ {t} : thr[u].pc \notin IoctlPcs,
           \A u \in Threads \ {t} : thr'[u] = thr[u],
           thr[t].buf = NULL, thr'[t].buf = NULL
    PROVE  \A m \in Maps :
             /\ Mapper(m) <=> thr[t].pc \in MappingPcs /\ thr[t].m = m
             /\ Unmapper(m) <=> thr[t].pc \in UnmappingPcs /\ thr[t].m = m
             /\ Mapper(m)' <=> thr'[t].pc \in MappingPcs /\ thr'[t].m = m
             /\ Unmapper(m)' <=> thr'[t].pc \in UnmappingPcs /\ thr'[t].m = m
             /\ Users(m)' = Users(m)
<1>1. \A m \in Maps : Users(m)' = Users(m)
  BY DEF Users
<1>2. \A m \in Maps :
             /\ Mapper(m) <=> thr[t].pc \in MappingPcs /\ thr[t].m = m
             /\ Mapper(m)' <=> thr'[t].pc \in MappingPcs /\ thr'[t].m = m
  BY DEF Mapper, IoctlPcs
<1>3. \A m \in Maps :
             /\ Unmapper(m) <=> thr[t].pc \in UnmappingPcs /\ thr[t].m = m
             /\ Unmapper(m)' <=> thr'[t].pc \in UnmappingPcs /\ thr'[t].m = m
  BY DEF Unmapper, IoctlPcs
<1> QED
  BY <1>1, <1>2, <1>3

\* A step of an ioctl on its map m, which leaves m right.
LEMMA IoctlStep ==
    ASSUME IndInv, NEW t \in Threads, phase = "open",
           \A u \in Threads \ {t} : thr[u].pc \notin IoctlPcs,
           thr' \in [Threads -> ThreadRecord],
           \A u \in Threads \ {t} : thr'[u] = thr[u],
           thr[t].buf = NULL, thr'[t].buf = NULL,
           NEW m \in Maps, thr[t].m \in {m, NULL},
           \/ thr'[t].pc = "idle" /\ thr'[t].m = NULL
           \/ thr'[t].pc \in IoctlPcs /\ thr'[t].m = m /\ imutex' = t,
           thr'[t].pc \in UnmappingPcs => thr'[t].op \in {"munmap", "mem_unmap"},
           NEW r \in MapRecord, map' = [map EXCEPT ![m] = r],
           thr'[t].pc = "unmapfree" => ~r.dsp,
           leaked' \in {leaked, leaked \cup {m}},
           imutex' \in Threads \cup {NULL}, UNCHANGED <<phase, closefail>>,
           MapOK(m)'
    PROVE  IndInv'
<1>1. thr'[t].m \in {m, NULL}
  OBVIOUS
<1>2. /\ map' \in [Maps -> MapRecord] /\ map'[m] = r
      /\ \A n \in Maps \ {m} : map'[n] = map[n]
  BY DEF IndInv, TypeOK, MapRecord
<1>3. \A n \in Maps \ {m} : /\ (Mapper(n)' <=> Mapper(n)) /\ (Unmapper(n)' <=> Unmapper(n))
                            /\ Users(n)' = Users(n)
  <2>1. NULL \notin Maps
    BY ConstAssumption
  <2> QED
    BY <1>1, <2>1, AloneHolds
<1>4. \A n \in Maps : MapOK(n)'
  <2>1. \A n \in Maps \ {m} : (n \in leaked') <=> (n \in leaked)
    OBVIOUS
  <2> QED
    BY <1>2, <1>3, <2>1, FrameMap DEF IndInv
<1>5. TypeOK'
  <2>1. leaked' \subseteq Maps
    BY DEF IndInv, TypeOK
  <2> QED
    BY <1>2, <2>1 DEF IndInv, TypeOK, MapRecord, ThreadRecord
<1>6. ThreadInv'
  <2>1. \A u \in Threads \ {t} : thr'[u].pc \notin IoctlPcs
    OBVIOUS
  <2>2. \A u \in Threads \ {t} :
          /\ thr'[u].pc \in Invoking => thr'[u].m = NULL
          /\ thr'[u].pc \in {"handle", "check", "flight"} => thr'[u].buf \in Maps
          /\ thr'[u].pc = "idle" => thr'[u].buf = NULL
    BY DEF IndInv, ThreadInv
  <2> PICK k \in ThreadRecord : k = thr'[t]
    OBVIOUS
  <2>3. /\ k.pc \in Invoking => k.pc = "idle"
        /\ k.pc \notin {"handle", "check", "flight"}
    BY DEF Invoking, IoctlPcs, MappingPcs, UnmappingPcs
  <2>4. k.pc = "unmapfree" => ~map'[k.m].dsp
    BY <1>2 DEF IoctlPcs
  <2>5. /\ k.pc \in IoctlPcs => imutex' = t /\ k.m \in Maps /\ k.buf = NULL
        /\ k.pc \in Invoking => k.m = NULL
        /\ k.buf = NULL
        /\ k.pc \in UnmappingPcs => k.op \in {"munmap", "mem_unmap"}
    BY <2>3 DEF IoctlPcs, MappingPcs, UnmappingPcs
  <2>6. "unmapfree" \in IoctlPcs
    BY DEF IoctlPcs, UnmappingPcs
  <2> QED
    BY <2>1, <2>2, <2>3, <2>4, <2>5, <2>6 DEF ThreadInv, IoctlPcs
<1> QED
  BY <1>4, <1>5, <1>6 DEF IndInv

\* The last step of an ioctl: the thread lets go of m and of the mutex.
LEMMA FinishStep ==
    ASSUME IndInv, NEW t \in Threads, phase = "open",
           \A u \in Threads \ {t} : thr[u].pc \notin IoctlPcs,
           thr' = [thr EXCEPT ![t] = Idle], thr[t].buf = NULL,
           NEW m \in Maps, thr[t].m = m,
           NEW r \in MapRecord, map' = [map EXCEPT ![m] = r],
           leaked' \in {leaked, leaked \cup {m}},
           imutex' = NULL, UNCHANGED <<phase, closefail>>, MapOK(m)'
    PROVE  IndInv'
<1>1. /\ thr' \in [Threads -> ThreadRecord] /\ thr'[t] = Idle
      /\ \A u \in Threads \ {t} : thr'[u] = thr[u]
  BY IdleFacts, ThreadStore
<1>2. /\ thr'[t].pc = "idle" /\ thr'[t].buf = NULL /\ thr'[t].m = NULL
  BY <1>1, IdleFacts
<1>3. thr'[t].pc \notin UnmappingPcs /\ thr'[t].pc # "unmapfree"
  BY <1>2 DEF UnmappingPcs
<1>4. thr[t].m \in {m, NULL} /\ imutex' \in Threads \cup {NULL}
  OBVIOUS
<1> QED
  BY <1>1, <1>2, <1>3, <1>4, IoctlStep

\* What a thread inside a mapping ioctl knows.
LEMMA InIoctl ==
    ASSUME IndInv, NEW t \in Threads, thr[t].pc \in IoctlPcs
    PROVE  /\ thr[t] \in ThreadRecord /\ thr[t].m \in Maps /\ thr[t].buf = NULL
           /\ imutex = t /\ phase = "open" /\ map[thr[t].m] \in MapRecord
           /\ MapOK(thr[t].m) /\ leaked \subseteq Maps
           /\ thr \in [Threads -> ThreadRecord] /\ map \in [Maps -> MapRecord]
<1>1. /\ thr[t].m \in Maps /\ thr[t].buf = NULL /\ imutex = t /\ phase = "open"
  BY DEF IndInv, ThreadInv, IoctlPcs, MappingPcs, UnmappingPcs
<1>2. /\ thr \in [Threads -> ThreadRecord] /\ map \in [Maps -> MapRecord]
      /\ leaked \subseteq Maps
  BY DEF IndInv, TypeOK, ThreadRecord, MapRecord
<1> QED
  BY <1>1, <1>2 DEF IndInv

\* hfastrpc_mmap and hfastrpc_mem_map get the map.
LEMMA MapEnterStep ==
    ASSUME IndInv, NEW t \in Threads, NEW fd \in Fds, NEW keep \in BOOLEAN,
           NEW op \in {"mmap", "mem_map"}, MapEnter(t, fd, keep, op)
    PROVE  IndInv'
<1>1. PICK r \in MmapCreate(fd, "va", keep) :
        /\ Acquire(r, r.rec)
        /\ IF r.ok
           THEN /\ imutex' = t
                /\ thr' = [thr EXCEPT ![t] =
                       [Idle EXCEPT !.m = r.m, !.op = op,
                            !.pc = IF op = "mem_map" /\ r.rec.dsp
                                   THEN "mapfail" ELSE "mapdsp"]]
           ELSE UNCHANGED <<imutex, thr>>
  BY DEF MapEnter
<1>2. /\ phase = "open" /\ thr[t].pc = "idle" /\ imutex = NULL /\ UNCHANGED <<phase, closefail>>
      /\ thr[t].buf = NULL /\ thr[t].m = NULL /\ thr[t] \in ThreadRecord
      /\ thr \in [Threads -> ThreadRecord] /\ "idle" \notin IoctlPcs
  BY DEF MapEnter, IndInv, ThreadInv, Invoking, TypeOK, ThreadRecord, IoctlPcs,
         MappingPcs, UnmappingPcs
<1>3. /\ "va" \in {"va", "nova"} /\ r.m \in Maps /\ r.rec \in MapRecord
      /\ leaked \subseteq Maps /\ NULL \notin Maps
  BY CreateFacts, ConstAssumption DEF IndInv, TypeOK
<1>4. \A u \in Threads \ {t} : thr[u].pc \notin IoctlPcs
  BY <1>2, Alone
<1>5. CASE r.ok
  <2> PICK pc \in MappingPcs : pc = IF op = "mem_map" /\ r.rec.dsp
                                    THEN "mapfail" ELSE "mapdsp"
    BY DEF MappingPcs
  <2> DEFINE k == [Idle EXCEPT !.m = r.m, !.op = op, !.pc = pc]
  <2>1. thr' = [thr EXCEPT ![t] = k] /\ imutex' = t
    BY <1>1, <1>5
  <2>2. /\ map' = [map EXCEPT ![r.m] = r.rec] /\ leaked' = leaked
    BY <1>1, <1>5 DEF Acquire
  <2>3. k \in ThreadRecord
    BY <1>3 DEF Idle, ThreadRecord, MappingPcs
  <2>4. k.pc = pc /\ k.m = r.m /\ k.buf = NULL
    BY DEF Idle
  <2>5. pc \in IoctlPcs /\ pc \notin UnmappingPcs
    BY DEF IoctlPcs, MappingPcs, UnmappingPcs
  <2> HIDE DEF k
  <2>6. /\ thr'[t] = k /\ \A u \in Threads \ {t} : thr'[u] = thr[u]
        /\ thr' \in [Threads -> ThreadRecord]
    BY <2>1, <2>3, ThreadStore
  <2>7. ~Mapper(r.m) /\ Mapper(r.m)' /\ ~Unmapper(r.m)' /\ Users(r.m)' = Users(r.m)
    BY <1>2, <1>3, <1>4, <2>4, <2>5, <2>6, AloneHolds DEF IoctlPcs
  <2>8. SameMap(r.rec, r.rec) /\ map'[r.m] = r.rec
    BY <1>3, <2>2 DEF SameMap, IndInv, TypeOK
  <2>9. /\ r.rec.state = "live" /\ r.rec.listed
        /\ ~r.rec.short => r.rec.refs >= 1 /\ r.rec.refs >= Claims(r.rec, Mapper(r.m)')
        /\ r.m \notin leaked
        /\ IsFiniteSet(Users(r.m)) /\ r.rec.ctx = Cardinality(Users(r.m))
    BY <1>3, <1>5, <2>7, <2>8, AcquiredMap
  <2>10. MapOK(r.m)'
    BY <1>3, <2>2, <2>7, <2>8, <2>9, ListedMap
  <2>11. k.pc # "unmapfree"
    BY <2>4 DEF MappingPcs
  <2> QED
    BY <1>2, <1>3, <1>4, <2>1, <2>2, <2>4, <2>5, <2>6, <2>10, <2>11, IoctlStep
<1>6. CASE ~r.ok
  <2>1. /\ map' = [map EXCEPT ![r.m] = r.rec] /\ UNCHANGED <<imutex, thr>>
        /\ leaked' = IF r.rec.state = "live" THEN leaked \cup {r.m} ELSE leaked
    BY <1>1, <1>6 DEF Acquire
  <2>2. /\ Users(r.m)' = Users(r.m) /\ Mapper(r.m)' = Mapper(r.m)
        /\ Unmapper(r.m)' = Unmapper(r.m)
    BY <2>1 DEF Users, Mapper, Unmapper
  <2>3. MapOK(r.m)'
    BY <1>3, <1>6, <2>1, <2>2, FailedMap
  <2>4. /\ thr' \in [Threads -> ThreadRecord] /\ thr'[t].buf = NULL
        /\ thr'[t].pc = "idle" /\ thr'[t].m = NULL
        /\ \A u \in Threads \ {t} : thr'[u] = thr[u]
    BY <1>2, <2>1
  <2>5. /\ leaked' \in {leaked, leaked \cup {r.m}} /\ imutex' \in Threads \cup {NULL}
        /\ thr[t].m \in {r.m, NULL}
    BY <1>2, <2>1
  <2>6. thr'[t].pc \notin UnmappingPcs /\ thr'[t].pc # "unmapfree"
    BY <2>4 DEF UnmappingPcs
  <2> QED
    BY <1>2, <1>3, <1>4, <2>1, <2>3, <2>4, <2>5, <2>6, IoctlStep
<1> QED
  BY <1>5, <1>6

\* A map asked for with the heap flags is leaked.
LEMMA MapEnterHeapStep ==
    ASSUME IndInv, NEW t \in Threads, NEW fd \in Fds, NEW keep \in BOOLEAN,
           MapEnterHeap(t, fd, keep)
    PROVE  IndInv'
<1> DEFINE r == [Unborn EXCEPT !.state = "live", !.fd = fd, !.keep = keep,
                               !.refs = 1, !.heap = TRUE]
<1>1. PICK m \in Maps : /\ map[m].state = "unborn" /\ map' = [map EXCEPT ![m] = r]
                        /\ leaked' = leaked \cup {m}
  BY DEF MapEnterHeap
<1>2. /\ thr[t].pc = "idle" /\ UNCHANGED <<thr, imutex, phase, closefail>>
      /\ thr[t].pc \in Invoking /\ thr[t].m = NULL /\ thr[t].buf = NULL
      /\ thr \in [Threads -> ThreadRecord] /\ leaked \subseteq Maps
      /\ map \in [Maps -> MapRecord] /\ MapOK(m)
  BY DEF MapEnterHeap, IndInv, ThreadInv, Invoking, TypeOK, ThreadRecord, MapRecord
<1>3. r \in MapRecord
  BY DEF Unborn, MapRecord
<1>4. r.state = "live" /\ ~r.listed /\ r.ctx = 0 /\ r.heap /\ ~r.dsp
  BY DEF Unborn
<1> HIDE DEF r
<1>5. map'[m] = r
  BY <1>1, <1>2
<1>6. ~Mapper(m) /\ ~Unmapper(m) /\ Users(m) = {}
  BY <1>1, <1>2 DEF MapOK, UsersOK, ListOK, IoctlOK, PlaceOK
<1>7. ~Mapper(m)' /\ ~Unmapper(m)' /\ Users(m)' = {}
  BY <1>2, <1>6 DEF Mapper, Unmapper, Users
<1>8. MapOK(m)'
  BY <1>1, <1>4, <1>5, <1>7, LeakedMap
<1>9. /\ \A n \in Maps \ {m} : (n \in leaked') <=> (n \in leaked)
      /\ leaked' \subseteq Maps
  BY <1>1, <1>2
<1> QED
  BY <1>1, <1>2, <1>3, <1>4, <1>8, <1>9, OneMapStep

\* The DSP maps it, and the reference stays with the DSP, or the ioctl fails.
LEMMA MapDspStep == ASSUME IndInv, NEW t \in Threads, MapDsp(t) PROVE IndInv'
<1>1. thr[t].pc = "mapdsp" /\ UNCHANGED <<phase, closefail>> /\ leaked' = leaked /\ thr[t].pc \in IoctlPcs
      /\ thr[t].pc \in MappingPcs /\ thr[t].pc \notin UnmappingPcs
  BY DEF MapDsp, IoctlPcs, MappingPcs, UnmappingPcs
<1> PICK m \in Maps : m = thr[t].m
  BY <1>1, InIoctl
<1>2. /\ thr[t] \in ThreadRecord /\ thr[t].buf = NULL /\ imutex = t /\ phase = "open"
      /\ map[m] \in MapRecord /\ MapOK(m) /\ leaked \subseteq Maps
      /\ thr \in [Threads -> ThreadRecord] /\ map \in [Maps -> MapRecord]
  BY <1>1, InIoctl
<1>3. \A u \in Threads \ {t} : thr[u].pc \notin IoctlPcs
  BY <1>1, Alone
<1>4. CASE map' = [map EXCEPT ![m].dsp = TRUE] /\ Finish(t)
  <2> DEFINE r == [map[m] EXCEPT !.dsp = TRUE]
  <2>1. r \in MapRecord
    BY <1>2 DEF MapRecord
  <2>2. /\ r.state = map[m].state /\ (r.listed <=> map[m].listed)
        /\ (r.keep <=> map[m].keep) /\ r.dsp /\ (r.short <=> map[m].short)
        /\ r.refs = map[m].refs /\ r.ctx = map[m].ctx /\ r.dma = map[m].dma
    BY <1>2 DEF MapRecord
  <2>3. map' = [map EXCEPT ![m] = r] /\ map'[m] = r
    BY <1>2, <1>4
  <2> HIDE DEF r
  <2>4. thr' = [thr EXCEPT ![t] = Idle] /\ imutex' = NULL
    BY <1>4 DEF Finish
  <2>5. thr'[t] = Idle /\ \A u \in Threads \ {t} : thr'[u] = thr[u]
    BY <2>4, IdleFacts, ThreadStore
  <2>6. /\ Mapper(m) /\ ~Mapper(m)' /\ ~Unmapper(m)' /\ ~Unmapper(m)
        /\ Users(m)' = Users(m)
    <3>1. "idle" \notin MappingPcs /\ "idle" \notin UnmappingPcs
      BY DEF MappingPcs, UnmappingPcs
    <3> QED
      BY <1>1, <1>2, <1>3, <2>5, <3>1, IdleFacts, AloneHolds
  <2>7. CASE map[m].state = "live" /\ map[m].listed
    <3>1. /\ m \notin leaked /\ IsFiniteSet(Users(m)) /\ map[m].ctx = Cardinality(Users(m))
          /\ ~map[m].short => map[m].refs >= 1 /\ map[m].refs >= Claims(map[m], Mapper(m))
      BY <1>2, <2>7 DEF MapOK, UsersOK, ListOK, PlaceOK
    <3>2. Claims(r, Mapper(m)') <= Claims(map[m], Mapper(m))
      <4>1. /\ One(r.keep) = One(map[m].keep) /\ One(r.dsp) = 1 /\ One(Mapper(m)) = 1
            /\ One(Mapper(m)') = 0 /\ One(r.dma > 0) = One(map[m].dma > 0)
            /\ One(map[m].keep) \in {0, 1} /\ One(map[m].dsp) \in {0, 1}
            /\ One(map[m].dma > 0) \in {0, 1}
        BY <2>2, <2>6 DEF One
      <4>2. map[m].ctx \in Nat
        BY <1>2 DEF MapRecord
      <4>3. PICK a \in Nat, b \in Nat, c \in Nat, d \in Nat :
              /\ a = map[m].ctx /\ b = One(map[m].dma > 0) /\ c = One(map[m].keep)
              /\ d = One(map[m].dsp)
        BY <4>1, <4>2
      <4>4. /\ Claims(r, Mapper(m)') = a + b + c + 1 + 0
            /\ Claims(map[m], Mapper(m)) = a + b + c + d + 1
        BY <2>2, <4>1, <4>3 DEF Claims
      <4> QED
        BY <4>4
    <3>3. /\ Claims(r, Mapper(m)') \in Nat /\ Claims(map[m], Mapper(m)) \in Nat
          /\ map[m].refs \in Nat
      BY <1>2, <2>1, ClaimFacts DEF MapRecord
    <3>4. ~r.short => r.refs >= 1 /\ r.refs >= Claims(r, Mapper(m)')
      BY <2>2, <3>1, <3>2, <3>3
    <3>5. MapOK(m)'
      BY <1>1, <2>2, <2>3, <2>6, <2>7, <3>1, <3>4, ListedMap
    <3> QED
      BY <1>1, <1>2, <1>3, <2>1, <2>3, <2>4, <3>5, FinishStep
  <2>8. CASE map[m].state # "live" /\ map[m].short
    <3>1. MapOK(m)'
      BY <1>1, <1>2, <2>2, <2>3, <2>6, <2>8
         DEF MapOK, UsersOK, ListOK, IoctlOK, PlaceOK
    <3> QED
      BY <1>1, <1>2, <1>3, <2>1, <2>3, <2>4, <3>1, FinishStep
  <2> QED
    BY <1>2, <2>6, <2>7, <2>8 DEF MapOK, IoctlOK
<1>5. CASE thr' = [thr EXCEPT ![t].pc = "mapfail"] /\ UNCHANGED <<map, imutex>>
  <2> DEFINE k == [thr[t] EXCEPT !.pc = "mapfail"]
  <2>1. k \in ThreadRecord
    BY <1>2 DEF ThreadRecord
  <2>2. k.pc = "mapfail" /\ k.m = m /\ k.buf = NULL
    BY <1>2 DEF ThreadRecord
  <2>3. thr' = [thr EXCEPT ![t] = k]
    BY <1>2, <1>5
  <2> HIDE DEF k
  <2>4. /\ thr'[t] = k /\ \A u \in Threads \ {t} : thr'[u] = thr[u]
        /\ thr' \in [Threads -> ThreadRecord]
    BY <2>1, <2>3, ThreadStore
  <2>5. k.pc \in MappingPcs /\ k.pc \notin UnmappingPcs /\ k.pc \in IoctlPcs
    BY <2>2 DEF MappingPcs, UnmappingPcs, IoctlPcs
  <2>6. /\ (Mapper(m)' <=> Mapper(m)) /\ (Unmapper(m)' <=> Unmapper(m))
        /\ Users(m)' = Users(m)
    BY <1>1, <1>2, <1>3, <2>2, <2>4, <2>5, AloneHolds
  <2>7. MapOK(m)'
    BY <1>1, <1>2, <1>5, <2>6, FrameMap
  <2>8. map' = [map EXCEPT ![m] = map[m]] /\ imutex' = t /\ k.pc # "unmapfree"
    BY <1>2, <1>5, <2>2
  <2> QED
    BY <1>1, <1>2, <1>3, <2>2, <2>4, <2>5, <2>7, <2>8, IoctlStep
<1> QED
  BY <1>4, <1>5 DEF MapDsp

\* A map ioctl that fails drops the reference it took.
LEMMA MapFailStep == ASSUME IndInv, NEW t \in Threads, MapFail(t) PROVE IndInv'
<1>1. /\ thr[t].pc = "mapfail" /\ UNCHANGED <<phase, closefail>> /\ leaked' = leaked
      /\ thr[t].pc \in IoctlPcs /\ thr[t].pc \in MappingPcs
  BY DEF MapFail, IoctlPcs, MappingPcs, UnmappingPcs
<1> PICK m \in Maps : m = thr[t].m
  BY <1>1, InIoctl
<1>2. /\ thr[t].buf = NULL /\ imutex = t /\ phase = "open"
      /\ map[m] \in MapRecord /\ MapOK(m) /\ leaked \subseteq Maps
      /\ thr \in [Threads -> ThreadRecord] /\ map \in [Maps -> MapRecord]
  BY <1>1, InIoctl
<1>3. \A u \in Threads \ {t} : thr[u].pc \notin IoctlPcs
  BY <1>1, Alone
<1> PICK r \in MapRecord : r = map[m]
  BY <1>2
<1>4. /\ map' = [map EXCEPT ![m] = Put(r)] /\ map'[m] = Put(r)
      /\ thr' = [thr EXCEPT ![t] = Idle] /\ imutex' = NULL
  BY <1>2 DEF MapFail, Finish
<1>5. thr'[t] = Idle /\ \A u \in Threads \ {t} : thr'[u] = thr[u]
  BY <1>4, IdleFacts, ThreadStore
<1>6. Mapper(m) /\ ~Mapper(m)' /\ ~Unmapper(m)' /\ Users(m)' = Users(m)
  <2>1. "idle" \notin MappingPcs /\ "idle" \notin UnmappingPcs
    BY DEF MappingPcs, UnmappingPcs
  <2> QED
    BY <1>1, <1>2, <1>3, <1>5, <2>1, IdleFacts, AloneHolds
<1>7. Put(r) \in MapRecord
  BY PutFacts
<1>8. CASE r.state = "live" /\ r.listed
  <2>1. /\ IsFiniteSet(Users(m)) /\ r.ctx = Cardinality(Users(m))
        /\ ~r.short => r.refs >= Claims(r, Mapper(m))
    BY <1>2, <1>8 DEF MapOK, UsersOK, ListOK
  <2>2. Claims(r, Mapper(m)) = Claims(r, Mapper(m)') + 1
    <3>1. /\ One(Mapper(m)) = 1 /\ One(Mapper(m)') = 0 /\ One(r.keep) \in Nat
          /\ One(r.dsp) \in Nat /\ One(r.dma > 0) \in Nat
      BY <1>6 DEF One
    <3>2. r.ctx \in Nat
      BY DEF MapRecord
    <3> QED
      BY <3>1, <3>2 DEF Claims
  <2>3. MapOK(m)'
    BY <1>1, <1>2, <1>4, <1>6, <1>8, <2>1, <2>2, PutMap
  <2> QED
    BY <1>1, <1>2, <1>3, <1>4, <1>7, <2>3, FinishStep
<1>9. CASE r.state # "live" /\ r.short
  <2>1. Put(r).state # "live" /\ Put(r).short /\ ~Put(r).listed /\ Put(r).state # "unborn"
    <3>1. ~r.listed /\ r.state # "unborn"
      BY <1>2, <1>9 DEF MapOK, ListOK, PlaceOK
    <3>2. r.refs \in Nat /\ r.ctx \in Nat /\ r.dma \in Nat
      BY DEF MapRecord
    <3>3. CASE r.refs = 0
      BY <1>9, <3>1, <3>3, PutFacts DEF SameMap
    <3>4. CASE r.refs = 1 /\ r.ctx = 0 /\ r.dma = 0
      BY <1>9, <3>1, <3>4, PutFacts
    <3>5. CASE r.refs > 1 \/ (r.refs = 1 /\ (r.ctx # 0 \/ r.dma # 0))
      BY <1>9, <3>1, <3>5, PutFacts DEF SameMap
    <3> QED
      BY <3>2, <3>3, <3>4, <3>5
  <2>2. IsFiniteSet(Users(m)) /\ Users(m) = {} /\ m \notin leaked
    BY <1>2, <1>9 DEF MapOK, UsersOK, ListOK, PlaceOK
  <2>3. MapOK(m)'
    BY <1>1, <1>4, <1>6, <2>1, <2>2 DEF MapOK, UsersOK, ListOK, IoctlOK, PlaceOK
  <2> QED
    BY <1>1, <1>2, <1>3, <1>4, <1>7, <2>3, FinishStep
<1> QED
  BY <1>2, <1>6, <1>8, <1>9 DEF MapOK, IoctlOK

\* The conditions on the map of an unmap ioctl.
LEMMA UnmappedMap ==
    ASSUME NEW m \in Maps, NEW r \in MapRecord, map'[m] = r, r.state = "live", ~r.listed,
           r.ctx = 0, r.dma = 0, r.refs <= 1, r.refs = 0 => r.keep,
           r.dsp /\ ~r.short => r.refs = 1,
           Users(m)' = {}, Unmapper(m)', ~Mapper(m)', m \notin leaked'
    PROVE  MapOK(m)'
<1>1. IsFiniteSet(Users(m)') /\ Cardinality(Users(m)') = 0
  BY FS_EmptySet
<1> QED
  BY <1>1 DEF MapOK, UsersOK, ListOK, IoctlOK, PlaceOK

\* hfastrpc_munmap and hfastrpc_mem_unmap take a map off the list that nobody
\* uses; the DSP's reference is the one that is left.
LEMMA UnmapEnterStep ==
    ASSUME IndInv, NEW t \in Threads, NEW m \in Maps,
           NEW op \in {"munmap", "mem_unmap"}, UnmapEnter(t, m, op)
    PROVE  IndInv'
<1> DEFINE k == [Idle EXCEPT !.pc = "unmapdsp", !.m = m, !.op = op]
<1>1. /\ phase = "open" /\ thr[t].pc = "idle" /\ imutex = NULL /\ Removable(m)
      /\ imutex' = t /\ thr' = [thr EXCEPT ![t] = k] /\ UNCHANGED <<phase, closefail>> /\ leaked' = leaked
  BY DEF UnmapEnter
<1>2. /\ thr[t].buf = NULL /\ thr[t].m = NULL /\ "idle" \notin IoctlPcs
      /\ map \in [Maps -> MapRecord] /\ map[m] \in MapRecord /\ MapOK(m)
  BY <1>1 DEF IndInv, ThreadInv, Invoking, TypeOK, MapRecord, IoctlPcs,
         MappingPcs, UnmappingPcs
<1>3. \A u \in Threads \ {t} : thr[u].pc \notin IoctlPcs
  BY <1>1, Alone
<1>4. k \in ThreadRecord
  BY DEF Idle, ThreadRecord
<1>5. k.pc = "unmapdsp" /\ k.m = m /\ k.buf = NULL /\ k.op = op
  BY DEF Idle
<1> HIDE DEF k
<1>6. /\ thr' \in [Threads -> ThreadRecord] /\ thr'[t] = k
      /\ \A u \in Threads \ {t} : thr'[u] = thr[u]
  BY <1>1, <1>4, ThreadStore
<1>7. /\ k.pc \in IoctlPcs /\ k.pc \in UnmappingPcs /\ k.pc \notin MappingPcs
      /\ k.pc # "unmapfree"
  BY <1>5 DEF IoctlPcs, MappingPcs, UnmappingPcs
<1>8. ~Mapper(m) /\ ~Mapper(m)' /\ Unmapper(m)' /\ Users(m)' = Users(m)
  BY <1>1, <1>2, <1>3, <1>5, <1>6, <1>7, AloneHolds DEF IoctlPcs
<1>9. /\ map[m].listed /\ map[m].state = "live" /\ map[m].ctx = 0 /\ map[m].dma = 0
      /\ map[m].refs = 1 \/ (map[m].refs = 2 /\ map[m].keep)
      /\ ~map[m].short => map[m].refs >= Claims(map[m], Mapper(m))
      /\ m \notin leaked
  BY <1>1, <1>2 DEF Removable, MapOK, ListOK, PlaceOK
<1>10. Users(m) = {}
  <2>1. IsFiniteSet(Users(m)) /\ Cardinality(Users(m)) = 0
    BY <1>2, <1>9 DEF MapOK, UsersOK
  <2> QED
    BY <2>1, FS_EmptySet
<1>11. PICK n \in Nat : /\ n = IF map[m].keep THEN map[m].refs - 1 ELSE map[m].refs
                        /\ n <= 1 /\ (n = 0 => map[m].keep)
                        /\ map[m].dsp /\ ~map[m].short => n = 1
  <2>1. map[m].dsp /\ ~map[m].short /\ map[m].keep => map[m].refs = 2
    <3>1. /\ map[m].keep => One(map[m].keep) = 1
          /\ map[m].dsp => One(map[m].dsp) = 1
          /\ One(map[m].dma > 0) = 0 /\ One(Mapper(m)) = 0
      BY <1>8, <1>9 DEF One
    <3>2. ASSUME map[m].keep, map[m].dsp PROVE Claims(map[m], Mapper(m)) = 2
      <4>1. /\ map[m].ctx = 0 /\ One(map[m].dma > 0) = 0 /\ One(map[m].keep) = 1
            /\ One(map[m].dsp) = 1 /\ One(Mapper(m)) = 0
        BY <1>9, <3>1, <3>2
      <4>2. Claims(map[m], Mapper(m)) = 0 + 0 + 1 + 1 + 0
        BY <4>1 DEF Claims
      <4> QED
        BY <4>2
    <3>3. ASSUME map[m].dsp, ~map[m].short, map[m].keep PROVE map[m].refs = 2
      <4>1. map[m].refs >= 2
        BY <1>9, <3>2, <3>3
      <4> QED
        BY <1>9, <4>1
    <3> QED
      BY <3>3
  <2>2. CASE map[m].keep
    BY <1>9, <2>1, <2>2
  <2>3. CASE ~map[m].keep
    BY <1>9, <2>3
  <2> QED
    BY <2>2, <2>3
<1> DEFINE r == [map[m] EXCEPT !.listed = FALSE, !.refs = n]
<1>12. r \in MapRecord
  BY <1>2 DEF MapRecord
<1>13. /\ r.state = map[m].state /\ ~r.listed /\ r.refs = n /\ (r.keep <=> map[m].keep)
       /\ r.ctx = map[m].ctx /\ r.dma = map[m].dma /\ (r.dsp <=> map[m].dsp)
       /\ (r.short <=> map[m].short)
  BY <1>2 DEF MapRecord
<1>14. map' = [map EXCEPT ![m] = r]
  BY <1>2, <1>11 DEF UnmapEnter
<1> HIDE DEF r
<1>15. MapOK(m)'
  <2>1. map'[m] = r
    BY <1>2, <1>14
  <2>2. Users(m)' = {} /\ m \notin leaked'
    BY <1>1, <1>8, <1>9, <1>10
  <2> QED
    BY <1>8, <1>9, <1>11, <1>12, <1>13, <2>1, <2>2, UnmappedMap
<1> QED
  BY <1>1, <1>2, <1>3, <1>5, <1>6, <1>7, <1>12, <1>14, <1>15, IoctlStep

\* The map of an unmap ioctl.
LEMMA InUnmap ==
    ASSUME IndInv, NEW t \in Threads, thr[t].pc \in UnmappingPcs,
           NEW m \in Maps, m = thr[t].m
    PROVE  /\ map[m].state = "live" /\ ~map[m].listed
           /\ map[m].ctx = 0 /\ map[m].dma = 0 /\ map[m].refs <= 1
           /\ map[m].refs = 0 => map[m].keep
           /\ map[m].dsp /\ ~map[m].short => map[m].refs = 1
           /\ m \notin leaked /\ Users(m) = {}
           /\ thr[t].op \in {"munmap", "mem_unmap"}
<1>1. MapOK(m) /\ thr[t].op \in {"munmap", "mem_unmap"}
  BY DEF IndInv, ThreadInv
<1>2. Unmapper(m)
  BY DEF Unmapper
<1> QED
  BY <1>1, <1>2 DEF MapOK, UsersOK, IoctlOK, PlaceOK

\* The DSP unmaps it or refuses to.
LEMMA UnmapDspStep == ASSUME IndInv, NEW t \in Threads, UnmapDsp(t) PROVE IndInv'
<1>1. /\ thr[t].pc = "unmapdsp" /\ UNCHANGED <<imutex, phase, leaked, closefail>>
      /\ thr[t].pc \in IoctlPcs /\ thr[t].pc \in UnmappingPcs
  BY DEF UnmapDsp, IoctlPcs, UnmappingPcs
<1> PICK m \in Maps : m = thr[t].m
  BY <1>1, InIoctl
<1>2. /\ thr[t] \in ThreadRecord /\ thr[t].buf = NULL /\ imutex = t /\ phase = "open"
      /\ map[m] \in MapRecord /\ leaked \subseteq Maps
      /\ thr \in [Threads -> ThreadRecord] /\ map \in [Maps -> MapRecord]
  BY <1>1, InIoctl
<1>3. \A u \in Threads \ {t} : thr[u].pc \notin IoctlPcs
  BY <1>1, Alone
<1>4. PICK pc \in {"unmapfree", "unmapback"}, b \in BOOLEAN :
        /\ map' = [map EXCEPT ![m].dsp = b] /\ thr' = [thr EXCEPT ![t].pc = pc]
        /\ b => map[m].dsp
        /\ pc = "unmapfree" => ~b
  <2>1. CASE /\ map' = [map EXCEPT ![m].dsp = FALSE]
             /\ thr' = [thr EXCEPT ![t].pc = "unmapfree"]
    BY <2>1
  <2>2. CASE thr' = [thr EXCEPT ![t].pc = "unmapback"] /\ map' = map
    <3>1. map' = [map EXCEPT ![m].dsp = map[m].dsp] /\ map[m].dsp \in BOOLEAN
      BY <1>2, <2>2 DEF MapRecord
    <3> QED
      BY <2>2, <3>1
  <2> QED
    BY <2>1, <2>2 DEF UnmapDsp
<1> DEFINE r == [map[m] EXCEPT !.dsp = b]
           k == [thr[t] EXCEPT !.pc = pc]
<1>5. r \in MapRecord /\ k \in ThreadRecord
  BY <1>2 DEF MapRecord, ThreadRecord
<1>6. /\ r.state = map[m].state /\ (r.listed <=> map[m].listed) /\ r.refs = map[m].refs
      /\ (r.keep <=> map[m].keep) /\ r.ctx = map[m].ctx /\ r.dma = map[m].dma
      /\ (r.dsp <=> b) /\ (r.short <=> map[m].short)
  BY <1>2 DEF MapRecord
<1>7. k.pc = pc /\ k.m = m /\ k.buf = NULL /\ k.op = thr[t].op
  BY <1>2 DEF ThreadRecord
<1>8. map' = [map EXCEPT ![m] = r] /\ map'[m] = r /\ thr' = [thr EXCEPT ![t] = k]
  BY <1>2, <1>4
<1> HIDE DEF r, k
<1>9. /\ thr' \in [Threads -> ThreadRecord] /\ thr'[t] = k
      /\ \A u \in Threads \ {t} : thr'[u] = thr[u]
  BY <1>5, <1>8, ThreadStore
<1>10. k.pc \in IoctlPcs /\ k.pc \in UnmappingPcs /\ k.pc \notin MappingPcs
  BY <1>7 DEF IoctlPcs, MappingPcs, UnmappingPcs
<1>11. ~Mapper(m)' /\ Unmapper(m)' /\ Users(m)' = Users(m)
  BY <1>2, <1>3, <1>7, <1>9, <1>10, AloneHolds
<1>12. /\ map[m].state = "live" /\ ~map[m].listed
       /\ map[m].ctx = 0 /\ map[m].dma = 0 /\ map[m].refs <= 1
       /\ map[m].refs = 0 => map[m].keep
       /\ map[m].dsp /\ ~map[m].short => map[m].refs = 1
       /\ m \notin leaked /\ Users(m) = {}
       /\ thr[t].op \in {"munmap", "mem_unmap"}
  BY <1>1, InUnmap
<1>13. MapOK(m)'
  BY <1>1, <1>4, <1>5, <1>6, <1>8, <1>11, <1>12, UnmappedMap
<1>14. thr'[t].pc = "unmapfree" => ~r.dsp
  BY <1>4, <1>6, <1>7, <1>9
<1> QED
  BY <1>1, <1>2, <1>3, <1>5, <1>7, <1>8, <1>9, <1>10, <1>12, <1>13, <1>14, IoctlStep

\* The DSP has let go: the map is freed, or leaked when its count was 0.
LEMMA UnmapFreeStep == ASSUME IndInv, NEW t \in Threads, UnmapFree(t) PROVE IndInv'
<1>1. /\ thr[t].pc = "unmapfree" /\ UNCHANGED <<phase, closefail>>
      /\ thr[t].pc \in IoctlPcs /\ thr[t].pc \in UnmappingPcs
  BY DEF UnmapFree, IoctlPcs, UnmappingPcs
<1> PICK m \in Maps : m = thr[t].m
  BY <1>1, InIoctl
<1>2. /\ thr[t].buf = NULL /\ imutex = t /\ phase = "open"
      /\ map[m] \in MapRecord /\ leaked \subseteq Maps
      /\ thr \in [Threads -> ThreadRecord] /\ map \in [Maps -> MapRecord]
  BY <1>1, InIoctl
<1>3. \A u \in Threads \ {t} : thr[u].pc \notin IoctlPcs
  BY <1>1, Alone
<1> PICK r \in MapRecord : r = map[m]
  BY <1>2
<1>4. /\ map' = [map EXCEPT ![m] = Put(r)] /\ map'[m] = Put(r)
      /\ thr' = [thr EXCEPT ![t] = Idle] /\ imutex' = NULL
      /\ leaked' = IF r.refs = 0 THEN leaked \cup {m} ELSE leaked
  BY <1>2 DEF UnmapFree, Finish
<1>5. thr'[t] = Idle /\ \A u \in Threads \ {t} : thr'[u] = thr[u]
  BY <1>4, IdleFacts, ThreadStore
<1>6. ~Mapper(m)' /\ ~Unmapper(m)' /\ Users(m)' = Users(m)
  <2>1. "idle" \notin MappingPcs /\ "idle" \notin UnmappingPcs
    BY DEF MappingPcs, UnmappingPcs
  <2> QED
    BY <1>1, <1>2, <1>3, <1>5, <2>1, IdleFacts, AloneHolds
<1>7. /\ r.state = "live" /\ ~r.listed /\ r.ctx = 0 /\ r.dma = 0 /\ r.refs <= 1
      /\ r.refs = 0 => r.keep
      /\ m \notin leaked /\ Users(m) = {}
  BY <1>1, InUnmap
<1>8. ~r.dsp
  BY <1>1 DEF IndInv, ThreadInv
<1>9. Put(r) \in MapRecord
  BY PutFacts
<1>10. CASE r.refs = 0
  <2>1. /\ Put(r).state = "live" /\ ~Put(r).listed /\ Put(r).ctx = 0 /\ Put(r).keep
    BY <1>7, <1>10, PutFacts DEF SameMap
  <2>2. m \in leaked' /\ leaked' \in {leaked, leaked \cup {m}}
    BY <1>4, <1>10
  <2>3. MapOK(m)'
    BY <1>4, <1>6, <1>7, <2>1, <2>2, LeakedMap
  <2> QED
    BY <1>1, <1>2, <1>3, <1>4, <1>9, <2>2, <2>3, FinishStep
<1>11. CASE r.refs = 1
  <2>1. /\ Put(r).state = "freed" /\ ~Put(r).listed /\ ~Put(r).dsp
    BY <1>7, <1>8, <1>11, PutFacts
  <2>2. m \notin leaked' /\ leaked' \in {leaked, leaked \cup {m}}
    BY <1>4, <1>7, <1>11
  <2>3. MapOK(m)'
    BY <1>4, <1>6, <1>7, <2>1, <2>2, FreedMap
  <2> QED
    BY <1>1, <1>2, <1>3, <1>4, <1>9, <2>2, <2>3, FinishStep
<1>12. r.refs \in Nat
  BY DEF MapRecord
<1> QED
  BY <1>7, <1>10, <1>11, <1>12

\* The DSP refused: the map is on the list again with the references the DSP
\* and the attribute need, unless munmap forgot the attribute's.
LEMMA UnmapBackStep == ASSUME IndInv, NEW t \in Threads, UnmapBack(t) PROVE IndInv'
<1>1. /\ thr[t].pc = "unmapback" /\ UNCHANGED <<phase, closefail>> /\ leaked' = leaked
      /\ thr[t].pc \in IoctlPcs /\ thr[t].pc \in UnmappingPcs
  BY DEF UnmapBack, IoctlPcs, UnmappingPcs
<1> PICK m \in Maps : m = thr[t].m
  BY <1>1, InIoctl
<1>2. /\ thr[t].buf = NULL /\ imutex = t /\ phase = "open"
      /\ map[m] \in MapRecord /\ leaked \subseteq Maps
      /\ thr \in [Threads -> ThreadRecord] /\ map \in [Maps -> MapRecord]
  BY <1>1, InIoctl
<1>3. \A u \in Threads \ {t} : thr[u].pc \notin IoctlPcs
  BY <1>1, Alone
<1>4. /\ map[m].state = "live" /\ map[m].ctx = 0 /\ map[m].dma = 0 /\ map[m].refs <= 1
      /\ map[m].refs = 0 => map[m].keep
      /\ map[m].dsp /\ ~map[m].short => map[m].refs = 1
      /\ m \notin leaked /\ Users(m) = {} /\ thr[t].op \in {"munmap", "mem_unmap"}
  BY <1>1, InUnmap
<1>5. map[m].refs \in Nat /\ map[m].keep \in BOOLEAN /\ map[m].short \in BOOLEAN
  BY <1>2 DEF MapRecord
<1>6. PICK n \in Nat : n = IF map[m].keep /\ thr[t].op = "mem_unmap"
                           THEN map[m].refs + 1 ELSE map[m].refs
  BY <1>5
<1>7. PICK s \in BOOLEAN : s = (map[m].short \/ (map[m].keep /\ thr[t].op = "munmap"))
  BY <1>5
<1> DEFINE r == [map[m] EXCEPT !.listed = TRUE, !.refs = n, !.short = s]
<1>8. r \in MapRecord
  BY <1>2 DEF MapRecord
<1>9. /\ r.state = map[m].state /\ r.listed /\ r.refs = n /\ (r.keep <=> map[m].keep)
      /\ r.ctx = map[m].ctx /\ r.dma = map[m].dma /\ (r.dsp <=> map[m].dsp)
      /\ (r.short <=> s)
  BY <1>2 DEF MapRecord
<1>10. map' = [map EXCEPT ![m] = r] /\ map'[m] = r
  <2>1. map' = [map EXCEPT ![m].listed = TRUE, ![m].refs = n, ![m].short = s]
    BY <1>2, <1>6, <1>7 DEF UnmapBack
  <2>2. map' = [map EXCEPT ![m] = r]
    BY <1>2, <2>1
  <2> QED
    BY <1>2, <2>2
<1> HIDE DEF r
<1>11. thr' = [thr EXCEPT ![t] = Idle] /\ imutex' = NULL
  BY DEF UnmapBack, Finish
<1>12. thr'[t] = Idle /\ \A u \in Threads \ {t} : thr'[u] = thr[u]
  BY <1>11, IdleFacts, ThreadStore
<1>13. ~Mapper(m)' /\ ~Unmapper(m)' /\ Users(m)' = Users(m)
  <2>1. "idle" \notin MappingPcs /\ "idle" \notin UnmappingPcs
    BY DEF MappingPcs, UnmappingPcs
  <2> QED
    BY <1>1, <1>2, <1>3, <1>12, <2>1, IdleFacts, AloneHolds
<1>14. ~r.short => r.refs >= 1 /\ r.refs >= Claims(r, Mapper(m)')
  <2> SUFFICES ASSUME ~r.short PROVE r.refs >= 1 /\ r.refs >= Claims(r, Mapper(m)')
    OBVIOUS
  <2>1. ~map[m].short /\ (map[m].keep => thr[t].op = "mem_unmap")
    BY <1>4, <1>7, <1>9
  <2>2. PICK a \in {0, 1}, b \in {0, 1} :
           a = One(map[m].keep) /\ b = One(map[m].dsp)
    BY DEF One
  <2>3. /\ r.ctx = 0 /\ One(r.dma > 0) = 0 /\ One(r.keep) = a /\ One(r.dsp) = b
        /\ One(Mapper(m)') = 0
    BY <1>4, <1>9, <1>13, <2>2 DEF One
  <2>4. Claims(r, Mapper(m)') = 0 + 0 + a + b + 0
    BY <2>3 DEF Claims
  <2>5. n = map[m].refs + a
    <3>1. CASE map[m].keep
      BY <1>5, <1>6, <2>1, <2>2, <3>1 DEF One
    <3>2. CASE ~map[m].keep
      BY <1>5, <1>6, <2>2, <3>2 DEF One
    <3> QED
      BY <3>1, <3>2
  <2>6. (a = 0 => map[m].refs = 1) /\ (b = 1 => map[m].refs = 1)
    BY <1>4, <1>5, <2>1, <2>2 DEF One
  <2>7. r.refs = map[m].refs + a /\ Claims(r, Mapper(m)') = a + b
    BY <1>9, <2>4, <2>5
  <2>8. PICK c \in Nat : c = map[m].refs
    BY <1>5
  <2>9. c + a >= 1 /\ c + a >= a + b
    BY <2>6, <2>8
  <2> QED
    BY <2>7, <2>8, <2>9
<1>15. MapOK(m)'
  <2>1. /\ m \notin leaked' /\ IsFiniteSet(Users(m)') /\ Cardinality(Users(m)') = 0
    BY <1>1, <1>4, <1>13, FS_EmptySet
  <2> QED
    BY <1>4, <1>9, <1>10, <1>13, <1>14, <2>1, ListedMap
<1> QED
  BY <1>1, <1>2, <1>3, <1>8, <1>10, <1>11, <1>15, FinishStep

\* hfastrpc_munmap_fd drops the reference of the attribute of every kept map.
LEMMA MunmapFdStep ==
    ASSUME IndInv, NEW t \in Threads, NEW fd \in Fds, MunmapFd(t, fd)
    PROVE  IndInv'
<1> DEFINE Kept(m) == map[m].listed /\ map[m].fd = fd /\ map[m].keep
<1>1. /\ thr[t].pc = "idle" /\ phase = "open" /\ UNCHANGED <<thr, imutex, phase, leaked, closefail>>
      /\ map' = [m \in Maps |-> IF Kept(m) THEN Put([map[m] EXCEPT !.keep = FALSE])
                                ELSE map[m]]
  BY DEF MunmapFd
<1>2. /\ thr' \in [Threads -> ThreadRecord] /\ \A u \in Threads \ {t} : thr'[u] = thr[u]
      /\ thr[t].pc \in Invoking /\ thr'[t].pc \in Invoking
      /\ thr'[t].pc = "idle" /\ thr'[t].m = NULL /\ thr'[t].buf = NULL
      /\ leaked' \subseteq Maps
  BY <1>1 DEF IndInv, TypeOK, ThreadRecord, ThreadInv, Invoking
<1>3. \A m \in Maps : /\ Users(m)' = Users(m) /\ (Mapper(m)' <=> Mapper(m))
                      /\ (Unmapper(m)' <=> Unmapper(m))
  BY <1>1 DEF Users, Mapper, Unmapper
<1>4. \A m \in Maps : Kept(m) => map[m].listed /\ map[m].keep
  OBVIOUS
<1> HIDE DEF Kept
<1>5. \A m \in Maps : map'[m] \in MapRecord /\ (map'[m].dsp => map[m].dsp) /\ MapOK(m)'
  <2> SUFFICES ASSUME NEW m \in Maps
               PROVE  map'[m] \in MapRecord /\ (map'[m].dsp => map[m].dsp) /\ MapOK(m)'
    OBVIOUS
  <2>1. map[m] \in MapRecord /\ MapOK(m)
    BY DEF IndInv, TypeOK, MapRecord
  <2>2. CASE ~Kept(m)
    <3>1. map'[m] = map[m]
      BY <1>1, <2>2
    <3> QED
      BY <1>1, <1>3, <2>1, <3>1, FrameMap
  <2>3. CASE Kept(m)
    <3> DEFINE r == [map[m] EXCEPT !.keep = FALSE]
    <3>1. r \in MapRecord
      BY <2>1 DEF MapRecord
    <3>2. /\ r.state = map[m].state /\ (r.listed <=> map[m].listed) /\ ~r.keep
          /\ (r.dsp <=> map[m].dsp) /\ (r.short <=> map[m].short)
          /\ r.refs = map[m].refs /\ r.ctx = map[m].ctx /\ r.dma = map[m].dma
      BY <2>1 DEF MapRecord
    <3>3. map'[m] = Put(r)
      BY <1>1, <2>3
    <3> HIDE DEF r
    <3>4. /\ map[m].listed /\ map[m].keep /\ map[m].state = "live" /\ ~Unmapper(m)
          /\ IsFiniteSet(Users(m)) /\ map[m].ctx = Cardinality(Users(m))
      BY <1>4, <2>1, <2>3 DEF MapOK, UsersOK, ListOK, IoctlOK
    <3>5. ~r.short => r.refs >= Claims(r, Mapper(m)') + 1
      <4>1. ~r.short => map[m].refs >= Claims(map[m], Mapper(m))
        BY <2>1, <3>2, <3>4 DEF MapOK, ListOK
      <4>2. Claims(map[m], Mapper(m)) = Claims(r, Mapper(m)') + 1
        <5>1. /\ One(r.keep) = 0 /\ One(map[m].keep) = 1 /\ One(r.dsp) = One(map[m].dsp)
              /\ One(Mapper(m)') = One(Mapper(m))
              /\ One(r.dma > 0) = One(map[m].dma > 0)
          BY <1>3, <3>2, <3>4 DEF One
        <5>2. /\ One(map[m].dma > 0) \in Nat /\ One(map[m].dsp) \in Nat
              /\ One(Mapper(m)) \in Nat /\ map[m].ctx \in Nat
          BY <2>1 DEF One, MapRecord
        <5> QED
          BY <3>2, <5>1, <5>2 DEF Claims
      <4> QED
        BY <3>2, <4>1, <4>2
    <3>6. MapOK(m)'
      BY <1>1, <1>3, <2>1, <3>1, <3>2, <3>3, <3>4, <3>5, PutMap
    <3>7. Put(r) \in MapRecord /\ (Put(r).dsp <=> r.dsp)
      BY <3>1, <3>2, <3>4, PutFacts, PutClaims
    <3> QED
      BY <3>2, <3>3, <3>6, <3>7
  <2> QED
    BY <2>2, <2>3
<1>6. map' \in [Maps -> MapRecord]
  BY <1>1, <1>5
<1> QED
  BY <1>1, <1>2, <1>5, <1>6, InvokerStep

-----------------------------------------------------------------------------
(* The end of the session.                                                 *)

\* hfastrpc_file_free closes the DSP process: the claims of the DSP end, unless
\* the CLOSE fails.
LEMMA FileFreeStartStep == ASSUME IndInv, FileFreeStart PROVE IndInv'
<1>0. CASE closefail' = TRUE /\ UNCHANGED map
  <2>1. /\ phase = "open" /\ phase' = "closing" /\ UNCHANGED <<thr, imutex, leaked>>
        /\ \A t \in Threads : thr[t].pc \in {"idle", "flight"}
    BY DEF FileFreeStart
  <2>2. \A m \in Maps : MapOK(m)'
    <3>1. \A m \in Maps : /\ Users(m)' = Users(m) /\ (Mapper(m)' <=> Mapper(m))
                          /\ (Unmapper(m)' <=> Unmapper(m))
      BY <2>1 DEF Users, Mapper, Unmapper
    <3> QED
      BY <1>0, <2>1, <3>1, FrameMap DEF IndInv
  <2>3. TypeOK'
    BY <1>0, <2>1 DEF IndInv, TypeOK
  <2>4. ThreadInv'
    BY <1>0, <2>1 DEF IndInv, ThreadInv
  <2> QED
    BY <2>2, <2>3, <2>4 DEF IndInv
<1> SUFFICES ASSUME map' = [m \in Maps |-> [map[m] EXCEPT !.dsp = FALSE]],
                    UNCHANGED closefail
             PROVE  IndInv'
  BY <1>0 DEF FileFreeStart
<1>1. /\ phase' = "closing" /\ UNCHANGED <<thr, imutex, leaked>>
      /\ \A t \in Threads : thr[t].pc \in {"idle", "flight"}
      /\ map' = [m \in Maps |-> [map[m] EXCEPT !.dsp = FALSE]]
  BY DEF FileFreeStart
<1>2. \A m \in Maps : /\ Users(m)' = Users(m) /\ (Mapper(m)' <=> Mapper(m))
                      /\ (Unmapper(m)' <=> Unmapper(m))
  BY <1>1 DEF Users, Mapper, Unmapper
<1>3. \A m \in Maps : map'[m] \in MapRecord /\ ~map'[m].dsp /\ MapOK(m)'
  <2> SUFFICES ASSUME NEW m \in Maps
               PROVE  map'[m] \in MapRecord /\ ~map'[m].dsp /\ MapOK(m)'
    OBVIOUS
  <2>1. map[m] \in MapRecord /\ MapOK(m)
    BY DEF IndInv, TypeOK, MapRecord
  <2> DEFINE r == [map[m] EXCEPT !.dsp = FALSE]
  <2>2. r \in MapRecord
    BY <2>1 DEF MapRecord
  <2>3. /\ r.state = map[m].state /\ (r.listed <=> map[m].listed) /\ ~r.dsp
        /\ (r.keep <=> map[m].keep) /\ (r.short <=> map[m].short) /\ (r.heap <=> map[m].heap)
        /\ r.refs = map[m].refs /\ r.ctx = map[m].ctx /\ r.dma = map[m].dma
    BY <2>1 DEF MapRecord
  <2>4. map'[m] = r
    BY <1>1
  <2> HIDE DEF r
  <2>5. Claims(r, Mapper(m)') <= Claims(map[m], Mapper(m))
    <3>1. /\ One(r.dma > 0) = One(map[m].dma > 0) /\ One(r.keep) = One(map[m].keep)
          /\ One(r.dsp) = 0 /\ One(Mapper(m)') = One(Mapper(m))
          /\ One(map[m].dma > 0) \in Nat /\ One(map[m].keep) \in Nat
          /\ One(map[m].dsp) \in Nat /\ One(Mapper(m)) \in Nat
      BY <1>2, <2>3 DEF One
    <3>2. PICK a \in Nat, b \in Nat, c \in Nat, d \in Nat, e \in Nat :
             /\ a = map[m].ctx /\ b = One(map[m].dma > 0) /\ c = One(map[m].keep)
             /\ d = One(map[m].dsp) /\ e = One(Mapper(m))
      BY <2>1, <3>1 DEF MapRecord
    <3>3. /\ Claims(r, Mapper(m)') = a + b + c + 0 + e
          /\ Claims(map[m], Mapper(m)) = a + b + c + d + e
      BY <2>3, <3>1, <3>2 DEF Claims
    <3> QED
      BY <3>3
  <2>6. /\ Claims(r, Mapper(m)') \in Nat /\ Claims(map[m], Mapper(m)) \in Nat
        /\ map[m].refs \in Nat
    BY <2>1, <2>2, ClaimFacts DEF MapRecord
  <2>7. r.listed /\ ~r.short => r.refs >= 1 /\ r.refs >= Claims(r, Mapper(m)')
    <3>1. r.listed /\ ~r.short =>
            map[m].refs >= 1 /\ map[m].refs >= Claims(map[m], Mapper(m))
      BY <2>1, <2>3 DEF MapOK, ListOK
    <3> QED
      BY <2>3, <2>5, <2>6, <3>1
  <2>8. UsersOK(m)' /\ ListOK(m)'
    BY <1>2, <2>1, <2>3, <2>4, <2>7 DEF MapOK, UsersOK, ListOK
  <2>9. IoctlOK(m)' /\ PlaceOK(m)'
    BY <1>1, <1>2, <2>1, <2>3, <2>4 DEF MapOK, IoctlOK, PlaceOK
  <2> QED
    BY <2>2, <2>3, <2>4, <2>8, <2>9 DEF MapOK
<1>4. TypeOK'
  <2>1. map' \in [Maps -> MapRecord]
    BY <1>1, <1>3
  <2> QED
    BY <1>1, <2>1 DEF IndInv, TypeOK, MapRecord
<1>5. ThreadInv'
  BY <1>1, <1>3 DEF IndInv, ThreadInv, MappingPcs, UnmappingPcs
<1> QED
  BY <1>3, <1>4, <1>5 DEF IndInv

\* The maps left on the list are freed: no invocation has one any more.
LEMMA FileFreeEndStep == ASSUME IndInv, FileFreeEnd PROVE IndInv'
<1>1. /\ phase = "closing" /\ phase' = "closed" /\ UNCHANGED <<thr, imutex, leaked, closefail>>
      /\ \A t \in Threads : thr[t].pc = "idle"
      /\ map' = [m \in Maps |->
             IF map[m].listed
             THEN [map[m] EXCEPT !.refs = 0, !.ctx = 0, !.dma = 0,
                                 !.state = "freed", !.listed = FALSE]
             ELSE map[m]]
  BY DEF FileFreeEnd
<1>2. \A m \in Maps : /\ Users(m)' = Users(m) /\ (Mapper(m)' <=> Mapper(m))
                      /\ (Unmapper(m)' <=> Unmapper(m))
                      /\ Users(m) = {} /\ ~Mapper(m) /\ ~Unmapper(m)
  <2>1. \A t \in Threads : thr[t].buf = NULL
    BY <1>1 DEF IndInv, ThreadInv
  <2>2. NULL \notin Maps
    BY ConstAssumption
  <2>3. \A m \in Maps : Users(m)' = Users(m) /\ Users(m) = {}
    BY <1>1, <2>1, <2>2 DEF Users
  <2>4. \A m \in Maps : /\ (Mapper(m)' <=> Mapper(m)) /\ (Unmapper(m)' <=> Unmapper(m))
                        /\ ~Mapper(m) /\ ~Unmapper(m)
    BY <1>1 DEF Mapper, Unmapper, MappingPcs, UnmappingPcs
  <2> QED
    BY <2>3, <2>4
<1>3. \A m \in Maps : map'[m] \in MapRecord /\ (map'[m].dsp => map[m].dsp) /\ MapOK(m)'
  <2> SUFFICES ASSUME NEW m \in Maps
               PROVE  map'[m] \in MapRecord /\ (map'[m].dsp => map[m].dsp) /\ MapOK(m)'
    OBVIOUS
  <2>1. map[m] \in MapRecord /\ MapOK(m)
    BY DEF IndInv, TypeOK, MapRecord
  <2>2. CASE ~map[m].listed
    <3>1. map'[m] = map[m]
      BY <1>1, <2>2
    <3> QED
      BY <1>1, <1>2, <2>1, <3>1, FrameMap
  <2>3. CASE map[m].listed
    <3> DEFINE r == [map[m] EXCEPT !.refs = 0, !.ctx = 0, !.dma = 0,
                                   !.state = "freed", !.listed = FALSE]
    <3>1. r \in MapRecord
      BY <2>1 DEF MapRecord
    <3>2. r.state = "freed" /\ ~r.listed /\ (r.dsp <=> map[m].dsp)
      BY <2>1 DEF MapRecord
    <3>3. map'[m] = r
      BY <1>1, <2>3
    <3> HIDE DEF r
    <3>4. m \notin leaked'
      BY <1>1, <2>1, <2>3 DEF MapOK, PlaceOK
    <3>5. Users(m)' = {} /\ IsFiniteSet(Users(m)') /\ ~Mapper(m)' /\ ~Unmapper(m)'
      BY <1>2, FS_EmptySet
    <3>6. MapOK(m)'
      BY <1>1, <3>2, <3>3, <3>4, <3>5 DEF MapOK, UsersOK, ListOK, IoctlOK, PlaceOK
    <3> QED
      BY <3>1, <3>2, <3>3, <3>6
  <2> QED
    BY <2>2, <2>3
<1>4. TypeOK'
  <2>1. map' \in [Maps -> MapRecord]
    BY <1>1, <1>3
  <2> QED
    BY <1>1, <2>1 DEF IndInv, TypeOK, MapRecord
<1>5. ThreadInv'
  BY <1>1, <1>3 DEF IndInv, ThreadInv, MappingPcs, UnmappingPcs
<1> QED
  BY <1>3, <1>4, <1>5 DEF IndInv

-----------------------------------------------------------------------------
(* The theorems.                                                           *)

\* A session starts without maps and without calls.
LEMMA InitInv == Init => IndInv
<1> SUFFICES ASSUME Init PROVE IndInv
  OBVIOUS
<1>1. /\ Unborn \in MapRecord /\ Unborn.state = "unborn" /\ ~Unborn.listed
      /\ ~Unborn.dsp /\ ~Unborn.short
  BY DEF Unborn, MapRecord
<1>2. /\ \A m \in Maps : map[m] = Unborn
      /\ \A t \in Threads : thr[t] = Idle
      /\ imutex = NULL /\ phase = "open" /\ leaked = {} /\ closefail = FALSE
      /\ map \in [Maps -> MapRecord] /\ thr \in [Threads -> ThreadRecord]
  BY <1>1, IdleFacts DEF Init
<1>3. TypeOK
  BY <1>2 DEF TypeOK, MapRecord, ThreadRecord
<1>4. ThreadInv
  BY <1>2, IdleFacts DEF ThreadInv, MappingPcs, UnmappingPcs, Invoking
<1>5. ASSUME NEW m \in Maps PROVE MapOK(m)
  <2>1. Users(m) = {} /\ ~Mapper(m) /\ ~Unmapper(m)
    <3>1. NULL \notin Maps
      BY ConstAssumption
    <3> QED
      BY <1>2, <3>1, IdleFacts DEF Users, Mapper, Unmapper, MappingPcs, UnmappingPcs
  <2>2. IsFiniteSet(Users(m))
    BY <2>1, FS_EmptySet
  <2> QED
    BY <1>1, <1>2, <2>1, <2>2 DEF MapOK, UsersOK, ListOK, IoctlOK, PlaceOK
<1> QED
  BY <1>3, <1>4, <1>5 DEF IndInv

\* Every step keeps the invariant.
LEMMA NextInv == IndInv /\ [Next]_vars => IndInv'
<1> SUFFICES ASSUME IndInv, [Next]_vars PROVE IndInv'
  OBVIOUS
<1>1. ASSUME NEW t \in Threads, Invocation(t) PROVE IndInv'
  BY <1>1, GetArgsBufStep, GetArgsHandleStep, QuietStep, PutArgsBufStep,
     PutArgsFdListStep, ContextFreeStep, GetArgsRollbackStep DEF Invocation
<1>2. ASSUME NEW t \in Threads, Mapping(t) PROVE IndInv'
  BY <1>2, MapEnterStep, MapEnterHeapStep, MapDspStep, MapFailStep, UnmapEnterStep, UnmapDspStep,
     UnmapFreeStep, UnmapBackStep, MunmapFdStep DEF Mapping
<1>3. CASE UNCHANGED vars
  <2>1. TypeOK' /\ ThreadInv'
    BY <1>3 DEF vars, IndInv, TypeOK, ThreadInv
  <2>2. ASSUME NEW m \in Maps PROVE MapOK(m)'
    BY <1>3, FrameMap DEF vars, IndInv, Users, Mapper, Unmapper
  <2> QED
    BY <2>1, <2>2 DEF IndInv
<1> QED
  BY <1>1, <1>2, <1>3, FileFreeStartStep, FileFreeEndStep DEF Next

\* The invariant of the sessions' maps: types, what a thread may hold, and for
\* every map the references that its state calls for.
THEOREM Invariance == Spec => []IndInv
  BY InitInv, NextInv, PTL DEF Spec

\* hfastrpc_mmap_free never frees a map that an invocation or an ioctl still
\* points to, unless a failed hfastrpc_munmap of a kept map lost a reference.
THEOREM NoPointerDangles == Spec => []NoUseAfterFree
<1>1. IndInv => NoUseAfterFree
  <2> SUFFICES ASSUME IndInv, NEW t \in Threads, NEW m \in {thr[t].buf, thr[t].m} \ {NULL}
               PROVE  Live(m) \/ map[m].short
    BY DEF NoUseAfterFree
  <2>1. m \in Maps
    BY DEF IndInv, TypeOK
  <2>2. MapOK(m)
    BY <2>1 DEF IndInv
  <2>3. CASE m = thr[t].buf
    <3>1. t \in Users(m)
      BY <2>3 DEF Users
    <3> QED
      BY <2>2, <3>1 DEF MapOK, UsersOK, ListOK, Live
  <2>4. CASE m = thr[t].m
    <3>1. thr[t].pc \in MappingPcs \/ thr[t].pc \in UnmappingPcs
      BY <2>1, <2>4, ConstAssumption
         DEF IndInv, ThreadInv, TypeOK, Invoking, MappingPcs, UnmappingPcs
    <3>2. Mapper(m) \/ Unmapper(m)
      BY <2>4, <3>1 DEF Mapper, Unmapper
    <3> QED
      BY <2>2, <3>2 DEF MapOK, IoctlOK, Live
  <2> QED
    BY <2>3, <2>4
<1> QED
  BY <1>1, Invariance, PTL

\* ctx_refs is the number of invocations that use the map.
THEOREM CtxRefsAreExact == Spec => []CtxRefsExact
<1>1. IndInv => CtxRefsExact
  BY DEF IndInv, MapOK, UsersOK, Users, CtxRefsExact, Live
<1> QED
  BY <1>1, Invariance, PTL

\* What the DSP has mapped stays backed, whoever drops references meanwhile,
\* until a session whose CLOSE failed has been released.
THEOREM DspMappingIsBacked == Spec => []DspMappingBacked
<1>1. IndInv => DspMappingBacked
  BY DEF IndInv, ThreadInv, MapOK, PlaceOK, DspMappingBacked, Live
<1> QED
  BY <1>1, Invariance, PTL

\* No live map is lost but for the three leaks the code has.
THEOREM MapsAreAccounted == Spec => []MapsAccounted
<1>1. IndInv => MapsAccounted
  <2> SUFFICES ASSUME IndInv PROVE MapsAccounted
    OBVIOUS
  <2>1. leaked \subseteq Maps /\ \A m \in Maps : PlaceOK(m)
    BY DEF IndInv, TypeOK, MapOK
  <2> QED
    BY <2>1 DEF PlaceOK, Unmapper, MapsAccounted, Live
<1> QED
  BY <1>1, Invariance, PTL

\* The loop of hfastrpc_file_free over the list ends.
THEOREM CloseDoesEnd == Spec => []CloseEnds
<1>1. IndInv => CloseEnds
  <2> SUFFICES ASSUME IndInv, NEW m \in Maps, map[m].listed
               PROVE  map[m].refs > 0 \/ map[m].short
    BY DEF CloseEnds
  <2>1. ListOK(m) /\ map[m].refs \in Nat
    BY DEF IndInv, MapOK, TypeOK
  <2> QED
    BY <2>1 DEF ListOK
<1> QED
  BY <1>1, Invariance, PTL
=============================================================================

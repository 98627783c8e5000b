------------------------------- MODULE ArgCopy -------------------------------
(***************************************************************************)
(* The buffer arguments of one remote call in the hybrid FastRPC driver    *)
(* (hybrid_fastrpc_core.c): the overlap table, get_args and put_args.      *)
(*                                                                         *)
(* The caller's buffers may overlap.  A buffer with a file descriptor is   *)
(* mapped and the DSP works on it in place; the others are copied into one *)
(* kernel buffer, behind the call's metadata where the page has room and   *)
(* in a buffer of its own otherwise.  The overlap table says which bytes   *)
(* of a buffer are not in the copy yet, so that buffers that overlap in    *)
(* the caller's memory overlap in the same way in the copy.                *)
(*                                                                         *)
(* Memory is a function from addresses to bytes; a byte is <<0, a>> (what  *)
(* the caller had at address a), <<i, k>> (what the DSP wrote at index k   *)
(* of buffer i), Zero, Meta (the call's metadata) or Stale (left from an   *)
(* earlier use of the page).  The DSP is taken to write all its outputs.   *)
(***************************************************************************)
EXTENDS Integers, Sequences, FiniteSetsExt

CONSTANTS
    Bufs,       \* number of buffer arguments, inputs first
    AddrMod,    \* the caller's addresses are 0 .. AddrMod - 1 (2^64)
    Lens,       \* lengths a buffer may have
    BALIGN,     \* alignment of a buffer in the copy
    PAGE_SIZE,
    metalen,    \* bytes of metadata of the call
    LONG_MAX

ASSUME ArgAssumption ==
    /\ {Bufs, metalen, LONG_MAX} \subseteq Nat
    /\ {AddrMod, BALIGN, PAGE_SIZE} \subseteq Nat \ {0}
    /\ Lens \subseteq 0 .. AddrMod
    /\ PAGE_SIZE % BALIGN = 0

VARIABLES
    lpra,       \* the arguments: user address, length, mapped or not
    inbufs,     \* the first inbufs arguments are inputs
    pc, err,
    bailed,     \* did get_args leave at its check of the handles?
    overps,     \* overlap table: arguments by address
    oix,        \* loop index
    totallen, rlen, args,
    copybuf,    \* kernel address of the buffer the copies are in
    rpra,       \* address of every argument, as the DSP gets it
    pages,      \* page list: physical address and size
    user,       \* the caller's memory
    kmem        \* kernel memory

vars == <<lpra, inbufs, pc, err, bailed, overps, oix, totallen, rlen, args,
          copybuf, rpra, pages, user, kmem>>

inputs == <<lpra, inbufs>>

Args == 1 .. Bufs
Zero == <<-1, 0>>
Meta == <<-2, 0>>
Stale == <<-3, 0>>

End(i) == lpra[i].pv + lpra[i].len
Bytes(i) == lpra[i].pv .. End(i) - 1
Copied(i) == lpra[i].len > 0 /\ ~lpra[i].mapped

ALIGN(n, a) == ((n + a - 1) \div a) * a
buf_page_size(n) ==
    IF ALIGN(n, PAGE_SIZE) > PAGE_SIZE THEN ALIGN(n, PAGE_SIZE) ELSE PAGE_SIZE
buf_page_start(a) == (a \div PAGE_SIZE) * PAGE_SIZE
buf_num_pages(a, n) ==
    (buf_page_start(a + n - 1) - buf_page_start(a)) \div PAGE_SIZE + 1

\* Kernel addresses: the metadata's buffer and a separate copy buffer, page
\* aligned and apart; the DSP's address of a byte is da(its address).
MetaVa == 2 * PAGE_SIZE
CopyVa == MetaVa + buf_page_size(metalen) + 2 * PAGE_SIZE
da(va) == va + 64 * PAGE_SIZE

Init ==
    /\ lpra \in [Args -> [pv : 0 .. AddrMod - 1, len : Lens, mapped : BOOLEAN]]
    /\ inbufs \in 0 .. Bufs
    /\ pc = "build" /\ err = "none" /\ bailed = FALSE
    /\ overps = <<>> /\ oix = 1
    /\ totallen = metalen /\ rlen = 0
    /\ args = 0 /\ copybuf = 0
    /\ rpra = [i \in Args |-> 0]
    /\ pages = [i \in Args |-> [addr |-> 0, size |-> 0]]
    /\ user = [a \in 0 .. AddrMod - 1 |-> <<0, a>>]
    /\ kmem = [a \in MetaVa .. MetaVa + buf_page_size(metalen) - 1 |->
                   IF a < MetaVa + metalen THEN Meta ELSE Stale]

-----------------------------------------------------------------------------
(* context_build_overlap.                                                  *)

start(i) == lpra[i].pv
end(i) == End(i) % AddrMod

Invalid == \E i \in Args : lpra[i].len > 0 /\ end(i) <= start(i)

BuildFails ==
    /\ pc = "build" /\ Invalid
    /\ pc' = "return" /\ err' = "address"
    /\ UNCHANGED <<inputs, bailed, overps, oix, totallen, rlen, args, copybuf,
                   rpra, pages, user, kmem>>

\* overlap_ptr_cmp: lowest start first, then highest end first.
Before(i, j) == start(i) < start(j) \/ (start(i) = start(j) /\ end(i) >= end(j))

Orders == {p \in [Args -> Args] :
              /\ \A i \in Args : \E k \in Args : p[k] = i
              /\ \A k \in 1 .. Bufs - 1 : Before(p[k], p[k + 1])}

\* Fault: a buffer inside earlier ones gets a copy of its own.
Entry_MissesContained(i, max) ==
    IF start(i) < max /\ end(i) > max
    THEN [raix |-> i, mstart |-> max, mend |-> end(i), offset |-> max - start(i)]
    ELSE [raix |-> i, mstart |-> start(i), mend |-> end(i), offset |-> 0]

\* What argument i adds when the arguments before it end at max.
Entry(i, max) ==
    IF start(i) >= max
    THEN [raix |-> i, mstart |-> start(i), mend |-> end(i), offset |-> 0]
    ELSE IF end(i) > max
    THEN [raix |-> i, mstart |-> max, mend |-> end(i), offset |-> max - start(i)]
    ELSE [raix |-> i, mstart |-> 0, mend |-> 0, offset |-> max - start(i)]

\* max.end behind the first k buffers of the order p.
MaxEnd(p) ==
    LET max[k \in 0 .. Bufs] ==
            IF k = 0 THEN 0
            ELSE IF start(p[k]) < max[k - 1] /\ end(p[k]) <= max[k - 1]
            THEN max[k - 1]
            ELSE end(p[k])
    IN  max

\* sort() does not say in which order it leaves equal elements.
BuildOverlap ==
    /\ pc = "build" /\ ~Invalid
    /\ \E p \in Orders :
        overps' = [k \in Args |-> Entry(p[k], MaxEnd(p)[k - 1])]
    /\ pc' = "size"
    /\ UNCHANGED <<inputs, err, bailed, oix, totallen, rlen, args, copybuf, rpra,
                   pages, user, kmem>>

-----------------------------------------------------------------------------
(* get_args.                                                               *)

\* The bytes the first k buffers of the table need in the copy; -1 once that
\* is not a length.
Sums ==
    LET sum[k \in 0 .. Bufs] ==
            IF k = 0 THEN 0
            ELSE LET o == overps[k]
                     from == IF o.offset = 0 THEN ALIGN(sum[k - 1], BALIGN)
                             ELSE sum[k - 1]
                     templen == o.mend - o.mstart
                 IN  IF sum[k - 1] = -1 \/ ~Copied(o.raix) THEN sum[k - 1]
                     ELSE IF templen <= LONG_MAX /\ from <= LONG_MAX - templen
                     THEN from + templen
                     ELSE -1
    IN  sum

\* copylen
Needed == Sums[Bufs]

SizeFails ==
    /\ pc = "size" /\ Needed = -1
    /\ pc' = "return" /\ err' = "size"
    /\ UNCHANGED <<inputs, bailed, overps, oix, totallen, rlen, args, copybuf, rpra, pages,
                   user, kmem>>

\* The copies go behind the metadata if they fit, else into a new buffer.
PlaceCopies ==
    LET copylen == Needed
        total == ALIGN(totallen, BALIGN) + copylen
    IN  /\ pc = "size" /\ copylen # -1
        /\ IF total <= buf_page_size(metalen)
           THEN /\ args' = MetaVa + metalen /\ copybuf' = MetaVa
                /\ rlen' = total - metalen /\ totallen' = total
                /\ UNCHANGED kmem
           ELSE IF copylen > 0
           THEN /\ args' = CopyVa /\ copybuf' = CopyVa
                /\ rlen' = copylen /\ totallen' = copylen
                /\ kmem' = [a \in DOMAIN kmem \cup CopyVa .. CopyVa + copylen - 1 |->
                                IF a >= CopyVa THEN Zero ELSE kmem[a]]
           ELSE totallen' = total /\ UNCHANGED <<args, copybuf, rlen, kmem>>
        /\ pc' = "meta"
        /\ UNCHANGED <<inputs, err, bailed, overps, oix, rpra, pages, user>>

\* rpra and the page list of the mapped buffers: each is mapped from a page
\* boundary, which the DSP has at da(boundary) (FASTRPC_ATTR_NOVA, which names
\* the whole mapping instead, is left out).
FillMetadata ==
    /\ pc = "meta"
    /\ rpra' = [i \in Args |-> IF lpra[i].len = 0 THEN 0 ELSE lpra[i].pv]
    /\ pages' = [i \in Args |->
           IF lpra[i].len > 0 /\ lpra[i].mapped
           THEN [addr |-> da(buf_page_start(lpra[i].pv)),
                 size |-> buf_num_pages(lpra[i].pv, lpra[i].len) * PAGE_SIZE]
           ELSE pages[i]]
    /\ UNCHANGED <<inputs, err, overps, totallen, rlen, args, copybuf, user, kmem>>

\* Under map_mutex, the maps of the call's handles are all still there.
Metadata ==
    /\ FillMetadata
    /\ pc' = "copy"
    /\ UNCHANGED <<bailed, oix>>

\* One of them is gone, freed on the word of another call (PutArgsFdList in
\* MapRefs): get_args leaves, with no copy made and the kernel's copy of rpra
\* still zero, and returns 0.  The call goes on.
HandleGone ==
    /\ FillMetadata
    /\ bailed' = TRUE
    /\ pc' = "dsp" /\ oix' = inbufs + 1

\* No memory for the copies; a buffer that is not within its mapping; memory
\* of the caller that cannot be read.
GetArgsFails ==
    /\ \/ pc = "size" /\ Needed > 0
       \/ pc = "meta" /\ \E i \in Args : lpra[i].mapped
       \/ pc = "copy" /\ oix <= Bufs /\ Copied(overps[oix].raix)
             /\ overps[oix].raix <= inbufs
    /\ pc' = "return" /\ err' = "other"
    /\ UNCHANGED <<inputs, bailed, overps, oix, totallen, rlen, args, copybuf,
                   rpra, pages, user, kmem>>

\* One buffer of the copy loop.
CopyStep ==
    LET o == overps[oix]
        i == o.raix
        at == IF o.offset = 0 THEN ALIGN(args, BALIGN) ELSE args
        left == rlen - (at - args)
        mlen == o.mend - o.mstart
        pv == at - o.offset
    IN  /\ pc = "copy" /\ oix <= Bufs
        /\ IF ~Copied(i)
           THEN /\ oix' = oix + 1
                /\ UNCHANGED <<pc, err, args, rlen, rpra, pages, kmem>>
           ELSE IF left < mlen
           THEN /\ pc' = "return" /\ err' = "room"
                /\ UNCHANGED <<oix, args, rlen, rpra, pages, kmem>>
           ELSE /\ rpra' = [rpra EXCEPT ![i] = pv]
                /\ pages' = [pages EXCEPT ![i] =
                       [addr |-> buf_page_start(da(copybuf) - o.offset
                                                 + totallen - left),
                        size |-> buf_num_pages(pv, lpra[i].len) * PAGE_SIZE]]
                /\ kmem' = IF i > inbufs THEN kmem
                           ELSE [a \in DOMAIN kmem \cup pv .. pv + lpra[i].len - 1 |->
                                    IF a \in pv .. pv + lpra[i].len - 1
                                    THEN user[lpra[i].pv + a - pv] ELSE kmem[a]]
                /\ args' = at + mlen /\ rlen' = left - mlen
                /\ oix' = oix + 1 /\ UNCHANGED <<pc, err>>
        /\ UNCHANGED <<inputs, bailed, overps, totallen, copybuf, user>>

CopyEnd ==
    /\ pc = "copy" /\ oix = Bufs + 1
    /\ pc' = "dsp" /\ oix' = inbufs + 1
    /\ UNCHANGED <<inputs, err, bailed, overps, totallen, rlen, args, copybuf,
                   rpra, pages, user, kmem>>

-----------------------------------------------------------------------------
(* The call.                                                               *)

Outputs == inbufs + 1 .. Bufs

\* Memory after the buffers outs were written at the given addresses, one
\* after the other.
Written(mem, outs, at) ==
    [a \in DOMAIN mem |->
        LET hit == {i \in outs : a \in at[i] .. at[i] + lpra[i].len - 1}
        IN  IF hit = {} THEN mem[a] ELSE <<Max(hit), a - at[Max(hit)]>>]

\* The DSP writes every output: mapped ones in place, copied ones in the copy,
\* if it was told of one.
DspRuns ==
    /\ pc = "dsp"
    /\ user' = Written(user, {i \in Outputs : lpra[i].mapped}, rpra)
    /\ kmem' = Written(kmem, {i \in Outputs : Copied(i) /\ ~bailed}, rpra)
    /\ pc' = "put"
    /\ UNCHANGED <<inputs, err, bailed, overps, oix, totallen, rlen, args,
                   copybuf, rpra, pages>>

\* What the kernel reads at an address; the copies lie in kmem.
Read(a) == IF a \in DOMAIN kmem THEN kmem[a] ELSE Stale

\* put_args: one output buffer, of the length the kernel's copy of rpra has.
PutStep ==
    /\ pc = "put" /\ oix <= Bufs
    /\ user' = IF ~Copied(oix) \/ bailed THEN user
               ELSE [a \in DOMAIN user |->
                        IF a \in Bytes(oix)
                        THEN Read(rpra[oix] + a - lpra[oix].pv) ELSE user[a]]
    /\ oix' = oix + 1
    /\ UNCHANGED <<inputs, pc, err, bailed, overps, totallen, rlen, args, copybuf,
                   rpra, pages, kmem>>

\* Memory of the caller that cannot be written.
PutFails ==
    /\ pc = "put" /\ oix <= Bufs /\ Copied(oix) /\ ~bailed
    /\ pc' = "return" /\ err' = "other"
    /\ UNCHANGED <<inputs, bailed, overps, oix, totallen, rlen, args, copybuf,
                   rpra, pages, user, kmem>>

PutEnd ==
    /\ pc = "put" /\ oix = Bufs + 1
    /\ pc' = "return"
    /\ UNCHANGED <<inputs, err, bailed, overps, oix, totallen, rlen, args,
                   copybuf, rpra, pages, user, kmem>>

Next ==
    \/ BuildFails \/ BuildOverlap
    \/ SizeFails \/ PlaceCopies \/ Metadata \/ HandleGone \/ GetArgsFails \/ CopyStep \/ CopyEnd
    \/ DspRuns \/ PutStep \/ PutFails \/ PutEnd

Spec == Init /\ [][Next]_vars
-----------------------------------------------------------------------------
(* Correctness.                                                            *)

\* The addresses the DSP gets for the copied buffers alias exactly as the
\* caller's do, lie in the copy area behind the metadata, and the page list
\* covers them.
SameAliasing ==
    /\ \A i, j \in {i \in Args : Copied(i)} :
        \A a \in Bytes(i), b \in Bytes(j) :
            rpra[i] + (a - start(i)) = rpra[j] + (b - start(j)) <=> a = b
    /\ \A i \in {i \in Args : Copied(i)} :
        /\ rpra[i] >= copybuf + (IF copybuf = MetaVa THEN metalen ELSE 0)
        /\ rpra[i] + lpra[i].len <= copybuf + totallen
        /\ pages[i].addr = da(buf_page_start(rpra[i]))
        /\ rpra[i] + lpra[i].len <= buf_page_start(rpra[i]) + pages[i].size

InputsThere ==
    \A i \in {i \in 1 .. inbufs : Copied(i)} : \A a \in Bytes(i) :
        kmem[rpra[i] + a - start(i)] = user[a]

\* What the caller's memory holds once the outputs outs were written to it.
Direct(outs) ==
    Written([a \in DOMAIN user |-> <<0, a>>], outs, [i \in Args |-> lpra[i].pv])

\* Buffers overlap only among the mapped or among the copied ones.  Nothing in
\* get_args sees to it: the overlap table takes no notice of the maps, and a
\* copied buffer behind a mapped one it overlaps counts on bytes that are not
\* in the copy.
Overlap(i, j) == Bytes(i) \cap Bytes(j) # {}
Consistent ==
    \A i, j \in Args : Overlap(i, j) => lpra[i].mapped = lpra[j].mapped

(* A call whose mapped buffers overlap no copied ones works on the caller's *)
(* buffers as if they had been passed in place, however else they overlap:  *)
(* the DSP finds the inputs where it was told, writing one buffer changes   *)
(* another exactly where the caller's overlap, and in the end the caller's  *)
(* memory is what direct work on it would have left, with the metadata      *)
(* untouched.  The sizes computed before the copy always suffice, and a     *)
(* call is refused only for a buffer that wraps around.  When get_args      *)
(* finds the map of a handle gone, the call succeeds all the same: what the *)
(* DSP wrote to the mapped buffers is there, and nothing of the others      *)
(* (context_build_overlap, get_args, put_args).                             *)
CallIsTransparent ==
    Consistent =>
        /\ pc = "dsp" /\ ~bailed => SameAliasing /\ InputsThere
        /\ pc = "return" /\ err = "none" =>
              user = Direct(IF bailed THEN {i \in Outputs : lpra[i].mapped} ELSE Outputs)
        /\ \A a \in MetaVa .. MetaVa + metalen - 1 : kmem[a] = Meta
        /\ err # "room" /\ (bailed => err = "none")
        /\ err = "address" <=> pc = "return" /\ Invalid
=============================================================================

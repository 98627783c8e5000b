---------------------------- MODULE ArgCopy_proofs ----------------------------
(***************************************************************************)
(* A remote call works on the caller's buffers as if they had been passed  *)
(* in place, proved for every number of buffers, all addresses, lengths,   *)
(* alignments and page sizes.                                              *)
(*                                                                         *)
(* The heart is the copy loop of get_args.  Its invariant, CopyInv, says   *)
(* of any two buffers copied so far that they are displaced alike or lie   *)
(* apart in both memories (Apart), and that the copy ends where the buffer *)
(* that reaches furthest ends.  The second part makes the next buffer land *)
(* right: if it overlaps earlier ones, the overlap table takes it up where *)
(* the furthest of them ends (Overlapped), which is where the copy ends.   *)
(* The lengths are accounted for by args = Origin + Sums[k], so that the   *)
(* room computed before the loop is never exceeded.                        *)
(*                                                                         *)
(* The loops are recursive functions; facts about them are proved from the *)
(* least index at which they would fail (LeastNat).                        *)
(***************************************************************************)
EXTENDS ArgCopy, FiniteSetTheorems, WellFoundedInduction, TLAPS

-----------------------------------------------------------------------------
(* Numbers, division and alignment.                                        *)

\* A set of numbers that is not empty has a least one.  What follows about
\* loops is proved with it: a least counterexample is none.
LEMMA LeastNat ==
    ASSUME NEW T \in SUBSET Nat, T # {}
    PROVE  \E x \in T : \A y \in T : x <= y
<1>1. IsWellFoundedOn(OpToRel(<, Nat), Nat)
  BY NatLessThanWellFounded
<1>2. PICK x \in T : \A y \in T : ~ (<<y, x>> \in OpToRel(<, Nat))
  BY <1>1, WFMin
<1>3. ASSUME NEW y \in T, y < x
      PROVE  FALSE
  <2>1. <<y, x>> \in Nat \X Nat
    OBVIOUS
  <2>2. <<y, x>> \in OpToRel(<, Nat)
    BY <2>1, <1>3 DEF OpToRel
  <2> QED
    BY <2>2, <1>2
<1> QED
  BY <1>3

\* Multiples of a positive number.
LEMMA Multiples ==
    ASSUME NEW a \in Nat \ {0}, NEW x \in Int, NEW y \in Int
    PROVE  /\ a * x \in Int
           /\ x <= y => a * x <= a * y
           /\ x < y => a * x + a <= a * y
           /\ a * (x + y) = a * x + a * y
OBVIOUS

\* What \div computes ...
LEMMA Division ==
    ASSUME NEW n \in Int, NEW a \in Nat \ {0}
    PROVE  /\ n \div a \in Int
           /\ a * (n \div a) <= n
           /\ n < a * (n \div a) + a
OBVIOUS

\* ... and that nothing else does.
LEMMA Quotient ==
    ASSUME NEW n \in Int, NEW a \in Nat \ {0}, NEW q \in Int,
           a * q <= n, n < a * q + a
    PROVE  n \div a = q
<1> DEFINE d == n \div a
<1>1. d \in Int /\ a * d <= n /\ n < a * d + a
  BY Division
<1> HIDE DEF d
<1>2. ~(d < q)
  <2>1. d < q => a * d + a <= a * q
    BY <1>1, Multiples
  <2>2. a * d \in Int /\ a * q \in Int
    BY <1>1, Multiples
  <2> QED
    BY <2>1, <2>2, <1>1
<1>3. ~(q < d)
  <2>1. q < d => a * q + a <= a * d
    BY <1>1, Multiples
  <2>2. a * d \in Int /\ a * q \in Int
    BY <1>1, Multiples
  <2> QED
    BY <2>1, <2>2, <1>1
<1>4. d = q
  BY <1>1, <1>2, <1>3
<1> QED
  BY <1>4 DEF d

\* A multiple of the divisor passes through a division ...
LEMMA DivShift ==
    ASSUME NEW n \in Int, NEW a \in Nat \ {0}, NEW k \in Int
    PROVE  (a * k + n) \div a = k + (n \div a)
<1> DEFINE q == n \div a
<1>1. q \in Int /\ a * q <= n /\ n < a * q + a
  BY Division
<1> HIDE DEF q
<1>2. a * (k + q) = a * k + a * q /\ a * k \in Int /\ a * q \in Int /\ k + q \in Int
  BY <1>1, Multiples
<1>3. a * k + n \in Int /\ a * (k + q) <= a * k + n /\ a * k + n < a * (k + q) + a
  BY <1>1, <1>2
<1>4. (a * k + n) \div a = k + q
  BY <1>2, <1>3, Quotient
<1> QED
  BY <1>4 DEF q

\* ALIGN rounds up, by less than the alignment ...
LEMMA AlignBounds ==
    ASSUME NEW n \in Int, NEW a \in Nat \ {0}
    PROVE  ALIGN(n, a) \in Int /\ n <= ALIGN(n, a) /\ ALIGN(n, a) < n + a
<1> DEFINE q == (n + a - 1) \div a
<1>1. q \in Int /\ a * q <= n + a - 1 /\ n + a - 1 < a * q + a
  BY Division
<1>2. ALIGN(n, a) = q * a
  BY DEF ALIGN
<1> HIDE DEF q
<1>3. q * a = a * q /\ a * q \in Int
  BY <1>1
<1> QED
  BY <1>1, <1>2, <1>3

\* ... and moves with every multiple of the alignment.
LEMMA AlignShift ==
    ASSUME NEW n \in Int, NEW a \in Nat \ {0}, NEW k \in Int
    PROVE  ALIGN(a * k + n, a) = a * k + ALIGN(n, a)
<1> DEFINE m == n + a - 1
<1>0. m \in Int /\ a * k \in Int /\ (a * k + n) + a - 1 = a * k + m
  BY Multiples
<1> HIDE DEF m
<1>1. (a * k + m) \div a = k + (m \div a) /\ m \div a \in Int
  BY <1>0, DivShift, Division
<1>2. ALIGN(a * k + n, a) = (k + (m \div a)) * a
  BY <1>0, <1>1 DEF ALIGN
<1>3. ALIGN(n, a) = (m \div a) * a
  BY DEF ALIGN, m
<1> DEFINE q == m \div a
<1>4. q \in Int
  BY <1>1
<1> HIDE DEF q
<1>5. (k + q) * a = a * k + q * a
  BY <1>4
<1> QED
  BY <1>2, <1>3, <1>5 DEF q

\* Zero is aligned.
LEMMA AlignZero ==
    ASSUME NEW a \in Nat \ {0}
    PROVE  ALIGN(0, a) = 0
<1>1. a * 0 = 0 /\ 0 * a = 0
  OBVIOUS
<1>2. (0 + a - 1) \div a = 0
  BY <1>1, Quotient
<1> QED
  BY <1>1, <1>2 DEF ALIGN

-----------------------------------------------------------------------------
(* Induction over the number of buffers, by the least counterexample.      *)

\* max.end behind the k-th buffer of the order p, if it was m before.
Raised(p, m, k) == IF start(p[k]) < m /\ end(p[k]) <= m THEN m ELSE end(p[k])

\* The loop of context_build_overlap computes max.end entry by entry.
LEMMA MaxEndEquation ==
    ASSUME NEW p
    PROVE  MaxEnd(p) =
               [k \in 0 .. Bufs |-> IF k = 0 THEN 0 ELSE Raised(p, MaxEnd(p)[k - 1], k)]
<1> DEFINE Solves(f, n) ==
        f = [k \in 0 .. n |-> IF k = 0 THEN 0 ELSE Raised(p, f[k - 1], k)]
<1> DEFINE Bad == {n \in Nat : ~ \E f : Solves(f, n)}
<1>0. Bufs \in Nat
  BY ArgAssumption
<1>1. Bad = {}
  <2> SUFFICES ASSUME Bad # {}
               PROVE  FALSE
    OBVIOUS
  <2>1. PICK n \in Bad : \A y \in Bad : n <= y
    BY LeastNat
  <2>2. n \in Nat
    OBVIOUS
  <2>3. CASE n = 0
    <3> DEFINE f == [k \in 0 .. 0 |-> 0]
    <3>1. Solves(f, 0)
      OBVIOUS
    <3> QED
      BY <3>1, <2>3, <2>1
  <2>4. CASE n # 0
    <3>1. n - 1 \in Nat
      BY <2>2, <2>4
    <3>2. n - 1 \notin Bad
      <4> HIDE DEF Bad
      <4> QED
        BY <2>1, <2>2
    <3>3. PICK g : Solves(g, n - 1)
      BY <3>1, <3>2
    <3> DEFINE f == [k \in 0 .. n |-> IF k = n THEN Raised(p, g[n - 1], n) ELSE g[k]]
    <3>4. ASSUME NEW k \in 0 .. n
          PROVE  f[k] = IF k = 0 THEN 0 ELSE Raised(p, f[k - 1], k)
      BY <2>2, <2>4, <3>3
    <3>5. Solves(f, n)
      BY <3>4
    <3> QED
      BY <3>5, <2>1
  <2> QED
    BY <2>3, <2>4
<1>2. \E f : Solves(f, Bufs)
  BY <1>0, <1>1
<1>3. MaxEnd(p) =
        CHOOSE f : f = [k \in 0 .. Bufs |-> IF k = 0 THEN 0 ELSE Raised(p, f[k - 1], k)]
  BY Zenon DEF MaxEnd, Raised
<1> QED
  BY <1>2, <1>3, Zenon

\* What the k-th entry of the table adds to a length s of the copy.
Grown(s, k) ==
    LET o == overps[k]
        from == IF o.offset = 0 THEN ALIGN(s, BALIGN) ELSE s
        templen == o.mend - o.mstart
    IN  IF s = -1 \/ ~Copied(o.raix) THEN s
        ELSE IF templen <= LONG_MAX /\ from <= LONG_MAX - templen
        THEN from + templen
        ELSE -1

\* So does the loop of get_args with the length.
LEMMA SumsEquation ==
    Sums = [k \in 0 .. Bufs |-> IF k = 0 THEN 0 ELSE Grown(Sums[k - 1], k)]
<1> DEFINE Solves(f, n) ==
        f = [k \in 0 .. n |-> IF k = 0 THEN 0 ELSE Grown(f[k - 1], k)]
<1> DEFINE Bad == {n \in Nat : ~ \E f : Solves(f, n)}
<1>0. Bufs \in Nat
  BY ArgAssumption
<1>1. Bad = {}
  <2> SUFFICES ASSUME Bad # {}
               PROVE  FALSE
    OBVIOUS
  <2>1. PICK n \in Bad : \A y \in Bad : n <= y
    BY LeastNat
  <2>2. n \in Nat
    OBVIOUS
  <2>3. CASE n = 0
    <3> DEFINE f == [k \in 0 .. 0 |-> 0]
    <3>1. Solves(f, 0)
      OBVIOUS
    <3> QED
      BY <3>1, <2>3, <2>1
  <2>4. CASE n # 0
    <3>1. n - 1 \in Nat
      BY <2>2, <2>4
    <3>2. n - 1 \notin Bad
      <4> HIDE DEF Bad
      <4> QED
        BY <2>1, <2>2
    <3>3. PICK g : Solves(g, n - 1)
      BY <3>1, <3>2
    <3> DEFINE f == [k \in 0 .. n |-> IF k = n THEN Grown(g[n - 1], n) ELSE g[k]]
    <3>4. ASSUME NEW k \in 0 .. n
          PROVE  f[k] = IF k = 0 THEN 0 ELSE Grown(f[k - 1], k)
      BY <2>2, <2>4, <3>3
    <3>5. Solves(f, n)
      BY <3>4
    <3> QED
      BY <3>5, <2>1
  <2> QED
    BY <2>3, <2>4
<1>2. \E f : Solves(f, Bufs)
  BY <1>0, <1>1
<1>3. Sums = CHOOSE f : f = [k \in 0 .. Bufs |-> IF k = 0 THEN 0 ELSE Grown(f[k - 1], k)]
  BY Zenon DEF Sums, Grown
<1> QED
  BY <1>2, <1>3, Zenon

-----------------------------------------------------------------------------
(* The overlap table.                                                      *)

\* The arguments of a call that context_build_overlap accepts.
GoodArgs ==
    /\ lpra \in [Args -> [pv : 0 .. AddrMod - 1, len : Lens, mapped : BOOLEAN]]
    /\ Consistent
    /\ ~Invalid

\* The table is the one some run of sort() leads to.
Table ==
    \E p \in Orders : overps = [k \in Args |-> Entry(p[k], MaxEnd(p)[k - 1])]

Who(k) == overps[k].raix
Adds(k) == overps[k].mend - overps[k].mstart

\* An address plus a length wraps around at most once.
LEMMA Wraps ==
    ASSUME NEW a \in Nat \ {0}, NEW n \in Int, 0 <= n, n < a + a
    PROVE  n % a = IF n < a THEN n ELSE n - a
<1>1. n \div a = IF n < a THEN 0 ELSE 1
  <2>1. a * 0 = 0 /\ a * 1 = a
    OBVIOUS
  <2>2. CASE n < a
    BY <2>1, <2>2, Quotient
  <2>3. CASE ~(n < a)
    BY <2>1, <2>3, Quotient
  <2> QED
    BY <2>2, <2>3
<1>2. n = a * (n \div a) + (n % a) /\ n % a \in Int
  OBVIOUS
<1>3. a * (n \div a) = IF n < a THEN 0 ELSE a
  BY <1>1
<1> QED
  BY <1>2, <1>3

\* A buffer that is accepted does not wrap around.
LEMMA ValidEnds ==
    ASSUME GoodArgs, NEW i \in Args
    PROVE  /\ start(i) \in Nat /\ lpra[i].len \in Nat /\ lpra[i].mapped \in BOOLEAN
           /\ End(i) = start(i) + lpra[i].len
           /\ end(i) = End(i) /\ End(i) \in Nat /\ End(i) < AddrMod
<1>1. /\ AddrMod \in Nat \ {0} /\ lpra[i].len \in 0 .. AddrMod
      /\ lpra[i].pv \in 0 .. AddrMod - 1 /\ lpra[i].mapped \in BOOLEAN
  BY ArgAssumption DEF GoodArgs
<1>2. /\ start(i) = lpra[i].pv /\ End(i) = lpra[i].pv + lpra[i].len
      /\ end(i) = End(i) % AddrMod
  BY DEF start, End, end
<1>3. lpra[i].len > 0 => end(i) > start(i)
  <2>1. lpra[i].len > 0 => ~(end(i) <= start(i))
    BY DEF GoodArgs, Invalid
  <2>2. end(i) \in Int
    BY <1>1, <1>2
  <2> QED
    BY <1>1, <1>2, <2>1, <2>2
<1>4. End(i) \in Int /\ 0 <= End(i) /\ End(i) < AddrMod + AddrMod
  BY <1>1, <1>2
<1>5. end(i) = IF End(i) < AddrMod THEN End(i) ELSE End(i) - AddrMod
  BY <1>1, <1>2, <1>4, Wraps
<1> QED
  BY <1>1, <1>2, <1>3, <1>5

\* sort() leaves the buffers ordered by where they start ...
LEMMA Sorted ==
    ASSUME GoodArgs, NEW p \in Orders
    PROVE  \A k \in Args : \A j \in 1 .. k - 1 : start(p[j]) <= start(p[k])
<1> DEFINE Bad == {n \in Nat : n \in Args /\ \E j \in 1 .. n - 1 : ~(start(p[j]) <= start(p[n]))}
<1>1. Bufs \in Nat /\ p \in [Args -> Args]
  BY ArgAssumption DEF Orders
<1>2. \A k \in Args : start(p[k]) \in Nat
  BY <1>1, ValidEnds
<1>3. \A k \in 1 .. Bufs - 1 : start(p[k]) <= start(p[k + 1])
  <2> SUFFICES ASSUME NEW k \in 1 .. Bufs - 1
               PROVE  start(p[k]) <= start(p[k + 1])
    OBVIOUS
  <2>1. Before(p[k], p[k + 1])
    BY DEF Orders
  <2>2. k \in Args /\ k + 1 \in Args
    BY <1>1 DEF Args
  <2> QED
    BY <2>1, <2>2, <1>2 DEF Before
<1>4. Bad = {}
  <2> SUFFICES ASSUME Bad # {}
               PROVE  FALSE
    OBVIOUS
  <2>1. PICK n \in Bad : \A y \in Bad : n <= y
    BY LeastNat
  <2>2. PICK j \in 1 .. n - 1 : ~(start(p[j]) <= start(p[n]))
    OBVIOUS
  <2>3. n \in Nat /\ n \in Args /\ n - 1 \in Args /\ n - 1 \in 1 .. Bufs - 1 /\ j \in Args
    BY <1>1, <2>2 DEF Args
  <2>4. n - 1 \notin Bad
    <3> HIDE DEF Bad
    <3> QED
      BY <2>1, <2>3
  <2>5. start(p[n - 1]) <= start(p[n])
    <3>1. (n - 1) + 1 = n
      BY <2>3
    <3> QED
      BY <1>3, <2>3, <3>1
  <2>6. start(p[j]) <= start(p[n - 1])
    <3>1. CASE j = n - 1
      BY <3>1, <1>2, <2>3
    <3>2. CASE j # n - 1
      <4>1. n - 1 \in Nat /\ j \in 1 .. (n - 1) - 1
        BY <2>2, <2>3, <3>2 DEF Args
      <4> QED
        BY <4>1, <2>3, <2>4
    <3> QED
      BY <3>1, <3>2
  <2> QED
    BY <2>2, <2>3, <2>5, <2>6, <1>2
<1> QED
  <2> SUFFICES ASSUME NEW k \in Args, NEW j \in 1 .. k - 1
               PROVE  start(p[j]) <= start(p[k])
    OBVIOUS
  <2>1. k \in Nat
    BY <1>1 DEF Args
  <2> QED
    BY <2>1, <1>4

\* ... each of them once.
LEMMA Permutation ==
    ASSUME NEW p \in Orders
    PROVE  \A j, k \in Args : p[j] = p[k] => j = k
<1>1. IsFiniteSet(Args)
  BY FS_Interval, ArgAssumption DEF Args
<1>2. p \in Surjection(Args, Args)
  BY DEF Orders, Surjection
<1>3. p \in Injection(Args, Args)
  BY <1>1, <1>2, FS_SurjSameCardinalityImpliesInj
<1> QED
  BY <1>3 DEF Injection, IsInjective

\* max.end is the furthest that the buffers so far reach.
LEMMA MaxEndIsMax ==
    ASSUME GoodArgs, NEW p \in Orders
    PROVE  \A k \in 0 .. Bufs :
               /\ MaxEnd(p)[k] \in Nat
               /\ \A j \in 1 .. k : End(p[j]) <= MaxEnd(p)[k]
               /\ MaxEnd(p)[k] = 0 \/ \E j \in 1 .. k : End(p[j]) = MaxEnd(p)[k]
<1> DEFINE m == MaxEnd(p)
<1> DEFINE Good(k) == /\ m[k] \in Nat
                      /\ \A j \in 1 .. k : End(p[j]) <= m[k]
                      /\ m[k] = 0 \/ \E j \in 1 .. k : End(p[j]) = m[k]
<1> DEFINE Bad == {n \in Nat : n \in 0 .. Bufs /\ ~Good(n)}
<1>1. Bufs \in Nat /\ p \in [Args -> Args]
  BY ArgAssumption DEF Orders
<1>2. m[0] = 0 /\ \A k \in 1 .. Bufs : m[k] = Raised(p, m[k - 1], k)
  <2>1. m = [k \in 0 .. Bufs |-> IF k = 0 THEN 0 ELSE Raised(p, m[k - 1], k)]
    BY MaxEndEquation
  <2> HIDE DEF m
  <2> QED
    BY <2>1, <1>1
<1> HIDE DEF m
<1>3. \A k \in Args : start(p[k]) \in Nat /\ end(p[k]) = End(p[k]) /\ End(p[k]) \in Nat
                      /\ start(p[k]) <= End(p[k])
  BY <1>1, ValidEnds
<1>4. Bad = {}
  <2> SUFFICES ASSUME Bad # {}
               PROVE  FALSE
    OBVIOUS
  <2>1. PICK n \in Bad : \A y \in Bad : n <= y
    BY LeastNat
  <2>2. n \in Nat /\ n \in 0 .. Bufs /\ ~Good(n)
    OBVIOUS
  <2>3. n # 0
    <3>1. Good(0)
      BY <1>2
    <3> QED
      BY <2>2, <3>1
  <2>4. n - 1 \in Nat /\ n - 1 \in 0 .. Bufs /\ n \in Args /\ n \in 1 .. Bufs
    BY <2>2, <2>3, <1>1 DEF Args
  <2>5. Good(n - 1)
    <3>1. n - 1 \notin Bad
      <4> HIDE DEF Bad
      <4> QED
        BY <2>1, <2>2
    <3> QED
      BY <3>1, <2>4
  <2>6. m[n] = Raised(p, m[n - 1], n)
    BY <1>2, <2>4
  <2>7. m[n] = IF start(p[n]) < m[n - 1] /\ End(p[n]) <= m[n - 1] THEN m[n - 1] ELSE End(p[n])
    BY <2>6, <2>4, <1>3 DEF Raised
  <2>8. \A j \in 1 .. n : j = n \/ j \in 1 .. n - 1
    BY <2>4
  <2>9. m[n] \in Nat /\ m[n - 1] <= m[n] /\ End(p[n]) <= m[n]
    BY <2>5, <2>7, <1>3, <2>4
  <2>10. \A j \in 1 .. n - 1 : End(p[j]) <= m[n - 1] /\ End(p[j]) \in Nat
    <3> SUFFICES ASSUME NEW j \in 1 .. n - 1
                 PROVE  End(p[j]) <= m[n - 1] /\ End(p[j]) \in Nat
      OBVIOUS
    <3>1. j \in Args
      BY <2>4, <1>1 DEF Args
    <3> QED
      BY <3>1, <1>3, <2>5
  <2>11. \A j \in 1 .. n : End(p[j]) <= m[n]
    BY <2>8, <2>9, <2>10, <2>5
  <2>12. m[n] = 0 \/ \E j \in 1 .. n : End(p[j]) = m[n]
    <3>1. CASE m[n] = m[n - 1]
      BY <3>1, <2>5, <2>4
    <3>2. CASE m[n] = End(p[n])
      BY <3>2, <2>4
    <3> QED
      BY <3>1, <3>2, <2>7
  <2> QED
    BY <2>2, <2>9, <2>11, <2>12
<1>5. \A k \in 0 .. Bufs : Good(k)
  BY <1>4, <1>1
<1> QED
  BY <1>5 DEF m

\* The overlap table: every buffer once, in order; one that starts behind all
\* before it adds its length, any other what lies behind the furthest end.
LEMMA TableFacts ==
    ASSUME GoodArgs, Table
    PROVE  /\ \A k \in Args : Who(k) \in Args /\ overps[k].offset \in Nat /\ Adds(k) \in Nat
           /\ \A i \in Args : \E k \in Args : Who(k) = i
           /\ \A j, k \in Args : Who(j) = Who(k) => j = k
           /\ \A k \in Args : \A j \in 1 .. k - 1 : start(Who(j)) <= start(Who(k))
           /\ \A k \in Args : overps[k].offset = 0 =>
                  /\ Adds(k) = lpra[Who(k)].len
                  /\ \A j \in 1 .. k - 1 : End(Who(j)) <= start(Who(k))
           /\ \A k \in Args : overps[k].offset > 0 =>
                  LET m == start(Who(k)) + overps[k].offset
                  IN  /\ Adds(k) = IF End(Who(k)) > m THEN End(Who(k)) - m ELSE 0
                      /\ \A j \in 1 .. k - 1 : End(Who(j)) <= m
                      /\ \E j \in 1 .. k - 1 : End(Who(j)) = m
<1>1. PICK p \in Orders : overps = [k \in Args |-> Entry(p[k], MaxEnd(p)[k - 1])]
  BY DEF Table
<1>2. Bufs \in Nat /\ p \in [Args -> Args] /\ \A i \in Args : \E k \in Args : p[k] = i
  BY ArgAssumption DEF Orders
<1>3. \A k \in Args : overps[k] = Entry(p[k], MaxEnd(p)[k - 1])
  BY <1>1
<1>4. \A k \in Args : Who(k) = p[k]
  <2> SUFFICES ASSUME NEW k \in Args
               PROVE  overps[k].raix = p[k]
    BY DEF Who
  <2>1. overps[k] = Entry(p[k], MaxEnd(p)[k - 1])
    BY <1>3
  <2> QED
    BY <2>1 DEF Entry
<1>5. \A k \in Args : \A j \in 1 .. k - 1 : j \in Args
  BY <1>2 DEF Args
<1>6. \A k \in Args : start(p[k]) \in Nat /\ end(p[k]) = End(p[k]) /\ End(p[k]) \in Nat
                      /\ End(p[k]) = start(p[k]) + lpra[p[k]].len /\ lpra[p[k]].len \in Nat
  BY <1>2, ValidEnds
<1>7. ASSUME NEW k \in Args
      PROVE  /\ Who(k) \in Args /\ overps[k].offset \in Nat /\ Adds(k) \in Nat
             /\ overps[k].offset = 0 =>
                  /\ Adds(k) = lpra[p[k]].len
                  /\ \A j \in 1 .. k - 1 : End(p[j]) <= start(p[k])
             /\ overps[k].offset > 0 =>
                  LET m == start(p[k]) + overps[k].offset
                  IN  /\ Adds(k) = IF End(p[k]) > m THEN End(p[k]) - m ELSE 0
                      /\ \A j \in 1 .. k - 1 : End(p[j]) <= m
                      /\ \E j \in 1 .. k - 1 : End(p[j]) = m
  <2> DEFINE m == MaxEnd(p)[k - 1]
  <2>1. k - 1 \in 0 .. Bufs /\ k \in Nat
    BY <1>2 DEF Args
  <2>2. /\ m \in Nat
        /\ \A j \in 1 .. k - 1 : End(p[j]) <= m
        /\ m = 0 \/ \E j \in 1 .. k - 1 : End(p[j]) = m
    BY <2>1, MaxEndIsMax
  <2>3. overps[k] = Entry(p[k], m)
    BY <1>3
  <2> HIDE DEF m
  <2>4. Who(k) \in Args
    BY <1>2, <1>4
  <2>5. CASE start(p[k]) >= m
    <3>1. overps[k].offset = 0 /\ Adds(k) = End(p[k]) - start(p[k])
      BY <2>3, <2>5, <1>6 DEF Entry, Adds
    <3>2. Adds(k) = lpra[p[k]].len
      BY <3>1, <1>6
    <3>3. \A j \in 1 .. k - 1 : End(p[j]) <= start(p[k])
      BY <2>2, <2>5, <1>6, <1>5
    <3> QED
      BY <3>1, <3>2, <3>3, <2>4, <1>6
  <2>6. CASE start(p[k]) < m
    <3>1. /\ overps[k].offset = m - start(p[k])
          /\ Adds(k) = IF End(p[k]) > m THEN End(p[k]) - m ELSE 0
      BY <2>3, <2>6, <2>2, <1>6 DEF Entry, Adds
    <3>2. start(p[k]) + overps[k].offset = m /\ overps[k].offset > 0 /\ m # 0
          /\ overps[k].offset \in Nat
      BY <3>1, <2>2, <2>6, <1>6
    <3>3. Adds(k) \in Nat
      BY <3>1, <2>2, <1>6
    <3> QED
      BY <3>1, <3>2, <3>3, <2>2, <2>4
  <2> QED
    BY <2>5, <2>6, <2>2, <1>6
<1>8. \A k \in Args : \A j \in 1 .. k - 1 : Who(j) = p[j]
  BY <1>4, <1>5
<1>9. \A j, k \in Args : Who(j) = Who(k) => j = k
  BY <1>4, Permutation
<1>10. \A k \in Args : \A j \in 1 .. k - 1 : start(Who(j)) <= start(Who(k))
  BY <1>4, <1>8, Sorted
<1>11. \A i \in Args : \E k \in Args : Who(k) = i
  BY <1>2, <1>4
<1> QED
  BY <1>4, <1>7, <1>8, <1>9, <1>10, <1>11

\* A copied buffer overlaps copied buffers only: one of them reaches furthest.
LEMMA Overlapped ==
    ASSUME GoodArgs, Table, NEW k \in Args, Copied(Who(k)), overps[k].offset > 0
    PROVE  \E w \in 1 .. k - 1 :
               /\ Copied(Who(w))
               /\ End(Who(w)) = start(Who(k)) + overps[k].offset
               /\ start(Who(w)) <= start(Who(k)) /\ start(Who(k)) < End(Who(w))
               /\ \A l \in 1 .. k - 1 : End(Who(l)) <= End(Who(w))
<1> DEFINE i == Who(k)
<1>1. i \in Args /\ overps[k].offset \in Nat
  BY TableFacts
<1>2. PICK w \in 1 .. k - 1 :
          /\ End(Who(w)) = start(i) + overps[k].offset
          /\ start(Who(w)) <= start(i)
          /\ \A l \in 1 .. k - 1 : End(Who(l)) <= End(Who(w))
  <2>1. \A j \in 1 .. k - 1 : start(Who(j)) <= start(i)
    BY TableFacts
  <2>2. /\ \A j \in 1 .. k - 1 : End(Who(j)) <= start(i) + overps[k].offset
        /\ \E j \in 1 .. k - 1 : End(Who(j)) = start(i) + overps[k].offset
    BY TableFacts
  <2> QED
    BY <2>1, <2>2
<1> DEFINE u == Who(w)
<1>3. u \in Args
  <2>1. w \in Args
    BY ArgAssumption DEF Args
  <2> QED
    BY <2>1, TableFacts
<1>4. /\ start(u) \in Nat /\ lpra[u].len \in Nat /\ End(u) = start(u) + lpra[u].len
      /\ lpra[u].mapped \in BOOLEAN
  BY <1>3, ValidEnds
<1>5. /\ start(i) \in Nat /\ lpra[i].len \in Nat /\ End(i) = start(i) + lpra[i].len
      /\ lpra[i].mapped \in BOOLEAN
  BY <1>1, ValidEnds
<1>6. start(i) < End(u)
  BY <1>1, <1>2, <1>5
<1>7. lpra[i].len > 0 /\ ~lpra[i].mapped
  BY DEF Copied
<1>8. Copied(u)
  <2>1. start(i) \in Bytes(u) /\ start(i) \in Bytes(i)
    BY <1>2, <1>4, <1>5, <1>6, <1>7 DEF Bytes, start
  <2>2. lpra[u].mapped = lpra[i].mapped
    BY <2>1, <1>1, <1>3 DEF GoodArgs, Consistent, Overlap
  <2>3. lpra[u].len > 0
    BY <1>2, <1>4, <1>5, <1>6
  <2> QED
    BY <2>2, <2>3, <1>7 DEF Copied
<1> QED
  BY <1>2, <1>6, <1>8

-----------------------------------------------------------------------------
(* The length computed before the copy.                                    *)

\* The length grows with every copied buffer and never leaves its range.
LEMMA SumsStep ==
    ASSUME GoodArgs, Table
    PROVE  /\ Sums[0] = 0
           /\ \A k \in Args : Sums[k] = Grown(Sums[k - 1], k)
           /\ \A k \in 0 .. Bufs : Sums[k] \in Nat \cup {-1}
<1> DEFINE Bad == {n \in Nat : n \in 0 .. Bufs /\ Sums[n] \notin Nat \cup {-1}}
<1>1. Bufs \in Nat /\ BALIGN \in Nat \ {0}
  BY ArgAssumption
<1>2. Sums[0] = 0 /\ \A k \in Args : Sums[k] = Grown(Sums[k - 1], k)
  <2>1. \A k \in Args : k \in 0 .. Bufs /\ k # 0
    BY <1>1 DEF Args
  <2> QED
    BY <2>1, <1>1, SumsEquation
<1>3. ASSUME NEW k \in Args, Sums[k - 1] \in Nat \cup {-1}
      PROVE  Sums[k] \in Nat \cup {-1}
  <2>1. overps[k].offset \in Nat /\ Adds(k) \in Nat
    BY TableFacts
  <2>2. Sums[k - 1] \in Nat => ALIGN(Sums[k - 1], BALIGN) \in Nat
    <3> SUFFICES ASSUME Sums[k - 1] \in Nat
                 PROVE  ALIGN(Sums[k - 1], BALIGN) \in Nat
      OBVIOUS
    <3>1. Sums[k - 1] \in Int
      OBVIOUS
    <3>2. ALIGN(Sums[k - 1], BALIGN) \in Int /\ Sums[k - 1] <= ALIGN(Sums[k - 1], BALIGN)
      BY <3>1, <1>1, AlignBounds
    <3> QED
      BY <3>2
  <2> DEFINE s == Sums[k - 1]
  <2>3. Grown(s, k) \in {s, -1, ALIGN(s, BALIGN) + Adds(k), s + Adds(k)}
        /\ (s = -1 => Grown(s, k) = -1)
    BY DEF Grown, Adds
  <2> QED
    BY <1>2, <1>3, <2>1, <2>2, <2>3
<1>4. Bad = {}
  <2> SUFFICES ASSUME Bad # {}
               PROVE  FALSE
    OBVIOUS
  <2>1. PICK n \in Bad : \A y \in Bad : n <= y
    BY LeastNat
  <2>2. n \in Nat /\ n \in 0 .. Bufs /\ Sums[n] \notin Nat \cup {-1}
    OBVIOUS
  <2>3. n # 0
    BY <2>2, <1>2
  <2>4. n - 1 \in Nat /\ n - 1 \in 0 .. Bufs /\ n \in Args
    BY <2>2, <2>3, <1>1 DEF Args
  <2>5. n - 1 \notin Bad
    <3> HIDE DEF Bad
    <3> QED
      BY <2>1, <2>2
  <2> QED
    BY <2>2, <2>4, <2>5, <1>3
<1> QED
  BY <1>2, <1>4, <1>1

\* If the length is one, so are the lengths before it, and none exceeds it.
LEMMA SumsBounded ==
    ASSUME GoodArgs, Table, Needed # -1
    PROVE  /\ Needed \in Nat
           /\ \A k \in 0 .. Bufs : Sums[k] \in Nat /\ Sums[k] <= Needed
<1> DEFINE Bad == {n \in Nat : n \in 0 .. Bufs /\
                                   ~(Sums[Bufs - n] \in Nat /\ Sums[Bufs - n] <= Needed)}
<1>1. Bufs \in Nat /\ BALIGN \in Nat \ {0}
  BY ArgAssumption
<1>2. Needed \in Nat
  BY <1>1, SumsStep DEF Needed
<1>3. ASSUME NEW k \in Args, Sums[k] \in Nat
      PROVE  Sums[k - 1] \in Nat /\ Sums[k - 1] <= Sums[k]
  <2> DEFINE s == Sums[k - 1]
  <2>1. s \in Nat \cup {-1} /\ Sums[k] = Grown(s, k)
    <3>1. k - 1 \in 0 .. Bufs
      BY <1>1 DEF Args
    <3> QED
      BY <3>1, SumsStep
  <2>2. Adds(k) \in Nat
    BY TableFacts
  <2>3. s \in Nat => ALIGN(s, BALIGN) \in Int /\ s <= ALIGN(s, BALIGN)
    <3> SUFFICES ASSUME s \in Nat
                 PROVE  ALIGN(s, BALIGN) \in Int /\ s <= ALIGN(s, BALIGN)
      OBVIOUS
    <3>1. s \in Int
      OBVIOUS
    <3> HIDE DEF s
    <3> QED
      BY <3>1, <1>1, AlignBounds
  <2>4. Grown(s, k) \in {s, -1, ALIGN(s, BALIGN) + Adds(k), s + Adds(k)}
        /\ (s = -1 => Grown(s, k) = -1)
    BY DEF Grown, Adds
  <2> HIDE DEF s
  <2>5. s \in Nat
    BY <2>1, <2>4, <1>3
  <2>6. s <= Sums[k]
    BY <2>1, <2>2, <2>3, <2>4, <2>5, <1>3
  <2> QED
    BY <2>5, <2>6 DEF s
<1>4. Bad = {}
  <2> SUFFICES ASSUME Bad # {}
               PROVE  FALSE
    OBVIOUS
  <2>1. PICK n \in Bad : \A y \in Bad : n <= y
    BY LeastNat
  <2>2. n \in Nat /\ n \in 0 .. Bufs
        /\ ~(Sums[Bufs - n] \in Nat /\ Sums[Bufs - n] <= Needed)
    OBVIOUS
  <2>3. n # 0
    <3>1. Sums[Bufs - 0] = Needed
      BY <1>1 DEF Needed
    <3> QED
      BY <2>2, <3>1, <1>2
  <2>4. n - 1 \in Nat /\ n - 1 \in 0 .. Bufs /\ Bufs - (n - 1) \in Args
        /\ (Bufs - (n - 1)) - 1 = Bufs - n
    BY <2>2, <2>3, <1>1 DEF Args
  <2>5. n - 1 \notin Bad
    <3> HIDE DEF Bad
    <3> QED
      BY <2>1, <2>2
  <2>6. Sums[Bufs - (n - 1)] \in Nat /\ Sums[Bufs - (n - 1)] <= Needed
    BY <2>4, <2>5
  <2>7. Sums[Bufs - n] \in Nat /\ Sums[Bufs - n] <= Sums[Bufs - (n - 1)]
    BY <2>4, <2>6, <1>3
  <2> QED
    BY <2>2, <2>6, <2>7, <1>2
<1>5. \A k \in 0 .. Bufs : Bufs - k \in Nat /\ Bufs - k \in 0 .. Bufs /\ Bufs - (Bufs - k) = k
  BY <1>1
<1>6. \A k \in 0 .. Bufs : Sums[k] \in Nat /\ Sums[k] <= Needed
  <2> SUFFICES ASSUME NEW k \in 0 .. Bufs
               PROVE  Sums[k] \in Nat /\ Sums[k] <= Needed
    OBVIOUS
  <2>1. Bufs - k \notin Bad
    BY <1>4
  <2> QED
    BY <2>1, <1>5
<1> QED
  BY <1>2, <1>6

\* What a buffer adds to a valid length; something, if it is copied.
LEMMA SumsRow ==
    ASSUME GoodArgs, Table, Needed # -1, NEW k \in Args
    PROVE  /\ ~Copied(Who(k)) => Sums[k] = Sums[k - 1]
           /\ Copied(Who(k)) =>
                  Sums[k] = (IF overps[k].offset = 0 THEN ALIGN(Sums[k - 1], BALIGN)
                             ELSE Sums[k - 1]) + Adds(k)
           /\ Sums[k] \in Nat /\ Sums[k - 1] \in Nat /\ Sums[k - 1] <= Sums[k]
           /\ Sums[k] <= Needed
<1>1. k \in 0 .. Bufs /\ k - 1 \in 0 .. Bufs /\ BALIGN \in Nat \ {0}
  BY ArgAssumption DEF Args
<1>2. Sums[k] \in Nat /\ Sums[k - 1] \in Nat /\ Sums[k] <= Needed
  BY <1>1, SumsBounded
<1>3. Sums[k] = Grown(Sums[k - 1], k)
  BY SumsStep
<1>4. /\ ~Copied(Who(k)) => Sums[k] = Sums[k - 1]
      /\ Copied(Who(k)) =>
             Sums[k] = (IF overps[k].offset = 0 THEN ALIGN(Sums[k - 1], BALIGN)
                        ELSE Sums[k - 1]) + Adds(k)
  BY <1>2, <1>3 DEF Grown, Who, Adds
<1>5. Adds(k) \in Nat /\ ALIGN(Sums[k - 1], BALIGN) \in Int
      /\ Sums[k - 1] <= ALIGN(Sums[k - 1], BALIGN)
  BY <1>1, <1>2, TableFacts, AlignBounds
<1>6. Sums[k - 1] <= Sums[k]
  BY <1>2, <1>4, <1>5
<1> QED
  BY <1>2, <1>4, <1>6

\* Where there is a buffer to copy, the copy has a length.
LEMMA NeededPositive ==
    ASSUME GoodArgs, Table, Needed # -1, NEW i \in Args, Copied(i)
    PROVE  Needed > 0
<1> DEFINE Some == {k \in Nat : k \in Args /\ Copied(Who(k))}
<1>1. Some # {}
  <2>1. PICK k \in Args : Who(k) = i
    BY TableFacts
  <2>2. k \in Nat
    BY ArgAssumption DEF Args
  <2> QED
    BY <2>1, <2>2
<1>2. PICK k \in Some : \A y \in Some : k <= y
  BY <1>1, LeastNat
<1>3. k \in Nat /\ k \in Args /\ Copied(Who(k))
  OBVIOUS
<1>4. overps[k].offset = 0
  <2> SUFFICES ASSUME overps[k].offset > 0
               PROVE  FALSE
    BY <1>3, TableFacts
  <2>1. PICK w \in 1 .. k - 1 : Copied(Who(w))
    BY <1>3, Overlapped
  <2>2. w \in Nat /\ w \in Args /\ w < k
    BY <1>3, ArgAssumption DEF Args
  <2>3. w \in Some
    BY <2>1, <2>2
  <2> HIDE DEF Some
  <2> QED
    BY <1>2, <1>3, <2>2, <2>3
<1>5. Adds(k) = lpra[Who(k)].len
  BY <1>3, <1>4, TableFacts
<1>6. Adds(k) \in Nat /\ Adds(k) > 0
  BY <1>3, <1>5, TableFacts DEF Copied
<1>7. /\ Sums[k] = ALIGN(Sums[k - 1], BALIGN) + Adds(k)
      /\ Sums[k] \in Nat /\ Sums[k - 1] \in Nat /\ Sums[k] <= Needed
  BY <1>3, <1>4, SumsRow
<1>8. ALIGN(Sums[k - 1], BALIGN) \in Int /\ Sums[k - 1] <= ALIGN(Sums[k - 1], BALIGN)
  <2>1. Sums[k - 1] \in Int /\ BALIGN \in Nat \ {0}
    BY <1>7, ArgAssumption
  <2> QED
    BY <2>1, AlignBounds
<1>9. Needed \in Nat
  BY SumsBounded
<1> QED
  BY <1>6, <1>7, <1>8, <1>9

-----------------------------------------------------------------------------
(* The inductive invariant.                                                *)

\* Where the copies begin, and the first aligned address from there.
Floor == copybuf + (IF copybuf = MetaVa THEN metalen ELSE 0)
Origin == IF copybuf = MetaVa THEN MetaVa + ALIGN(metalen, BALIGN) ELSE CopyVa

NoCopies == \A i \in Args : ~Copied(i)

Shape ==
    /\ lpra \in [Args -> [pv : 0 .. AddrMod - 1, len : Lens, mapped : BOOLEAN]]
    /\ Consistent
    /\ inbufs \in 0 .. Bufs /\ oix \in 1 .. Bufs + 1
    /\ pc \in {"build", "size", "meta", "copy", "dsp", "put", "return"}
    /\ err \in {"none", "address", "size", "other"}
    /\ {totallen, rlen, args, copybuf} \subseteq Int
    /\ rpra \in [Args -> Int]
    /\ pages \in [Args -> [addr : Int, size : Int]]
    /\ DOMAIN user = 0 .. AddrMod - 1 /\ user = [a \in DOMAIN user |-> user[a]]
    /\ DOMAIN kmem \subseteq Int /\ kmem = [a \in DOMAIN kmem |-> kmem[a]]

\* The room for the copies is there, or nothing is to be copied.
Placed ==
    /\ ~NoCopies =>
        /\ copybuf \in {MetaVa, CopyVa}
        /\ copybuf + totallen = Origin + Needed
        /\ Floor .. copybuf + totallen - 1 \subseteq DOMAIN kmem

\* Two copied buffers are displaced alike or lie apart, here and there.
Apart(i, j) ==
    \/ rpra[i] - start(i) = rpra[j] - start(j)
    \/ rpra[i] + lpra[i].len <= rpra[j] /\ End(i) <= start(j)
    \/ rpra[j] + lpra[j].len <= rpra[i] /\ End(j) <= start(i)

Spot(i) ==
    /\ Floor <= rpra[i] /\ rpra[i] + lpra[i].len <= args
    /\ pages[i] = [addr |-> da(buf_page_start(rpra[i])),
                   size |-> buf_num_pages(rpra[i], lpra[i].len) * PAGE_SIZE]
    /\ i <= inbufs => \A a \in Bytes(i) :
           /\ rpra[i] + a - start(i) \in DOMAIN kmem
           /\ kmem[rpra[i] + a - start(i)] = user[a]

\* The buffers of the first k entries are copied.  The copy ends with the
\* buffer that reaches furthest.
CopyInv(k) ==
    /\ ~NoCopies =>
        /\ Floor <= args /\ args + rlen = Origin + Needed
        /\ \/ args = Origin + Sums[k]
           \/ /\ Sums[k] = 0 /\ ALIGN(args, BALIGN) = Origin
              /\ \A j \in 1 .. k : ~Copied(Who(j))
    /\ \A j \in 1 .. k : Copied(Who(j)) =>
        /\ Spot(Who(j))
        /\ (\A l \in 1 .. k : End(Who(l)) <= End(Who(j))) =>
               rpra[Who(j)] + lpra[Who(j)].len = args
        /\ \A l \in 1 .. k : Copied(Who(l)) => Apart(Who(j), Who(l))
    /\ \A i \in Args : ~Copied(i) => rpra[i] = IF lpra[i].len = 0 THEN 0 ELSE lpra[i].pv

\* What direct work on the caller's memory would have left.
Result == Direct(Outputs)

\* What put_args still has to copy is the result.
PutInv ==
    /\ inbufs < oix
    /\ \A i \in Outputs : Copied(i) => \A a \in Bytes(i) :
           /\ rpra[i] + a - start(i) \in DOMAIN kmem
           /\ kmem[rpra[i] + a - start(i)] = Result[a]
    /\ \A a \in DOMAIN user :
           (\A i \in oix .. Bufs : Copied(i) => a \notin Bytes(i)) => user[a] = Result[a]

MetaKept ==
    \A a \in MetaVa .. MetaVa + metalen - 1 : a \in DOMAIN kmem /\ kmem[a] = Meta

ArgInv ==
    /\ Shape
    /\ MetaKept
    /\ pc \in {"size", "meta", "copy", "dsp", "put"} => ~Invalid /\ Table
    /\ pc \in {"build", "size"} => totallen = metalen
          /\ DOMAIN kmem = MetaVa .. MetaVa + buf_page_size(metalen) - 1
    /\ pc \in {"meta", "copy", "dsp"} => Needed # -1 /\ Placed
    /\ pc = "meta" /\ ~NoCopies => args = Floor /\ args + rlen = Origin + Needed
    /\ pc \in {"build", "size", "meta"} => oix = 1
    /\ pc = "copy" => CopyInv(oix - 1)
    /\ pc = "dsp" => CopyInv(Bufs) /\ oix = inbufs + 1
    /\ pc \in {"build", "size", "meta", "copy", "dsp"} =>
           user = [a \in 0 .. AddrMod - 1 |-> <<0, a>>]
    /\ pc = "put" => PutInv
    /\ pc # "return" => err = "none"
    /\ pc = "return" => (err = "address" <=> Invalid)
    /\ pc = "return" /\ err = "none" => user = Result

-----------------------------------------------------------------------------
(* Pages and the places of the copies.                                     *)

\* The start of a page, as a multiple of the page size.
LEMMA PageStart ==
    ASSUME NEW a \in Int
    PROVE  /\ buf_page_start(a) \in Int
           /\ buf_page_start(a) <= a /\ a < buf_page_start(a) + PAGE_SIZE
           /\ buf_page_start(da(a)) = da(buf_page_start(a))
<1> DEFINE q == a \div PAGE_SIZE
<1>1. PAGE_SIZE \in Nat \ {0}
  BY ArgAssumption
<1>2. q \in Int /\ PAGE_SIZE * q <= a /\ a < PAGE_SIZE * q + PAGE_SIZE
  BY <1>1, Division
<1>3. buf_page_start(a) = q * PAGE_SIZE
  BY DEF buf_page_start
<1>4. da(a) = PAGE_SIZE * 64 + a /\ da(a) \in Int
  BY <1>1 DEF da
<1>5. (PAGE_SIZE * 64 + a) \div PAGE_SIZE = 64 + q
  <2>1. 64 \in Int
    OBVIOUS
  <2> QED
    BY <2>1, <1>1, DivShift
<1>6. buf_page_start(da(a)) = (64 + q) * PAGE_SIZE
  BY <1>4, <1>5 DEF buf_page_start
<1> HIDE DEF q
<1>7. q * PAGE_SIZE = PAGE_SIZE * q /\ PAGE_SIZE * q \in Int
      /\ (64 + q) * PAGE_SIZE = q * PAGE_SIZE + 64 * PAGE_SIZE
  BY <1>1, <1>2
<1>8. da(buf_page_start(a)) = q * PAGE_SIZE + 64 * PAGE_SIZE
  BY <1>3 DEF da
<1> QED
  BY <1>2, <1>3, <1>6, <1>7, <1>8

\* The pages of a buffer cover it.
LEMMA PagesCover ==
    ASSUME NEW a \in Int, NEW n \in Nat, n > 0
    PROVE  /\ buf_num_pages(a, n) * PAGE_SIZE \in Int
           /\ a + n <= buf_page_start(a) + buf_num_pages(a, n) * PAGE_SIZE
<1> DEFINE q == a \div PAGE_SIZE
           r == (a + n - 1) \div PAGE_SIZE
<1>1. PAGE_SIZE \in Nat \ {0}
  BY ArgAssumption
<1>2. q \in Int
  BY <1>1, Division
<1>3. r \in Int /\ a + n - 1 < PAGE_SIZE * r + PAGE_SIZE
  <2>1. a + n - 1 \in Int
    OBVIOUS
  <2> QED
    BY <1>1, <2>1, Division
<1>4. buf_page_start(a) = q * PAGE_SIZE /\ buf_page_start(a + n - 1) = r * PAGE_SIZE
  BY DEF buf_page_start
<1>5. buf_num_pages(a, n) = (r * PAGE_SIZE - q * PAGE_SIZE) \div PAGE_SIZE + 1
  BY <1>4 DEF buf_num_pages
<1> HIDE DEF q, r
<1>6. r * PAGE_SIZE - q * PAGE_SIZE = PAGE_SIZE * (r - q) /\ r - q \in Int
      /\ r * PAGE_SIZE = PAGE_SIZE * r /\ q * PAGE_SIZE = PAGE_SIZE * q
      /\ PAGE_SIZE * r \in Int /\ PAGE_SIZE * q \in Int /\ PAGE_SIZE * (r - q) \in Int
  BY <1>1, <1>2, <1>3
<1>7. (PAGE_SIZE * (r - q)) \div PAGE_SIZE = r - q
  BY <1>1, <1>6, Quotient
<1>8. buf_num_pages(a, n) = r - q + 1
  BY <1>5, <1>6, <1>7
<1>9. (r - q + 1) * PAGE_SIZE = PAGE_SIZE * r - PAGE_SIZE * q + PAGE_SIZE
  BY <1>1, <1>2, <1>3
<1> QED
  BY <1>1, <1>3, <1>4, <1>6, <1>8, <1>9

\* The metadata's buffer holds the metadata; the separate one lies behind it.
LEMMA Places ==
    /\ MetaVa \in Nat /\ CopyVa \in Nat /\ MetaVa > 0
    /\ buf_page_size(metalen) \in Nat /\ metalen <= buf_page_size(metalen)
    /\ MetaVa + buf_page_size(metalen) < CopyVa
    /\ metalen \in Nat
<1>1. PAGE_SIZE \in Nat \ {0} /\ metalen \in Nat
  BY ArgAssumption
<1>2. ALIGN(metalen, PAGE_SIZE) \in Int /\ metalen <= ALIGN(metalen, PAGE_SIZE)
  BY <1>1, AlignBounds
<1>3. buf_page_size(metalen) \in Nat /\ metalen <= buf_page_size(metalen)
  BY <1>1, <1>2 DEF buf_page_size
<1> QED
  BY <1>1, <1>3 DEF MetaVa, CopyVa

\* Both buffers are aligned, as pages are.
LEMMA PlacesAligned ==
    \A n \in Int : /\ ALIGN(MetaVa + n, BALIGN) = MetaVa + ALIGN(n, BALIGN)
                   /\ ALIGN(CopyVa + n, BALIGN) = CopyVa + ALIGN(n, BALIGN)
<1>1. PAGE_SIZE \in Nat \ {0} /\ BALIGN \in Nat \ {0} /\ PAGE_SIZE % BALIGN = 0
      /\ metalen \in Nat
  BY ArgAssumption
<1>2. PICK r \in Int : PAGE_SIZE = BALIGN * r
  <2>1. PAGE_SIZE = BALIGN * (PAGE_SIZE \div BALIGN) + (PAGE_SIZE % BALIGN)
        /\ PAGE_SIZE \div BALIGN \in Int
    BY <1>1
  <2>2. BALIGN * (PAGE_SIZE \div BALIGN) \in Int
    BY <2>1, <1>1, Multiples
  <2>3. PAGE_SIZE = BALIGN * (PAGE_SIZE \div BALIGN)
    BY <2>1, <2>2, <1>1
  <2> QED
    BY <2>1, <2>3
<1>3. PICK m \in Int : buf_page_size(metalen) = PAGE_SIZE * m
  <2> DEFINE q == (metalen + PAGE_SIZE - 1) \div PAGE_SIZE
  <2>1. metalen + PAGE_SIZE - 1 \in Int
    BY <1>1
  <2>2. q \in Int
    BY <1>1, <2>1, Division
  <2>3. ALIGN(metalen, PAGE_SIZE) = q * PAGE_SIZE
    BY DEF ALIGN
  <2> HIDE DEF q
  <2>4. q * PAGE_SIZE = PAGE_SIZE * q /\ PAGE_SIZE = PAGE_SIZE * 1
    BY <1>1, <2>2
  <2>5. buf_page_size(metalen) \in {PAGE_SIZE * q, PAGE_SIZE * 1}
    BY <2>3, <2>4 DEF buf_page_size
  <2> QED
    BY <2>5, <2>2
<1>4. MetaVa = BALIGN * (r * 2) /\ r * 2 \in Int
  BY <1>1, <1>2 DEF MetaVa
<1>5. CopyVa = BALIGN * (r * (m + 4)) /\ r * (m + 4) \in Int
  <2>1. CopyVa = (BALIGN * r) * (m + 4)
    <3>1. CopyVa = 2 * PAGE_SIZE + PAGE_SIZE * m + 2 * PAGE_SIZE
      BY <1>3 DEF CopyVa, MetaVa
    <3>2. 2 * PAGE_SIZE + PAGE_SIZE * m + 2 * PAGE_SIZE = PAGE_SIZE * (m + 4)
      BY <1>1, <1>3
    <3> QED
      BY <3>1, <3>2, <1>2
  <2>2. (BALIGN * r) * (m + 4) = BALIGN * (r * (m + 4)) /\ r * (m + 4) \in Int
    BY <1>1, <1>2, <1>3
  <2> QED
    BY <2>1, <2>2
<1> SUFFICES ASSUME NEW n \in Int
             PROVE  /\ ALIGN(MetaVa + n, BALIGN) = MetaVa + ALIGN(n, BALIGN)
                    /\ ALIGN(CopyVa + n, BALIGN) = CopyVa + ALIGN(n, BALIGN)
  OBVIOUS
<1>6. ALIGN(MetaVa + n, BALIGN) = MetaVa + ALIGN(n, BALIGN)
  BY <1>1, <1>4, AlignShift
<1>7. ALIGN(CopyVa + n, BALIGN) = CopyVa + ALIGN(n, BALIGN)
  BY <1>1, <1>5, AlignShift
<1> QED
  BY <1>6, <1>7

\* The first aligned address of the copy; aligning there is aligning lengths.
LEMMA OriginAligned ==
    ASSUME copybuf \in {MetaVa, CopyVa}
    PROVE  /\ Origin \in Int /\ Floor \in Int /\ Floor <= Origin /\ ALIGN(Floor, BALIGN) = Origin
           /\ \A n \in Int : ALIGN(Origin + n, BALIGN) = Origin + ALIGN(n, BALIGN)
<1>1. BALIGN \in Nat \ {0} /\ metalen \in Int /\ 0 \in Int /\ metalen >= 0
  BY ArgAssumption
<1>2. /\ ALIGN(metalen, BALIGN) \in Int /\ metalen <= ALIGN(metalen, BALIGN)
      /\ ALIGN(0, BALIGN) = 0
  <2>1. ALIGN(metalen, BALIGN) \in Int /\ metalen <= ALIGN(metalen, BALIGN)
    BY <1>1, AlignBounds
  <2>2. ALIGN(0, BALIGN) = 0
    BY <1>1, AlignZero
  <2> QED
    BY <2>1, <2>2
<1>3. MetaVa \in Int /\ CopyVa \in Int /\ MetaVa # CopyVa
  BY Places
<1>4. CASE copybuf = MetaVa
  <2>1. Origin = MetaVa + ALIGN(metalen, BALIGN) /\ Floor = MetaVa + metalen
    BY <1>4 DEF Origin, Floor
  <2> DEFINE q == (metalen + BALIGN - 1) \div BALIGN
  <2>2. q \in Int
    <3>1. metalen + BALIGN - 1 \in Int
      BY <1>1
    <3> QED
      BY <1>1, <3>1, Division
  <2>3. ALIGN(metalen, BALIGN) = q * BALIGN
    BY DEF ALIGN
  <2> HIDE DEF q
  <2>4. q * BALIGN = BALIGN * q
    BY <1>1, <2>2
  <2>5. \A n \in Int : ALIGN(Origin + n, BALIGN) = Origin + ALIGN(n, BALIGN)
    <3> SUFFICES ASSUME NEW n \in Int
                 PROVE  ALIGN(Origin + n, BALIGN) = Origin + ALIGN(n, BALIGN)
      OBVIOUS
    <3>1. BALIGN * q + n \in Int /\ ALIGN(n, BALIGN) \in Int
      <4>1. BALIGN * q \in Int
        BY <1>1, <2>2, Multiples
      <4>2. ALIGN(n, BALIGN) \in Int
        BY <1>1, AlignBounds
      <4> QED
        BY <4>1, <4>2
    <3>2. ALIGN(MetaVa + (BALIGN * q + n), BALIGN) = MetaVa + ALIGN(BALIGN * q + n, BALIGN)
      BY <3>1, PlacesAligned
    <3>3. ALIGN(BALIGN * q + n, BALIGN) = BALIGN * q + ALIGN(n, BALIGN)
      BY <1>1, <2>2, AlignShift
    <3>4. Origin + n = MetaVa + (BALIGN * q + n)
      BY <2>1, <2>3, <2>4, <1>3, <1>2
    <3>5. Origin + ALIGN(n, BALIGN) = MetaVa + (BALIGN * q + ALIGN(n, BALIGN))
      BY <2>1, <2>3, <2>4, <1>3, <1>2, <3>1
    <3> QED
      BY <3>2, <3>3, <3>4, <3>5
  <2>6. ALIGN(Floor, BALIGN) = Origin
    BY <2>1, <1>1, PlacesAligned
  <2> QED
    BY <2>1, <2>5, <2>6, <1>1, <1>2, <1>3
<1>5. CASE copybuf = CopyVa
  <2>1. Origin = CopyVa /\ Floor = CopyVa
    BY <1>3, <1>5 DEF Origin, Floor
  <2>2. ALIGN(CopyVa + 0, BALIGN) = CopyVa + 0
    BY <1>1, <1>2, PlacesAligned
  <2>3. CopyVa + 0 = CopyVa
    BY <1>3
  <2> QED
    BY <2>1, <2>2, <2>3, <1>3, PlacesAligned
<1> QED
  BY <1>4, <1>5

-----------------------------------------------------------------------------
(* One buffer of the copy loop.                                            *)

\* Where CopyStep continues the copy, and where the buffer begins there.
At == IF overps[oix].offset = 0 THEN ALIGN(args, BALIGN) ELSE args
Pv == At - overps[oix].offset
New == Who(oix)

\* A loop of the copy that has a buffer to copy.
CopyTurn == ArgInv /\ pc = "copy" /\ oix <= Bufs /\ Copied(New)

\* What holds when a buffer is about to be copied.
LEMMA TurnFacts ==
    ASSUME CopyTurn
    PROVE  /\ GoodArgs /\ Table /\ Needed # -1 /\ Placed /\ CopyInv(oix - 1)
           /\ oix \in Args /\ oix \in Nat /\ New \in Args
           /\ args \in Int /\ rlen \in Int /\ totallen \in Int /\ copybuf \in {MetaVa, CopyVa}
           /\ \A j \in 1 .. oix - 1 : j \in Args /\ Who(j) \in Args /\ Who(j) # New
           /\ ~NoCopies
           /\ \A i \in Args : rpra[i] \in Int
<1>1. GoodArgs /\ Table /\ Needed # -1 /\ Placed /\ CopyInv(oix - 1)
  BY DEF CopyTurn, ArgInv, Shape, GoodArgs
<1>2. Bufs \in Nat /\ oix \in Nat /\ oix \in Args
  BY ArgAssumption DEF CopyTurn, ArgInv, Shape, Args
<1>3. \A k \in Args : Who(k) \in Args
  BY <1>1, TableFacts
<1>4. \A j \in 1 .. oix - 1 : j \in Args /\ j # oix
  BY <1>2 DEF Args
<1>5. \A j, k \in Args : Who(j) = Who(k) => j = k
  BY <1>1, TableFacts
<1>6. ~NoCopies
  BY <1>2, <1>3 DEF NoCopies, CopyTurn, New
<1> QED
  BY <1>1, <1>2, <1>3, <1>4, <1>5, <1>6 DEF Placed, CopyTurn, ArgInv, Shape, New

\* A buffer that overlaps earlier ones finds the copy ending where they end.
LEMMA Owner ==
    ASSUME CopyTurn, overps[oix].offset > 0
    PROVE  \E w \in 1 .. oix - 1 :
               /\ Copied(Who(w))
               /\ End(Who(w)) = start(New) + overps[oix].offset
               /\ start(Who(w)) <= start(New) /\ start(New) < End(Who(w))
               /\ \A l \in 1 .. oix - 1 : End(Who(l)) <= End(Who(w))
               /\ rpra[Who(w)] + lpra[Who(w)].len = args
<1>1. GoodArgs /\ Table /\ CopyInv(oix - 1) /\ oix \in Args /\ Copied(Who(oix))
  BY TurnFacts DEF CopyTurn, New
<1>2. PICK w \in 1 .. oix - 1 :
          /\ Copied(Who(w))
          /\ End(Who(w)) = start(New) + overps[oix].offset
          /\ start(Who(w)) <= start(New) /\ start(New) < End(Who(w))
          /\ \A l \in 1 .. oix - 1 : End(Who(l)) <= End(Who(w))
  BY <1>1, Overlapped DEF New
<1>3. rpra[Who(w)] + lpra[Who(w)].len = args
  BY <1>1, <1>2 DEF CopyInv
<1> QED
  BY <1>2, <1>3

\* The room computed before the loop is what the loop uses.
LEMMA CopyRoom ==
    ASSUME CopyTurn
    PROVE  /\ At \in Int /\ Floor <= args /\ args <= At /\ Adds(oix) \in Nat
           /\ Floor \in Int /\ Origin \in Int /\ Needed \in Nat /\ Sums[oix] \in Nat
           /\ overps[oix].offset \in Nat
           /\ At + Adds(oix) = Origin + Sums[oix]
           /\ rlen - (At - args) >= Adds(oix)
           /\ args + rlen = Origin + Needed
           /\ totallen - (rlen - (At - args)) = At - copybuf
<1>1. /\ GoodArgs /\ Table /\ Needed # -1 /\ Placed /\ CopyInv(oix - 1) /\ ~NoCopies
      /\ oix \in Args /\ New \in Args /\ args \in Int /\ rlen \in Int /\ totallen \in Int
      /\ copybuf \in {MetaVa, CopyVa}
  BY TurnFacts
<1>2. /\ Origin \in Int /\ Floor \in Int
      /\ \A n \in Int : ALIGN(Origin + n, BALIGN) = Origin + ALIGN(n, BALIGN)
  BY <1>1, OriginAligned
<1>3. BALIGN \in Nat \ {0} /\ copybuf \in Int
  BY <1>1, Places, ArgAssumption
<1>4. /\ Sums[oix] = (IF overps[oix].offset = 0 THEN ALIGN(Sums[oix - 1], BALIGN)
                      ELSE Sums[oix - 1]) + Adds(oix)
      /\ Sums[oix] \in Nat /\ Sums[oix - 1] \in Nat /\ Sums[oix] <= Needed
  BY <1>1, SumsRow DEF CopyTurn, New
<1>5. Adds(oix) \in Nat /\ overps[oix].offset \in Nat /\ Needed \in Nat
  BY <1>1, TableFacts, SumsBounded
<1>6. /\ Floor <= args /\ args + rlen = Origin + Needed
      /\ \/ args = Origin + Sums[oix - 1]
         \/ /\ Sums[oix - 1] = 0 /\ ALIGN(args, BALIGN) = Origin
            /\ \A j \in 1 .. oix - 1 : ~Copied(Who(j))
      /\ copybuf + totallen = Origin + Needed
  BY <1>1 DEF CopyInv, Placed
<1>7. ALIGN(args, BALIGN) \in Int /\ args <= ALIGN(args, BALIGN)
  BY <1>1, <1>3, AlignBounds
<1>8. At \in Int /\ args <= At
  BY <1>1, <1>7 DEF At
<1>9. At + Adds(oix) = Origin + Sums[oix]
  <2>1. CASE overps[oix].offset = 0
    <3>1. ALIGN(args, BALIGN) = Origin + ALIGN(Sums[oix - 1], BALIGN)
      <4>1. CASE args = Origin + Sums[oix - 1]
        BY <4>1, <1>2, <1>4
      <4>2. CASE Sums[oix - 1] = 0 /\ ALIGN(args, BALIGN) = Origin
        BY <4>2, <1>2, <1>3, AlignZero
      <4> QED
        BY <4>1, <4>2, <1>6
    <3>2. ALIGN(Sums[oix - 1], BALIGN) \in Int
      <4>1. Sums[oix - 1] \in Int
        BY <1>4
      <4> QED
        BY <4>1, <1>3, AlignBounds
    <3> QED
      BY <2>1, <3>1, <3>2, <1>2, <1>4, <1>5 DEF At
  <2>2. CASE overps[oix].offset > 0
    <3>1. args = Origin + Sums[oix - 1]
      BY <2>2, <1>6, Owner
    <3> QED
      BY <2>2, <3>1, <1>2, <1>4, <1>5 DEF At
  <2> QED
    BY <2>1, <2>2, <1>5
<1>10. rlen - (At - args) >= Adds(oix)
  BY <1>1, <1>2, <1>4, <1>5, <1>6, <1>8, <1>9
<1>11. totallen - (rlen - (At - args)) = At - copybuf
  BY <1>1, <1>2, <1>3, <1>5, <1>6, <1>8
<1> QED
  BY <1>2, <1>4, <1>5, <1>6, <1>8, <1>9, <1>10, <1>11

\* The new buffer lies in the copy as in the caller's memory, against every
\* buffer that is there.
LEMMA CopyPlace ==
    ASSUME CopyTurn
    PROVE  /\ Pv \in Int /\ Floor <= Pv /\ Pv + lpra[New].len <= At + Adds(oix)
           /\ (\A l \in 1 .. oix : End(Who(l)) <= End(New)) =>
                  Pv + lpra[New].len = At + Adds(oix)
           /\ \A j \in 1 .. oix - 1 : Copied(Who(j)) =>
                  /\ rpra[Who(j)] + lpra[Who(j)].len <= At + Adds(oix)
                  /\ (\A l \in 1 .. oix : End(Who(l)) <= End(Who(j))) =>
                         rpra[Who(j)] + lpra[Who(j)].len = At + Adds(oix)
                  /\ \/ rpra[Who(j)] - start(Who(j)) = Pv - start(New)
                     \/ /\ rpra[Who(j)] + lpra[Who(j)].len <= Pv
                        /\ End(Who(j)) <= start(New)
<1>1. /\ GoodArgs /\ Table /\ CopyInv(oix - 1) /\ oix \in Args /\ New \in Args /\ oix \in Nat
      /\ \A j \in 1 .. oix - 1 : j \in Args /\ Who(j) \in Args
      /\ args \in Int /\ \A i \in Args : rpra[i] \in Int
  BY TurnFacts
<1>2. /\ At \in Int /\ Floor <= args /\ args <= At /\ Adds(oix) \in Nat /\ Floor \in Int
      /\ overps[oix].offset \in Nat
  BY CopyRoom
<1>3. /\ start(New) \in Nat /\ lpra[New].len \in Nat /\ End(New) = start(New) + lpra[New].len
      /\ End(New) \in Nat /\ lpra[New].len > 0
  BY <1>1, ValidEnds DEF CopyTurn, Copied
<1>4. \A j \in 1 .. oix - 1 :
          /\ start(Who(j)) \in Nat /\ lpra[Who(j)].len \in Nat /\ End(Who(j)) \in Nat
          /\ End(Who(j)) = start(Who(j)) + lpra[Who(j)].len
          /\ rpra[Who(j)] \in Int /\ start(Who(j)) <= start(New)
  <2> SUFFICES ASSUME NEW j \in 1 .. oix - 1
               PROVE  /\ start(Who(j)) \in Nat /\ lpra[Who(j)].len \in Nat
                      /\ End(Who(j)) \in Nat
                      /\ End(Who(j)) = start(Who(j)) + lpra[Who(j)].len
                      /\ rpra[Who(j)] \in Int /\ start(Who(j)) <= start(New)
    OBVIOUS
  <2>1. Who(j) \in Args
    BY <1>1
  <2>2. start(Who(j)) <= start(New)
    BY <1>1, TableFacts DEF New
  <2> QED
    BY <1>1, <2>1, <2>2, ValidEnds
<1>5. \A j \in 1 .. oix - 1 : Copied(Who(j)) =>
          /\ Floor <= rpra[Who(j)] /\ rpra[Who(j)] + lpra[Who(j)].len <= args
          /\ (\A l \in 1 .. oix - 1 : End(Who(l)) <= End(Who(j))) =>
                 rpra[Who(j)] + lpra[Who(j)].len = args
          /\ \A l \in 1 .. oix - 1 : Copied(Who(l)) => Apart(Who(j), Who(l))
  BY <1>1 DEF CopyInv, Spot
<1>6. \A l \in 1 .. oix - 1 : l \in 1 .. oix
  BY <1>1
<1>7. oix \in 1 .. oix
  BY <1>1 DEF Args
<1>8. CASE overps[oix].offset = 0
  <2>1. Pv = At
    BY <1>2, <1>8 DEF Pv
  <2>2. /\ Adds(oix) = lpra[New].len
        /\ \A j \in 1 .. oix - 1 : End(Who(j)) <= start(New)
    BY <1>1, <1>8, TableFacts DEF New
  <2>3. ASSUME NEW j \in 1 .. oix - 1, Copied(Who(j))
        PROVE  /\ rpra[Who(j)] + lpra[Who(j)].len <= Pv
               /\ ~(End(New) <= End(Who(j)))
    <3>1. rpra[Who(j)] + lpra[Who(j)].len <= args
      BY <1>5, <2>3
    <3>2. End(Who(j)) <= start(New) /\ End(Who(j)) \in Nat
      BY <1>4, <2>2
    <3> QED
      BY <3>1, <3>2, <1>1, <1>2, <1>3, <1>4, <2>1
  <2>4. \A j \in 1 .. oix - 1 : Copied(Who(j)) =>
            /\ rpra[Who(j)] + lpra[Who(j)].len <= Pv
            /\ rpra[Who(j)] + lpra[Who(j)].len <= At + Adds(oix)
            /\ ~(\A l \in 1 .. oix : End(Who(l)) <= End(Who(j)))
    BY <2>1, <2>3, <1>2, <1>4, <1>7 DEF New
  <2>5. Pv \in Int /\ Floor <= Pv /\ Pv + lpra[New].len = At + Adds(oix)
        /\ Pv + lpra[New].len <= At + Adds(oix)
    BY <1>1, <1>2, <1>3, <2>1, <2>2
  <2> QED
    BY <2>2, <2>4, <2>5
<1>9. CASE overps[oix].offset > 0
  <2>1. PICK w \in 1 .. oix - 1 :
            /\ Copied(Who(w))
            /\ End(Who(w)) = start(New) + overps[oix].offset
            /\ start(Who(w)) <= start(New) /\ start(New) < End(Who(w))
            /\ \A l \in 1 .. oix - 1 : End(Who(l)) <= End(Who(w))
            /\ rpra[Who(w)] + lpra[Who(w)].len = args
    BY <1>9, Owner
  <2> DEFINE u == Who(w)
  <2>2. /\ start(u) \in Nat /\ lpra[u].len \in Nat /\ End(u) = start(u) + lpra[u].len
        /\ rpra[u] \in Int /\ End(u) \in Nat
    BY <1>4
  <2>3. At = args /\ Pv = args - overps[oix].offset
    BY <1>9 DEF At, Pv
  <2>4. Adds(oix) = IF End(New) > End(u) THEN End(New) - End(u) ELSE 0
    BY <1>1, <1>9, <2>1, TableFacts DEF New
  <2>5. Pv - start(New) = rpra[u] - start(u) /\ Pv \in Int
    BY <2>1, <2>2, <2>3, <1>1, <1>2, <1>3
  <2>6. Floor <= Pv
    <3>1. Floor <= rpra[u]
      BY <1>5, <2>1
    <3> QED
      BY <3>1, <2>1, <2>2, <2>5, <1>2, <1>3
  <2>7. Pv + lpra[New].len = args - End(u) + End(New)
    BY <2>1, <2>2, <2>3, <1>1, <1>2, <1>3
  <2>8. Pv + lpra[New].len <= At + Adds(oix)
    BY <2>2, <2>3, <2>4, <2>7, <1>1, <1>3
  <2>9. (\A l \in 1 .. oix : End(Who(l)) <= End(New)) => Pv + lpra[New].len = At + Adds(oix)
    <3> SUFFICES ASSUME \A l \in 1 .. oix : End(Who(l)) <= End(New)
                 PROVE  Pv + lpra[New].len = At + Adds(oix)
      OBVIOUS
    <3>1. End(u) <= End(New)
      BY <1>6
    <3> QED
      BY <3>1, <2>2, <2>3, <2>4, <2>7, <1>1, <1>3
  <2>10. ASSUME NEW j \in 1 .. oix - 1, Copied(Who(j))
         PROVE  /\ rpra[Who(j)] + lpra[Who(j)].len <= At + Adds(oix)
                /\ (\A l \in 1 .. oix : End(Who(l)) <= End(Who(j))) =>
                       rpra[Who(j)] + lpra[Who(j)].len = At + Adds(oix)
                /\ \/ rpra[Who(j)] - start(Who(j)) = Pv - start(New)
                   \/ /\ rpra[Who(j)] + lpra[Who(j)].len <= Pv
                      /\ End(Who(j)) <= start(New)
    <3> DEFINE v == Who(j)
    <3>1. /\ start(v) \in Nat /\ lpra[v].len \in Nat /\ End(v) = start(v) + lpra[v].len
          /\ rpra[v] \in Int /\ End(v) \in Nat /\ start(v) <= start(New)
      BY <1>4
    <3>2. /\ rpra[v] + lpra[v].len <= args
          /\ (\A l \in 1 .. oix - 1 : End(Who(l)) <= End(v)) => rpra[v] + lpra[v].len = args
          /\ Apart(v, u)
      BY <1>5, <2>1, <2>10
    <3>3. rpra[v] + lpra[v].len <= At + Adds(oix)
      BY <3>1, <3>2, <2>3, <1>1, <1>2
    <3>4. (\A l \in 1 .. oix : End(Who(l)) <= End(v)) =>
              rpra[v] + lpra[v].len = At + Adds(oix)
      <4> SUFFICES ASSUME \A l \in 1 .. oix : End(Who(l)) <= End(v)
                   PROVE  rpra[v] + lpra[v].len = At + Adds(oix)
        OBVIOUS
      <4>1. rpra[v] + lpra[v].len = args
        BY <3>2, <1>6
      <4>2. End(New) <= End(v) /\ End(v) <= End(u)
        BY <1>7, <2>1 DEF New
      <4>3. Adds(oix) = 0
        BY <4>2, <2>2, <2>4, <3>1, <1>3
      <4> QED
        BY <4>1, <4>3, <2>3, <1>1
    <3>5. \/ rpra[v] - start(v) = Pv - start(New)
          \/ rpra[v] + lpra[v].len <= Pv /\ End(v) <= start(New)
      <4>1. CASE rpra[v] - start(v) = rpra[u] - start(u)
        BY <4>1, <2>5
      <4>2. CASE rpra[v] + lpra[v].len <= rpra[u] /\ End(v) <= start(u)
        <5>1. rpra[u] <= Pv
          BY <2>1, <2>2, <2>5, <1>3
        <5> QED
          BY <4>2, <5>1, <2>1, <2>2, <2>5, <3>1, <1>3
      <4>3. ~(rpra[u] + lpra[u].len <= rpra[v] /\ End(u) <= start(v))
        BY <2>1, <2>2, <3>1, <1>3
      <4> QED
        BY <4>1, <4>2, <4>3, <3>2 DEF Apart
    <3> QED
      BY <3>3, <3>4, <3>5
  <2> QED
    BY <2>5, <2>6, <2>8, <2>9, <2>10
<1> QED
  BY <1>2, <1>8, <1>9

-----------------------------------------------------------------------------
(* What the arguments and the table determine stays as it is with them.    *)

\* The table just built is a table of the arguments.
LEMMA FixedTable ==
    ASSUME lpra' = lpra, NEW p \in Orders,
           overps' = [k \in Args |-> Entry(p[k], MaxEnd(p)[k - 1])]
    PROVE  Table'
<1>1. Orders' = Orders
  BY DEF Orders, Before, start, end, End
<1>2. \A q : MaxEnd(q)' = MaxEnd(q)
  BY DEF MaxEnd, start, end, End
<1>3. \A k \in Args : Entry(p[k], MaxEnd(p)[k - 1])' = Entry(p[k], MaxEnd(p)[k - 1])
  <2>1. ASSUME NEW k \in Args
        PROVE  Entry(p[k], MaxEnd(p)[k - 1])' = Entry(p[k], MaxEnd(p)[k - 1])
    BY <1>2 DEF Entry, start, end, End
  <2> QED
    BY <2>1
<1> QED
  BY <1>1, <1>3 DEF Table

\* Nothing the arguments and the table determine changes without them ...
LEMMA Fixed ==
    ASSUME lpra' = lpra, overps' = overps
    PROVE  /\ Needed' = Needed /\ Sums' = Sums
           /\ \A k : Who(k)' = Who(k)
           /\ \A i : (Copied(i)' <=> Copied(i)) /\ Bytes(i)' = Bytes(i)
           /\ \A i : start(i)' = start(i) /\ End(i)' = End(i)
           /\ (NoCopies' <=> NoCopies) /\ (Invalid' <=> Invalid)
           /\ Table => Table'
           /\ Consistent => Consistent'
<1>1. Sums' = Sums
  BY DEF Sums, Copied
<1>2. Needed' = Needed
  BY <1>1 DEF Needed
<1>3. Table => Table'
  BY FixedTable DEF Table
<1>4. Consistent => Consistent'
  BY DEF Consistent, Overlap, Bytes, End
<1>5. /\ \A k : Who(k)' = Who(k)
      /\ \A i : (Copied(i)' <=> Copied(i)) /\ Bytes(i)' = Bytes(i)
      /\ \A i : start(i)' = start(i) /\ End(i)' = End(i)
  BY DEF Who, Copied, Bytes, start, End
<1>6. (NoCopies' <=> NoCopies) /\ (Invalid' <=> Invalid)
  BY DEF NoCopies, Copied, Invalid, end, start, End
<1> QED
  BY <1>1, <1>2, <1>3, <1>4, <1>5, <1>6

\* ... nor does the result that direct work would have.
LEMMA FixedDirect ==
    ASSUME lpra' = lpra, inbufs' = inbufs, DOMAIN user' = DOMAIN user
    PROVE  Result' = Result
BY DEF Result, Direct, Written, Outputs

\* The copies begin behind the metadata.
LEMMA MetaBelow ==
    ASSUME copybuf \in {MetaVa, CopyVa}
    PROVE  MetaVa + metalen <= Floor
BY Places DEF Floor

\* What CopyStep does with a buffer to copy: there is always room.
LEMMA TurnStep ==
    ASSUME CopyTurn, CopyStep
    PROVE  /\ rpra' = [rpra EXCEPT ![New] = Pv]
           /\ pages' = [pages EXCEPT ![New] =
                  [addr |-> da(buf_page_start(Pv)),
                   size |-> buf_num_pages(Pv, lpra[New].len) * PAGE_SIZE]]
           /\ kmem' = IF New > inbufs THEN kmem
                      ELSE [a \in DOMAIN kmem \cup Pv .. Pv + lpra[New].len - 1 |->
                               IF a \in Pv .. Pv + lpra[New].len - 1
                               THEN user[lpra[New].pv + a - Pv] ELSE kmem[a]]
           /\ args' = At + Adds(oix) /\ rlen' = rlen - (At - args) - Adds(oix)
           /\ oix' = oix + 1 /\ pc' = pc /\ err' = err
           /\ lpra' = lpra /\ inbufs' = inbufs /\ overps' = overps
           /\ totallen' = totallen /\ copybuf' = copybuf /\ user' = user
<1> DEFINE o == overps[oix]
           at == IF o.offset = 0 THEN ALIGN(args, BALIGN) ELSE args
           left == rlen - (at - args)
           pv == at - o.offset
           page == buf_page_start(da(copybuf) - o.offset + totallen - left)
<1>1. at = At /\ pv = Pv /\ o.raix = New /\ o.mend - o.mstart = Adds(oix)
  BY DEF At, Pv, New, Who, Adds
<1>2. left >= Adds(oix) /\ totallen - left = At - copybuf
  BY <1>1, CopyRoom
<1>3. /\ At \in Int /\ Pv \in Int /\ Adds(oix) \in Nat /\ o.offset \in Nat /\ left \in Int
      /\ copybuf \in Int /\ totallen \in Int
  BY <1>1, CopyRoom, CopyPlace, TurnFacts, Places
<1>4. ~(left < Adds(oix)) /\ Copied(New)
  BY <1>2, <1>3 DEF CopyTurn
<1>5. page = da(buf_page_start(Pv))
  <2>1. da(copybuf) - o.offset + totallen - left = da(Pv)
    <3>1. 64 * PAGE_SIZE \in Int
      BY ArgAssumption
    <3>2. Pv = At - o.offset
      BY DEF Pv
    <3> HIDE DEF left, at, o
    <3> QED
      BY <3>1, <3>2, <1>2, <1>3 DEF da
  <2> QED
    BY <2>1, <1>3, PageStart
<1>6. /\ rpra' = [rpra EXCEPT ![New] = pv]
      /\ pages' = [pages EXCEPT ![New] =
                  [addr |-> page, size |-> buf_num_pages(pv, lpra[New].len) * PAGE_SIZE]]
      /\ kmem' = IF New > inbufs THEN kmem
                 ELSE [a \in DOMAIN kmem \cup pv .. pv + lpra[New].len - 1 |->
                          IF a \in pv .. pv + lpra[New].len - 1
                          THEN user[lpra[New].pv + a - pv] ELSE kmem[a]]
      /\ args' = at + (o.mend - o.mstart) /\ rlen' = left - (o.mend - o.mstart)
      /\ oix' = oix + 1 /\ pc' = pc /\ err' = err
  <2>1. ~(left < o.mend - o.mstart) /\ Copied(o.raix)
    BY <1>1, <1>4
  <2> QED
    BY <2>1, <1>1, Zenon DEF CopyStep
<1>7. /\ lpra' = lpra /\ inbufs' = inbufs /\ overps' = overps
      /\ totallen' = totallen /\ copybuf' = copybuf /\ user' = user
  BY DEF CopyStep, inputs
<1> QED
  BY <1>1, <1>5, <1>6, <1>7

\* CopyStep puts the new buffer into its place, with its bytes if it is an
\* input, and leaves the bytes of the inputs copied before: where the two
\* overlap in the copy they overlap in the caller's memory.
LEMMA TurnSpots ==
    ASSUME CopyTurn, CopyStep, NEW j \in 1 .. oix, Copied(Who(j))
    PROVE  /\ \A i \in Args : i = Who(j) => Spot(i)'
           /\ (\A l \in 1 .. oix : End(Who(l)) <= End(Who(j))) =>
                  rpra'[Who(j)] + lpra[Who(j)].len = args'
<1>1. /\ rpra' = [rpra EXCEPT ![New] = Pv]
      /\ pages' = [pages EXCEPT ![New] =
             [addr |-> da(buf_page_start(Pv)),
              size |-> buf_num_pages(Pv, lpra[New].len) * PAGE_SIZE]]
      /\ kmem' = IF New > inbufs THEN kmem
                 ELSE [a \in DOMAIN kmem \cup Pv .. Pv + lpra[New].len - 1 |->
                          IF a \in Pv .. Pv + lpra[New].len - 1
                          THEN user[lpra[New].pv + a - Pv] ELSE kmem[a]]
      /\ args' = At + Adds(oix)
      /\ lpra' = lpra /\ inbufs' = inbufs /\ overps' = overps
      /\ copybuf' = copybuf /\ user' = user
  BY TurnStep
<1>2. /\ GoodArgs /\ Table /\ CopyInv(oix - 1) /\ oix \in Args /\ New \in Args /\ oix \in Nat
      /\ \A l \in 1 .. oix - 1 : l \in Args /\ Who(l) \in Args /\ Who(l) # New
      /\ \A i \in Args : rpra[i] \in Int
  BY TurnFacts
<1>3. /\ rpra \in [Args -> Int] /\ pages \in [Args -> [addr : Int, size : Int]]
      /\ inbufs \in 0 .. Bufs
  BY DEF CopyTurn, ArgInv, Shape
<1>4. /\ Pv \in Int /\ Floor <= Pv /\ Pv + lpra[New].len <= At + Adds(oix)
      /\ (\A l \in 1 .. oix : End(Who(l)) <= End(New)) => Pv + lpra[New].len = At + Adds(oix)
  BY CopyPlace
<1>5. Floor' = Floor
  BY <1>1 DEF Floor
<1>6. start(New) = lpra[New].pv /\ start(New) \in Nat /\ lpra[New].len \in Nat
      /\ End(New) = start(New) + lpra[New].len
  BY <1>2, ValidEnds DEF start
<1>7. CASE j = oix
  <2>1. Who(j) = New
    BY <1>7 DEF New
  <2>2. /\ rpra'[New] = Pv
        /\ pages'[New] = [addr |-> da(buf_page_start(Pv)),
                          size |-> buf_num_pages(Pv, lpra[New].len) * PAGE_SIZE]
    BY <1>1, <1>2, <1>3
  <2>3. ASSUME New <= inbufs, NEW a \in Bytes(New)
        PROVE  /\ Pv + a - start(New) \in DOMAIN kmem'
               /\ kmem'[Pv + a - start(New)] = user[a]
    <3>1. a \in Int /\ start(New) <= a /\ a <= start(New) + lpra[New].len - 1
      BY <1>6 DEF Bytes
    <3>2. Pv + a - start(New) \in Pv .. Pv + lpra[New].len - 1
          /\ lpra[New].pv + (Pv + a - start(New)) - Pv = a
      BY <3>1, <1>4, <1>6
    <3>3. ~(New > inbufs)
      BY <2>3, <1>2, <1>3, ArgAssumption DEF Args
    <3> QED
      BY <3>2, <3>3, <1>1
  <2>4. ASSUME NEW i \in Args, i = New
        PROVE  Spot(i)'
    BY <2>2, <2>3, <2>4, <1>1, <1>4, <1>5 DEF Spot, start, Bytes, End
  <2> QED
    BY <2>1, <2>2, <2>4, <1>1, <1>4 DEF New
<1>8. CASE j # oix
  <2>1. j \in 1 .. oix - 1
    BY <1>8, <1>2
  <2> DEFINE v == Who(j)
  <2>2. v \in Args /\ v # New
    BY <1>2, <2>1
  <2>3. /\ rpra'[v] = rpra[v] /\ pages'[v] = pages[v]
    BY <1>1, <1>2, <1>3, <2>2
  <2>4. Spot(v)
    BY <1>2, <2>1 DEF CopyInv
  <2>5. /\ rpra[v] + lpra[v].len <= At + Adds(oix)
        /\ (\A l \in 1 .. oix : End(Who(l)) <= End(v)) => rpra[v] + lpra[v].len = At + Adds(oix)
        /\ \/ rpra[v] - start(v) = Pv - start(New)
           \/ rpra[v] + lpra[v].len <= Pv /\ End(v) <= start(New)
    BY <2>1, CopyPlace
  <2>6. /\ start(v) \in Nat /\ lpra[v].len \in Nat /\ End(v) = start(v) + lpra[v].len
        /\ rpra[v] \in Int
    BY <1>2, <2>2, ValidEnds
  <2>7. ASSUME v <= inbufs, NEW a \in Bytes(v)
        PROVE  /\ rpra[v] + a - start(v) \in DOMAIN kmem'
               /\ kmem'[rpra[v] + a - start(v)] = user[a]
    <3> DEFINE x == rpra[v] + a - start(v)
    <3>1. x \in DOMAIN kmem /\ kmem[x] = user[a]
      BY <2>4, <2>7 DEF Spot
    <3>2. a \in Int /\ start(v) <= a /\ a <= start(v) + lpra[v].len - 1
      BY <2>6 DEF Bytes, start
    <3>3. x \in Int /\ x <= rpra[v] + lpra[v].len - 1
      BY <3>2, <2>6
    <3>4. x \in Pv .. Pv + lpra[New].len - 1 => lpra[New].pv + x - Pv = a
      <4>1. CASE rpra[v] - start(v) = Pv - start(New)
        <5>1. start(New) + (rpra[v] + a - start(v)) - Pv = a
          BY <4>1, <3>2, <2>6, <1>4, <1>6
        <5> QED
          BY <5>1, <1>6
      <4>2. CASE rpra[v] + lpra[v].len <= Pv
        <5>1. ~(Pv <= x)
          BY <4>2, <3>3, <2>6, <1>4
        <5> QED
          BY <5>1, <1>4
      <4> QED
        BY <4>1, <4>2, <2>5
    <3> HIDE DEF x
    <3>5. CASE New > inbufs
      BY <3>1, <3>5, <1>1 DEF x
    <3>6. CASE ~(New > inbufs)
      <4>1. kmem' = [b \in DOMAIN kmem \cup Pv .. Pv + lpra[New].len - 1 |->
                          IF b \in Pv .. Pv + lpra[New].len - 1
                          THEN user[lpra[New].pv + b - Pv] ELSE kmem[b]]
        BY <3>6, <1>1
      <4> QED
        BY <4>1, <3>1, <3>4 DEF x
    <3> QED
      BY <3>5, <3>6
  <2>8. ASSUME NEW i \in Args, i = v
        PROVE  Spot(i)'
    <3>1. start(i)' = start(i) /\ Bytes(i)' = Bytes(i) /\ lpra'[i].len = lpra[i].len
      BY <1>1 DEF start, Bytes, End
    <3>2. Floor' <= rpra'[i] /\ rpra'[i] + lpra'[i].len <= args'
      BY <2>3, <2>4, <2>5, <2>8, <3>1, <1>1, <1>5 DEF Spot
    <3>3. pages'[i] = [addr |-> da(buf_page_start(rpra'[i])),
                       size |-> buf_num_pages(rpra'[i], lpra'[i].len) * PAGE_SIZE]
      BY <2>3, <2>4, <2>8, <3>1 DEF Spot
    <3>4. i <= inbufs' => \A a \in Bytes(i)' :
              /\ rpra'[i] + a - start(i)' \in DOMAIN kmem'
              /\ kmem'[rpra'[i] + a - start(i)'] = user'[a]
      BY <2>3, <2>7, <2>8, <3>1, <1>1
    <3> QED
      BY <3>2, <3>3, <3>4 DEF Spot
  <2> QED
    BY <2>3, <2>5, <2>8, <1>1
<1> QED
  BY <1>7, <1>8

\* The new buffer is displaced like any buffer before it, or apart from it.
LEMMA TurnApart ==
    ASSUME CopyTurn, CopyStep, NEW j \in 1 .. oix, Copied(Who(j)),
           NEW l \in 1 .. oix, Copied(Who(l)), NEW i \in Args, i = Who(j),
           NEW h \in Args, h = Who(l)
    PROVE  Apart(i, h)'
<1>1. rpra' = [rpra EXCEPT ![New] = Pv] /\ lpra' = lpra
  BY TurnStep
<1>2. /\ GoodArgs /\ CopyInv(oix - 1) /\ New \in Args /\ oix \in Nat
      /\ \A k \in 1 .. oix - 1 : Who(k) # New
  BY TurnFacts
<1>3. rpra \in [Args -> Int]
  BY DEF CopyTurn, ArgInv, Shape
<1>4. start(i)' = start(i) /\ start(h)' = start(h) /\ End(i)' = End(i) /\ End(h)' = End(h)
      /\ lpra'[i] = lpra[i] /\ lpra'[h] = lpra[h]
  BY <1>1 DEF start, End
<1>5. rpra'[New] = Pv /\ \A k \in Args : k # New => rpra'[k] = rpra[k]
  BY <1>1, <1>2, <1>3
<1>6. \A k \in 1 .. oix - 1 : Copied(Who(k)) =>
          \/ rpra[Who(k)] - start(Who(k)) = Pv - start(New)
          \/ rpra[Who(k)] + lpra[Who(k)].len <= Pv /\ End(Who(k)) <= start(New)
  BY CopyPlace
<1>7. CASE j # oix /\ l # oix
  <2>1. j \in 1 .. oix - 1 /\ l \in 1 .. oix - 1
    BY <1>2, <1>7
  <2>2. Apart(i, h)
    BY <2>1, <1>2 DEF CopyInv
  <2>3. rpra'[i] = rpra[i] /\ rpra'[h] = rpra[h]
    BY <2>1, <1>2, <1>5
  <2> QED
    BY <2>2, <2>3, <1>4 DEF Apart
<1>8. CASE j = oix /\ l # oix
  <2>1. l \in 1 .. oix - 1 /\ i = New /\ h # New
    BY <1>2, <1>8 DEF New
  <2>2. \/ rpra[h] - start(h) = Pv - start(New)
        \/ rpra[h] + lpra[h].len <= Pv /\ End(h) <= start(New)
    BY <2>1, <1>6
  <2> QED
    BY <2>1, <2>2, <1>4, <1>5 DEF Apart
<1>9. CASE j # oix /\ l = oix
  <2>1. j \in 1 .. oix - 1 /\ h = New /\ i # New
    BY <1>2, <1>9 DEF New
  <2>2. \/ rpra[i] - start(i) = Pv - start(New)
        \/ rpra[i] + lpra[i].len <= Pv /\ End(i) <= start(New)
    BY <2>1, <1>6
  <2> QED
    BY <2>1, <2>2, <1>4, <1>5 DEF Apart
<1>10. CASE j = oix /\ l = oix
  BY <1>10, <1>4 DEF Apart
<1> QED
  BY <1>7, <1>8, <1>9, <1>10

\* CopyStep with a buffer to copy keeps the invariant.
LEMMA TurnPreserves ==
    ASSUME CopyTurn, CopyStep
    PROVE  ArgInv'
<1>1. /\ rpra' = [rpra EXCEPT ![New] = Pv]
      /\ pages' = [pages EXCEPT ![New] =
             [addr |-> da(buf_page_start(Pv)),
              size |-> buf_num_pages(Pv, lpra[New].len) * PAGE_SIZE]]
      /\ kmem' = IF New > inbufs THEN kmem
                 ELSE [a \in DOMAIN kmem \cup Pv .. Pv + lpra[New].len - 1 |->
                          IF a \in Pv .. Pv + lpra[New].len - 1
                          THEN user[lpra[New].pv + a - Pv] ELSE kmem[a]]
      /\ args' = At + Adds(oix) /\ rlen' = rlen - (At - args) - Adds(oix)
      /\ oix' = oix + 1 /\ pc' = pc /\ err' = err
      /\ lpra' = lpra /\ inbufs' = inbufs /\ overps' = overps
      /\ totallen' = totallen /\ copybuf' = copybuf /\ user' = user
  BY TurnStep
<1>2. /\ GoodArgs /\ Table /\ Needed # -1 /\ Placed /\ CopyInv(oix - 1)
      /\ oix \in Args /\ oix \in Nat /\ New \in Args /\ args \in Int /\ rlen \in Int
      /\ totallen \in Int /\ copybuf \in {MetaVa, CopyVa} /\ ~NoCopies
  BY TurnFacts
<1>3. /\ At \in Int /\ Floor <= args /\ args <= At /\ Adds(oix) \in Nat
      /\ Floor \in Int /\ Origin \in Int /\ Needed \in Nat /\ Sums[oix] \in Nat
      /\ At + Adds(oix) = Origin + Sums[oix]
      /\ args + rlen = Origin + Needed
      /\ Pv \in Int /\ Floor <= Pv
  BY CopyRoom, CopyPlace
<1>4. /\ Needed' = Needed /\ Sums' = Sums /\ \A k : Who(k)' = Who(k)
      /\ \A i : (Copied(i)' <=> Copied(i)) /\ Bytes(i)' = Bytes(i)
      /\ \A i : start(i)' = start(i) /\ End(i)' = End(i)
      /\ (NoCopies' <=> NoCopies) /\ (Invalid' <=> Invalid)
      /\ Table' /\ Consistent'
  BY <1>1, <1>2, Fixed DEF GoodArgs
<1>5. Floor' = Floor /\ Origin' = Origin
  BY <1>1 DEF Floor, Origin
<1>6. lpra[New].len \in Nat /\ lpra[New].len > 0
  BY <1>2, ValidEnds DEF CopyTurn, Copied
<1>7. /\ DOMAIN kmem \subseteq DOMAIN kmem' /\ DOMAIN kmem' \subseteq Int
      /\ kmem' = [a \in DOMAIN kmem' |-> kmem'[a]]
      /\ \A a \in DOMAIN kmem : a < Floor => kmem'[a] = kmem[a]
  <2>1. DOMAIN kmem \subseteq Int /\ kmem = [a \in DOMAIN kmem |-> kmem[a]]
    BY DEF CopyTurn, ArgInv, Shape
  <2>2. CASE New > inbufs
    BY <2>1, <2>2, <1>1
  <2>3. CASE ~(New > inbufs)
    <3>1. kmem' = [b \in DOMAIN kmem \cup Pv .. Pv + lpra[New].len - 1 |->
                          IF b \in Pv .. Pv + lpra[New].len - 1
                          THEN user[lpra[New].pv + b - Pv] ELSE kmem[b]]
      BY <2>3, <1>1
    <3>2. Pv .. Pv + lpra[New].len - 1 \subseteq Int
      OBVIOUS
    <3>3. \A a \in DOMAIN kmem : a < Floor => a \notin Pv .. Pv + lpra[New].len - 1
      BY <2>1, <1>3
    <3> QED
      BY <2>1, <3>1, <3>2, <3>3
  <2> QED
    BY <2>2, <2>3
<1>8. Shape'
  <2>1. rpra' \in [Args -> Int]
    BY <1>1, <1>3 DEF CopyTurn, ArgInv, Shape
  <2>2. pages' \in [Args -> [addr : Int, size : Int]]
    <3>1. da(buf_page_start(Pv)) \in Int
      BY <1>3, PageStart, ArgAssumption DEF da
    <3>2. buf_num_pages(Pv, lpra[New].len) * PAGE_SIZE \in Int
      BY <1>3, <1>6, PagesCover
    <3> QED
      BY <3>1, <3>2, <1>1 DEF CopyTurn, ArgInv, Shape
  <2>3. oix' \in 1 .. Bufs + 1
    BY <1>1, <1>2, ArgAssumption DEF Args
  <2>4. {totallen', rlen', args', copybuf'} \subseteq Int
    BY <1>1, <1>2, <1>3, Places
  <2>5. DOMAIN user' = 0 .. AddrMod - 1 /\ user' = [a \in DOMAIN user' |-> user'[a]]
        /\ inbufs' \in 0 .. Bufs
    BY <1>1 DEF CopyTurn, ArgInv, Shape
  <2>6. lpra' \in [Args -> [pv : 0 .. AddrMod - 1, len : Lens, mapped : BOOLEAN]]
        /\ pc' \in {"build", "size", "meta", "copy", "dsp", "put", "return"}
        /\ err' \in {"none", "address", "size", "other"}
    BY <1>1 DEF CopyTurn, ArgInv, Shape
  <2> QED
    BY <2>1, <2>2, <2>3, <2>4, <2>5, <2>6, <1>4, <1>7 DEF Shape
<1>9. MetaKept'
  <2>1. MetaVa + metalen <= Floor /\ MetaVa \in Nat /\ metalen \in Nat
    BY <1>2, MetaBelow, Places
  <2>2. \A a \in MetaVa .. MetaVa + metalen - 1 : a < Floor
    BY <2>1, <1>3
  <2>3. \A a \in MetaVa .. MetaVa + metalen - 1 : a \in DOMAIN kmem /\ kmem[a] = Meta
    BY DEF CopyTurn, ArgInv, MetaKept
  <2> QED
    BY <2>2, <2>3, <1>7 DEF MetaKept
<1>10. Placed'
  BY <1>1, <1>2, <1>4, <1>5, <1>7 DEF Placed
<1>11. ASSUME NEW k \in Nat, k = oix
       PROVE  CopyInv(k)'
  <2>1. ~NoCopies' =>
            /\ Floor' <= args' /\ args' + rlen' = Origin' + Needed'
            /\ \/ args' = Origin' + Sums'[k]
               \/ /\ Sums'[k] = 0 /\ ALIGN(args', BALIGN) = Origin'
                  /\ \A j \in 1 .. k : ~Copied(Who(j))'
    <3>1. args' = Origin' + Sums'[k]
      BY <1>1, <1>3, <1>4, <1>5, <1>11
    <3>2. Floor' <= args' /\ args' + rlen' = Origin' + Needed'
      BY <1>1, <1>2, <1>3, <1>4, <1>5
    <3> QED
      BY <3>1, <3>2
  <2>2. ASSUME NEW j \in 1 .. k, Copied(Who(j))'
        PROVE  /\ Spot(Who(j))'
               /\ (\A l \in 1 .. k : End(Who(l))' <= End(Who(j))') =>
                      rpra'[Who(j)'] + lpra'[Who(j)'].len = args'
               /\ \A l \in 1 .. k : Copied(Who(l))' => Apart(Who(j), Who(l))'
    <3>1. \A l \in 1 .. k : l \in Args /\ l \in 1 .. oix
      BY <1>2, <1>11, ArgAssumption DEF Args
    <3>2. \A l \in 1 .. k : /\ Who(l) \in Args /\ Who(l)' = Who(l)
                            /\ Copied(Who(l))' <=> Copied(Who(l))
                            /\ End(Who(l))' = End(Who(l))
      <4>1. \A l \in Args : Who(l) \in Args
        BY <1>2, TableFacts
      <4>2. \A l : Who(l)' = Who(l) /\ (Copied(Who(l))' <=> Copied(Who(l)))
                   /\ End(Who(l))' = End(Who(l))
        BY <1>1 DEF Who, Copied, End
      <4> QED
        BY <3>1, <4>1, <4>2
    <3>3. /\ \A i \in Args : i = Who(j) => Spot(i)'
          /\ (\A l \in 1 .. oix : End(Who(l)) <= End(Who(j))) =>
                 rpra'[Who(j)] + lpra[Who(j)].len = args'
      BY <2>2, <3>1, <3>2, TurnSpots
    <3>4. Spot(Who(j))'
      <4> DEFINE i == Who(j)
      <4>1. Spot(i)' /\ i \in Args
        BY <3>2, <3>3
      <4> QED
        BY <4>1
    <3>5. ASSUME NEW l \in 1 .. k, Copied(Who(l))'
          PROVE  Apart(Who(j), Who(l))'
      <4>1. PICK i \in Args : i = Who(j)
        BY <3>2
      <4>2. PICK h \in Args : h = Who(l)
        BY <3>2
      <4>3. Apart(i, h)'
        BY <4>1, <4>2, <2>2, <3>1, <3>2, <3>5, TurnApart
      <4> QED
        BY <4>1, <4>2, <4>3, <3>2 DEF Apart
    <3>6. (\A l \in 1 .. k : End(Who(l))' <= End(Who(j))') =>
              rpra'[Who(j)'] + lpra'[Who(j)'].len = args'
      BY <3>2, <3>3, <1>1, <1>11
    <3> QED
      BY <3>4, <3>5, <3>6
  <2>3. \A i \in Args : ~Copied(i)' =>
            rpra'[i] = IF lpra'[i].len = 0 THEN 0 ELSE lpra'[i].pv
    <3> SUFFICES ASSUME NEW i \in Args, ~Copied(i)
                 PROVE  rpra'[i] = IF lpra[i].len = 0 THEN 0 ELSE lpra[i].pv
      BY <1>1, <1>4
    <3>1. i # New /\ rpra \in [Args -> Int]
      BY DEF CopyTurn, ArgInv, Shape
    <3>2. rpra'[i] = rpra[i]
      BY <1>1, <3>1
    <3> QED
      BY <3>2, <1>2 DEF CopyInv
  <2> QED
    BY <2>1, <2>2, <2>3 DEF CopyInv
<1>12. CopyInv(oix - 1)'
  <2>1. oix' - 1 = oix
    BY <1>1, <1>2
  <2> QED
    BY <2>1, <1>2, <1>11
<1>13. user' = [a \in 0 .. AddrMod - 1 |-> <<0, a>>] /\ err' = "none" /\ pc' = "copy"
  BY <1>1 DEF CopyTurn, ArgInv
<1> QED
  BY <1>2, <1>4, <1>8, <1>9, <1>10, <1>12, <1>13 DEF ArgInv, GoodArgs

-----------------------------------------------------------------------------
(* The other steps.                                                        *)

\* All but the program counter, the result and the loop index.
data == <<lpra, inbufs, overps, totallen, rlen, args, copybuf, rpra, pages, user, kmem>>

\* A step that only moves on keeps what holds of the data ...
LEMMA FixedData ==
    ASSUME UNCHANGED data
    PROVE  /\ \A k : CopyInv(k) => CopyInv(k)'
           /\ Placed => Placed'
           /\ MetaKept => MetaKept'
           /\ Floor' = Floor /\ Origin' = Origin
<1>1. /\ lpra' = lpra /\ inbufs' = inbufs /\ overps' = overps /\ totallen' = totallen
      /\ rlen' = rlen /\ args' = args /\ copybuf' = copybuf /\ rpra' = rpra
      /\ pages' = pages /\ user' = user /\ kmem' = kmem
  BY DEF data
<1>2. /\ Needed' = Needed /\ Sums' = Sums /\ \A k : Who(k)' = Who(k)
      /\ \A i : (Copied(i)' <=> Copied(i)) /\ Bytes(i)' = Bytes(i)
      /\ \A i : start(i)' = start(i) /\ End(i)' = End(i)
      /\ (NoCopies' <=> NoCopies)
  BY <1>1, Fixed
<1>3. Floor' = Floor /\ Origin' = Origin
  BY <1>1 DEF Floor, Origin
<1>4. Placed => Placed'
  BY <1>1, <1>2, <1>3 DEF Placed
<1>5. MetaKept => MetaKept'
  BY <1>1 DEF MetaKept
<1>6. \A i : Spot(i) => Spot(i)'
  BY <1>1, <1>2, <1>3 DEF Spot
<1>7. \A i, j : Apart(i, j) => Apart(i, j)'
  BY <1>1, <1>2 DEF Apart
<1>8. ASSUME NEW k, CopyInv(k)
      PROVE  CopyInv(k)'
  <2>1. ~NoCopies' =>
            /\ Floor' <= args' /\ args' + rlen' = Origin' + Needed'
            /\ \/ args' = Origin' + Sums'[k]
               \/ /\ Sums'[k] = 0 /\ ALIGN(args', BALIGN) = Origin'
                  /\ \A j \in 1 .. k : ~Copied(Who(j))'
    <3>1. \A j : Copied(Who(j))' <=> Copied(Who(j))
      BY <1>1 DEF Who, Copied
    <3> QED
      BY <3>1, <1>1, <1>2, <1>3, <1>8 DEF CopyInv
  <2>2. ASSUME NEW j \in 1 .. k, Copied(Who(j))'
        PROVE  /\ Spot(Who(j))'
               /\ (\A l \in 1 .. k : End(Who(l))' <= End(Who(j))') =>
                      rpra'[Who(j)'] + lpra'[Who(j)'].len = args'
               /\ \A l \in 1 .. k : Copied(Who(l))' => Apart(Who(j), Who(l))'
    <3>1. \A l : /\ Who(l)' = Who(l)
                 /\ Copied(Who(l))' <=> Copied(Who(l))
                 /\ End(Who(l))' = End(Who(l))
      BY <1>1 DEF Who, Copied, End
    <3>2. /\ Spot(Who(j))
          /\ (\A l \in 1 .. k : End(Who(l)) <= End(Who(j))) =>
                 rpra[Who(j)] + lpra[Who(j)].len = args
          /\ \A l \in 1 .. k : Copied(Who(l)) => Apart(Who(j), Who(l))
      BY <2>2, <3>1, <1>8 DEF CopyInv
    <3>3. Spot(Who(j))'
      BY <3>1, <3>2, <1>6
    <3>4. \A l \in 1 .. k : Copied(Who(l))' => Apart(Who(j), Who(l))'
      BY <3>1, <3>2, <1>7
    <3>5. (\A l \in 1 .. k : End(Who(l))' <= End(Who(j))') =>
              rpra'[Who(j)'] + lpra'[Who(j)'].len = args'
      BY <3>1, <3>2, <1>1
    <3> QED
      BY <3>3, <3>4, <3>5
  <2>3. \A i \in Args : ~Copied(i)' =>
            rpra'[i] = IF lpra'[i].len = 0 THEN 0 ELSE lpra'[i].pv
    BY <1>1, <1>2, <1>8 DEF CopyInv
  <2> QED
    BY <2>1, <2>2, <2>3 DEF CopyInv
<1> QED
  BY <1>3, <1>4, <1>5, <1>8

\* ... and its type.
LEMMA FixedShape ==
    ASSUME Shape, UNCHANGED data, oix' \in 1 .. Bufs + 1,
           pc' \in {"build", "size", "meta", "copy", "dsp", "put", "return"},
           err' \in {"none", "address", "size", "other"}
    PROVE  Shape'
<1>1. /\ lpra' = lpra /\ inbufs' = inbufs /\ overps' = overps /\ totallen' = totallen
      /\ rlen' = rlen /\ args' = args /\ copybuf' = copybuf /\ rpra' = rpra
      /\ pages' = pages /\ user' = user /\ kmem' = kmem
  BY DEF data
<1>2. Consistent'
  BY <1>1, Fixed DEF Shape
<1> QED
  BY <1>1, <1>2 DEF Shape

\* A call that fails.
LEMMA ToReturn ==
    ASSUME ArgInv, UNCHANGED <<data, oix>>, pc' = "return",
           err' \in {"address", "size", "other"}, err' = "address" <=> Invalid
    PROVE  ArgInv'
<1>1. UNCHANGED data /\ oix' = oix /\ lpra' = lpra /\ overps' = overps
  BY DEF data
<1>2. Shape' /\ MetaKept'
  BY <1>1, FixedShape, FixedData DEF ArgInv, Shape
<1>3. Invalid' <=> Invalid
  BY <1>1, Fixed
<1> QED
  BY <1>2, <1>3 DEF ArgInv

\* Each step that fails the call.
LEMMA FailSteps ==
    ASSUME ArgInv, BuildFails \/ SizeFails \/ GetArgsFails \/ PutFails
    PROVE  ArgInv'
<1>1. UNCHANGED <<data, oix>> /\ pc' = "return"
  BY DEF data, BuildFails, SizeFails, GetArgsFails, PutFails, inputs
<1>2. CASE BuildFails
  BY <1>1, <1>2, ToReturn DEF BuildFails
<1>3. CASE SizeFails \/ GetArgsFails \/ PutFails
  <2>1. ~Invalid /\ err' \in {"size", "other"}
    BY <1>3 DEF ArgInv, SizeFails, GetArgsFails, PutFails
  <2> QED
    BY <1>1, <2>1, ToReturn
<1> QED
  BY <1>2, <1>3

\* A buffer that is not copied.
LEMMA SkipStep ==
    ASSUME ArgInv, CopyStep, ~Copied(New)
    PROVE  ArgInv'
<1>1. UNCHANGED data /\ oix' = oix + 1 /\ pc = "copy" /\ pc' = pc /\ err' = err /\ oix <= Bufs
  BY DEF data, CopyStep, inputs, New, Who
<1>2. GoodArgs /\ Table /\ Needed # -1 /\ Placed /\ CopyInv(oix - 1)
  BY <1>1 DEF ArgInv, Shape, GoodArgs
<1>3. Bufs \in Nat /\ oix \in Nat /\ oix \in Args /\ oix' \in 1 .. Bufs + 1
  <2>1. oix \in 1 .. Bufs + 1 /\ Bufs \in Nat
    BY ArgAssumption DEF ArgInv, Shape
  <2> QED
    BY <2>1, <1>1 DEF Args
<1>4. Sums[oix] = Sums[oix - 1]
  BY <1>2, <1>3, SumsRow DEF New
<1>5. \A j \in 1 .. oix : Copied(Who(j)) => j \in 1 .. oix - 1
  BY <1>3 DEF New
<1>6. \A j \in 1 .. oix - 1 : j \in 1 .. oix
  BY <1>3
<1>7. CopyInv(oix)
  BY <1>2, <1>4, <1>5, <1>6 DEF CopyInv
<1>8. CopyInv(oix - 1)'
  <2>1. PICK k \in Nat : k = oix
    BY <1>3
  <2>2. CopyInv(k)'
    BY <2>1, <1>1, <1>7, FixedData
  <2>3. oix' - 1 = k
    BY <2>1, <1>1, <1>3
  <2> QED
    BY <2>2, <2>3
<1>9. Shape' /\ MetaKept' /\ Placed'
  BY <1>1, <1>2, <1>3, FixedShape, FixedData DEF ArgInv, Shape
<1>10. /\ Needed' = Needed /\ (NoCopies' <=> NoCopies) /\ (Invalid' <=> Invalid) /\ Table'
  BY <1>1, <1>2, Fixed DEF data
<1>11. user' = [a \in 0 .. AddrMod - 1 |-> <<0, a>>] /\ err' = "none" /\ pc' = "copy"
  BY <1>1 DEF ArgInv, data
<1> QED
  BY <1>2, <1>8, <1>9, <1>10, <1>11 DEF ArgInv, GoodArgs

\* One turn of the copy loop, whether the buffer is copied or not.
LEMMA CopyStepInv ==
    ASSUME ArgInv, CopyStep
    PROVE  ArgInv'
<1>1. pc = "copy" /\ oix <= Bufs
  BY DEF CopyStep
<1> QED
  BY <1>1, SkipStep, TurnPreserves DEF CopyTurn

\* All buffers are copied: those of the table are all there are.
LEMMA CopyEndInv ==
    ASSUME ArgInv, CopyEnd
    PROVE  ArgInv'
<1>1. /\ UNCHANGED data /\ pc = "copy" /\ oix = Bufs + 1 /\ pc' = "dsp" /\ oix' = inbufs + 1
      /\ err' = err
  BY DEF data, CopyEnd, inputs
<1>2. ~Invalid /\ Table /\ Needed # -1 /\ Placed /\ CopyInv(oix - 1) /\ inbufs \in 0 .. Bufs
      /\ Shape /\ err = "none"
  BY <1>1 DEF ArgInv, Shape
<1>3. Bufs \in Nat /\ oix - 1 = Bufs /\ oix' \in 1 .. Bufs + 1
  BY <1>1, <1>2, ArgAssumption
<1>4. CopyInv(Bufs)'
  BY <1>1, <1>2, <1>3, FixedData
<1>5. Shape' /\ MetaKept' /\ Placed'
  BY <1>1, <1>2, <1>3, FixedShape, FixedData DEF ArgInv
<1>6. /\ Needed' = Needed /\ (NoCopies' <=> NoCopies) /\ (Invalid' <=> Invalid) /\ Table'
  BY <1>1, <1>2, Fixed DEF data
<1>7. user' = [a \in 0 .. AddrMod - 1 |-> <<0, a>>] /\ err' = "none" /\ oix' = inbufs' + 1
  BY <1>1, <1>2 DEF ArgInv, data
<1> QED
  BY <1>1, <1>2, <1>4, <1>5, <1>6, <1>7 DEF ArgInv

-----------------------------------------------------------------------------
(* Before the copy.                                                        *)

\* The metadata is in place before the call begins.
LEMMA InitInv ==
    ASSUME Init, Consistent
    PROVE  ArgInv
<1>1. /\ lpra \in [Args -> [pv : 0 .. AddrMod - 1, len : Lens, mapped : BOOLEAN]]
      /\ Consistent
      /\ inbufs \in 0 .. Bufs
      /\ pc = "build" /\ err = "none" /\ oix = 1
      /\ totallen = metalen /\ rlen = 0 /\ args = 0 /\ copybuf = 0
      /\ rpra = [i \in Args |-> 0]
      /\ pages = [i \in Args |-> [addr |-> 0, size |-> 0]]
      /\ user = [a \in 0 .. AddrMod - 1 |-> <<0, a>>]
      /\ kmem = [a \in MetaVa .. MetaVa + buf_page_size(metalen) - 1 |->
                   IF a < MetaVa + metalen THEN Meta ELSE Stale]
  BY DEF Init
<1>2. Bufs \in Nat /\ metalen \in Nat
  BY ArgAssumption
<1>3. /\ MetaVa \in Nat /\ buf_page_size(metalen) \in Nat
      /\ metalen <= buf_page_size(metalen)
  BY Places
<1>4. DOMAIN kmem = MetaVa .. MetaVa + buf_page_size(metalen) - 1
  BY <1>1
<1>5. DOMAIN kmem \subseteq Int /\ kmem = [a \in DOMAIN kmem |-> kmem[a]]
  <2>1. kmem = [a \in DOMAIN kmem |-> kmem[a]]
    BY <1>1
  <2> QED
    BY <2>1, <1>3, <1>4
<1>6. MetaKept
  BY <1>1, <1>2, <1>3 DEF MetaKept
<1>7. rpra \in [Args -> Int] /\ pages \in [Args -> [addr : Int, size : Int]]
  BY <1>1
<1>8. DOMAIN user = 0 .. AddrMod - 1 /\ user = [a \in DOMAIN user |-> user[a]]
  BY <1>1
<1>9. {totallen, rlen, args, copybuf} \subseteq Int /\ oix \in 1 .. Bufs + 1
  BY <1>1, <1>2
<1>10. Shape
  BY <1>1, <1>5, <1>7, <1>8, <1>9 DEF Shape
<1> QED
  BY <1>1, <1>4, <1>6, <1>10 DEF ArgInv

\* The table that context_build_overlap leaves.
LEMMA BuildInv ==
    ASSUME ArgInv, BuildOverlap
    PROVE  ArgInv'
<1>1. /\ pc = "build" /\ ~Invalid /\ pc' = "size"
      /\ lpra' = lpra /\ inbufs' = inbufs /\ err' = err /\ oix' = oix /\ totallen' = totallen
      /\ rlen' = rlen /\ args' = args /\ copybuf' = copybuf /\ rpra' = rpra
      /\ pages' = pages /\ user' = user /\ kmem' = kmem
  BY DEF BuildOverlap, inputs
<1>2. Table'
  BY <1>1, FixedTable DEF BuildOverlap
<1>3. (Invalid' <=> Invalid) /\ (Consistent' <=> Consistent)
  BY <1>1 DEF Invalid, Consistent, Overlap, Bytes, end, start, End
<1>4. Shape'
  BY <1>1, <1>3 DEF ArgInv, Shape
<1>5. MetaKept'
  BY <1>1 DEF ArgInv, MetaKept
<1> QED
  BY <1>1, <1>2, <1>3, <1>4, <1>5 DEF ArgInv

\* The room for the copies, behind the metadata or in a buffer of its own.
LEMMA PlaceInv ==
    ASSUME ArgInv, PlaceCopies
    PROVE  ArgInv'
<1> DEFINE total == ALIGN(totallen, BALIGN) + Needed
<1>1. /\ pc = "size" /\ Needed # -1 /\ pc' = "meta"
      /\ lpra' = lpra /\ inbufs' = inbufs /\ overps' = overps /\ err' = err /\ oix' = oix
      /\ rpra' = rpra /\ pages' = pages /\ user' = user
      /\ IF total <= buf_page_size(metalen)
         THEN /\ args' = MetaVa + metalen /\ copybuf' = MetaVa
              /\ rlen' = total - metalen /\ totallen' = total
              /\ kmem' = kmem
         ELSE IF Needed > 0
         THEN /\ args' = CopyVa /\ copybuf' = CopyVa
              /\ rlen' = Needed /\ totallen' = Needed
              /\ kmem' = [a \in DOMAIN kmem \cup CopyVa .. CopyVa + Needed - 1 |->
                              IF a >= CopyVa THEN Zero ELSE kmem[a]]
         ELSE totallen' = total /\ args' = args /\ copybuf' = copybuf /\ rlen' = rlen
                  /\ kmem' = kmem
  BY DEF PlaceCopies, inputs
<1>2. /\ Shape /\ ~Invalid /\ Table /\ MetaKept /\ GoodArgs
      /\ totallen = metalen /\ oix = 1 /\ err = "none"
      /\ DOMAIN kmem = MetaVa .. MetaVa + buf_page_size(metalen) - 1
      /\ user = [a \in 0 .. AddrMod - 1 |-> <<0, a>>]
  BY <1>1 DEF ArgInv, Shape, GoodArgs
<1>3. /\ MetaVa \in Nat /\ CopyVa \in Nat /\ buf_page_size(metalen) \in Nat
      /\ metalen <= buf_page_size(metalen) /\ MetaVa + buf_page_size(metalen) < CopyVa
      /\ metalen \in Nat
  BY Places
<1>4. Needed \in Nat
  BY <1>1, <1>2, SumsBounded
<1>5. total = ALIGN(metalen, BALIGN) + Needed /\ ALIGN(metalen, BALIGN) \in Int
      /\ metalen <= ALIGN(metalen, BALIGN) /\ total \in Int
  <2>1. metalen \in Int /\ BALIGN \in Nat \ {0}
    BY ArgAssumption
  <2>2. ALIGN(metalen, BALIGN) \in Int /\ metalen <= ALIGN(metalen, BALIGN)
    BY <2>1, AlignBounds
  <2> QED
    BY <2>2, <1>2, <1>4
<1> HIDE DEF total
<1>6. /\ Needed' = Needed /\ (NoCopies' <=> NoCopies) /\ (Invalid' <=> Invalid) /\ Table'
      /\ Consistent'
  BY <1>1, <1>2, Fixed DEF GoodArgs
<1>7. CASE total <= buf_page_size(metalen)
  <2>1. /\ args' = MetaVa + metalen /\ copybuf' = MetaVa
        /\ rlen' = total - metalen /\ totallen' = total /\ kmem' = kmem
    BY <1>1, <1>7
  <2>2. Floor' = MetaVa + metalen /\ Origin' = MetaVa + ALIGN(metalen, BALIGN)
    BY <2>1 DEF Floor, Origin
  <2>3. copybuf' + totallen' = Origin' + Needed'
    BY <2>1, <2>2, <1>3, <1>4, <1>5, <1>6
  <2>4. Floor' .. copybuf' + totallen' - 1 \subseteq DOMAIN kmem'
    <3>1. Floor' .. copybuf' + totallen' - 1 = MetaVa + metalen .. MetaVa + total - 1
      BY <2>1, <2>2
    <3>2. DOMAIN kmem' = MetaVa .. MetaVa + buf_page_size(metalen) - 1
      BY <2>1, <1>2
    <3>3. MetaVa + metalen .. MetaVa + total - 1
              \subseteq MetaVa .. MetaVa + buf_page_size(metalen) - 1
      BY <1>3, <1>5, <1>7
    <3> QED
      BY <3>1, <3>2, <3>3
  <2>5. Placed'
    BY <2>1, <2>3, <2>4 DEF Placed
  <2>6. args' = Floor' /\ args' + rlen' = Origin' + Needed'
    BY <2>1, <2>2, <1>3, <1>4, <1>5, <1>6
  <2>7. {totallen', rlen', args', copybuf'} \subseteq Int
    BY <2>1, <1>3, <1>5
  <2>8. Shape'
    BY <2>1, <2>7, <1>1, <1>2, <1>6 DEF Shape
  <2>9. MetaKept'
    BY <2>1, <1>2 DEF MetaKept
  <2> QED
    BY <2>5, <2>6, <2>8, <2>9, <1>1, <1>2, <1>6 DEF ArgInv
<1>8. CASE ~(total <= buf_page_size(metalen)) /\ Needed > 0
  <2> DEFINE D == DOMAIN kmem \cup CopyVa .. CopyVa + Needed - 1
  <2>1. /\ args' = CopyVa /\ copybuf' = CopyVa /\ rlen' = Needed /\ totallen' = Needed
        /\ kmem' = [a \in D |-> IF a >= CopyVa THEN Zero ELSE kmem[a]]
    BY <1>1, <1>8
  <2>2. Floor' = CopyVa /\ Origin' = CopyVa
    <3>1. CopyVa # MetaVa /\ CopyVa + 0 = CopyVa
      BY <1>3
    <3> QED
      BY <2>1, <3>1 DEF Floor, Origin
  <2>3. DOMAIN kmem' = D /\ D \subseteq Int /\ kmem' = [a \in DOMAIN kmem' |-> kmem'[a]]
    <3>1. D \subseteq Int
      BY <1>3, <1>4, <1>2
    <3> HIDE DEF D
    <3> QED
      BY <2>1, <3>1
  <2>4. copybuf' + totallen' = Origin' + Needed'
        /\ Floor' .. copybuf' + totallen' - 1 \subseteq DOMAIN kmem'
    BY <2>1, <2>2, <2>3, <1>6
  <2>5. Placed'
    BY <2>1, <2>4 DEF Placed
  <2>6. args' = Floor' /\ args' + rlen' = Origin' + Needed'
    BY <2>1, <2>2, <1>6
  <2>7. {totallen', rlen', args', copybuf'} \subseteq Int
    BY <2>1, <1>3, <1>4
  <2>8. Shape'
    BY <2>3, <2>7, <1>1, <1>2, <1>6 DEF Shape
  <2>9. MetaKept'
    <3> SUFFICES ASSUME NEW a \in MetaVa .. MetaVa + metalen - 1
                 PROVE  a \in DOMAIN kmem' /\ kmem'[a] = Meta
      BY DEF MetaKept
    <3>1. a \in DOMAIN kmem /\ kmem[a] = Meta
      BY <1>2 DEF MetaKept
    <3>2. ~(a >= CopyVa)
      BY <1>3
    <3>3. a \in D
      BY <3>1
    <3> HIDE DEF D
    <3> QED
      BY <2>1, <2>3, <3>1, <3>2, <3>3
  <2> QED
    BY <2>5, <2>6, <2>8, <2>9, <1>1, <1>2, <1>6 DEF ArgInv
<1>9. CASE ~(total <= buf_page_size(metalen)) /\ ~(Needed > 0)
  <2>1. /\ totallen' = total /\ args' = args /\ copybuf' = copybuf /\ rlen' = rlen
        /\ kmem' = kmem
    BY <1>1, <1>9
  <2>2. NoCopies
    BY <1>1, <1>2, <1>9, NeededPositive DEF NoCopies
  <2>3. Placed'
    BY <2>2, <1>6 DEF Placed
  <2>4. {totallen', rlen', args', copybuf'} \subseteq Int
    BY <2>1, <1>2, <1>5 DEF Shape
  <2>5. Shape'
    BY <2>1, <2>4, <1>1, <1>2, <1>6 DEF Shape
  <2>6. MetaKept'
    BY <2>1, <1>2 DEF MetaKept
  <2> QED
    BY <2>2, <2>3, <2>5, <2>6, <1>1, <1>2, <1>6 DEF ArgInv
<1> QED
  BY <1>7, <1>8, <1>9

\* The addresses of the mapped buffers; the copy begins with nothing in it.
LEMMA MetadataInv ==
    ASSUME ArgInv, Metadata
    PROVE  ArgInv'
<1>1. /\ pc = "meta" /\ pc' = "copy"
      /\ rpra' = [i \in Args |-> IF lpra[i].len = 0 THEN 0 ELSE lpra[i].pv]
      /\ pages' = [i \in Args |->
             IF lpra[i].len > 0 /\ lpra[i].mapped
             THEN [addr |-> da(buf_page_start(lpra[i].pv)),
                   size |-> buf_num_pages(lpra[i].pv, lpra[i].len) * PAGE_SIZE]
             ELSE pages[i]]
      /\ lpra' = lpra /\ inbufs' = inbufs /\ err' = err /\ overps' = overps /\ oix' = oix
      /\ totallen' = totallen /\ rlen' = rlen /\ args' = args /\ copybuf' = copybuf
      /\ user' = user /\ kmem' = kmem
  BY DEF Metadata, FillMetadata, inputs
<1>2. /\ Shape /\ ~Invalid /\ Table /\ MetaKept /\ GoodArgs /\ Needed # -1 /\ Placed
      /\ oix = 1 /\ err = "none" /\ user = [a \in 0 .. AddrMod - 1 |-> <<0, a>>]
      /\ (~NoCopies => args = Floor /\ args + rlen = Origin + Needed)
  BY <1>1 DEF ArgInv, Shape, GoodArgs
<1>3. \A i \in Args : lpra[i].pv \in Nat /\ lpra[i].len \in Nat
  BY <1>2, ValidEnds DEF start
<1>4. rpra' \in [Args -> Int]
  BY <1>1, <1>3
<1>5. pages' \in [Args -> [addr : Int, size : Int]]
  <2>1. ASSUME NEW i \in Args, lpra[i].len > 0
        PROVE  /\ da(buf_page_start(lpra[i].pv)) \in Int
               /\ buf_num_pages(lpra[i].pv, lpra[i].len) * PAGE_SIZE \in Int
    <3>1. lpra[i].pv \in Int /\ lpra[i].len \in Nat
      BY <1>3, <2>1
    <3>2. buf_page_start(lpra[i].pv) \in Int /\ PAGE_SIZE \in Nat
      BY <3>1, PageStart, ArgAssumption
    <3>3. buf_num_pages(lpra[i].pv, lpra[i].len) * PAGE_SIZE \in Int
      BY <3>1, <2>1, PagesCover
    <3>4. da(buf_page_start(lpra[i].pv)) \in Int
      BY <3>2 DEF da
    <3> QED
      BY <3>3, <3>4
  <2>2. \A i \in Args : pages[i] \in [addr : Int, size : Int]
    BY <1>2 DEF Shape
  <2>3. ASSUME NEW i \in Args
        PROVE  pages'[i] \in [addr : Int, size : Int]
    <3>1. CASE lpra[i].len > 0 /\ lpra[i].mapped
      BY <1>1, <2>1, <3>1
    <3>2. CASE ~(lpra[i].len > 0 /\ lpra[i].mapped)
      BY <1>1, <2>2, <3>2
    <3> QED
      BY <3>1, <3>2
  <2> QED
    BY <1>1, <2>3
<1>6. /\ Needed' = Needed /\ Sums' = Sums /\ (NoCopies' <=> NoCopies) /\ (Invalid' <=> Invalid)
      /\ Table' /\ Consistent' /\ \A i : Copied(i)' <=> Copied(i)
  BY <1>1, <1>2, Fixed DEF GoodArgs
<1>7. Floor' = Floor /\ Origin' = Origin
  BY <1>1 DEF Floor, Origin
<1>8. Shape'
  BY <1>1, <1>2, <1>4, <1>5, <1>6 DEF Shape
<1>9. MetaKept' /\ Placed'
  BY <1>1, <1>2, <1>6, <1>7 DEF MetaKept, Placed
<1>10. CopyInv(0)'
  <2>1. Sums'[0] = 0
    BY <1>2, <1>6, SumsStep
  <2>2. ~NoCopies => ALIGN(args, BALIGN) = Origin /\ Floor <= args
    <3> SUFFICES ASSUME ~NoCopies
                 PROVE  ALIGN(args, BALIGN) = Origin /\ Floor <= args
      OBVIOUS
    <3>1. copybuf \in {MetaVa, CopyVa} /\ args = Floor /\ args \in Int
      BY <1>2 DEF Placed, Shape
    <3> QED
      BY <3>1, OriginAligned
  <2>3. \A j \in 1 .. 0 : FALSE
    OBVIOUS
  <2>4. \A i \in Args : rpra'[i] = IF lpra'[i].len = 0 THEN 0 ELSE lpra'[i].pv
    BY <1>1
  <2> QED
    BY <2>1, <2>2, <2>3, <2>4, <1>1, <1>2, <1>6, <1>7 DEF CopyInv
<1>11. CopyInv(oix - 1)'
  <2>1. oix' - 1 = 0
    BY <1>1, <1>2
  <2> QED
    BY <2>1, <1>10
<1> QED
  BY <1>1, <1>2, <1>6, <1>8, <1>9, <1>11 DEF ArgInv

-----------------------------------------------------------------------------
(* The call and its results.                                               *)

\* The arguments that hit an address have a last one.
LEMMA Largest ==
    ASSUME NEW S, S \subseteq Args, S # {}
    PROVE  Max(S) \in S
<1> DEFINE T == {n \in Nat : Bufs - n \in S}
<1>1. Bufs \in Nat /\ \A i \in S : i \in Nat /\ i <= Bufs
  BY ArgAssumption DEF Args
<1>2. PICK s \in S : TRUE
  OBVIOUS
<1>3. Bufs - s \in Nat /\ Bufs - (Bufs - s) = s
  BY <1>1, <1>2
<1>4. T # {}
  BY <1>2, <1>3
<1>5. PICK m \in T : \A y \in T : m <= y
  BY <1>4, LeastNat
<1>6. m \in Nat /\ Bufs - m \in S
  OBVIOUS
<1>7. ASSUME NEW y \in S
      PROVE  Bufs - m >= y
  <2>1. Bufs - y \in Nat /\ Bufs - (Bufs - y) = y /\ y \in Nat
    BY <1>1
  <2>2. Bufs - y \in T
    BY <2>1
  <2> HIDE DEF T
  <2>3. m <= Bufs - y
    BY <1>5, <2>2
  <2> QED
    BY <2>1, <2>3, <1>1, <1>6
<1> HIDE DEF T
<1> QED
  BY <1>6, <1>7 DEF Max

\* A shift by d - s moves s .. s + n - 1 to d .. d + n - 1.
LEMMA Shift ==
    ASSUME NEW a \in Int, NEW s \in Int, NEW n \in Int, NEW d \in Int
    PROVE  /\ a \in s .. s + n - 1 <=> d + a - s \in d .. d + n - 1
           /\ d + a - s \in Int
OBVIOUS

\* The outputs of which the caller's address a is a byte.
Hits(a) == {i \in Outputs : a \in Bytes(i)}

\* The last output that holds a byte decides on it.
LEMMA DirectAt ==
    ASSUME NEW a \in DOMAIN user, Shape
    PROVE  /\ Hits(a) = {} => Result[a] = <<0, a>>
           /\ Hits(a) # {} => /\ Max(Hits(a)) \in Hits(a)
                              /\ Result[a] = <<Max(Hits(a)), a - start(Max(Hits(a)))>>
<1> DEFINE at == [i \in Args |-> lpra[i].pv]
           hit == {i \in Outputs : a \in at[i] .. at[i] + lpra[i].len - 1}
<1>1. Outputs \subseteq Args
  BY ArgAssumption DEF Outputs, Args, Shape
<1>2. \A i \in Outputs : at[i] = lpra[i].pv
  BY <1>1
<1>3. hit = Hits(a)
  <2>1. ASSUME NEW i \in Outputs
        PROVE  at[i] .. at[i] + lpra[i].len - 1 = Bytes(i)
    <3>1. lpra[i].pv \in 0 .. AddrMod - 1 /\ lpra[i].len \in Lens
      BY <1>1 DEF Shape
    <3>2. AddrMod \in Nat /\ Lens \subseteq 0 .. AddrMod
      BY ArgAssumption
    <3>3. lpra[i].pv \in Int /\ lpra[i].len \in Int
      <4>1. lpra[i].len \in 0 .. AddrMod
        BY <3>1, <3>2
      <4>2. \A n : n \in 0 .. AddrMod \/ n \in 0 .. AddrMod - 1 => n \in Int
        BY <3>2
      <4> QED
        BY <4>1, <4>2, <3>1
    <3>4. at[i] = lpra[i].pv
      BY <1>2
    <3> HIDE DEF at
    <3> QED
      BY <3>3, <3>4 DEF Bytes, End
  <2> HIDE DEF at
  <2> QED
    BY <2>1 DEF Hits
<1>4. Result[a] = IF hit = {} THEN <<0, a>> ELSE <<Max(hit), a - at[Max(hit)]>>
  BY DEF Result, Direct, Written
<1>5. Hits(a) # {} => Max(Hits(a)) \in Hits(a)
  BY <1>1, Largest DEF Hits
<1>6. Hits(a) # {} => at[Max(Hits(a))] = start(Max(Hits(a)))
  BY <1>2, <1>5 DEF Hits, start
<1> HIDE DEF hit, at
<1> QED
  BY <1>3, <1>4, <1>5, <1>6

\* The caller's buffers lie in the caller's memory.
LEMMA InMemory ==
    ASSUME GoodArgs
    PROVE  \A i \in Args : Bytes(i) \subseteq 0 .. AddrMod - 1
<1> SUFFICES ASSUME NEW i \in Args, NEW a \in Bytes(i)
             PROVE  a \in 0 .. AddrMod - 1
  OBVIOUS
<1>1. start(i) \in Nat /\ End(i) \in Nat /\ End(i) < AddrMod /\ AddrMod \in Nat
  BY ValidEnds, ArgAssumption
<1>2. a \in start(i) .. End(i) - 1
  BY DEF Bytes, start
<1> QED
  BY <1>1, <1>2

\* When the DSP runs, all copied buffers are in the room made for them.
LEMMA AllCopied ==
    ASSUME ArgInv, pc = "dsp"
    PROVE  /\ GoodArgs
           /\ \A i \in Args : /\ rpra[i] \in Int /\ start(i) \in Nat /\ lpra[i].len \in Nat
                              /\ End(i) = start(i) + lpra[i].len
           /\ \A i \in Args : Copied(i) =>
                  /\ Spot(i) /\ rpra[i] + lpra[i].len <= copybuf + totallen
                  /\ Floor \in Int /\ MetaVa + metalen <= Floor
                  /\ \A a \in Bytes(i) : rpra[i] + a - start(i) \in DOMAIN kmem
           /\ \A i, j \in Args : Copied(i) /\ Copied(j) => Apart(i, j)
           /\ \A i \in Args : ~Copied(i) => rpra[i] = IF lpra[i].len = 0 THEN 0 ELSE start(i)
<1>1. /\ Shape /\ GoodArgs /\ Table /\ Needed # -1 /\ Placed /\ CopyInv(Bufs)
  BY DEF ArgInv, Shape, GoodArgs
<1>2. \A i \in Args : /\ rpra[i] \in Int /\ start(i) \in Nat /\ lpra[i].len \in Nat
                      /\ End(i) = start(i) + lpra[i].len
  BY <1>1, ValidEnds DEF Shape
<1>3. \A i \in Args : \E k \in 1 .. Bufs : Who(k) = i
  BY <1>1, TableFacts DEF Args
<1>4. ASSUME NEW i \in Args, Copied(i)
      PROVE  /\ Spot(i) /\ rpra[i] + lpra[i].len <= copybuf + totallen
             /\ Floor \in Int /\ MetaVa + metalen <= Floor
             /\ \A a \in Bytes(i) : rpra[i] + a - start(i) \in DOMAIN kmem
  <2>1. PICK k \in 1 .. Bufs : Who(k) = i
    BY <1>3
  <2>2. Spot(i)
    BY <2>1, <1>1, <1>4 DEF CopyInv
  <2>3. ~NoCopies
    BY <1>4 DEF NoCopies
  <2>4. /\ copybuf \in {MetaVa, CopyVa} /\ copybuf + totallen = Origin + Needed
        /\ Floor .. copybuf + totallen - 1 \subseteq DOMAIN kmem
    BY <2>3, <1>1 DEF Placed
  <2>5. args = Origin + Needed
    BY <2>1, <2>3, <1>1, <1>4 DEF CopyInv, Needed
  <2>6. Floor \in Int /\ MetaVa + metalen <= Floor
    BY <2>4, OriginAligned, MetaBelow
  <2>7. args \in Int /\ copybuf + totallen \in Int /\ rpra[i] + lpra[i].len <= copybuf + totallen
    BY <2>2, <2>4, <2>5, <1>1 DEF Spot, Shape
  <2>8. ASSUME NEW a \in Bytes(i)
        PROVE  rpra[i] + a - start(i) \in DOMAIN kmem
    <3>1. a \in Int /\ start(i) <= a /\ a < End(i)
      BY <1>2 DEF Bytes, start
    <3>2. Floor <= rpra[i]
      BY <2>2 DEF Spot
    <3>4. /\ rpra[i] + a - start(i) \in Int
          /\ rpra[i] <= rpra[i] + a - start(i)
          /\ rpra[i] + a - start(i) < rpra[i] + lpra[i].len
      BY <3>1, <1>2
    <3>5. rpra[i] \in Int /\ lpra[i].len \in Nat
      BY <1>2
    <3> DEFINE x == rpra[i] + a - start(i)
               z == copybuf + totallen
    <3>6. x \in Int /\ rpra[i] <= x /\ x < rpra[i] + lpra[i].len /\ z \in Int
          /\ rpra[i] + lpra[i].len <= z
      BY <3>4, <2>7
    <3> HIDE DEF x, z
    <3>7. x \in Floor .. z - 1
      BY <3>2, <3>5, <3>6, <2>6
    <3>3. rpra[i] + a - start(i) \in Floor .. copybuf + totallen - 1
      <4>1. copybuf + totallen - 1 = z - 1
        BY <1>1 DEF z, Shape
      <4> QED
        BY <4>1, <3>7 DEF x
    <3> QED
      BY <3>3, <2>4
  <2> QED
    BY <2>2, <2>6, <2>7, <2>8
<1>5. ASSUME NEW i \in Args, NEW j \in Args, Copied(i), Copied(j)
      PROVE  Apart(i, j)
  <2>1. PICK k \in 1 .. Bufs : Who(k) = i
    BY <1>3
  <2>2. PICK l \in 1 .. Bufs : Who(l) = j
    BY <1>3
  <2> QED
    BY <2>1, <2>2, <1>1, <1>5 DEF CopyInv
<1>6. \A i \in Args : ~Copied(i) => rpra[i] = IF lpra[i].len = 0 THEN 0 ELSE start(i)
  BY <1>1 DEF CopyInv, start
<1> QED
  BY <1>1, <1>2, <1>4, <1>5, <1>6

\* A byte of a copied buffer lies in the copy of another exactly if it is a
\* byte of the other, and there is one copy of it.
LEMMA OneCopy ==
    ASSUME ArgInv, pc = "dsp", NEW i \in Args, NEW j \in Args, Copied(i), Copied(j),
           NEW a \in Bytes(i)
    PROVE  /\ a \in Int /\ rpra[i] + a - start(i) \in Int
           /\ a \in Bytes(j) <=> rpra[i] + a - start(i) \in rpra[j] .. rpra[j] + lpra[j].len - 1
           /\ a \in Bytes(j) => (rpra[i] + a - start(i)) - rpra[j] = a - start(j)
<1>1. /\ rpra[i] \in Int /\ start(i) \in Nat /\ lpra[i].len \in Nat
      /\ End(i) = start(i) + lpra[i].len
      /\ rpra[j] \in Int /\ start(j) \in Nat /\ lpra[j].len \in Nat
      /\ End(j) = start(j) + lpra[j].len
  BY AllCopied
<1>2. Apart(i, j)
  BY AllCopied
<1>3. /\ a \in Int /\ start(i) <= a /\ a <= End(i) - 1
      /\ a \in Bytes(j) <=> start(j) <= a /\ a <= End(j) - 1
  BY <1>1 DEF Bytes, start
<1> DEFINE x == rpra[i] + a - start(i)
<1>7. x \in Int
  BY <1>1, <1>3
<1>4. CASE rpra[i] - start(i) = rpra[j] - start(j)
  <2>1. x = rpra[j] + a - start(j)
    BY <1>1, <1>3, <1>4
  <2>2. start(j) .. start(j) + lpra[j].len - 1 = Bytes(j)
    <3>1. start(j) + lpra[j].len - 1 = End(j) - 1
      BY <1>1
    <3>2. Bytes(j) = start(j) .. End(j) - 1
      BY DEF Bytes, start
    <3> QED
      BY <3>1, <3>2
  <2>3. a \in start(j) .. start(j) + lpra[j].len - 1 <=>
            rpra[j] + a - start(j) \in rpra[j] .. rpra[j] + lpra[j].len - 1
    <3>1. start(j) \in Int /\ lpra[j].len \in Int /\ rpra[j] \in Int /\ a \in Int
      BY <1>1, <1>3
    <3> QED
      BY <3>1, Shift
  <2>4. (rpra[j] + a - start(j)) - rpra[j] = a - start(j)
    BY <1>1, <1>3
  <2> HIDE DEF x
  <2>5. (a \in Bytes(j) <=> x \in rpra[j] .. rpra[j] + lpra[j].len - 1)
        /\ x - rpra[j] = a - start(j)
    BY <2>1, <2>2, <2>3, <2>4
  <2> QED
    BY <2>5, <1>3, <1>7 DEF x
<1>5. CASE rpra[i] + lpra[i].len <= rpra[j] /\ End(i) <= start(j)
  <2>1. x < rpra[j]
    BY <1>1, <1>3, <1>5
  <2>2. ~(start(j) <= a)
    BY <1>1, <1>3, <1>5
  <2> HIDE DEF x
  <2>3. x \notin rpra[j] .. rpra[j] + lpra[j].len - 1
    BY <2>1, <1>1, <1>7
  <2> QED
    BY <2>2, <2>3, <1>3, <1>7 DEF x
<1>6. CASE rpra[j] + lpra[j].len <= rpra[i] /\ End(j) <= start(i)
  <2>1. x >= rpra[j] + lpra[j].len
    BY <1>1, <1>3, <1>6
  <2>2. ~(a <= End(j) - 1)
    BY <1>1, <1>3, <1>6
  <2> HIDE DEF x
  <2>3. x \notin rpra[j] .. rpra[j] + lpra[j].len - 1
    BY <2>1, <1>1, <1>7
  <2> QED
    BY <2>2, <2>3, <1>3, <1>7 DEF x
<1> QED
  BY <1>2, <1>4, <1>5, <1>6 DEF Apart

\* What the DSP leaves in the copy, and in the caller's memory where no copy
\* will be written back, is the result.
LEMMA DspInv ==
    ASSUME ArgInv, DspRuns, ~bailed
    PROVE  ArgInv'
<1>1. /\ pc = "dsp" /\ pc' = "put"
      /\ user' = Written(user, {i \in Outputs : lpra[i].mapped}, rpra)
      /\ kmem' = Written(kmem, {i \in Outputs : Copied(i)}, rpra)
      /\ lpra' = lpra /\ inbufs' = inbufs /\ err' = err /\ overps' = overps /\ oix' = oix
      /\ totallen' = totallen /\ rlen' = rlen /\ args' = args /\ copybuf' = copybuf
      /\ rpra' = rpra /\ pages' = pages
  BY DEF DspRuns, inputs
<1>2. /\ Shape /\ MetaKept /\ ~Invalid /\ Table /\ oix = inbufs + 1 /\ err = "none"
      /\ user = [a \in 0 .. AddrMod - 1 |-> <<0, a>>] /\ inbufs \in 0 .. Bufs
  BY <1>1 DEF ArgInv, Shape
<1>3. /\ (NoCopies' <=> NoCopies) /\ (Invalid' <=> Invalid) /\ Table' /\ Consistent'
      /\ \A i : (Copied(i)' <=> Copied(i)) /\ Bytes(i)' = Bytes(i) /\ start(i)' = start(i)
  BY <1>1, <1>2, Fixed DEF Shape
<1>4. /\ DOMAIN user' = DOMAIN user /\ user' = [a \in DOMAIN user' |-> user'[a]]
      /\ DOMAIN kmem' = DOMAIN kmem /\ kmem' = [a \in DOMAIN kmem' |-> kmem'[a]]
  BY <1>1 DEF Written
<1>5. Shape'
  BY <1>1, <1>2, <1>3, <1>4 DEF Shape
<1>6. Outputs \subseteq Args /\ Outputs' = Outputs
  BY <1>1, <1>2, ArgAssumption DEF Outputs, Args
<1>7. Result' = Result
  BY <1>1, <1>4, FixedDirect
<1>8. ASSUME NEW a \in DOMAIN kmem
      PROVE  LET hit == {i \in Outputs : Copied(i) /\ a \in rpra[i] .. rpra[i] + lpra[i].len - 1}
             IN  kmem'[a] = IF hit = {} THEN kmem[a] ELSE <<Max(hit), a - rpra[Max(hit)]>>
  <2> DEFINE S == {i \in Outputs : Copied(i)}
             h == {i \in S : a \in rpra[i] .. rpra[i] + lpra[i].len - 1}
  <2>1. kmem'[a] = IF h = {} THEN kmem[a] ELSE <<Max(h), a - rpra[Max(h)]>>
    BY <1>1 DEF Written
  <2>2. h = {i \in Outputs : Copied(i) /\ a \in rpra[i] .. rpra[i] + lpra[i].len - 1}
    OBVIOUS
  <2> HIDE DEF h
  <2> QED
    BY <2>1, <2>2
<1>9. ASSUME NEW a \in DOMAIN user
      PROVE  LET hit == {i \in Outputs : lpra[i].mapped
                                             /\ a \in rpra[i] .. rpra[i] + lpra[i].len - 1}
             IN  user'[a] = IF hit = {} THEN user[a] ELSE <<Max(hit), a - rpra[Max(hit)]>>
  <2> DEFINE S == {i \in Outputs : lpra[i].mapped}
             h == {i \in S : a \in rpra[i] .. rpra[i] + lpra[i].len - 1}
  <2>1. user'[a] = IF h = {} THEN user[a] ELSE <<Max(h), a - rpra[Max(h)]>>
    BY <1>1 DEF Written
  <2>2. h = {i \in Outputs : lpra[i].mapped /\ a \in rpra[i] .. rpra[i] + lpra[i].len - 1}
    OBVIOUS
  <2> HIDE DEF h
  <2> QED
    BY <2>1, <2>2
<1>10. MetaKept'
  <2> SUFFICES ASSUME NEW a \in MetaVa .. MetaVa + metalen - 1
               PROVE  a \in DOMAIN kmem' /\ kmem'[a] = Meta
    BY DEF MetaKept
  <2>1. a \in DOMAIN kmem /\ kmem[a] = Meta
    BY <1>2 DEF MetaKept
  <2>2. ASSUME NEW i \in Outputs, Copied(i)
        PROVE  a \notin rpra[i] .. rpra[i] + lpra[i].len - 1
    <3>1. /\ rpra[i] \in Int /\ Floor \in Int /\ MetaVa + metalen <= Floor /\ Spot(i)
      BY <2>2, <1>1, <1>6, AllCopied
    <3>2. Floor <= rpra[i]
      BY <3>1 DEF Spot
    <3>3. MetaVa \in Nat /\ metalen \in Nat
      BY Places
    <3> QED
      BY <3>1, <3>2, <3>3
  <2>3. {i \in Outputs : Copied(i) /\ a \in rpra[i] .. rpra[i] + lpra[i].len - 1} = {}
    BY <2>2
  <2> QED
    BY <2>1, <2>3, <1>4, <1>8
<1>11. \A i \in Args : i \in Outputs => \A a \in Bytes(i) : a \in DOMAIN user
  <2>1. GoodArgs
    BY <1>1, AllCopied
  <2>2. \A i \in Args : Bytes(i) \subseteq 0 .. AddrMod - 1
    BY <2>1, InMemory
  <2> QED
    BY <2>2, <1>2 DEF Shape
<1>12. ASSUME NEW i \in Outputs, Copied(i), NEW a \in Bytes(i)
       PROVE  /\ rpra[i] + a - start(i) \in DOMAIN kmem
              /\ kmem'[rpra[i] + a - start(i)] = Result[a]
  <2> DEFINE x == rpra[i] + a - start(i)
             hit == {j \in Outputs : Copied(j) /\ x \in rpra[j] .. rpra[j] + lpra[j].len - 1}
  <2>1. i \in Args /\ x \in DOMAIN kmem /\ a \in DOMAIN user
    BY <1>1, <1>6, <1>11, <1>12, AllCopied
  <2>2. ASSUME NEW j \in Outputs, a \in Bytes(j)
        PROVE  Copied(j)
    <3>1. j \in Args /\ GoodArgs
      BY <1>1, <1>6, AllCopied
    <3>2. lpra[j].mapped = lpra[i].mapped
      BY <2>1, <2>2, <3>1, <1>12 DEF GoodArgs, Consistent, Overlap
    <3>3. lpra[j].len > 0
      BY <2>2, <3>1, <1>1, AllCopied DEF Bytes, start
    <3> QED
      BY <3>2, <3>3, <1>12 DEF Copied
  <2>3. \A j \in Outputs : Copied(j) =>
            /\ a \in Bytes(j) <=> x \in rpra[j] .. rpra[j] + lpra[j].len - 1
            /\ a \in Bytes(j) => x - rpra[j] = a - start(j)
    BY <2>1, <1>1, <1>6, <1>12, OneCopy
  <2> HIDE DEF x
  <2>4. hit = Hits(a)
    BY <2>2, <2>3 DEF Hits
  <2>5. Hits(a) # {}
    BY <1>12 DEF Hits
  <2> DEFINE m == Max(Hits(a))
  <2>6. m \in Hits(a) /\ Result[a] = <<m, a - start(m)>>
    BY <2>1, <2>5, <1>2, DirectAt
  <2>7. kmem'[x] = <<m, x - rpra[m]>>
    BY <2>1, <2>4, <2>5, <1>8
  <2>8. m \in Outputs /\ a \in Bytes(m) /\ Copied(m)
    BY <2>6, <2>2 DEF Hits
  <2> HIDE DEF m
  <2>9. x - rpra[m] = a - start(m)
    BY <2>3, <2>8
  <2> QED
    BY <2>1, <2>6, <2>7, <2>9 DEF x
<1>13. ASSUME NEW a \in DOMAIN user, \A i \in Outputs : Copied(i) => a \notin Bytes(i)
       PROVE  user'[a] = Result[a]
  <2> DEFINE hit == {i \in Outputs : lpra[i].mapped
                                         /\ a \in rpra[i] .. rpra[i] + lpra[i].len - 1}
  <2>1. ASSUME NEW i \in Outputs
        PROVE  /\ a \in Bytes(i) <=>
                      lpra[i].mapped /\ a \in rpra[i] .. rpra[i] + lpra[i].len - 1
               /\ a \in Bytes(i) => rpra[i] = start(i)
    <3>1. /\ i \in Args /\ rpra[i] \in Int /\ start(i) \in Nat /\ lpra[i].len \in Nat
          /\ End(i) = start(i) + lpra[i].len
          /\ (~Copied(i) => rpra[i] = IF lpra[i].len = 0 THEN 0 ELSE start(i))
      BY <1>1, <1>6, AllCopied
    <3>2. Bytes(i) = start(i) .. start(i) + lpra[i].len - 1
      BY <3>1 DEF Bytes, start
    <3>3. CASE lpra[i].len = 0
      <4>1. start(i) .. start(i) + lpra[i].len - 1 = {}
            /\ rpra[i] .. rpra[i] + lpra[i].len - 1 = {}
        BY <3>1, <3>3
      <4> QED
        BY <4>1, <3>2
    <3>4. CASE lpra[i].len > 0 /\ lpra[i].mapped
      <4>1. ~Copied(i) /\ lpra[i].len # 0
        BY <3>1, <3>4 DEF Copied
      <4> QED
        BY <4>1, <3>1, <3>2, <3>4
    <3>5. CASE lpra[i].len > 0 /\ ~lpra[i].mapped
      <4>1. Copied(i)
        BY <3>5 DEF Copied
      <4> QED
        BY <4>1, <1>13, <3>5
    <3> QED
      BY <3>1, <3>3, <3>4, <3>5
  <2>2. hit = Hits(a)
    BY <2>1 DEF Hits
  <2>3. user[a] = <<0, a>>
    BY <1>2
  <2>4. user'[a] = IF hit = {} THEN user[a] ELSE <<Max(hit), a - rpra[Max(hit)]>>
    BY <1>9
  <2> HIDE DEF hit
  <2>5. CASE Hits(a) = {}
    BY <2>2, <2>3, <2>4, <2>5, <1>2, DirectAt
  <2>6. CASE Hits(a) # {}
    <3> DEFINE m == Max(Hits(a))
    <3>1. m \in Hits(a) /\ Result[a] = <<m, a - start(m)>>
      BY <2>6, <1>2, DirectAt
    <3>2. rpra[m] = start(m)
      BY <3>1, <2>1 DEF Hits
    <3> QED
      BY <3>1, <3>2, <2>2, <2>4, <2>6
  <2> QED
    BY <2>5, <2>6
<1>14. PutInv'
  <2>1. inbufs' < oix'
    BY <1>1, <1>2, ArgAssumption
  <2>2. \A i \in Outputs' : Copied(i)' => \A a \in Bytes(i)' :
            /\ rpra'[i] + a - start(i)' \in DOMAIN kmem'
            /\ kmem'[rpra'[i] + a - start(i)'] = Result'[a]
    BY <1>1, <1>3, <1>4, <1>6, <1>7, <1>12
  <2>3. \A a \in DOMAIN user' :
            (\A i \in oix' .. Bufs : Copied(i)' => a \notin Bytes(i)') => user'[a] = Result'[a]
    <3>1. oix' .. Bufs = Outputs
      BY <1>1, <1>2 DEF Outputs
    <3> QED
      BY <3>1, <1>3, <1>4, <1>7, <1>13
  <2> QED
    BY <2>1, <2>2, <2>3 DEF PutInv
<1> QED
  BY <1>1, <1>2, <1>3, <1>5, <1>10, <1>14 DEF ArgInv

\* put_args writes one output back.
LEMMA PutStepInv ==
    ASSUME ArgInv, PutStep, ~bailed
    PROVE  ArgInv'
<1>1. /\ pc = "put" /\ oix <= Bufs /\ oix' = oix + 1 /\ pc' = pc /\ err' = err
      /\ user' = IF ~Copied(oix) THEN user
                 ELSE [a \in DOMAIN user |->
                          IF a \in Bytes(oix)
                          THEN Read(rpra[oix] + a - lpra[oix].pv) ELSE user[a]]
      /\ lpra' = lpra /\ inbufs' = inbufs /\ overps' = overps
      /\ totallen' = totallen /\ rlen' = rlen /\ args' = args /\ copybuf' = copybuf
      /\ rpra' = rpra /\ pages' = pages /\ kmem' = kmem
  BY DEF PutStep, inputs
<1>2. /\ Shape /\ MetaKept /\ ~Invalid /\ Table /\ PutInv /\ err = "none"
      /\ inbufs \in 0 .. Bufs /\ oix \in 1 .. Bufs + 1 /\ Bufs \in Nat
  BY <1>1, ArgAssumption DEF ArgInv, Shape
<1>3. /\ (NoCopies' <=> NoCopies) /\ (Invalid' <=> Invalid) /\ Table' /\ Consistent'
      /\ \A i : (Copied(i)' <=> Copied(i)) /\ Bytes(i)' = Bytes(i) /\ start(i)' = start(i)
  BY <1>1, <1>2, Fixed DEF Shape
<1>4. DOMAIN user' = DOMAIN user /\ user' = [a \in DOMAIN user' |-> user'[a]]
  <2>1. user = [a \in DOMAIN user |-> user[a]]
    BY <1>2 DEF Shape
  <2>2. CASE Copied(oix)
    BY <2>2, <1>1
  <2>3. CASE ~Copied(oix)
    BY <2>1, <2>3, <1>1
  <2> QED
    BY <2>2, <2>3
<1>5. oix' \in 1 .. Bufs + 1 /\ oix \in Outputs /\ inbufs' < oix'
  BY <1>1, <1>2 DEF Outputs, PutInv
<1>6. Shape' /\ MetaKept'
  BY <1>1, <1>2, <1>3, <1>4, <1>5 DEF Shape, MetaKept
<1>7. Result' = Result /\ Outputs' = Outputs
  BY <1>1, <1>4, FixedDirect DEF Outputs
<1>8. \A i \in Outputs' : Copied(i)' => \A a \in Bytes(i)' :
          /\ rpra'[i] + a - start(i)' \in DOMAIN kmem'
          /\ kmem'[rpra'[i] + a - start(i)'] = Result'[a]
  BY <1>1, <1>2, <1>3, <1>7 DEF PutInv
<1>9. ASSUME NEW a \in DOMAIN user, \A i \in oix + 1 .. Bufs : Copied(i) => a \notin Bytes(i)
      PROVE  user'[a] = Result[a]
  <2>1. CASE Copied(oix) /\ a \in Bytes(oix)
    <3>1. user'[a] = Read(rpra[oix] + a - start(oix))
      BY <1>1, <2>1 DEF start
    <3>2. /\ rpra[oix] + a - start(oix) \in DOMAIN kmem
          /\ kmem[rpra[oix] + a - start(oix)] = Result[a]
      BY <1>2, <1>5, <2>1 DEF PutInv
    <3> QED
      BY <3>1, <3>2 DEF Read
  <2>2. CASE ~(Copied(oix) /\ a \in Bytes(oix))
    <3>1. user'[a] = user[a]
      BY <1>1, <2>2
    <3>2. \A i \in oix .. Bufs : i = oix \/ i \in oix + 1 .. Bufs
      BY <1>2
    <3>3. \A i \in oix .. Bufs : Copied(i) => a \notin Bytes(i)
      BY <3>2, <2>2, <1>9
    <3>4. user[a] = Result[a]
      BY <3>3, <1>2 DEF PutInv
    <3> QED
      BY <3>1, <3>4
  <2> QED
    BY <2>1, <2>2
<1>10. \A a \in DOMAIN user' :
           (\A i \in oix' .. Bufs : Copied(i)' => a \notin Bytes(i)') => user'[a] = Result'[a]
  BY <1>1, <1>3, <1>4, <1>7, <1>9
<1>11. PutInv'
  BY <1>5, <1>8, <1>10 DEF PutInv
<1> QED
  BY <1>1, <1>2, <1>3, <1>6, <1>11 DEF ArgInv

\* All outputs are written back: the caller's memory is the result.
LEMMA PutEndInv ==
    ASSUME ArgInv, PutEnd
    PROVE  ArgInv'
<1>1. /\ UNCHANGED data /\ pc = "put" /\ oix = Bufs + 1 /\ pc' = "return" /\ oix' = oix
      /\ err' = err
  BY DEF data, PutEnd, inputs
<1>2. /\ Shape /\ MetaKept /\ ~Invalid /\ PutInv /\ err = "none" /\ oix \in 1 .. Bufs + 1
      /\ Bufs \in Nat
  BY <1>1, ArgAssumption DEF ArgInv, Shape
<1>3. Shape' /\ MetaKept'
  BY <1>1, <1>2, FixedShape, FixedData
<1>4. ~Invalid' /\ Result' = Result /\ user' = user
  BY <1>1, <1>2, Fixed, FixedDirect DEF data
<1>5. user = Result
  <2>1. oix .. Bufs = {}
    BY <1>1, <1>2
  <2>2. \A a \in DOMAIN user : user[a] = Result[a]
    BY <2>1, <1>2 DEF PutInv
  <2>3. user = [a \in DOMAIN user |-> user[a]]
    BY <1>2 DEF Shape
  <2>4. Result = [a \in DOMAIN user |-> Result[a]]
    BY DEF Result, Direct, Written
  <2> QED
    BY <2>2, <2>3, <2>4
<1> QED
  BY <1>1, <1>2, <1>3, <1>4, <1>5 DEF ArgInv

\* A step that changes nothing.
LEMMA StutterInv ==
    ASSUME ArgInv, UNCHANGED vars
    PROVE  ArgInv'
<1>1. UNCHANGED data /\ pc' = pc /\ err' = err /\ oix' = oix
  BY DEF data, vars
<1>2. /\ lpra' = lpra /\ inbufs' = inbufs /\ overps' = overps /\ totallen' = totallen
      /\ rlen' = rlen /\ args' = args /\ copybuf' = copybuf /\ rpra' = rpra
      /\ pages' = pages /\ user' = user /\ kmem' = kmem
  BY <1>1 DEF data
<1>3. Shape' /\ MetaKept' /\ (Placed => Placed') /\ Floor' = Floor /\ Origin' = Origin
      /\ \A k : CopyInv(k) => CopyInv(k)'
  BY <1>1, FixedShape, FixedData DEF ArgInv, Shape
<1>4. /\ Needed' = Needed /\ (NoCopies' <=> NoCopies) /\ (Invalid' <=> Invalid)
      /\ (Table => Table')
      /\ \A i : (Copied(i)' <=> Copied(i)) /\ Bytes(i)' = Bytes(i) /\ start(i)' = start(i)
  BY <1>2, Fixed
<1>5. Result' = Result /\ Outputs' = Outputs
  BY <1>2, FixedDirect DEF Outputs
<1>6. PutInv => PutInv'
  BY <1>1, <1>2, <1>4, <1>5 DEF PutInv
<1>7. /\ pc' = "copy" => CopyInv(oix - 1)'
      /\ pc' = "dsp" => CopyInv(Bufs)'
  BY <1>1, <1>3 DEF ArgInv
<1> QED
  BY <1>1, <1>2, <1>3, <1>4, <1>5, <1>6, <1>7 DEF ArgInv

-----------------------------------------------------------------------------
(* The call that get_args left at its check of the handles.                *)

MappedOutputs == {i \in Outputs : lpra[i].mapped}

\* The call is under way with the caller's own addresses, and nothing but the
\* DSP's work on the mapped buffers changes the caller's memory.
BailInv ==
    /\ MetaKept /\ ~Invalid /\ err = "none"
    /\ lpra \in [Args -> [pv : 0 .. AddrMod - 1, len : Lens, mapped : BOOLEAN]]
    /\ inbufs \in 0 .. Bufs
    /\ pc \in {"dsp", "put", "return"}
    /\ pc = "dsp" =>
        /\ user = [a \in 0 .. AddrMod - 1 |-> <<0, a>>]
        /\ rpra = [i \in Args |-> IF lpra[i].len = 0 THEN 0 ELSE lpra[i].pv]
    /\ pc # "dsp" => user = Direct(MappedOutputs)

\* get_args leaves.
LEMMA HandleGoneBails ==
    ASSUME ArgInv, HandleGone
    PROVE  BailInv'
<1>1. /\ pc = "meta" /\ pc' = "dsp" /\ lpra' = lpra /\ inbufs' = inbufs /\ err' = err
      /\ user' = user /\ kmem' = kmem /\ overps' = overps
      /\ rpra' = [i \in Args |-> IF lpra[i].len = 0 THEN 0 ELSE lpra[i].pv]
  BY DEF HandleGone, FillMetadata, inputs
<1>2. MetaKept'
  BY <1>1 DEF ArgInv, MetaKept
<1>3. ~Invalid'
  BY <1>1 DEF ArgInv, Invalid, end, start, End
<1> QED
  BY <1>1, <1>2, <1>3 DEF ArgInv, Shape, BailInv

\* The DSP finds the mapped buffers where the caller has them.
LEMMA BailedDsp ==
    ASSUME BailInv, DspRuns, bailed
    PROVE  BailInv'
<1>1. /\ pc = "dsp" /\ pc' = "put" /\ user' = Written(user, MappedOutputs, rpra)
      /\ lpra' = lpra /\ inbufs' = inbufs /\ err' = err
  BY DEF DspRuns, inputs, MappedOutputs
<1>2. kmem' = [a \in DOMAIN kmem |-> kmem[a]]
  <2>1. {i \in Outputs : Copied(i) /\ ~bailed} = {}
    OBVIOUS
  <2>2. kmem' = Written(kmem, {}, rpra)
    BY <2>1 DEF DspRuns
  <2> QED
    BY <2>2 DEF Written
<1>3. MetaKept'
  BY <1>2 DEF BailInv, MetaKept
<1>4. ~Invalid' /\ MappedOutputs' = MappedOutputs
  BY <1>1 DEF BailInv, Invalid, end, start, End, MappedOutputs, Outputs
<1>5. /\ DOMAIN user = 0 .. AddrMod - 1 /\ user = [a \in DOMAIN user |-> <<0, a>>]
      /\ MappedOutputs \subseteq Args
      /\ \A i \in Args : rpra[i] = IF lpra[i].len = 0 THEN 0 ELSE lpra[i].pv
  BY <1>1, ArgAssumption DEF BailInv, MappedOutputs, Outputs, Args
<1>6. \A i \in Args : lpra[i].pv \in Int /\ lpra[i].len \in Nat
  <2>1. /\ AddrMod \in Nat /\ \A n \in Lens : n \in Nat
    BY ArgAssumption
  <2>2. \A i \in Args : lpra[i].pv \in 0 .. AddrMod - 1 /\ lpra[i].len \in Lens
    BY DEF BailInv
  <2> QED
    BY <2>1, <2>2
<1> DEFINE at == [i \in Args |-> lpra[i].pv]
           hits(a) == {i \in MappedOutputs : a \in at[i] .. at[i] + lpra[i].len - 1}
           there(a) == {i \in MappedOutputs : a \in rpra[i] .. rpra[i] + lpra[i].len - 1}
<1>7. ASSUME NEW a
      PROVE  /\ there(a) = hits(a)
             /\ hits(a) # {} => rpra[Max(hits(a))] = at[Max(hits(a))]
  <2>1. ASSUME NEW i \in MappedOutputs
        PROVE  /\ rpra[i] .. rpra[i] + lpra[i].len - 1 = at[i] .. at[i] + lpra[i].len - 1
               /\ a \in at[i] .. at[i] + lpra[i].len - 1 => rpra[i] = at[i]
    <3>1. PICK p \in Int, n \in Nat : p = lpra[i].pv /\ n = lpra[i].len
      BY <1>5, <1>6
    <3>2. at[i] = p /\ rpra[i] = IF n = 0 THEN 0 ELSE p
      BY <1>5, <3>1
    <3>3. CASE n = 0
      <4>1. p .. p + n - 1 = {} /\ 0 .. 0 + n - 1 = {}
        BY <3>3
      <4> HIDE DEF at
      <4> QED
        BY <3>1, <3>2, <3>3, <4>1
    <3>4. CASE n # 0
      <4> HIDE DEF at
      <4> QED
        BY <3>1, <3>2, <3>4
    <3> QED
      BY <3>3, <3>4
  <2> HIDE DEF at
  <2>2. there(a) = hits(a)
    BY <2>1
  <2>3. hits(a) # {} => Max(hits(a)) \in hits(a)
    BY <1>5, Largest
  <2> QED
    BY <2>1, <2>2, <2>3
<1>8. user' = [a \in DOMAIN user |-> IF there(a) = {} THEN user[a]
                                     ELSE <<Max(there(a)), a - rpra[Max(there(a))]>>]
  BY <1>1 DEF Written
<1>9. Direct(MappedOutputs)' = [a \in DOMAIN user' |->
          IF hits(a) = {} THEN [b \in DOMAIN user' |-> <<0, b>>][a]
          ELSE <<Max(hits(a)), a - at[Max(hits(a))]>>]
  <2>1. Direct(MappedOutputs)' =
            [a \in DOMAIN [b \in DOMAIN user' |-> <<0, b>>] |->
                IF hits(a) = {} THEN [b \in DOMAIN user' |-> <<0, b>>][a]
                ELSE <<Max(hits(a)), a - at[Max(hits(a))]>>]
    BY <1>1, <1>4 DEF Direct, Written
  <2> QED
    BY <2>1
<1> HIDE DEF at, hits, there
<1>10. user' = Direct(MappedOutputs)'
  <2>1. DOMAIN user' = DOMAIN user
    BY <1>8
  <2>2. \A a \in DOMAIN user : user[a] = <<0, a>> /\ [b \in DOMAIN user |-> <<0, b>>][a] = <<0, a>>
    BY <1>5
  <2> QED
    BY <1>7, <1>8, <1>9, <2>1, <2>2
<1> QED
  BY <1>1, <1>3, <1>4, <1>10 DEF BailInv

\* put_args copies nothing back, and every other step is out of reach.
LEMMA BailedStep ==
    ASSUME BailInv, bailed, [Next]_vars
    PROVE  BailInv' /\ bailed'
<1>1. CASE DspRuns
  <2>1. bailed'
    BY <1>1 DEF DspRuns
  <2> QED
    BY <1>1, <2>1, BailedDsp
<1>2. CASE PutStep \/ PutEnd \/ UNCHANGED vars
  <2>1. /\ lpra' = lpra /\ inbufs' = inbufs /\ err' = err /\ user' = user /\ kmem' = kmem
        /\ rpra' = rpra /\ bailed' /\ (pc' = pc \/ (pc = "put" /\ pc' = "return"))
    BY <1>2 DEF PutStep, PutEnd, vars, inputs
  <2>2. MetaKept' /\ ~Invalid' /\ Direct(MappedOutputs)' = Direct(MappedOutputs)
    BY <2>1 DEF BailInv, MetaKept, Invalid, end, start, End, MappedOutputs, Outputs,
               Direct, Written
  <2> QED
    BY <2>1, <2>2 DEF BailInv
<1> QED
  BY <1>1, <1>2 DEF Next, BailInv, BuildFails, BuildOverlap, SizeFails, PlaceCopies, Metadata,
     HandleGone, FillMetadata, GetArgsFails, CopyStep, CopyEnd, PutFails

-----------------------------------------------------------------------------
(* The theorems.                                                           *)

\* The invariant of a call whose mapped buffers overlap no copied ones.
CallInv ==
    Consistent => (~bailed => ArgInv) /\ (bailed => BailInv)

(* Every step of a call keeps the invariant: get_args copies one buffer of *)
(* the overlap table after the other, the DSP writes, put_args copies back;*)
(* or get_args leaves, and nothing is copied.                              *)
THEOREM ArgInvariance == Spec => []CallInv
<1>1. Init => CallInv
  BY InitInv DEF CallInv, Init
<1>2. CallInv /\ [Next]_vars => CallInv'
  <2> SUFFICES ASSUME CallInv, [Next]_vars, Consistent'
               PROVE  (~bailed' => ArgInv') /\ (bailed' => BailInv')
    BY DEF CallInv
  <2>0. Consistent
    <3>1. lpra' = lpra
      BY DEF Next, BuildFails, BuildOverlap, SizeFails, PlaceCopies, Metadata, HandleGone,
         FillMetadata, GetArgsFails, CopyStep, CopyEnd, DspRuns, PutStep, PutFails, PutEnd,
         vars, inputs
    <3> QED
      BY <3>1 DEF Consistent, Overlap, Bytes, End
  <2>a. CASE bailed
    BY <2>0, <2>a, BailedStep DEF CallInv
  <2>b. CASE ~bailed /\ HandleGone
    <3>1. ArgInv /\ bailed'
      BY <2>0, <2>b DEF CallInv, HandleGone
    <3> QED
      BY <3>1, <2>b, HandleGoneBails
  <2>c. CASE ~bailed /\ ~HandleGone
    <3>0. ArgInv
      BY <2>0, <2>c DEF CallInv
    <3>a. ~bailed'
      BY <2>c DEF Next, BuildFails, BuildOverlap, SizeFails, PlaceCopies, Metadata,
         GetArgsFails, CopyStep, CopyEnd, DspRuns, PutStep, PutFails, PutEnd, vars
    <3>1. CASE BuildFails \/ SizeFails \/ GetArgsFails \/ PutFails
      BY <3>0, <3>1, FailSteps, <3>a
    <3>2. CASE BuildOverlap
      BY <3>0, <3>2, BuildInv, <3>a
    <3>3. CASE PlaceCopies
      BY <3>0, <3>3, PlaceInv, <3>a
    <3>4. CASE Metadata
      BY <3>0, <3>4, MetadataInv, <3>a
    <3>5. CASE CopyStep
      BY <3>0, <3>5, CopyStepInv, <3>a
    <3>6. CASE CopyEnd
      BY <3>0, <3>6, CopyEndInv, <3>a
    <3>7. CASE DspRuns
      BY <3>0, <3>7, <2>c, DspInv, <3>a
    <3>8. CASE PutStep
      BY <3>0, <3>8, <2>c, PutStepInv, <3>a
    <3>9. CASE PutEnd
      BY <3>0, <3>9, PutEndInv, <3>a
    <3>10. CASE UNCHANGED vars
      BY <3>0, <3>10, StutterInv, <3>a
    <3> QED
      BY <2>c, <3>1, <3>2, <3>3, <3>4, <3>5, <3>6, <3>7, <3>8, <3>9, <3>10 DEF Next
  <2> QED
    BY <2>a, <2>b, <2>c
<1> QED
  BY <1>1, <1>2, PTL DEF Spec

\* The copied buffers when the DSP runs.
LEMMA DspSees ==
    ASSUME ArgInv, pc = "dsp"
    PROVE  SameAliasing /\ InputsThere
<1>1. /\ \A i \in Args : /\ rpra[i] \in Int /\ start(i) \in Nat /\ lpra[i].len \in Nat
                         /\ End(i) = start(i) + lpra[i].len
      /\ \A i \in Args : Copied(i) =>
             Spot(i) /\ rpra[i] + lpra[i].len <= copybuf + totallen
      /\ \A i, j \in Args : Copied(i) /\ Copied(j) => Apart(i, j)
  BY AllCopied
<1>2. ASSUME NEW i \in Args, NEW j \in Args, Copied(i), Copied(j),
             NEW a \in Bytes(i), NEW b \in Bytes(j)
      PROVE  rpra[i] + (a - start(i)) = rpra[j] + (b - start(j)) <=> a = b
  <2>1. /\ rpra[i] \in Int /\ start(i) \in Nat /\ lpra[i].len \in Nat
        /\ End(i) = start(i) + lpra[i].len
        /\ rpra[j] \in Int /\ start(j) \in Nat /\ lpra[j].len \in Nat
        /\ End(j) = start(j) + lpra[j].len
    BY <1>1
  <2>2. /\ a \in Int /\ start(i) <= a /\ a < End(i)
        /\ b \in Int /\ start(j) <= b /\ b < End(j)
    BY <2>1 DEF Bytes, start
  <2>3. Apart(i, j)
    BY <1>1, <1>2
  <2>4. CASE rpra[i] - start(i) = rpra[j] - start(j)
    BY <2>1, <2>2, <2>4
  <2>5. CASE rpra[i] + lpra[i].len <= rpra[j] /\ End(i) <= start(j)
    <3>1. a # b
      BY <2>1, <2>2, <2>5
    <3>2. rpra[i] + (a - start(i)) # rpra[j] + (b - start(j))
      BY <2>1, <2>2, <2>5
    <3> QED
      BY <3>1, <3>2
  <2>6. CASE rpra[j] + lpra[j].len <= rpra[i] /\ End(j) <= start(i)
    <3>1. a # b
      BY <2>1, <2>2, <2>6
    <3>2. rpra[i] + (a - start(i)) # rpra[j] + (b - start(j))
      BY <2>1, <2>2, <2>6
    <3> QED
      BY <3>1, <3>2
  <2> QED
    BY <2>3, <2>4, <2>5, <2>6 DEF Apart
<1>3. ASSUME NEW i \in Args, Copied(i)
      PROVE  /\ rpra[i] >= copybuf + (IF copybuf = MetaVa THEN metalen ELSE 0)
             /\ rpra[i] + lpra[i].len <= copybuf + totallen
             /\ pages[i].addr = da(buf_page_start(rpra[i]))
             /\ rpra[i] + lpra[i].len <= buf_page_start(rpra[i]) + pages[i].size
  <2>1. /\ Spot(i) /\ rpra[i] + lpra[i].len <= copybuf + totallen
        /\ rpra[i] \in Int /\ lpra[i].len \in Nat
    BY <1>1, <1>3
  <2>2. Floor \in Int /\ Floor <= rpra[i]
    BY <2>1, <1>3, AllCopied DEF Spot
  <2>3. rpra[i] >= Floor
    BY <2>1, <2>2
  <2>4. pages[i] = [addr |-> da(buf_page_start(rpra[i])),
                    size |-> buf_num_pages(rpra[i], lpra[i].len) * PAGE_SIZE]
    BY <2>1 DEF Spot
  <2>5. rpra[i] + lpra[i].len
            <= buf_page_start(rpra[i]) + buf_num_pages(rpra[i], lpra[i].len) * PAGE_SIZE
    <3>1. lpra[i].len > 0
      BY <1>3 DEF Copied
    <3> QED
      BY <2>1, <3>1, PagesCover
  <2>6. rpra[i] >= copybuf + (IF copybuf = MetaVa THEN metalen ELSE 0)
    BY <2>3 DEF Floor
  <2>7. /\ pages[i].addr = da(buf_page_start(rpra[i]))
        /\ pages[i].size = buf_num_pages(rpra[i], lpra[i].len) * PAGE_SIZE
    BY <2>4
  <2> QED
    BY <2>1, <2>5, <2>6, <2>7
<1>4. SameAliasing
  BY <1>2, <1>3 DEF SameAliasing
<1>5. InputsThere
  <2> SUFFICES ASSUME NEW i \in 1 .. inbufs, Copied(i), NEW a \in Bytes(i)
               PROVE  kmem[rpra[i] + a - start(i)] = user[a]
    BY DEF InputsThere
  <2>1. i \in Args /\ i <= inbufs
    BY ArgAssumption DEF ArgInv, Shape, Args
  <2> QED
    BY <2>1, <1>1 DEF Spot
<1> QED
  BY <1>4, <1>5

(* For any number of buffers, of any lengths and however the mapped ones   *)
(* overlap among themselves and the copied ones among themselves: the DSP  *)
(* finds the inputs where it was told, the copies alias exactly as the     *)
(* caller's buffers do and stay off the metadata, the size computed before *)
(* the copy suffices, and the caller's memory ends as direct work on it    *)
(* would have left it, or, when the map of a handle was gone, as work on   *)
(* the mapped buffers alone (context_build_overlap, get_args, put_args).   *)
THEOREM CallTransparent == Spec => []CallIsTransparent
<1>1. CallInv => CallIsTransparent
  <2> SUFFICES ASSUME CallInv, Consistent
               PROVE  CallIsTransparent
    BY DEF CallIsTransparent
  <2>1. CASE ~bailed
    <3>0. ArgInv
      BY <2>1 DEF CallInv
    <3>1. pc = "dsp" => SameAliasing /\ InputsThere
      BY <3>0, DspSees
    <3>2. \A a \in MetaVa .. MetaVa + metalen - 1 : kmem[a] = Meta
      BY <3>0 DEF ArgInv, MetaKept
    <3>3. err # "room"
      BY <3>0 DEF ArgInv, Shape
    <3>4. err = "address" <=> pc = "return" /\ Invalid
      BY <3>0 DEF ArgInv
    <3>5. pc = "return" /\ err = "none" => user = Direct(Outputs)
      BY <3>0 DEF ArgInv, Result
    <3> QED
      BY <2>1, <3>1, <3>2, <3>3, <3>4, <3>5 DEF CallIsTransparent
  <2>2. CASE bailed
    <3>0. BailInv
      BY <2>2 DEF CallInv
    <3>1. \A a \in MetaVa .. MetaVa + metalen - 1 : kmem[a] = Meta
      BY <3>0 DEF BailInv, MetaKept
    <3>2. err = "none" /\ ~Invalid
      BY <3>0 DEF BailInv
    <3>3. pc = "return" => user = Direct({i \in Outputs : lpra[i].mapped})
      BY <3>0 DEF BailInv, MappedOutputs
    <3> QED
      BY <2>2, <3>1, <3>2, <3>3 DEF CallIsTransparent
  <2> QED
    BY <2>1, <2>2
<1> QED
  BY <1>1, ArgInvariance, PTL
=============================================================================

----------------------------- MODULE LibcProofs -----------------------------
(***************************************************************************)
(* Proofs about Libc, and so about Heap and Stdio: for every page, number  *)
(* of buckets and sizes, for every content and every outcome of the system *)
(* calls, regions never overlap, and memory and descriptors belong to one  *)
(* stream or to the program each.                                          *)
(*                                                                         *)
(* The heap is in order (HeapOK) if every region can be given a class, its *)
(* bucket for good. A call is quiet (Quiet) if it leaves the heap, the     *)
(* table and the names of the descriptors alone; it keeps the streams      *)
(* (Kept) if it may allocate or free their buffers. A world is sound       *)
(* (Sound) if every FILE is on a descriptor of its own and the memory in   *)
(* use is the program's, the FILEs' and their buffers'. Calls that go byte *)
(* by byte, or stream by stream, are folds over recursive functions; UpTo  *)
(* is the induction they need.                                             *)
(***************************************************************************)
EXTENDS Libc, FiniteSetTheorems, TLAPS

-----------------------------------------------------------------------------
(* Numbers and the heap *)


\* A set of naturals that is not empty has a least element.
LEMMA LeastNat ==
  ASSUME NEW S, S \subseteq Nat, S # {}
  PROVE  \E n \in S : \A m \in S : ~(m < n)
<1> DEFINE F == {0 .. n : n \in S}
           B == UNION F
<1>1. \A n \in S : IsFiniteSet(0 .. n)
  BY FS_Interval
<1>2. F \subseteq FiniteSubsetsOf(B) /\ F # {}
  BY <1>1 DEF FiniteSubsetsOf
<1>3. PICK x \in F : \A y \in F : ~(<<y, x>> \in StrictSubsetOrdering(B))
  BY <1>2, FS_StrictSubsetOrderingWellFounded, WFMin, Zenon
<1>4. PICK n \in S : x = 0 .. n
  BY <1>3
<1>5. ASSUME NEW m \in S, m < n PROVE FALSE
  <2>1. 0 .. m \in F
    OBVIOUS
  <2>2. 0 .. m \subseteq 0 .. n /\ 0 .. m # 0 .. n
    BY <1>5
  <2>3. <<0 .. m, x>> \in StrictSubsetOrdering(B)
    BY <2>1, <2>2, <1>3, <1>4 DEF StrictSubsetOrdering
  <2> QED
    BY <2>1, <2>3, <1>3
<1> QED
  BY <1>5

\* Induction up to a bound, for a set of numbers.
LEMMA UpTo ==
  ASSUME NEW N \in Nat, NEW G, 0 \in G, \A i \in 1 .. N : i - 1 \in G => i \in G
  PROVE  0 .. N \subseteq G
<1> SUFFICES ASSUME (0 .. N) \ G # {} PROVE FALSE
  OBVIOUS
<1>0. (0 .. N) \ G \subseteq Nat
  OBVIOUS
<1>1. PICK n \in (0 .. N) \ G : \A m \in (0 .. N) \ G : ~(m < n)
  BY <1>0, LeastNat, Zenon
<1>2. n # 0 /\ n - 1 \in 0 .. N /\ n - 1 < n /\ n \in 1 .. N
  BY <1>1
<1>3. n - 1 \in G
  BY <1>1, <1>2
<1> QED
  BY <1>1, <1>2, <1>3

\* A region has a size: there are as many numbers in it as a set of that many
\* bits has subsets.
LEMMA SizePositive == ASSUME NEW b \in Buckets PROVE BucketToSize(b) \in Nat /\ BucketToSize(b) > 0
<1> DEFINE n == b + Log2Smallest
           S == 1 .. n
<1>1. n \in Nat
  BY HeapAssumption DEF Buckets
<1>2. IsFiniteSet(S) /\ Cardinality(S) = n
  BY <1>1, FS_Interval
<1>3. IsFiniteSet(SUBSET S) /\ Cardinality(SUBSET S) = 2 ^ n
  BY <1>2, FS_SUBSET
<1>4. Cardinality(SUBSET S) \in Nat /\ Cardinality(SUBSET S) # 0
  <2> HIDE DEF S
  <2>1. SUBSET S # {}
    OBVIOUS
  <2> QED BY <1>3, <2>1, FS_CardinalityType, FS_EmptySet
<1> QED BY <1>3, <1>4 DEF BucketToSize

-----------------------------------------------------------------------------
Size(b) == BucketToSize(b)

(* Each region has a size of its own for good: that of the bucket it is put  *)
(* in whenever it is free.                                                   *)
Classed(h, cls) ==
    LET all == DOMAIN h.header
    IN /\ h = [brk |-> h.brk, limit |-> h.limit, buckets |-> h.buckets, header |-> h.header]
       /\ h.brk \in Nat
       /\ h.limit \in Int
       /\ HeapStart <= h.brk
       /\ h.buckets \in [Buckets -> Seq(Int)]
       /\ cls \in [all -> Buckets]
       /\ h.header = [r \in all |-> h.header[r]]
       /\ \A r \in all : r \in Int /\ HeapStart <= r /\ r + Size(cls[r]) <= h.brk
       /\ \A r, s \in all : r # s => \/ r + Size(cls[r]) <= s
                                     \/ s + Size(cls[s]) <= r
       /\ \A r \in all : h.header[r] \in {Link, cls[r]}
       /\ \A b \in Buckets : \A i \in 1 .. Len(h.buckets[b]) :
            /\ h.buckets[b][i] \in all
            /\ h.header[h.buckets[b][i]] = Link
            /\ cls[h.buckets[b][i]] = b
       /\ \A b \in Buckets : \A i, j \in 1 .. Len(h.buckets[b]) :
            i # j => h.buckets[b][i] # h.buckets[b][j]
       /\ \A r \in all : h.header[r] = Link =>
            \E i \in 1 .. Len(h.buckets[cls[r]]) : h.buckets[cls[r]][i] = r
HeapOK(h) == \E cls : Classed(h, cls)

\* The heap before the first call (brk.c).
LEMMA EmptyOK == ASSUME NEW limit \in Int PROVE HeapOK(EmptyHeap(limit)) /\ InUse(EmptyHeap(limit)) = {}
<1> DEFINE h == EmptyHeap(limit)
<1>1. DOMAIN h.header = {} /\ h.header = <<>>
  BY DEF EmptyHeap
<1>2. h.buckets = [b \in Buckets |-> <<>>]
  BY DEF EmptyHeap
<1>3. h = [brk |-> h.brk, limit |-> h.limit, buckets |-> h.buckets, header |-> h.header]
  BY DEF EmptyHeap
<1>4. h.brk = HeapStart /\ h.limit = limit
  BY DEF EmptyHeap
<1>5. h.brk \in Nat /\ HeapStart <= h.brk
  BY <1>4, HeapAssumption
<1> HIDE DEF h
<1>6. Classed(h, <<>>)
  BY <1>1, <1>2, <1>3, <1>4, <1>5 DEF Classed
<1> QED
  BY <1>1, <1>6 DEF HeapOK, InUse, h

\* free (malloc.c): the region is in its bucket again, and no other has
\* changed.
LEMMA MemFreeOK ==
  ASSUME NEW h, NEW cls, Classed(h, cls), NEW p, p \in InUse(h), NEW k, k = MemFree(h, p)
  PROVE  /\ Classed(k, cls)
         /\ InUse(k) = InUse(h) \ {p}
         /\ \A q \in InUse(k) : Room(k, q) = Room(h, q)
<1> DEFINE r == Region(p)
           b == h.header[r]
           all == DOMAIN h.header
<1>1. /\ r \in all /\ b # Link /\ p = Data(r)
  <2>1. PICK x \in {x \in DOMAIN h.header : h.header[x] # Link} : p = Data(x)
    BY DEF InUse
  <2>2. x = r
    BY <2>1, HeapAssumption DEF Data, Region, Classed
  <2> QED
    BY <2>1, <2>2
<1>2. b = cls[r] /\ b \in Buckets
  BY <1>1 DEF Classed
<1>3. k = [h EXCEPT !.buckets[b] = <<r>> \o @, !.header[r] = Link]
  BY <1>1 DEF MemFree
<1>4. /\ k = [brk |-> h.brk, limit |-> h.limit, buckets |-> [h.buckets EXCEPT ![b] = <<r>> \o @],
              header |-> [h.header EXCEPT ![r] = Link]]
  <2>1. h = [brk |-> h.brk, limit |-> h.limit, buckets |-> h.buckets, header |-> h.header]
    BY DEF Classed
  <2> QED BY <1>3, <2>1
<1>5. /\ k.brk = h.brk /\ k.limit = h.limit
      /\ k.buckets = [h.buckets EXCEPT ![b] = <<r>> \o h.buckets[b]]
      /\ k.header = [h.header EXCEPT ![r] = Link]
  BY <1>4
<1>6. DOMAIN k.header = all /\ k.header[r] = Link /\ \A s \in all : s # r => k.header[s] = h.header[s]
  BY <1>1, <1>5
<1>7. /\ h.buckets \in [Buckets -> Seq(Int)] /\ r \in Int
  BY <1>1 DEF Classed
<1>8. /\ k.buckets \in [Buckets -> Seq(Int)]
      /\ \A c \in Buckets : c # b => k.buckets[c] = h.buckets[c]
      /\ Len(k.buckets[b]) = Len(h.buckets[b]) + 1
      /\ k.buckets[b][1] = r
      /\ \A i \in 1 .. Len(h.buckets[b]) : k.buckets[b][i + 1] = h.buckets[b][i]
  <2>1. k.buckets[b] = <<r>> \o h.buckets[b]
    BY <1>2, <1>5, <1>7
  <2>2. <<r>> \o h.buckets[b] \in Seq(Int)
    BY <1>2, <1>7
  <2> QED BY <1>2, <1>5, <1>7, <2>1, <2>2
<1>9. \A i \in 1 .. Len(k.buckets[b]) : i = 1 \/ (i - 1 \in 1 .. Len(h.buckets[b]) /\ k.buckets[b][i] = h.buckets[b][i - 1])
  <2> SUFFICES ASSUME NEW i \in 1 .. Len(k.buckets[b]), i # 1
               PROVE  i - 1 \in 1 .. Len(h.buckets[b]) /\ k.buckets[b][i] = h.buckets[b][i - 1]
    OBVIOUS
  <2>1. Len(h.buckets[b]) \in Nat
    BY <1>2, <1>7
  <2>2. i - 1 \in 1 .. Len(h.buckets[b]) /\ (i - 1) + 1 = i
    BY <1>8, <2>1
  <2> QED BY <1>8, <2>2
<1>10. \A i \in 1 .. Len(h.buckets[b]) : h.buckets[b][i] # r
  BY <1>1, <1>2 DEF Classed
<1>20. \A c \in Buckets : \A i \in 1 .. Len(h.buckets[c]) :
            /\ h.buckets[c][i] \in all
            /\ h.header[h.buckets[c][i]] = Link
            /\ cls[h.buckets[c][i]] = c
  BY DEF Classed
<1>21. \A c \in Buckets : \A i, j \in 1 .. Len(h.buckets[c]) : i # j => h.buckets[c][i] # h.buckets[c][j]
  BY DEF Classed
<1>22. \A c \in Buckets : \A i \in 1 .. Len(h.buckets[c]) : h.buckets[c][i] # r
  BY <1>1, <1>20
<1>23. \A s \in all : h.header[s] = Link =>
            \E i \in 1 .. Len(h.buckets[cls[s]]) : h.buckets[cls[s]][i] = s
  BY DEF Classed
<1> HIDE DEF r, b, all
<1>11. \A c \in Buckets : \A i \in 1 .. Len(k.buckets[c]) :
            /\ k.buckets[c][i] \in all
            /\ k.header[k.buckets[c][i]] = Link
            /\ cls[k.buckets[c][i]] = c
  <2> SUFFICES ASSUME NEW c \in Buckets, NEW i \in 1 .. Len(k.buckets[c])
               PROVE  /\ k.buckets[c][i] \in all
                      /\ k.header[k.buckets[c][i]] = Link
                      /\ cls[k.buckets[c][i]] = c
    OBVIOUS
  <2>1. CASE c # b
    <3>1. k.buckets[c] = h.buckets[c]
      BY <1>8, <2>1
    <3>2. /\ h.buckets[c][i] \in all /\ h.header[h.buckets[c][i]] = Link
          /\ cls[h.buckets[c][i]] = c /\ h.buckets[c][i] # r
      BY <1>20, <1>22, <3>1
    <3> QED BY <1>6, <3>1, <3>2
  <2>2. CASE c = b /\ i = 1
    BY <1>1, <1>2, <1>6, <1>8, <2>2
  <2>3. CASE c = b /\ i # 1
    <3>1. i - 1 \in 1 .. Len(h.buckets[c]) /\ k.buckets[c][i] = h.buckets[c][i - 1]
      BY <1>9, <2>3
    <3> QED BY <1>6, <1>20, <1>22, <3>1
  <2> QED BY <2>1, <2>2, <2>3
<1>12. \A c \in Buckets : \A i, j \in 1 .. Len(k.buckets[c]) :
            i # j => k.buckets[c][i] # k.buckets[c][j]
  <2> SUFFICES ASSUME NEW c \in Buckets, NEW i \in 1 .. Len(k.buckets[c]), NEW j \in 1 .. Len(k.buckets[c]), i # j
               PROVE  k.buckets[c][i] # k.buckets[c][j]
    OBVIOUS
  <2>1. CASE c # b
    BY <1>8, <1>21, <2>1
  <2>2. CASE c = b /\ i = 1
    BY <1>8, <1>9, <1>10, <2>2
  <2>3. CASE c = b /\ j = 1
    BY <1>8, <1>9, <1>10, <2>3
  <2>4. CASE c = b /\ i # 1 /\ j # 1
    <3>1. /\ i - 1 \in 1 .. Len(h.buckets[c]) /\ k.buckets[c][i] = h.buckets[c][i - 1]
          /\ j - 1 \in 1 .. Len(h.buckets[c]) /\ k.buckets[c][j] = h.buckets[c][j - 1]
      BY <1>9, <2>4
    <3>2. i - 1 # j - 1
      BY <2>4
    <3> QED BY <1>21, <3>1, <3>2
  <2> QED BY <2>1, <2>2, <2>3, <2>4
<1>13. \A s \in all : k.header[s] = Link =>
            \E i \in 1 .. Len(k.buckets[cls[s]]) : k.buckets[cls[s]][i] = s
  <2> SUFFICES ASSUME NEW s \in all, k.header[s] = Link
               PROVE  \E i \in 1 .. Len(k.buckets[cls[s]]) : k.buckets[cls[s]][i] = s
    OBVIOUS
  <2>1. CASE s = r
    <3>1. 1 \in 1 .. Len(k.buckets[b])
      BY <1>2, <1>7, <1>8
    <3> QED BY <1>2, <1>8, <2>1, <3>1
  <2>2. CASE s # r
    <3>1. h.header[s] = Link /\ cls[s] \in Buckets
      BY <1>6, <2>2 DEF Classed, all
    <3>2. PICK i \in 1 .. Len(h.buckets[cls[s]]) : h.buckets[cls[s]][i] = s
      BY <1>23, <3>1
    <3>3. CASE cls[s] = b
      <4>1. i + 1 \in 1 .. Len(k.buckets[b]) /\ k.buckets[b][i + 1] = s
        <5>1. i \in 1 .. Len(h.buckets[b]) /\ h.buckets[b][i] = s
          BY <3>2, <3>3
        <5>2. k.buckets[b][i + 1] = s
          BY <1>8, <5>1
        <5>3. Len(h.buckets[b]) \in Nat
          BY <1>2, <1>7
        <5> QED BY <1>8, <5>1, <5>2, <5>3
      <4> QED BY <3>3, <4>1
    <3>4. CASE cls[s] # b
      BY <1>8, <3>1, <3>2, <3>4
    <3> QED BY <3>3, <3>4
  <2> QED BY <2>1, <2>2
<1>14. Classed(k, cls)
  <2>1. k = [brk |-> k.brk, limit |-> k.limit, buckets |-> k.buckets, header |-> k.header]
    BY <1>4
  <2>2. \A s \in all : k.header[s] \in {Link, cls[s]}
    BY <1>6 DEF Classed, all
  <2>3. k.header = [s \in all |-> k.header[s]]
    BY <1>5, <1>6 DEF all
  <2> HIDE <1>3, <1>4
  <2>4. /\ k.brk \in Nat
        /\ k.limit \in Int
        /\ HeapStart <= k.brk
        /\ cls \in [all -> Buckets]
        /\ \A q \in all : q \in Int /\ HeapStart <= q /\ q + Size(cls[q]) <= k.brk
        /\ \A q, s \in all : q # s => \/ q + Size(cls[q]) <= s
                                     \/ s + Size(cls[s]) <= q
    BY <1>5 DEF Classed, all
  <2> QED
    BY ONLY <1>6, <1>8, <1>11, <1>12, <1>13, <2>1, <2>2, <2>3, <2>4 DEF Classed
<1>15. InUse(k) = InUse(h) \ {p}
  <2>1. {x \in DOMAIN k.header : k.header[x] # Link} = {x \in DOMAIN h.header : h.header[x] # Link} \ {r}
    BY <1>6 DEF all
  <2>2. \A x \in all : x # r => Data(x) # p
    BY <1>1, HeapAssumption DEF Data, Classed, all
  <2> QED BY <1>1, <2>1, <2>2 DEF InUse, all
<1>16. ASSUME NEW q \in InUse(k) PROVE Room(k, q) = Room(h, q)
  <2>1. PICK x \in {x \in DOMAIN k.header : k.header[x] # Link} : q = Data(x)
    BY DEF InUse
  <2>2. x = Region(q) /\ x # r /\ x \in all
    BY <1>6, <2>1, HeapAssumption DEF Data, Region, Classed, all
  <2> QED BY <1>6, <2>2 DEF Room
<1> QED
  BY <1>14, <1>15, <1>16

-----------------------------------------------------------------------------

\* How the places of the regions of a page compare.
LEMMA Products ==
  ASSUME NEW a \in Nat, NEW b \in Nat, NEW s \in Nat, a < b
  PROVE  a * s \in Nat /\ b * s \in Nat /\ a * s + s <= b * s
<1>1. \A d \in Nat : d * s \in Nat
  OBVIOUS
<1>2. b - (a + 1) \in Nat /\ (b - (a + 1)) * s \in Nat
  BY <1>1
<1>3. (b - (a + 1)) * s = b * s - (a * s + s)
  OBVIOUS
<1> QED
  BY <1>1, <1>2, <1>3

\* Rounding up gives no less.
LEMMA RoundUpAbove ==
  ASSUME NEW a \in Nat, NEW b \in Nat \ {0}
  PROVE  RoundUp(a, b) \in Nat /\ a <= RoundUp(a, b)
<1> DEFINE q == (a + b - 1) \div b
           m == (a + b - 1) % b
<1>1. q \in Nat /\ m \in Nat /\ m < b
  OBVIOUS
<1>2. a + b - 1 = b * q + m
  OBVIOUS
<1>3. b * q \in Nat /\ b * q = q * b
  BY <1>1
<1> HIDE DEF q, m
<1>4. a <= b * q
  BY <1>1, <1>2, <1>3
<1> QED
  BY <1>3, <1>4 DEF RoundUp, q

\* refill of an empty bucket (malloc.c): the new regions are apart from the
\* old.
LEMMA RefillOK ==
  ASSUME NEW h, NEW cls, Classed(h, cls), NEW b \in Buckets, h.buckets[b] = <<>>,
         NEW k, k = Refill(h, b), k # h
  PROVE  /\ HeapOK(k)
         /\ k.buckets[b] # <<>>
         /\ DOMAIN h.header \subseteq DOMAIN k.header
         /\ \A r \in DOMAIN h.header : k.header[r] = h.header[r]
         /\ \A r \in DOMAIN k.header : r \notin DOMAIN h.header => k.header[r] = Link
<1> DEFINE size  == BucketToSize(b)
           n     == IF size < PageSize THEN PageSize \div size ELSE 1
           alloc == RoundUp(h.brk, PageSize) - h.brk + n * size
           all   == DOMAIN h.header
           new   == [i \in 1 .. n |-> h.brk + (n - i) * size]
           more  == {new[i] : i \in 1 .. n}
<1>1. size \in Nat /\ size > 0
  BY SizePositive
<1>2. n \in Nat /\ n >= 1
  <2>1. CASE size < PageSize
    <3>1. PageSize \div size \in Nat /\ PageSize \div size >= 1
      BY <1>1, <2>1, HeapAssumption
    <3> QED BY <2>1, <3>1
  <2>2. CASE ~(size < PageSize)
    BY <2>2
  <2> QED BY <2>1, <2>2
<1>h. /\ h.brk \in Nat /\ h.limit \in Int /\ HeapStart <= h.brk /\ cls \in [all -> Buckets]
      /\ h = [brk |-> h.brk, limit |-> h.limit, buckets |-> h.buckets, header |-> h.header]
      /\ h.buckets \in [Buckets -> Seq(Int)]
      /\ h.header = [r \in all |-> h.header[r]]
  BY DEF Classed
<1>3. n * size \in Nat /\ RoundUp(h.brk, PageSize) - h.brk \in Nat
  <2>1. n * size \in Nat
    BY <1>1, <1>2
  <2>2. PageSize \in Nat \ {0}
    BY HeapAssumption
  <2> QED BY <2>1, <2>2, <1>h, RoundUpAbove
<1>4. /\ k = [brk |-> h.brk + alloc, limit |-> h.limit, buckets |-> [h.buckets EXCEPT ![b] = new \o @],
              header |-> [r \in all \cup more |-> IF r \in all THEN h.header[r] ELSE Link]]
  <2> DEFINE s == Sbrk(h, alloc)
  <2>1. k = IF s.brk = h.brk THEN h
            ELSE [s EXCEPT !.buckets[b] = new \o @,
                           !.header = [r \in DOMAIN @ \cup {new[i] : i \in 1 .. n} |->
                                    IF r \in DOMAIN @ THEN @[r] ELSE Link]]
    BY DEF Refill
  <2>2. s = [h EXCEPT !.brk = SysBrk(h, h.brk + alloc)]
    BY DEF Sbrk
  <2>3. s.brk = SysBrk(h, h.brk + alloc)
    BY <2>2, <1>h
  <2>4. s.brk = h.brk + alloc
    <3> HIDE DEF s, alloc, n, new
    <3> QED BY <2>1, <2>3 DEF SysBrk
  <2>5. s = [brk |-> h.brk + alloc, limit |-> h.limit, buckets |-> h.buckets, header |-> h.header]
    <3> HIDE DEF s, alloc
    <3> QED BY <2>2, <2>3, <2>4, <1>h
  <2>6. s.brk # h.brk
    <3> HIDE DEF s, alloc
    <3> QED BY <2>1
  <2>7. k = [s EXCEPT !.buckets[b] = new \o @,
                      !.header = [r \in DOMAIN @ \cup more |-> IF r \in DOMAIN @ THEN @[r] ELSE Link]]
    <3> HIDE DEF s, alloc, n, new
    <3> QED BY <2>1, <2>6
  <2>8. s.header = h.header /\ s.buckets = h.buckets /\ s.brk = h.brk + alloc /\ s.limit = h.limit
    <3> HIDE DEF s, alloc
    <3> QED BY <2>5
  <2>9. s = [brk |-> s.brk, limit |-> s.limit, buckets |-> s.buckets, header |-> s.header]
    <3> HIDE DEF s, alloc
    <3> QED BY <2>5, <2>8
  <2> HIDE DEF s, alloc, n, new, more, size
  <2>10. k = [brk |-> s.brk, limit |-> s.limit, buckets |-> [s.buckets EXCEPT ![b] = new \o @],
              header |-> [r \in DOMAIN s.header \cup more |-> IF r \in DOMAIN s.header THEN s.header[r] ELSE Link]]
    BY <2>7, <2>9
  <2> QED BY <2>8, <2>10
<1>5. \A i \in 1 .. n : /\ new[i] \in Int /\ h.brk <= new[i]
                        /\ new[i] + size <= h.brk + n * size
  <2> SUFFICES ASSUME NEW i \in 1 .. n
               PROVE new[i] \in Int /\ h.brk <= new[i] /\ new[i] + size <= h.brk + n * size
    OBVIOUS
  <2> HIDE DEF size, n
  <2>1. n - i \in Nat /\ n - i < n
    BY <1>2
  <2>2. (n - i) * size \in Nat /\ (n - i) * size + size <= n * size
    BY <1>1, <1>2, <2>1, Products
  <2>3. new[i] = h.brk + (n - i) * size
    OBVIOUS
  <2> HIDE DEF new
  <2> QED BY <1>1, <1>3, <1>h, <2>2, <2>3
<1>6. \A i, j \in 1 .. n : i < j => new[j] + size <= new[i]
  <2> SUFFICES ASSUME NEW i \in 1 .. n, NEW j \in 1 .. n, i < j PROVE new[j] + size <= new[i]
    OBVIOUS
  <2> HIDE DEF size, n
  <2>1. n - i \in Nat /\ n - j \in Nat /\ n - j < n - i
    BY <1>2
  <2>2. /\ (n - j) * size \in Nat /\ (n - i) * size \in Nat
        /\ (n - j) * size + size <= (n - i) * size
    BY <1>1, <2>1, Products
  <2>3. new[i] = h.brk + (n - i) * size /\ new[j] = h.brk + (n - j) * size
    OBVIOUS
  <2> HIDE DEF new
  <2> QED BY <1>1, <1>h, <2>2, <2>3
<1>7. new \in Seq(Int) /\ Len(new) = n
  <2> HIDE DEF n, size
  <2>1. new \in [1 .. n -> Int]
    <3> HIDE DEF new
    <3>1. new = [i \in 1 .. n |-> new[i]]
      BY DEF new
    <3> QED BY <1>5, <3>1
  <2> QED BY <1>2, <2>1
<1> HIDE DEF size, n, new
<1>8. k.brk = h.brk + alloc /\ h.brk + n * size <= k.brk /\ k.brk \in Nat
  <2>1. k.brk = h.brk + alloc
    BY <1>4
  <2> QED BY <1>3, <1>h, <2>1
<1>9. /\ k.limit = h.limit
      /\ k.buckets = [h.buckets EXCEPT ![b] = new \o h.buckets[b]]
      /\ k.header = [r \in all \cup more |-> IF r \in all THEN h.header[r] ELSE Link]
  BY <1>4
<1>10. k.buckets \in [Buckets -> Seq(Int)] /\ k.buckets[b] = new
       /\ \A c \in Buckets : c # b => k.buckets[c] = h.buckets[c]
  <2>1. new \o h.buckets[b] = new
    BY <1>7
  <2> QED BY <1>7, <1>9, <1>h, <2>1
<1>11. /\ DOMAIN k.header = all \cup more
       /\ \A r \in all : k.header[r] = h.header[r]
       /\ \A r \in more : r \notin all => k.header[r] = Link
  BY <1>9
<1>12. \A r \in all : r \in Int /\ HeapStart <= r /\ r + Size(cls[r]) <= h.brk /\ Size(cls[r]) \in Nat /\ Size(cls[r]) > 0
  BY <1>h, SizePositive DEF Classed, Size
<1>13. \A r \in more : r \notin all
  BY <1>5, <1>12, <1>h
<1> DEFINE cl == [r \in all \cup more |-> IF r \in all THEN cls[r] ELSE b]
<1>14. /\ cl \in [all \cup more -> Buckets]
       /\ \A r \in all : cl[r] = cls[r]
       /\ \A r \in more : cl[r] = b
  BY <1>h, <1>13
<1> HIDE DEF all, more, cl, alloc
<1>15. Classed(k, cl)
  <2>1. k = [brk |-> k.brk, limit |-> k.limit, buckets |-> k.buckets, header |-> k.header]
    BY <1>4
  <2>2. HeapStart <= k.brk /\ k.limit \in Int
    BY <1>8, <1>9, <1>h, HeapAssumption, <1>3
  <2>3. \A r \in all \cup more : r \in Int /\ HeapStart <= r /\ r + Size(cl[r]) <= k.brk
    <3> SUFFICES ASSUME NEW r \in all \cup more PROVE r \in Int /\ HeapStart <= r /\ r + Size(cl[r]) <= k.brk
      OBVIOUS
    <3>1. CASE r \in all
      <4>1. cl[r] = cls[r]
        BY <1>14, <3>1
      <4>2. r \in Int /\ HeapStart <= r /\ r + Size(cls[r]) <= h.brk /\ Size(cls[r]) \in Nat
        BY <1>12, <3>1
      <4> QED BY <1>3, <1>8, <1>h, <4>1, <4>2
    <3>2. CASE r \in more
      <4>1. cl[r] = b
        BY <1>14, <3>2
      <4>2. r \in Int /\ h.brk <= r /\ r + size <= h.brk + n * size
        BY <1>5, <3>2 DEF more
      <4>3. Size(b) = size
        BY DEF Size, size
      <4> QED BY <1>1, <1>3, <1>8, <1>h, <4>1, <4>2, <4>3, HeapAssumption
    <3> QED BY <3>1, <3>2
  <2>4. \A r, s \in all \cup more : r # s => r + Size(cl[r]) <= s \/ s + Size(cl[s]) <= r
    <3>0. \A r, s \in all : r # s => r + Size(cls[r]) <= s \/ s + Size(cls[s]) <= r
      BY DEF Classed, all
    <3> SUFFICES ASSUME NEW r \in all \cup more, NEW s \in all \cup more, r # s
                 PROVE  r + Size(cl[r]) <= s \/ s + Size(cl[s]) <= r
      OBVIOUS
    <3>e. Size(b) = size
      BY DEF Size, size
    <3>1. CASE r \in all /\ s \in all
      BY <1>14, <3>0, <3>1
    <3>2. CASE r \in all /\ s \in more
      <4>1. s \in Int /\ h.brk <= s
        BY <1>5, <3>2 DEF more
      <4> QED BY <1>12, <1>14, <1>h, <3>2, <4>1
    <3>3. CASE r \in more /\ s \in all
      <4>1. r \in Int /\ h.brk <= r
        BY <1>5, <3>3 DEF more
      <4> QED BY <1>12, <1>14, <1>h, <3>3, <4>1
    <3>4. CASE r \in more /\ s \in more
      <4>1. PICK i \in 1 .. n : r = new[i]
        BY <3>4 DEF more
      <4>2. PICK j \in 1 .. n : s = new[j]
        BY <3>4 DEF more
      <4>3. i < j \/ j < i
        BY <1>2, <4>1, <4>2
      <4> QED BY <1>6, <1>14, <3>4, <3>e, <4>1, <4>2, <4>3
    <3> QED BY <3>1, <3>2, <3>3, <3>4
  <2>5. \A r \in all \cup more : k.header[r] \in {Link, cl[r]}
    BY <1>11, <1>13, <1>14 DEF Classed, all
  <2>6. \A c \in Buckets : \A i \in 1 .. Len(k.buckets[c]) :
            /\ k.buckets[c][i] \in all \cup more
            /\ k.header[k.buckets[c][i]] = Link
            /\ cl[k.buckets[c][i]] = c
    <3>0. \A c \in Buckets : \A i \in 1 .. Len(h.buckets[c]) :
            /\ h.buckets[c][i] \in all
            /\ h.header[h.buckets[c][i]] = Link
            /\ cls[h.buckets[c][i]] = c
      BY DEF Classed, all
    <3> SUFFICES ASSUME NEW c \in Buckets, NEW i \in 1 .. Len(k.buckets[c])
                 PROVE  /\ k.buckets[c][i] \in all \cup more
                        /\ k.header[k.buckets[c][i]] = Link
                        /\ cl[k.buckets[c][i]] = c
      OBVIOUS
    <3>1. CASE c # b
      <4>1. k.buckets[c] = h.buckets[c]
        BY <1>10, <3>1
      <4>2. /\ h.buckets[c][i] \in all
            /\ h.header[h.buckets[c][i]] = Link
            /\ cls[h.buckets[c][i]] = c
        BY <3>0, <4>1
      <4> QED BY <1>11, <1>14, <4>1, <4>2
    <3>2. CASE c = b
      <4>1. k.buckets[c] = new /\ i \in 1 .. n
        BY <1>7, <1>10, <3>2
      <4>2. new[i] \in more
        BY <4>1 DEF more
      <4> QED BY <1>11, <1>13, <1>14, <3>2, <4>1, <4>2
    <3> QED BY <3>1, <3>2
  <2>7. \A c \in Buckets : \A i, j \in 1 .. Len(k.buckets[c]) : i # j => k.buckets[c][i] # k.buckets[c][j]
    <3>0. \A c \in Buckets : \A i, j \in 1 .. Len(h.buckets[c]) : i # j => h.buckets[c][i] # h.buckets[c][j]
      BY DEF Classed
    <3> SUFFICES ASSUME NEW c \in Buckets, NEW i \in 1 .. Len(k.buckets[c]), NEW j \in 1 .. Len(k.buckets[c]), i # j
                 PROVE  k.buckets[c][i] # k.buckets[c][j]
      OBVIOUS
    <3>1. CASE c # b
      <4>1. k.buckets[c] = h.buckets[c]
        BY <1>10, <3>1
      <4> QED BY <3>0, <4>1
    <3>2. CASE c = b
      <4>1. k.buckets[c] = new /\ i \in 1 .. n /\ j \in 1 .. n
        BY <1>7, <1>10, <3>2
      <4>2. i < j \/ j < i
        BY <1>2, <4>1
      <4>3. new[i] \in Int /\ new[j] \in Int
        BY <1>5, <4>1
      <4> QED BY <1>1, <1>6, <4>1, <4>2, <4>3
    <3> QED BY <3>1, <3>2
  <2>8. \A r \in all \cup more : k.header[r] = Link =>
            \E i \in 1 .. Len(k.buckets[cl[r]]) : k.buckets[cl[r]][i] = r
    <3>0. \A r \in all : h.header[r] = Link =>
            \E i \in 1 .. Len(h.buckets[cls[r]]) : h.buckets[cls[r]][i] = r
      BY DEF Classed, all
    <3> SUFFICES ASSUME NEW r \in all \cup more, k.header[r] = Link
                 PROVE  \E i \in 1 .. Len(k.buckets[cl[r]]) : k.buckets[cl[r]][i] = r
      OBVIOUS
    <3>1. CASE r \in all
      <4>1. h.header[r] = Link /\ cl[r] = cls[r] /\ cls[r] \in Buckets
        BY <1>11, <1>14, <1>h, <3>1
      <4>2. PICK i \in 1 .. Len(h.buckets[cls[r]]) : h.buckets[cls[r]][i] = r
        BY <3>0, <3>1, <4>1
      <4>3. cls[r] # b
        BY <4>2
      <4>4. k.buckets[cls[r]] = h.buckets[cls[r]]
        BY <1>10, <4>1, <4>3
      <4> QED BY <4>1, <4>2, <4>4
    <3>2. CASE r \in more
      <4>1. PICK i \in 1 .. n : r = new[i]
        BY <3>2 DEF more
      <4> QED BY <1>7, <1>10, <1>14, <3>2, <4>1
    <3> QED BY <3>1, <3>2
  <2>9. k.header = [r \in all \cup more |-> k.header[r]]
    BY <1>9, <1>11
  <2> HIDE <1>4
  <2> QED
    BY ONLY <1>8, <1>10, <1>11, <1>14, <2>1, <2>2, <2>3, <2>4, <2>5, <2>6, <2>7, <2>8, <2>9 DEF Classed
<1>16. k.buckets[b] # <<>>
  BY <1>2, <1>7, <1>10
<1> QED
  BY <1>11, <1>15, <1>16 DEF HeapOK, all

TakenFrom(h, b, r) == [h EXCEPT !.buckets[b] = Tail(@), !.header[r] = b]

-----------------------------------------------------------------------------

\* The first region of a bucket is taken out of it.
LEMMA TakeOK ==
  ASSUME NEW h, NEW cls, Classed(h, cls), NEW b \in Buckets, h.buckets[b] # <<>>,
         NEW r, r = Head(h.buckets[b]), NEW k, k = TakenFrom(h, b, r)
  PROVE  /\ Classed(k, cls)
         /\ r \in DOMAIN h.header /\ h.header[r] = Link
         /\ DOMAIN k.header = DOMAIN h.header
         /\ k.header[r] = b
         /\ \A s \in DOMAIN h.header : s # r => k.header[s] = h.header[s]
<1>0. k = [h EXCEPT !.buckets[b] = Tail(@), !.header[r] = b]
  BY DEF TakenFrom
<1> DEFINE all == DOMAIN h.header
           old == h.buckets[b]
<1>1. /\ h.brk \in Nat /\ h.limit \in Int /\ HeapStart <= h.brk /\ cls \in [all -> Buckets]
      /\ h = [brk |-> h.brk, limit |-> h.limit, buckets |-> h.buckets, header |-> h.header]
      /\ h.buckets \in [Buckets -> Seq(Int)]
      /\ h.header = [s \in all |-> h.header[s]]
  BY DEF Classed
<1>2. \A c \in Buckets : \A i \in 1 .. Len(h.buckets[c]) :
            /\ h.buckets[c][i] \in all
            /\ h.header[h.buckets[c][i]] = Link
            /\ cls[h.buckets[c][i]] = c
  BY DEF Classed
<1>3. \A c \in Buckets : \A i, j \in 1 .. Len(h.buckets[c]) : i # j => h.buckets[c][i] # h.buckets[c][j]
  BY DEF Classed
<1>4. \A s \in all : h.header[s] = Link =>
            \E i \in 1 .. Len(h.buckets[cls[s]]) : h.buckets[cls[s]][i] = s
  BY DEF Classed
<1>5. /\ \A s \in all : s \in Int /\ HeapStart <= s /\ s + Size(cls[s]) <= h.brk
      /\ \A q, s \in all : q # s => \/ q + Size(cls[q]) <= s
                                    \/ s + Size(cls[s]) <= q
      /\ \A s \in all : h.header[s] \in {Link, cls[s]}
  BY DEF Classed
<1>6. k = [brk |-> h.brk, limit |-> h.limit, buckets |-> [h.buckets EXCEPT ![b] = Tail(h.buckets[b])],
           header |-> [h.header EXCEPT ![r] = b]]
  BY <1>0, <1>1
<1>7. /\ k.brk = h.brk /\ k.limit = h.limit
      /\ k.buckets = [h.buckets EXCEPT ![b] = Tail(h.buckets[b])]
      /\ k.header = [h.header EXCEPT ![r] = b]
  <2> DEFINE bs == [h.buckets EXCEPT ![b] = Tail(h.buckets[b])]
             hs == [h.header EXCEPT ![r] = b]
  <2>1. k = [brk |-> h.brk, limit |-> h.limit, buckets |-> bs, header |-> hs]
    BY <1>6
  <2> HIDE DEF bs, hs
  <2>2. k.brk = h.brk /\ k.limit = h.limit /\ k.buckets = bs /\ k.header = hs
    BY ONLY <2>1
  <2> QED BY <2>2 DEF bs, hs
<1>8. old \in Seq(Int) /\ old # <<>> /\ Len(old) \in Nat /\ Len(old) >= 1 /\ r = old[1]
  BY <1>1
<1>9. 1 \in 1 .. Len(old)
  BY <1>8
<1>10. r \in all /\ h.header[r] = Link /\ cls[r] = b
  BY <1>2, <1>8, <1>9
<1>11. /\ DOMAIN k.header = all /\ k.header[r] = b
       /\ \A s \in all : s # r => k.header[s] = h.header[s]
  BY <1>7, <1>10, <1>1
<1>12. /\ k.buckets \in [Buckets -> Seq(Int)]
       /\ k.buckets[b] = Tail(old)
       /\ \A c \in Buckets : c # b => k.buckets[c] = h.buckets[c]
  <2>1. Tail(old) \in Seq(Int)
    BY <1>8
  <2>2. k.buckets = [h.buckets EXCEPT ![b] = Tail(old)]
    BY <1>7
  <2> HIDE DEF old
  <2> QED BY ONLY <1>1, <2>1, <2>2, b \in Buckets
<1>13. /\ Len(k.buckets[b]) = Len(old) - 1
       /\ \A i \in 1 .. Len(k.buckets[b]) : i + 1 \in 1 .. Len(old) /\ k.buckets[b][i] = old[i + 1] /\ i + 1 # 1
  <2>1. k.buckets[b] = Tail(old)
    BY <1>12
  <2> HIDE DEF old
  <2> QED BY ONLY <1>8, <2>1
<1> HIDE DEF all
<1>14. \A c \in Buckets : \A i \in 1 .. Len(k.buckets[c]) :
            /\ k.buckets[c][i] \in all
            /\ k.header[k.buckets[c][i]] = Link
            /\ cls[k.buckets[c][i]] = c
  <2> SUFFICES ASSUME NEW c \in Buckets, NEW i \in 1 .. Len(k.buckets[c])
               PROVE  /\ k.buckets[c][i] \in all
                      /\ k.header[k.buckets[c][i]] = Link
                      /\ cls[k.buckets[c][i]] = c
    OBVIOUS
  <2>1. CASE c # b
    <3>1. k.buckets[c] = h.buckets[c]
      BY <1>12, <2>1
    <3>2. /\ h.buckets[c][i] \in all /\ h.header[h.buckets[c][i]] = Link
          /\ cls[h.buckets[c][i]] = c
      BY <1>2, <3>1
    <3>3. h.buckets[c][i] # r
      BY <1>10, <2>1, <3>2
    <3> QED BY <1>11, <3>1, <3>2, <3>3
  <2>2. CASE c = b
    <3>1. i + 1 \in 1 .. Len(old) /\ k.buckets[c][i] = old[i + 1] /\ i + 1 # 1
      BY <1>13, <2>2
    <3>2. old[i + 1] \in all /\ h.header[old[i + 1]] = Link /\ cls[old[i + 1]] = b
      BY <1>2, <3>1
    <3>3. old[i + 1] # r
      BY <1>3, <1>8, <1>9, <3>1
    <3> QED BY <1>11, <2>2, <3>1, <3>2, <3>3
  <2> QED BY <2>1, <2>2
<1>15. \A c \in Buckets : \A i, j \in 1 .. Len(k.buckets[c]) : i # j => k.buckets[c][i] # k.buckets[c][j]
  <2> SUFFICES ASSUME NEW c \in Buckets, NEW i \in 1 .. Len(k.buckets[c]), NEW j \in 1 .. Len(k.buckets[c]), i # j
               PROVE  k.buckets[c][i] # k.buckets[c][j]
    OBVIOUS
  <2>1. CASE c # b
    <3>1. k.buckets[c] = h.buckets[c]
      BY <1>12, <2>1
    <3> QED BY <1>3, <3>1
  <2>2. CASE c = b
    <3>1. /\ i + 1 \in 1 .. Len(old) /\ k.buckets[c][i] = old[i + 1]
          /\ j + 1 \in 1 .. Len(old) /\ k.buckets[c][j] = old[j + 1]
      BY <1>13, <2>2
    <3>2. i + 1 # j + 1
      OBVIOUS
    <3> QED BY <1>3, <3>1, <3>2
  <2> QED BY <2>1, <2>2
<1>16. \A s \in all : k.header[s] = Link =>
            \E i \in 1 .. Len(k.buckets[cls[s]]) : k.buckets[cls[s]][i] = s
  <2> SUFFICES ASSUME NEW s \in all, k.header[s] = Link
               PROVE  \E i \in 1 .. Len(k.buckets[cls[s]]) : k.buckets[cls[s]][i] = s
    OBVIOUS
  <2>1. b # Link
    BY HeapAssumption DEF Buckets, Link
  <2>2. s # r
    BY <1>11, <2>1
  <2>3. h.header[s] = Link /\ cls[s] \in Buckets
    BY <1>1, <1>11, <2>2 DEF all
  <2>4. PICK i \in 1 .. Len(h.buckets[cls[s]]) : h.buckets[cls[s]][i] = s
    BY <1>4, <2>3
  <2>5. CASE cls[s] = b
    <3>1. i \in 1 .. Len(old) /\ old[i] = s
      BY <2>4, <2>5
    <3>2. i # 1
      BY <1>8, <2>2, <3>1
    <3>3. i - 1 \in 1 .. Len(k.buckets[b]) /\ (i - 1) + 1 = i
      BY <1>8, <1>13, <3>1, <3>2
    <3>4. k.buckets[b][i - 1] = old[i]
      BY <1>13, <3>3
    <3> QED BY <2>5, <3>1, <3>3, <3>4
  <2>6. CASE cls[s] # b
    BY <1>12, <2>3, <2>4, <2>6
  <2> QED BY <2>5, <2>6
<1>17. Classed(k, cls)
  <2>1. k = [brk |-> k.brk, limit |-> k.limit, buckets |-> k.buckets, header |-> k.header]
    BY <1>6
  <2>2. \A s \in all : k.header[s] \in {Link, cls[s]}
    BY <1>5, <1>10, <1>11
  <2>3. k.header = [s \in all |-> k.header[s]]
    BY <1>1, <1>7, <1>11 DEF all
  <2>4. /\ k.brk \in Nat /\ k.limit \in Int /\ HeapStart <= k.brk
        /\ \A s \in all : s \in Int /\ HeapStart <= s /\ s + Size(cls[s]) <= k.brk
    BY <1>1, <1>5, <1>7
  <2>5. cls \in [all -> Buckets]
    BY <1>1 DEF all
  <2> QED
    BY ONLY <1>5, <1>11, <1>12, <1>14, <1>15, <1>16, <2>1, <2>2, <2>3, <2>4, <2>5 DEF Classed
<1> QED
  BY <1>10, <1>11, <1>17 DEF all

\* What the program has is a region, and is not the null pointer.
LEMMA InUsePositive == ASSUME NEW h, HeapOK(h), NEW p \in InUse(h)
                       PROVE  p \in Int /\ p > 0 /\ Region(p) \in DOMAIN h.header /\ h.header[Region(p)] \in Buckets
<1>1. PICK cls : Classed(h, cls)
  BY DEF HeapOK
<1>2. PICK r \in DOMAIN h.header : h.header[r] # Link /\ p = Data(r)
  BY DEF InUse
<1>3. r \in Int /\ HeapStart <= r /\ h.header[r] \in {Link, cls[r]} /\ cls[r] \in Buckets
  BY <1>1, <1>2 DEF Classed
<1>4. p = r + Header /\ Region(p) = r /\ p > 0
  BY <1>2, <1>3, HeapAssumption DEF Data, Region
<1> QED
  BY <1>2, <1>3, <1>4, HeapAssumption

\* malloc (malloc.c): nothing, or a region that was not in use, with room
\* enough.
LEMMA MallocOK ==
  ASSUME NEW h, HeapOK(h), NEW n \in Nat, NEW m, m = Malloc(h, n)
  PROVE  \/ m.ptr = Null /\ m.heap = h
         \/ /\ m.ptr \in Int /\ m.ptr > 0
            /\ HeapOK(m.heap)
            /\ m.ptr \notin InUse(h)
            /\ InUse(m.heap) = InUse(h) \cup {m.ptr}
            /\ \A p \in InUse(h) : Room(m.heap, p) = Room(h, p)
            /\ n + Header <= SizeMax => Room(m.heap, m.ptr) >= n
<1> DEFINE fit == (n + Header) % (SizeMax + 1)
           b   == CHOOSE x \in Fitting(fit) : \A y \in Fitting(fit) : x <= y
           k   == IF h.buckets[b] = <<>> THEN Refill(h, b) ELSE h
           r   == Head(k.buckets[b])
           g   == [k EXCEPT !.buckets[b] = Tail(@), !.header[r] = b]
           done == Fitting(fit) = {} \/ k.buckets[b] = <<>>
<1>1. m = IF done THEN [heap |-> h, ptr |-> Null] ELSE [heap |-> g, ptr |-> Data(r)]
  BY DEF Malloc
<1>2. CASE done
  <2> HIDE DEF done, g, r
  <2> QED BY <1>1, <1>2
<1>3. CASE ~done
  <2>1. m.heap = g /\ m.ptr = Data(r)
    <3> HIDE DEF done, g, r
    <3> QED BY <1>1, <1>3
  <2>2. b \in Buckets /\ fit <= BucketToSize(b)
    <3>1. Fitting(fit) \subseteq Nat /\ Fitting(fit) # {}
      BY <1>3, HeapAssumption DEF Fitting, Buckets
    <3>2. \E x \in Fitting(fit) : \A y \in Fitting(fit) : ~(y < x)
      <4> HIDE DEF fit
      <4> QED BY <3>1, LeastNat
    <3>3. \E x \in Fitting(fit) : \A y \in Fitting(fit) : x <= y
      <4> HIDE DEF fit
      <4> QED BY <3>1, <3>2
    <3>4. b \in Fitting(fit)
      <4> HIDE DEF fit
      <4> QED BY <3>3
    <3> HIDE DEF b, fit
    <3> QED BY <3>4 DEF Fitting
  <2>3. k.buckets[b] # <<>>
    BY <1>3
  <2> HIDE DEF b
  <2>4. PICK c0 : Classed(h, c0)
    BY DEF HeapOK
  <2>5. /\ HeapOK(k)
        /\ DOMAIN h.header \subseteq DOMAIN k.header
        /\ \A s \in DOMAIN h.header : k.header[s] = h.header[s]
        /\ \A s \in DOMAIN k.header : s \notin DOMAIN h.header => k.header[s] = Link
    <3>1. CASE h.buckets[b] = <<>>
      <4>1. k = Refill(h, b)
        BY <3>1
      <4>2. k # h
        BY <2>3, <3>1
      <4> HIDE DEF k
      <4> QED BY <2>2, <2>4, <3>1, <4>1, <4>2, RefillOK
    <3>2. CASE h.buckets[b] # <<>>
      BY <3>2
    <3> QED BY <3>1, <3>2
  <2> HIDE DEF k
  <2>6. PICK cls : Classed(k, cls)
    BY <2>5 DEF HeapOK
  <2>7. /\ Classed(g, cls)
        /\ r \in DOMAIN k.header /\ k.header[r] = Link
        /\ DOMAIN g.header = DOMAIN k.header
        /\ g.header[r] = b
        /\ \A s \in DOMAIN k.header : s # r => g.header[s] = k.header[s]
    <3> HIDE DEF g, r
    <3>1. r = Head(k.buckets[b])
      BY DEF r
    <3>2. g = TakenFrom(k, b, r)
      BY DEF g, TakenFrom
    <3>3. b \in Buckets
      BY <2>2
    <3> QED BY <2>3, <2>6, <3>1, <3>2, <3>3, TakeOK
  <2> HIDE DEF g, r
  <2>8. b # Link
    BY <2>2, HeapAssumption DEF Buckets, Link
  <2>9. \A s \in DOMAIN k.header : s \in Int /\ HeapStart <= s
    BY <2>6 DEF Classed
  <2>10. /\ {s \in DOMAIN g.header : g.header[s] # Link} = {s \in DOMAIN h.header : h.header[s] # Link} \cup {r}
         /\ r \notin {s \in DOMAIN h.header : h.header[s] # Link}
    BY <2>5, <2>7, <2>8
  <2>11. InUse(g) = InUse(h) \cup {Data(r)}
    BY <2>10 DEF InUse
  <2>12. Data(r) \in Int /\ Data(r) > 0 /\ Region(Data(r)) = r
    BY <2>7, <2>9, HeapAssumption DEF Data, Region
  <2>13. ASSUME NEW p \in InUse(h)
         PROVE  p # Data(r) /\ Room(g, p) = Room(h, p)
    <3>1. PICK s \in DOMAIN h.header : h.header[s] # Link /\ p = Data(s)
      BY DEF InUse
    <3>2. s # r /\ s \in DOMAIN k.header /\ g.header[s] = h.header[s]
      BY <2>5, <2>7, <3>1
    <3>3. s \in Int /\ r \in Int
      BY <2>7, <2>9, <3>2
    <3>4. Region(p) = s /\ p # Data(r)
      BY <3>1, <3>2, <3>3, HeapAssumption DEF Data, Region
    <3> QED BY <3>2, <3>4 DEF Room
  <2>14. ASSUME n + Header <= SizeMax PROVE Room(g, Data(r)) >= n
    <3>1. fit = n + Header
      BY <2>14, HeapAssumption
    <3>2. Room(g, Data(r)) = BucketToSize(b) - Header
      BY <2>7, <2>12 DEF Room
    <3>3. BucketToSize(b) \in Nat
      BY <2>2, SizePositive
    <3> QED BY <2>2, <3>1, <3>2, <3>3, HeapAssumption
  <2>15. HeapOK(g)
    BY <2>7 DEF HeapOK
  <2> QED BY <2>1, <2>11, <2>12, <2>13, <2>14, <2>15
<1> QED
  BY <1>2, <1>3

\* What Apart says follows.
LEMMA OKApart == ASSUME NEW h, HeapOK(h) PROVE Apart(h)
<1> DEFINE all == DOMAIN h.header
<1>0. PICK cls : Classed(h, cls)
  BY DEF HeapOK
<1>1. /\ cls \in [all -> Buckets]
      /\ \A s \in all : s \in Int /\ HeapStart <= s /\ s + Size(cls[s]) <= h.brk
      /\ \A q, s \in all : q # s => \/ q + Size(cls[q]) <= s
                                    \/ s + Size(cls[s]) <= q
      /\ \A s \in all : h.header[s] \in {Link, cls[s]}
      /\ h.brk \in Nat
      /\ h.buckets \in [Buckets -> Seq(Int)]
  BY <1>0 DEF Classed
<1>2. \A c \in Buckets : \A i \in 1 .. Len(h.buckets[c]) :
            /\ h.buckets[c][i] \in all
            /\ h.header[h.buckets[c][i]] = Link
            /\ cls[h.buckets[c][i]] = c
  BY <1>0 DEF Classed
<1>3. \A c \in Buckets : \A i, j \in 1 .. Len(h.buckets[c]) : i # j => h.buckets[c][i] # h.buckets[c][j]
  BY <1>0 DEF Classed
<1>4. \A s \in all : h.header[s] = Link =>
            \E i \in 1 .. Len(h.buckets[cls[s]]) : h.buckets[cls[s]][i] = s
  BY <1>0 DEF Classed
<1>5. \A x \in Regions(h) : \/ /\ x[2] = 0 /\ x[3] \in all /\ h.header[x[3]] # Link
                               /\ x = <<cls[x[3]], 0, x[3]>>
                            \/ \E i \in 1 .. Len(h.buckets[x[1]]) :
                                 /\ x[1] \in Buckets /\ x = <<x[1], i, h.buckets[x[1]][i]>>
  <2> SUFFICES ASSUME NEW x \in Regions(h)
               PROVE \/ /\ x[2] = 0 /\ x[3] \in all /\ h.header[x[3]] # Link
                               /\ x = <<cls[x[3]], 0, x[3]>>
                     \/ \E i \in 1 .. Len(h.buckets[x[1]]) :
                                 /\ x[1] \in Buckets /\ x = <<x[1], i, h.buckets[x[1]][i]>>
    OBVIOUS
  <2>1. CASE x \in {<<h.header[r], 0, r>> : r \in {q \in DOMAIN h.header : h.header[q] # Link}}
    BY <1>1, <2>1
  <2>2. CASE x \in UNION {{<<b, i, h.buckets[b][i]>> : i \in DOMAIN h.buckets[b]} : b \in Buckets}
    <3>1. PICK b \in Buckets : x \in {<<b, i, h.buckets[b][i]>> : i \in DOMAIN h.buckets[b]}
      BY <2>2
    <3>2. PICK i \in DOMAIN h.buckets[b] : x = <<b, i, h.buckets[b][i]>>
      BY <3>1
    <3>3. i \in 1 .. Len(h.buckets[b])
      BY <1>1
    <3> QED BY <3>2, <3>3
  <2> QED BY <2>1, <2>2 DEF Regions
<1>6. \A x \in Regions(h) : /\ x[3] \in all /\ x[1] = cls[x[3]] /\ x[1] \in Buckets
                            /\ x[2] # 0 => h.header[x[3]] = Link
  <2> SUFFICES ASSUME NEW x \in Regions(h)
               PROVE  x[3] \in all /\ x[1] = cls[x[3]] /\ x[1] \in Buckets /\ (x[2] # 0 => h.header[x[3]] = Link)
    OBVIOUS
  <2>1. CASE x[3] \in all /\ h.header[x[3]] # Link /\ x = <<cls[x[3]], 0, x[3]>>
    BY <1>1, <2>1
  <2>2. ASSUME NEW i \in 1 .. Len(h.buckets[x[1]]), x[1] \in Buckets, x = <<x[1], i, h.buckets[x[1]][i]>>
        PROVE  x[3] \in all /\ x[1] = cls[x[3]] /\ x[1] \in Buckets /\ (x[2] # 0 => h.header[x[3]] = Link)
    <3>1. x[3] = h.buckets[x[1]][i]
      BY <2>2
    <3> QED BY <1>2, <2>2, <3>1
  <2> QED BY <1>5, <2>1, <2>2
<1>7. \A x, y \in Regions(h) : x[3] = y[3] => x = y
  <2> SUFFICES ASSUME NEW x \in Regions(h), NEW y \in Regions(h), x[3] = y[3] PROVE x = y
    OBVIOUS
  <2>1. x[1] = y[1]
    BY <1>6
  <2>2. CASE h.header[x[3]] # Link
    <3>1. ASSUME NEW z \in Regions(h), z[3] = x[3] PROVE z = <<cls[z[3]], 0, z[3]>>
      <4>1. ASSUME NEW i \in 1 .. Len(h.buckets[z[1]]), z[1] \in Buckets, z = <<z[1], i, h.buckets[z[1]][i]>>
            PROVE FALSE
        <5>1. h.header[h.buckets[z[1]][i]] = Link
          BY <1>2, <4>1
        <5>2. z[3] = h.buckets[z[1]][i]
          BY <4>1
        <5> QED BY <2>2, <3>1, <5>1, <5>2
      <4> QED BY <1>5, <4>1
    <3> QED BY <3>1
  <2>3. CASE h.header[x[3]] = Link
    <3>1. PICK i \in 1 .. Len(h.buckets[x[1]]) : x = <<x[1], i, h.buckets[x[1]][i]>>
      BY <1>5, <2>3
    <3>2. PICK j \in 1 .. Len(h.buckets[y[1]]) : y = <<y[1], j, h.buckets[y[1]][j]>>
      BY <1>5, <2>3
    <3>3. h.buckets[x[1]][i] = x[3] /\ h.buckets[x[1]][j] = x[3]
      BY <2>1, <3>1, <3>2
    <3>4. x[1] \in Buckets
      BY <1>6
    <3>5. i = j
      BY <1>3, <2>1, <3>3, <3>4
    <3> QED BY <2>1, <3>1, <3>2, <3>3, <3>5
  <2> QED BY <2>2, <2>3
<1>8. \A x \in Regions(h) : /\ x[3] \in Int /\ HeapStart <= x[3] /\ BucketToSize(x[1]) \in Nat
                            /\ x[3] + BucketToSize(x[1]) <= h.brk
  BY <1>1, <1>6, SizePositive DEF Size
<1>9. ASSUME NEW x \in Regions(h), NEW y \in Regions(h), x # y
      PROVE  Memory(x) \cap Memory(y) = {}
  <2>1. x[3] # y[3]
    BY <1>7, <1>9
  <2>2. x[3] + BucketToSize(x[1]) <= y[3] \/ y[3] + BucketToSize(y[1]) <= x[3]
    BY <1>1, <1>6, <2>1 DEF Size
  <2> QED BY <1>8, <2>2 DEF Memory
<1>10. ASSUME NEW x \in Regions(h) PROVE Memory(x) \subseteq HeapStart .. h.brk - 1
  BY <1>1, <1>8, HeapAssumption DEF Memory
<1>11. ASSUME NEW s \in all PROVE s \in {x[3] : x \in Regions(h)}
  <2>1. CASE h.header[s] # Link
    <3>1. <<h.header[s], 0, s>> \in Regions(h)
      BY <2>1 DEF Regions
    <3> QED BY <3>1
  <2>2. CASE h.header[s] = Link
    <3>1. PICK i \in 1 .. Len(h.buckets[cls[s]]) : h.buckets[cls[s]][i] = s
      BY <1>4, <2>2
    <3>2. cls[s] \in Buckets /\ i \in DOMAIN h.buckets[cls[s]]
      BY <1>1, <3>1
    <3>3. <<cls[s], i, s>> \in Regions(h)
      BY <3>1, <3>2 DEF Regions
    <3> QED BY <3>3
  <2> QED BY <2>1, <2>2
<1>12. DOMAIN h.header = {x[3] : x \in Regions(h)}
  BY <1>6, <1>11
<1> QED
  BY <1>6, <1>9, <1>10, <1>12 DEF Apart

IsWorld(v) == v = [heap |-> v.heap, disk |-> v.disk, typed |-> v.typed, fds |-> v.fds,
                   file |-> v.file, tab |-> v.tab, cleanup |-> v.cleanup]
IsFile(f)  == f = [count |-> f.count, fd |-> f.fd, flags |-> f.flags, bufsiz |-> f.bufsiz,
                   buf |-> f.buf, ptr |-> f.ptr, data |-> f.data]

Descriptors == 0 .. 3

AreFds(fds) ==
    /\ fds = [i \in Descriptors |-> fds[i]]
    /\ \A i \in Descriptors : /\ fds[i] = [name |-> fds[i].name, pos |-> fds[i].pos]
                              /\ fds[i].name = "" => fds[i] = ClosedFd

(* A world as the calls leave it: every FILE has a descriptor that is open.  *)
Base(v) ==
    /\ IsWorld(v)
    /\ AreFds(v.fds)
    /\ v.file = [p \in DOMAIN v.file |-> v.file[p]]
    /\ \A p \in DOMAIN v.file : /\ IsFile(v.file[p])
                                /\ v.file[p].fd \in Descriptors
                                /\ v.fds[v.file[p].fd].name # ""

(* f and g have the same descriptor and, if it is the library's, buffer.     *)
Alike(f, g) ==
    /\ IsFile(g)
    /\ g.fd = f.fd
    /\ "MYBUF" \in g.flags <=> "MYBUF" \in f.flags
    /\ "MYBUF" \in f.flags => g.buf = f.buf

(* From v to u nothing was allocated, opened, closed or freed.               *)
Quiet(v, u) ==
    /\ Base(u)
    /\ u.heap = v.heap
    /\ u.tab = v.tab
    /\ DOMAIN u.file = DOMAIN v.file
    /\ \A i \in Descriptors : u.fds[i].name = v.fds[i].name
    /\ \A p \in DOMAIN v.file : Alike(v.file[p], u.file[p])

\* Nothing happens.
LEMMA QuietSelf == ASSUME NEW v, Base(v) PROVE Quiet(v, v)
  BY DEF Quiet, Alike, Base

\* One quiet call after another.
LEMMA QuietThen == ASSUME NEW v, NEW u, NEW t, Quiet(v, u), Quiet(u, t) PROVE Quiet(v, t)
  BY DEF Quiet, Alike

\* A FILE is changed, but not in what it is on and what it owns.
LEMMA SetFileQuiet ==
  ASSUME NEW v, Base(v), NEW p \in DOMAIN v.file, NEW f, Alike(v.file[p], f),
         NEW u, u = SetFile(v, p, f)
  PROVE  Quiet(v, u) /\ u.file[p] = f /\ u.fds = v.fds
<1>1. IsWorld(v) /\ v.file = [q \in DOMAIN v.file |-> v.file[q]]
  BY DEF Base
<1>2. u = [heap |-> v.heap, disk |-> v.disk, typed |-> v.typed, fds |-> v.fds,
           file |-> [v.file EXCEPT ![p] = f], tab |-> v.tab, cleanup |-> v.cleanup]
  BY <1>1 DEF SetFile, IsWorld
<1>3. /\ IsWorld(u) /\ u.heap = v.heap /\ u.tab = v.tab /\ u.fds = v.fds
      /\ u.file = [v.file EXCEPT ![p] = f]
  <2> DEFINE fl == [v.file EXCEPT ![p] = f]
  <2>1. u = [heap |-> v.heap, disk |-> v.disk, typed |-> v.typed, fds |-> v.fds,
           file |-> fl, tab |-> v.tab, cleanup |-> v.cleanup]
    BY <1>2
  <2> HIDE DEF fl
  <2>2. IsWorld(u) /\ u.heap = v.heap /\ u.tab = v.tab /\ u.fds = v.fds /\ u.file = fl
    BY ONLY <2>1 DEF IsWorld
  <2> QED BY <2>2 DEF fl
<1>4. /\ DOMAIN u.file = DOMAIN v.file /\ u.file[p] = f
      /\ u.file = [q \in DOMAIN u.file |-> u.file[q]]
      /\ \A q \in DOMAIN v.file : q # p => u.file[q] = v.file[q]
  BY <1>1, <1>3
<1>5. ASSUME NEW q \in DOMAIN v.file
      PROVE  /\ Alike(v.file[q], u.file[q]) /\ IsFile(u.file[q])
             /\ u.file[q].fd \in Descriptors /\ u.fds[u.file[q].fd].name # ""
  <2>0. v.file[q].fd \in Descriptors /\ v.fds[v.file[q].fd].name # "" /\ IsFile(v.file[q])
    BY DEF Base
  <2>1. CASE q = p
    BY <1>3, <1>4, <2>0, <2>1 DEF Alike
  <2>2. CASE q # p
    BY <1>3, <1>4, <2>0, <2>2 DEF Alike
  <2> QED BY <2>1, <2>2
<1>6. Base(u)
  BY <1>3, <1>4, <1>5 DEF Base
<1> QED
  BY <1>3, <1>4, <1>5, <1>6 DEF Quiet

-----------------------------------------------------------------------------
(* The system calls that move a descriptor. *)
Opened(v, fd) == fd \in Descriptors /\ v.fds[fd].name # ""
Sys(v, u)     == Quiet(v, u) /\ u.file = v.file

\* A descriptor that is open stays so.
LEMMA StaysOpen ==
  ASSUME NEW v, NEW u, Quiet(v, u), NEW fd, Opened(v, fd) PROVE Opened(u, fd)
  BY DEF Quiet, Opened

\* No system call.
LEMMA SysSelf == ASSUME NEW v, Base(v) PROVE Sys(v, v)
  BY QuietSelf DEF Sys

\* The descriptor of a FILE is open.
LEMMA FileOpened == ASSUME NEW v, Base(v), NEW p \in DOMAIN v.file PROVE Opened(v, v.file[p].fd) /\ IsFile(v.file[p])
  BY DEF Base, Opened

\* A descriptor is moved to another place in its file.
LEMMA Moved ==
  ASSUME NEW v, Base(v), NEW fd, Opened(v, fd), NEW x,
         NEW u, u = [v EXCEPT !.fds[fd].pos = x]
  PROVE  Sys(v, u)
<1>0. fd \in Descriptors /\ v.fds[fd].name # ""
  BY DEF Opened
<1>1. IsWorld(v) /\ AreFds(v.fds)
  BY DEF Base
<1>2. v.fds[fd] = [name |-> v.fds[fd].name, pos |-> v.fds[fd].pos]
  BY <1>0, <1>1 DEF AreFds
<1> DEFINE d  == [name |-> v.fds[fd].name, pos |-> x]
           ds == [v.fds EXCEPT ![fd] = d]
<1>3. [v.fds[fd] EXCEPT !.pos = x] = d
  BY <1>2
<1>4. u = [v EXCEPT !.fds = ds]
  BY <1>3
<1> HIDE DEF d
<1>5. /\ ds = [i \in Descriptors |-> ds[i]] /\ ds[fd] = d
      /\ \A i \in Descriptors : i # fd => ds[i] = v.fds[i]
  BY <1>0, <1>1 DEF AreFds
<1>6. d.name = v.fds[fd].name /\ d = [name |-> d.name, pos |-> d.pos]
  BY DEF d
<1> HIDE DEF ds
<1>7. AreFds(ds) /\ \A i \in Descriptors : ds[i].name = v.fds[i].name
  BY <1>0, <1>1, <1>5, <1>6 DEF AreFds
<1>8. u = [heap |-> v.heap, disk |-> v.disk, typed |-> v.typed, fds |-> ds,
           file |-> v.file, tab |-> v.tab, cleanup |-> v.cleanup]
  BY <1>1, <1>4 DEF IsWorld
<1>9. IsWorld(u) /\ u.heap = v.heap /\ u.tab = v.tab /\ u.fds = ds /\ u.file = v.file
  BY ONLY <1>8 DEF IsWorld
<1>10. Base(u)
  BY <1>7, <1>9 DEF Base
<1> QED
  BY <1>7, <1>9, <1>10 DEF Sys, Quiet, Alike, Base

\* What is in the files, or is typed, changes.
LEMMA DiskQuiet ==
  ASSUME NEW v, Base(v), NEW x, NEW u, u = [v EXCEPT !.disk = x] \/ u = [v EXCEPT !.typed = x]
  PROVE  Sys(v, u)
<1>1. IsWorld(v)
  BY DEF Base
<1>2. \/ u = [heap |-> v.heap, disk |-> x, typed |-> v.typed, fds |-> v.fds,
              file |-> v.file, tab |-> v.tab, cleanup |-> v.cleanup]
      \/ u = [heap |-> v.heap, disk |-> v.disk, typed |-> x, fds |-> v.fds,
              file |-> v.file, tab |-> v.tab, cleanup |-> v.cleanup]
  BY <1>1 DEF IsWorld
<1>3. IsWorld(u) /\ u.heap = v.heap /\ u.tab = v.tab /\ u.fds = v.fds /\ u.file = v.file
  BY ONLY <1>2 DEF IsWorld
<1>4. Base(u)
  BY <1>3 DEF Base
<1> QED
  BY <1>3, <1>4 DEF Sys, Quiet, Alike, Base

\* lseek
LEMMA LseekQuiet ==
  ASSUME NEW v, Base(v), NEW fd, Opened(v, fd), NEW offset, NEW whence,
         NEW s, s = Lseek(v, fd, offset, whence)
  PROVE  Sys(v, s.w)
<1> DEFINE to == offset + (CASE whence = "SET" -> 0 [] whence = "CUR" -> v.fds[fd].pos
                          [] OTHER -> Len(v.disk[v.fds[fd].name]))
           no == v.fds[fd].name = Terminal \/ to < 0
<1>1. s = IF no THEN Reply(v, -1) ELSE Reply([v EXCEPT !.fds[fd].pos = to], to)
  BY DEF Lseek
<1> HIDE DEF no, to
<1>2. s.w = v \/ s.w = [v EXCEPT !.fds[fd].pos = to]
  BY <1>1 DEF Reply
<1> QED
  BY <1>2, SysSelf, Moved

\* Bytes reach a file or the terminal.
LEMMA TransferQuiet ==
  ASSUME NEW v, Base(v), NEW fd, Opened(v, fd), NEW b, NEW u, u = Transfer(v, fd, b)
  PROVE  Sys(v, u)
<1> DEFINE d  == v.fds[fd]
           a  == v.disk[d.name] \o b
           ov == Overlay(v.disk[d.name], d.pos, b)
           x  == d.pos + Len(b)
           k  == [v EXCEPT !.disk = [v.disk EXCEPT ![d.name] = ov]]
<1>1. CASE d.name = Terminal
  <2>1. u = [v EXCEPT !.disk[Terminal] = a]
    BY <1>1 DEF Transfer
  <2> HIDE DEF a
  <2>2. u = [v EXCEPT !.disk = [v.disk EXCEPT ![Terminal] = a]]
    BY <2>1
  <2> QED BY <2>2, DiskQuiet
<1>2. CASE d.name # Terminal
  <2>1. u = [v EXCEPT !.disk[d.name] = ov, !.fds[fd].pos = x]
    BY <1>2 DEF Transfer
  <2> HIDE DEF ov, x
  <2>2. IsWorld(v)
    BY DEF Base
  <2>3. u = [k EXCEPT !.fds[fd].pos = x]
    BY <2>1, <2>2 DEF IsWorld
  <2>4. Sys(v, k)
    BY DiskQuiet
  <2> HIDE DEF k
  <2>5. Base(k) /\ Opened(k, fd)
    BY <2>4, StaysOpen DEF Sys, Quiet
  <2>6. Sys(k, u)
    BY <2>3, <2>5, Moved
  <2> QED BY <2>4, <2>6, QuietThen DEF Sys
<1> QED BY <1>1, <1>2

\* write
LEMMA SysWriteQuiet ==
  ASSUME NEW v, Base(v), NEW fd, Opened(v, fd), NEW b, NEW o, NEW s, s = SysWrite(v, fd, b, o)
  PROVE  Sys(v, s.w)
<1> DEFINE n == IF o = "ok" THEN Len(b) ELSE 1
           q == SubSeq(b, 1, n)
<1>1. s = IF o = "fail" THEN Reply(v, -1) ELSE Reply(Transfer(v, fd, q), n)
  BY DEF SysWrite
<1> HIDE DEF n, q
<1>2. s.w = v \/ s.w = Transfer(v, fd, q)
  BY <1>1 DEF Reply
<1> QED
  BY <1>2, SysSelf, TransferQuiet

\* read
LEMMA SysReadQuiet ==
  ASSUME NEW v, Base(v), NEW fd, Opened(v, fd), NEW n, NEW o, NEW s, s = SysRead(v, fd, n, o)
  PROVE  Sys(v, s.w)
<1> DEFINE d    == v.fds[fd]
           rest == IF d.name = Terminal THEN v.typed
                   ELSE SubSeq(v.disk[d.name], d.pos + 1, Len(v.disk[d.name]))
           eol  == {i \in DOMAIN rest : rest[i] = Newline}
           line == IF d.name = Terminal /\ eol # {} THEN CHOOSE i \in eol : \A j \in eol : i <= j
                   ELSE Len(rest)
           k    == Min2(line, IF o = "ok" THEN n ELSE 1)
           left == SubSeq(rest, k + 1, Len(rest))
           tt   == d.name = Terminal
           x    == d.pos + k
<1>1. s = IF o = "fail" THEN [w |-> v, r |-> -1, b |-> <<>>]
          ELSE [w |-> IF tt THEN [v EXCEPT !.typed = left] ELSE [v EXCEPT !.fds[fd].pos = x],
                r |-> k, b |-> SubSeq(rest, 1, k)]
  BY DEF SysRead
<1> HIDE DEF k, rest, left, x, tt
<1>2. s.w = v \/ s.w = [v EXCEPT !.typed = left] \/ s.w = [v EXCEPT !.fds[fd].pos = x]
  BY <1>1
<1> QED
  BY <1>2, SysSelf, DiskQuiet, Moved

\* do_write (__flushbuf.c)
LEMMA DoWriteQuiet ==
  ASSUME NEW v, Base(v), NEW fd, Opened(v, fd), NEW b, NEW o, NEW s, s = DoWrite(v, fd, b, o)
  PROVE  Sys(v, s.w)
<1>1. s.w = v \/ s.w = Transfer(v, fd, SubSeq(b, 1, 1)) \/ s.w = Transfer(v, fd, b)
  BY DEF DoWrite, Reply
<1> QED
  BY <1>1, SysSelf, TransferQuiet

\* The seek to the end in append mode.
LEMMA ToEndQuiet ==
  ASSUME NEW v, Base(v), NEW f, Opened(v, f.fd), NEW s, s = ToEnd(v, f)
  PROVE  Sys(v, s.w)
<1>1. s.w = v \/ s = Lseek(v, f.fd, 0, "END")
  BY DEF ToEnd, Reply
<1> QED
  BY <1>1, SysSelf, LseekQuiet

-----------------------------------------------------------------------------

\* What the calls do to a FILE but give it another buffer or descriptor.
LEMMA Varied ==
  ASSUME NEW f, IsFile(f), NEW x, NEW y, NEW g,
         \/ g = [f EXCEPT !.count = x]
         \/ g = [f EXCEPT !.ptr = x]
         \/ g = [f EXCEPT !.data = x]
         \/ g = [f EXCEPT !.data = x, !.ptr = y]
         \/ g = [f EXCEPT !.count = x, !.ptr = y]
         \/ g = [f EXCEPT !.ptr = y, !.count = x]
  PROVE  Alike(f, g) /\ g.flags = f.flags /\ g.buf = f.buf
  BY DEF IsFile, Alike

\* A flag is set.
LEMMA Raised ==
  ASSUME NEW f, IsFile(f), NEW x, x # "MYBUF", NEW g, g = Raise(f, x)
  PROVE  Alike(f, g) /\ g.buf = f.buf
  BY DEF Raise, IsFile, Alike

\* Flags are cleared.
LEMMA Dropped ==
  ASSUME NEW f, IsFile(f), NEW xs, "MYBUF" \notin xs, NEW g, g = Drop(f, xs)
  PROVE  Alike(f, g) /\ g.buf = f.buf
  BY DEF Drop, IsFile, Alike

\* The count, the place and the bytes change together.
LEMMA VariedAll ==
  ASSUME NEW f, IsFile(f), NEW x, NEW y, NEW z, NEW g,
         \/ g = [f EXCEPT !.data = x, !.count = y, !.ptr = z]
         \/ g = [f EXCEPT !.count = y, !.ptr = z, !.data = x]
         \/ g = [f EXCEPT !.data = x, !.ptr = z, !.count = y]
  PROVE  Alike(f, g)
  BY DEF IsFile, Alike

Buffered(f, b, n, d) == [Raise(f, "MYBUF") EXCEPT !.buf = b, !.bufsiz = n, !.ptr = 0, !.data = d]

\* The FILE that gets a buffer of the library.
LEMMA WithBuffer ==
  ASSUME NEW f, IsFile(f), NEW b, NEW n, NEW d, NEW g, g = Buffered(f, b, n, d)
  PROVE  IsFile(g) /\ g.fd = f.fd /\ "MYBUF" \in g.flags /\ g.buf = b
<1>1. g = [count |-> f.count, fd |-> f.fd, flags |-> f.flags \cup {"MYBUF"}, bufsiz |-> n,
           buf |-> b, ptr |-> 0, data |-> d]
  BY DEF IsFile, Raise, Buffered
<1> QED BY ONLY <1>1 DEF IsFile

\* One change after another.
LEMMA AlikeThen == ASSUME NEW f, NEW g, NEW h, Alike(f, g), Alike(g, h) PROVE Alike(f, h)
  BY DEF Alike

\* No change.
LEMMA AlikeSelf == ASSUME NEW f, IsFile(f) PROVE Alike(f, f)
  BY DEF Alike

\* A FILE is changed after a quiet call, from what it was before the call.
LEMMA PutBack ==
  ASSUME NEW v, Base(v), NEW p \in DOMAIN v.file,
         NEW u, Quiet(v, u), NEW f, Alike(v.file[p], f), NEW t, t = SetFile(u, p, f)
  PROVE  Quiet(v, t) /\ t.file[p] = f /\ Base(t) /\ p \in DOMAIN t.file
<1>1. Base(u) /\ p \in DOMAIN u.file /\ Alike(v.file[p], u.file[p])
  BY DEF Quiet
<1>2. Alike(u.file[p], f)
  BY <1>1 DEF Alike
<1>3. Quiet(u, t) /\ t.file[p] = f
  BY <1>1, <1>2, SetFileQuiet
<1> QED
  BY <1>3, QuietThen DEF Quiet

\* A call fails: the error flag of its stream.
LEMMA FailQuiet ==
  ASSUME NEW v, Base(v), NEW p \in DOMAIN v.file, NEW s, s = Fail(v, p)
  PROVE  Quiet(v, s.w)
<1>1. s.w = SetFile(v, p, Raise(v.file[p], "ERR"))
  BY DEF Fail, Reply
<1>2. Alike(v.file[p], Raise(v.file[p], "ERR"))
  BY FileOpened, Raised
<1> QED BY <1>1, <1>2, SetFileQuiet

\* fflush of a stream that is read (fflush.c).
LEMMA FlushInputQuiet ==
  ASSUME NEW v, Base(v), NEW p \in DOMAIN v.file, NEW s, s = FlushInput(v, p)
  PROVE  Quiet(v, s.w)
<1> DEFINE f0 == v.file[p]
           f  == [v.file[p] EXCEPT !.count = 0]
           off == IF Flagged(f, "NBF") THEN 0 ELSE -v.file[p].count
           sk == Lseek(v, f.fd, off, "CUR")
           g  == IF Flagged(f, "WRITE") THEN Drop(f, {"READING", "WRITING"}) ELSE f
           g1 == [g EXCEPT !.ptr = 0]
           k  == SetFile(sk.w, p, f)
           bad == sk.r = -1
<1>1. s = IF bad THEN Fail(k, p) ELSE Reply(SetFile(sk.w, p, g1), 0)
  BY DEF FlushInput
<1>2. IsFile(f0) /\ Opened(v, f0.fd)
  BY FileOpened
<1>3. Alike(f0, f)
  BY <1>2, Varied
<1>4. IsFile(f) /\ f.fd = f0.fd
  BY <1>3 DEF Alike
<1> HIDE DEF f
<1>5. Alike(f, g)
  <2>1. Alike(f, Drop(f, {"READING", "WRITING"}))
    BY <1>4, Dropped
  <2> QED BY <1>4, <2>1, AlikeSelf
<1> HIDE DEF g
<1>6. Alike(g, g1)
  <2>1. IsFile(g)
    BY <1>5 DEF Alike
  <2> QED BY <2>1, Varied
<1>7. Alike(f0, g1)
  BY <1>3, <1>5, <1>6, AlikeThen
<1> HIDE DEF g1, off
<1>8. Quiet(v, sk.w)
  BY <1>2, <1>4, LseekQuiet DEF Sys
<1> HIDE DEF bad, sk
<1>9. Quiet(v, k) /\ Base(k) /\ p \in DOMAIN k.file
  BY <1>3, <1>8, PutBack
<1> HIDE DEF k
<1>10. Quiet(v, Fail(k, p).w)
  BY <1>9, FailQuiet, QuietThen
<1>11. Quiet(v, SetFile(sk.w, p, g1))
  BY <1>7, <1>8, PutBack
<1> QED
  BY <1>1, <1>10, <1>11 DEF Reply

\* fflush of a stream that is written (fflush.c).
LEMMA FlushOutputQuiet ==
  ASSUME NEW v, Base(v), NEW p \in DOMAIN v.file, NEW o, NEW s, s = FlushOutput(v, p, o)
  PROVE  Quiet(v, s.w)
<1> DEFINE f0 == v.file[p]
           f  == IF Flagged(v.file[p], "READ") THEN Drop(v.file[p], {"WRITING"}) ELSE v.file[p]
           b  == SubSeq(f.data, 1, f.ptr)
           f1 == [f EXCEPT !.ptr = 0]
           f2 == [f EXCEPT !.ptr = 0, !.count = 0]
           k  == SetFile(v, p, f1)
           e  == ToEnd(k, f)
           t  == SysWrite(e.w, f.fd, b, o)
           l  == SetFile(t.w, p, f2)
<1>1. s = CASE b = <<>> -> Reply(k, 0)
            [] b # <<>> /\ e.r = -1 -> Fail(k, p)
            [] OTHER -> IF t.r = Len(b) THEN Reply(l, 0) ELSE Fail(l, p)
  BY DEF FlushOutput
<1>2. IsFile(f0) /\ Opened(v, f0.fd)
  BY FileOpened
<1>3. Alike(f0, f)
  BY <1>2, Dropped, AlikeSelf
<1>4. IsFile(f) /\ f.fd = f0.fd
  BY <1>3 DEF Alike
<1>5. Alike(f, f1) /\ Alike(f, f2)
  BY <1>4, Varied
<1>6. Alike(f0, f1) /\ Alike(f0, f2)
  BY <1>3, <1>5, AlikeThen
<1> HIDE DEF b, f, f1, f2
<1>7. Quiet(v, k) /\ Base(k) /\ p \in DOMAIN k.file
  BY <1>6, QuietSelf, PutBack
<1>8. Opened(k, f.fd)
  BY <1>2, <1>4, <1>7, StaysOpen
<1> HIDE DEF k
<1>9. Quiet(k, e.w)
  BY <1>7, <1>8, ToEndQuiet DEF Sys
<1>10. Opened(e.w, f.fd) /\ Base(e.w)
  BY <1>8, <1>9, StaysOpen DEF Quiet
<1> HIDE DEF e
<1>11. Quiet(e.w, t.w)
  BY <1>10, SysWriteQuiet DEF Sys
<1> HIDE DEF t
<1>12. Quiet(v, t.w)
  BY <1>7, <1>9, <1>11, QuietThen
<1>13. Quiet(v, l) /\ Base(l) /\ p \in DOMAIN l.file
  BY <1>6, <1>12, PutBack
<1> HIDE DEF l
<1>14. Quiet(v, Fail(k, p).w) /\ Quiet(v, Fail(l, p).w)
  BY <1>7, <1>13, FailQuiet, QuietThen
<1> QED
  BY <1>1, <1>7, <1>13, <1>14 DEF Reply

\* fflush of any stream (fflush.c).
LEMMA FflushQuiet ==
  ASSUME NEW v, Base(v), NEW p \in DOMAIN v.file, NEW o, NEW s, s = Fflush(v, p, o)
  PROVE  Quiet(v, s.w)
<1> DEFINE f == v.file[p]
           nothing == f.buf = Null \/ f.flags \cap {"READING", "WRITING"} = {}
<1>1. \/ s = Reply(v, 0)
      \/ s = FlushInput(v, p)
      \/ s = FlushOutput(v, p, o)
  <2>1. f.buf # Null /\ ~nothing => Flagged(f, "READING") \/ Flagged(f, "WRITING")
    BY DEF Flagged
  <2> QED BY <2>1 DEF Fflush, Flagged
<1> QED
  BY <1>1, QuietSelf, FlushInputQuiet, FlushOutputQuiet DEF Reply

-----------------------------------------------------------------------------

\* All streams are flushed one after the other.
LEMMA FlushingDef ==
  ASSUME NEW v, NEW flags, NEW o, NEW a, a = Flushing(v, flags, o)
  PROVE  a[0] = v /\ \A i \in 1 .. FopenMax : a[i] = FlushSlot(a[i - 1], i, flags, o)
<1> DEFINE Def(n, g) == g = [i \in 0 .. n |-> IF i = 0 THEN v ELSE FlushSlot(g[i - 1], i, flags, o)]
           DefW(n, g) == g = [i \in 0 .. n |->
                          IF i = 0 THEN v ELSE With(g[i - 1], LAMBDA k : FlushSlot(k, i, flags, o))]
           G == {n \in Nat : \E g : Def(n, g)}
<1>1. Def(0, [i \in 0 .. 0 |-> v])
  OBVIOUS
<1>2. ASSUME NEW n \in Nat \ {0}, n - 1 \in G PROVE n \in G
  <2>1. PICK g : Def(n - 1, g)
    BY <1>2
  <2> DEFINE h == [i \in 0 .. n |-> IF i = n THEN FlushSlot(g[n - 1], n, flags, o) ELSE g[i]]
  <2>2. \A i \in 0 .. n : h[i] = IF i = 0 THEN v ELSE FlushSlot(h[i - 1], i, flags, o)
    BY <2>1
  <2>3. Def(n, h)
    BY <2>2
  <2> QED
    BY <2>3
<1>3. FopenMax \in Nat
  BY StdioAssumption
<1>4. 0 \in G
  BY <1>1
<1>5. FopenMax \in G
  <2> HIDE DEF G
  <2> QED BY <1>2, <1>3, <1>4, UpTo
<1>6. PICK g : Def(FopenMax, g)
  BY <1>5
<1>7. \A x, i : With(x, LAMBDA k : FlushSlot(k, i, flags, o)) = FlushSlot(x, i, flags, o)
  BY DEF With
<1>8. \A h : Def(FopenMax, h) <=> DefW(FopenMax, h)
  BY <1>7, Zenon
<1>9. DefW(FopenMax, g)
  BY <1>6, <1>8
<1>10. a = CHOOSE h : DefW(FopenMax, h)
  BY DEF Flushing
<1>11. DefW(FopenMax, CHOOSE h : DefW(FopenMax, h))
  BY <1>9, Zenon
<1> HIDE DEF DefW
<1>12. DefW(FopenMax, a)
  BY <1>10, <1>11
<1>13. Def(FopenMax, a)
  BY <1>8, <1>12, Zenon
<1> QED
  BY <1>3, <1>13

Tabbed(v) == \A i \in Slots : v.tab[i] # Null => v.tab[i] \in DOMAIN v.file

\* The table still holds FILEs.
LEMMA StaysTabbed == ASSUME NEW v, Tabbed(v), NEW u, Quiet(v, u) PROVE Tabbed(u)
  BY DEF Tabbed, Quiet

\* One slot of __iotab is flushed.
LEMMA FlushSlotQuiet ==
  ASSUME NEW v, Base(v), Tabbed(v), NEW i \in Slots, NEW flags, NEW o
  PROVE  Quiet(v, FlushSlot(v, i, flags, o))
<1>1. CASE v.tab[i] # Null /\ flags \subseteq v.file[v.tab[i]].flags
  <2>1. v.tab[i] \in DOMAIN v.file
    BY <1>1 DEF Tabbed
  <2>2. FlushSlot(v, i, flags, o) = Fflush(v, v.tab[i], o).w
    BY <1>1 DEF FlushSlot
  <2> QED BY <2>1, <2>2, FflushQuiet
<1>2. CASE ~(v.tab[i] # Null /\ flags \subseteq v.file[v.tab[i]].flags)
  <2>1. FlushSlot(v, i, flags, o) = v
    BY <1>2 DEF FlushSlot
  <2> QED BY <2>1, QuietSelf
<1> QED BY <1>1, <1>2

\* All of them are (fflush.c).
LEMMA FlushAllQuiet ==
  ASSUME NEW v, Base(v), Tabbed(v), NEW flags, NEW o, NEW u, u = FlushAll(v, flags, o)
  PROVE  Quiet(v, u)
<1> DEFINE a == Flushing(v, flags, o)
           G == {i \in 0 .. FopenMax : Quiet(v, a[i])}
<1>1. FopenMax \in Nat /\ a[0] = v /\ \A i \in 1 .. FopenMax : a[i] = FlushSlot(a[i - 1], i, flags, o)
  BY FlushingDef, StdioAssumption
<1> HIDE DEF a
<1>2. 0 \in G
  BY <1>1, QuietSelf
<1>3. ASSUME NEW i \in 1 .. FopenMax, i - 1 \in G PROVE i \in G
  <2>1. Quiet(v, a[i - 1]) /\ i \in Slots /\ i \in 0 .. FopenMax
    BY <1>1, <1>3 DEF Slots
  <2>2. Base(a[i - 1]) /\ Tabbed(a[i - 1])
    BY <2>1, StaysTabbed DEF Quiet
  <2>3. Quiet(a[i - 1], FlushSlot(a[i - 1], i, flags, o))
    BY <2>1, <2>2, FlushSlotQuiet
  <2>4. Quiet(v, a[i])
    BY <1>1, <2>1, <2>3, QuietThen
  <2> QED BY <2>1, <2>4
<1>4. 0 .. FopenMax \subseteq G
  <2> HIDE DEF G
  <2> QED BY <1>1, <1>2, <1>3, UpTo
<1>5. Quiet(v, a[FopenMax])
  BY <1>1, <1>4
<1> QED
  BY <1>5 DEF FlushAll, a

\* The line buffered output is flushed before a read (__fillbuf.c).
LEMMA FlushedQuiet ==
  ASSUME NEW v, Base(v), Tabbed(v), NEW o, NEW u, u = Flushed(v, o)
  PROVE  Quiet(v, u)
  BY FlushAllQuiet DEF Flushed

\* What exit does to the streams.
LEMMA CleanupQuiet ==
  ASSUME NEW v, Base(v), Tabbed(v), NEW o, NEW u, u = Cleanup(v, o)
  PROVE  Quiet(v, u)
<1>1. u = v \/ u = FlushAll(v, {"WRITING"}, o)
  BY DEF Cleanup
<1> QED BY <1>1, QuietSelf, FlushAllQuiet

-----------------------------------------------------------------------------
(* What belongs to whom. *)
Files(v)  == {p \in DOMAIN v.file : p > 0}
Bufs(v)   == {p \in DOMAIN v.file : "MYBUF" \in v.file[p].flags}
Given(v)  == {v.file[p].buf : p \in Bufs(v)}

(* The table has every FILE, and the FILEs every descriptor that is open.    *)
Places(v) ==
    /\ v.tab = [i \in Slots |-> v.tab[i]]
    /\ Tabbed(v)
    /\ \A p \in DOMAIN v.file : p \in Int /\ p # Null /\ \E i \in Slots : v.tab[i] = p
    /\ \A p \in DOMAIN v.file : p > 0 \/ p \in {Stdin, Stdout}
    /\ {Stdin, Stdout} \subseteq DOMAIN v.file
    /\ v.file[Stdin].fd = 0 /\ v.file[Stdout].fd = 1
    /\ \A i \in 0 .. 2 : v.fds[i].name # ""
    /\ \A p \in Files(v) : v.file[p].fd > 2
    /\ \A p, q \in Files(v) : v.file[p].fd = v.file[q].fd => p = q
    /\ \A i \in Descriptors : i > 2 /\ v.fds[i].name # "" => \E p \in Files(v) : v.file[p].fd = i

(* The memory in use is that of the program, X, of the FILEs and of the      *)
(* buffers the library gave them. *)
Owns(v, X) ==
    /\ HeapOK(v.heap)
    /\ InUse(v.heap) = X \cup Files(v) \cup Given(v)
    /\ X \cap Files(v) = {}
    /\ X \cap Given(v) = {}
    /\ Files(v) \cap Given(v) = {}
    /\ \A p, q \in Bufs(v) : v.file[p].buf = v.file[q].buf => p = q

Sound(v, X) == Base(v) /\ Places(v) /\ Owns(v, X)

(* The same streams on the same descriptors. *)
Same(v, u) ==
    /\ Base(u)
    /\ u.tab = v.tab
    /\ DOMAIN u.file = DOMAIN v.file
    /\ \A i \in Descriptors : u.fds[i].name = v.fds[i].name
    /\ \A p \in DOMAIN v.file : u.file[p].fd = v.file[p].fd

Kept(v, u, X) == Same(v, u) /\ Owns(u, X)

\* The table and the descriptors are what they were.
LEMMA SamePlaces == ASSUME NEW v, Places(v), NEW u, Same(v, u) PROVE Places(u)
<1>1. Same(v, u) /\ Places(v)
  OBVIOUS
<1>2. Files(u) = Files(v) /\ \A p \in Files(v) : u.file[p].fd = v.file[p].fd
  BY <1>1 DEF Same, Files
<1>a. \A i \in Descriptors : u.fds[i].name = v.fds[i].name
  BY <1>1 DEF Same
<1>b. \A i \in 0 .. 2 : v.fds[i].name # ""
  BY <1>1 DEF Places
<1>c. \A i \in Descriptors : i > 2 /\ v.fds[i].name # "" => \E p \in Files(v) : v.file[p].fd = i
  BY <1>1 DEF Places
<1>d. u.tab = v.tab /\ DOMAIN u.file = DOMAIN v.file
  BY <1>1 DEF Same
<1>e. /\ v.file[Stdin].fd = 0 /\ v.file[Stdout].fd = 1
      /\ {Stdin, Stdout} \subseteq DOMAIN v.file
      /\ \A p \in DOMAIN v.file : u.file[p].fd = v.file[p].fd
  BY <1>1 DEF Same, Places
<1>f. /\ v.tab = [i \in Slots |-> v.tab[i]]
      /\ Tabbed(v)
      /\ \A p \in DOMAIN v.file : p \in Int /\ p # Null /\ \E i \in Slots : v.tab[i] = p
      /\ \A p \in DOMAIN v.file : p > 0 \/ p \in {Stdin, Stdout}
  BY <1>1 DEF Places
<1>3. ASSUME NEW i \in 0 .. 2 PROVE u.fds[i].name # ""
  <2>1. i \in Descriptors
    BY DEF Descriptors
  <2> QED BY <1>a, <1>b, <2>1
<1>4. \A i \in Descriptors : i > 2 /\ u.fds[i].name # "" => \E p \in Files(u) : u.file[p].fd = i
  BY <1>a, <1>c, <1>2
<1>5. /\ u.file[Stdin].fd = 0 /\ u.file[Stdout].fd = 1
      /\ {Stdin, Stdout} \subseteq DOMAIN u.file
      /\ u.tab = [i \in Slots |-> u.tab[i]]
      /\ Tabbed(u)
      /\ \A p \in DOMAIN u.file : p \in Int /\ p # Null /\ \E i \in Slots : u.tab[i] = p
      /\ \A p \in DOMAIN u.file : p > 0 \/ p \in {Stdin, Stdout}
  <2>1. \A p \in DOMAIN u.file : p \in Int /\ p # Null /\ \E i \in Slots : u.tab[i] = p
    BY <1>d, <1>f
  <2>2. Tabbed(u)
    BY <1>d, <1>f DEF Tabbed
  <2>3. u.tab = [i \in Slots |-> u.tab[i]]
    BY <1>d, <1>f
  <2>4. {Stdin, Stdout} \subseteq DOMAIN u.file /\ u.file[Stdin].fd = 0 /\ u.file[Stdout].fd = 1
    BY <1>d, <1>e
  <2> QED BY <1>d, <1>f, <2>1, <2>2, <2>3, <2>4
<1>6. /\ \A p \in Files(u) : u.file[p].fd > 2
      /\ \A p, q \in Files(u) : u.file[p].fd = u.file[q].fd => p = q
  BY <1>1, <1>2 DEF Places
<1> QED
  BY <1>3, <1>4, <1>5, <1>6 DEF Places

\* What holds of the streams and of the memory still does.
LEMMA KeptSound == ASSUME NEW v, NEW X, Sound(v, X), NEW u, Kept(v, u, X) PROVE Sound(u, X)
<1>1. Same(v, u) /\ Owns(u, X) /\ Places(v)
  BY DEF Kept, Sound
<1>2. Places(u) /\ Base(u)
  BY <1>1, SamePlaces DEF Same
<1> QED
  BY <1>1, <1>2 DEF Sound

\* One such call after another.
LEMMA KeptThen ==
  ASSUME NEW v, NEW u, NEW t, NEW X, Kept(v, u, X), Kept(u, t, X) PROVE Kept(v, t, X)
  BY DEF Kept, Same

\* A quiet call is one of them.
LEMMA QuietKept ==
  ASSUME NEW v, NEW X, Sound(v, X), NEW u, Quiet(v, u) PROVE Kept(v, u, X) /\ Sound(u, X)
<1>1. Base(u) /\ u.heap = v.heap /\ u.tab = v.tab /\ DOMAIN u.file = DOMAIN v.file
  BY DEF Quiet
<1>2. \A p \in DOMAIN v.file : /\ u.file[p].fd = v.file[p].fd
                               /\ "MYBUF" \in u.file[p].flags <=> "MYBUF" \in v.file[p].flags
                               /\ "MYBUF" \in v.file[p].flags => u.file[p].buf = v.file[p].buf
  BY DEF Quiet, Alike
<1>3. Same(v, u)
  BY <1>1, <1>2 DEF Quiet, Same
<1>4. Files(u) = Files(v) /\ Bufs(u) = Bufs(v)
  BY <1>1, <1>2 DEF Files, Bufs
<1>5. \A p \in Bufs(v) : u.file[p].buf = v.file[p].buf
  BY <1>2 DEF Bufs
<1>6. Given(u) = Given(v)
  BY <1>4, <1>5 DEF Given
<1>7. Owns(u, X)
  <2>1. Owns(v, X)
    BY DEF Sound
  <2> QED BY <1>1, <1>4, <1>5, <1>6, <2>1 DEF Owns
<1>8. Kept(v, u, X)
  BY <1>3, <1>7 DEF Kept
<1> QED
  BY <1>8, KeptSound

\* So is none.
LEMMA KeptSelf == ASSUME NEW v, NEW X, Sound(v, X) PROVE Kept(v, v, X)
  BY QuietSelf, QuietKept DEF Sound

\* The buffers the library made are in use.
LEMMA SoundOwns ==
  ASSUME NEW v, NEW X, Sound(v, X)
  PROVE  /\ Base(v) /\ Tabbed(v) /\ HeapOK(v.heap)
         /\ \A p \in Bufs(v) : v.file[p].buf \in InUse(v.heap) /\ v.file[p].buf # Null
<1>1. Base(v) /\ Tabbed(v) /\ HeapOK(v.heap)
  BY DEF Sound, Places, Owns
<1>2. ASSUME NEW p \in Bufs(v) PROVE v.file[p].buf \in InUse(v.heap) /\ v.file[p].buf # Null
  <2>1. v.file[p].buf \in Given(v)
    BY DEF Given
  <2>2. v.file[p].buf \in InUse(v.heap)
    BY <2>1 DEF Sound, Owns
  <2>3. v.file[p].buf \in Int /\ v.file[p].buf > 0
    BY <1>1, <2>2, InUsePositive
  <2> QED BY <2>2, <2>3 DEF Null
<1> QED BY <1>1, <1>2

(* A stream gets another buffer, or none. *)
Replaced(files, p, f) == [files EXCEPT ![p] = f]

\* A stream gives its buffer up for another, or for none.
LEMMA Rebuffered ==
  ASSUME NEW v, NEW X, Sound(v, X), NEW p \in DOMAIN v.file,
         NEW h, HeapOK(h), NEW f, IsFile(f), f.fd = v.file[p].fd,
         NEW old, old = {v.file[q].buf : q \in Bufs(v) \cap {p}},
         "MYBUF" \in f.flags => f.buf \notin InUse(v.heap) \ old,
         InUse(h) = (InUse(v.heap) \ old) \cup {x \in {f.buf} : "MYBUF" \in f.flags},
         NEW u, IsWorld(u), u.heap = h, u.tab = v.tab, u.fds = v.fds,
         u.file = Replaced(v.file, p, f)
  PROVE  Kept(v, u, X)
<1>0. u.file = [v.file EXCEPT ![p] = f]
  BY DEF Replaced
<1>1. Base(v) /\ Owns(v, X)
  BY DEF Sound
<1>2. v.file = [q \in DOMAIN v.file |-> v.file[q]] /\ AreFds(v.fds)
  BY <1>1 DEF Base
<1>3. /\ DOMAIN u.file = DOMAIN v.file /\ u.file[p] = f
      /\ u.file = [q \in DOMAIN u.file |-> u.file[q]]
      /\ \A q \in DOMAIN v.file : q # p => u.file[q] = v.file[q]
  BY <1>0, <1>2
<1>4. ASSUME NEW q \in DOMAIN v.file
      PROVE  /\ IsFile(u.file[q]) /\ u.file[q].fd = v.file[q].fd
             /\ u.file[q].fd \in Descriptors /\ u.fds[u.file[q].fd].name # ""
  <2>1. IsFile(v.file[q]) /\ v.file[q].fd \in Descriptors /\ v.fds[v.file[q].fd].name # ""
    BY <1>1 DEF Base
  <2>2. CASE q = p
    BY <1>3, <2>1, <2>2
  <2>3. CASE q # p
    BY <1>3, <2>1, <2>3
  <2> QED BY <2>2, <2>3
<1>5. Base(u)
  BY <1>2, <1>3, <1>4 DEF Base
<1>6. Same(v, u)
  BY <1>3, <1>4, <1>5 DEF Same
<1>7. Files(u) = Files(v)
  BY <1>3 DEF Files
<1>8. /\ \A q \in Bufs(v) : q # p => q \in Bufs(u) /\ u.file[q].buf = v.file[q].buf
      /\ \A q \in Bufs(u) : q # p => q \in Bufs(v) /\ u.file[q].buf = v.file[q].buf
      /\ p \in Bufs(u) <=> "MYBUF" \in f.flags
      /\ u.file[p].buf = f.buf
  BY <1>3 DEF Bufs
<1>9. /\ InUse(v.heap) = X \cup Files(v) \cup Given(v)
      /\ X \cap Files(v) = {} /\ X \cap Given(v) = {} /\ Files(v) \cap Given(v) = {}
      /\ \A a, b \in Bufs(v) : v.file[a].buf = v.file[b].buf => a = b
  BY <1>1 DEF Owns
<1>10. old \subseteq Given(v) /\ \A q \in Bufs(v) : v.file[q].buf \in old <=> q = p
  BY <1>9 DEF Given
<1>11. Given(u) = (Given(v) \ old) \cup {x \in {f.buf} : "MYBUF" \in f.flags}
  <2>1. ASSUME NEW x \in Given(u) PROVE x \in (Given(v) \ old) \cup {y \in {f.buf} : "MYBUF" \in f.flags}
    <3>1. PICK q \in Bufs(u) : x = u.file[q].buf
      BY DEF Given
    <3>2. CASE q = p
      BY <1>8, <3>1, <3>2
    <3>3. CASE q # p
      BY <1>8, <1>10, <3>1, <3>3 DEF Given
    <3> QED BY <3>2, <3>3
  <2>2. ASSUME NEW x \in Given(v) \ old PROVE x \in Given(u)
    <3>1. PICK q \in Bufs(v) : x = v.file[q].buf
      BY DEF Given
    <3>2. q # p
      BY <1>10, <3>1
    <3> QED BY <1>8, <3>1, <3>2 DEF Given
  <2>3. ASSUME NEW x \in {y \in {f.buf} : "MYBUF" \in f.flags} PROVE x \in Given(u)
    BY <1>8 DEF Given
  <2> QED BY <2>1, <2>2, <2>3
<1>12. InUse(u.heap) = X \cup Files(u) \cup Given(u)
  BY <1>7, <1>9, <1>10, <1>11
<1>13. X \cap Given(u) = {} /\ Files(u) \cap Given(u) = {}
  BY <1>7, <1>9, <1>10, <1>11
<1>14. ASSUME NEW a \in Bufs(u), NEW b \in Bufs(u), u.file[a].buf = u.file[b].buf PROVE a = b
  <2>1. ASSUME NEW q \in Bufs(u), q # p PROVE u.file[q].buf \in InUse(v.heap) \ old
    BY <1>8, <1>9, <1>10, <2>1 DEF Given
  <2>2. CASE a = p \/ b = p
    BY <1>8, <1>14, <2>1, <2>2
  <2>3. CASE a # p /\ b # p
    BY <1>8, <1>9, <1>14, <2>3
  <2> QED BY <2>2, <2>3
<1>15. Owns(u, X)
  BY <1>7, <1>9, <1>12, <1>13, <1>14 DEF Owns
<1> QED
  BY <1>6, <1>15 DEF Kept

-----------------------------------------------------------------------------

\* The transfers keep what belongs to whom.
LEMMA KeptStream ==
  ASSUME NEW v, NEW X, Sound(v, X), NEW p \in DOMAIN v.file, NEW u, Kept(v, u, X)
  PROVE  Sound(u, X) /\ p \in DOMAIN u.file /\ IsFile(u.file[p]) /\ u.file[p].fd = v.file[p].fd
<1>1. Sound(u, X)
  BY KeptSound
<1>2. DOMAIN u.file = DOMAIN v.file /\ u.file[p].fd = v.file[p].fd
  BY DEF Kept, Same
<1> QED
  BY <1>1, <1>2, FileOpened DEF Sound

\* A FILE is changed.
LEMMA SetKept ==
  ASSUME NEW v, NEW X, Sound(v, X), NEW p \in DOMAIN v.file,
         NEW f, Alike(v.file[p], f), NEW u, u = SetFile(v, p, f)
  PROVE  Kept(v, u, X) /\ Sound(u, X) /\ p \in DOMAIN u.file /\ u.file[p] = f
<1>1. Base(v)
  BY DEF Sound
<1>2. Quiet(v, u) /\ u.file[p] = f
  BY <1>1, SetFileQuiet
<1> QED
  BY <1>2, QuietKept DEF Quiet

\* A stream gets its buffer, or none if there is no memory.
LEMMA GetBufferKept ==
  ASSUME NEW v, NEW X, Sound(v, X), NEW p \in DOMAIN v.file, NEW u, u = GetBuffer(v, p)
  PROVE  Kept(v, u, X)
<1> DEFINE m == Malloc(v.heap, Bufsiz)
           f == v.file[p]
           has == Flagged(v.file[p], "NBF") \/ v.file[p].buf # Null
           zeros == [i \in 1 .. Bufsiz |-> 0]
           g == [Raise(v.file[p], "MYBUF") EXCEPT !.buf = m.ptr, !.bufsiz = Bufsiz, !.ptr = 0,
                                                  !.data = zeros]
<1>1. Base(v) /\ HeapOK(v.heap) /\ IsFile(f) /\ (f.buf = Null => "MYBUF" \notin f.flags)
  <2>1. Base(v) /\ HeapOK(v.heap)
    BY SoundOwns
  <2>2. f.buf = Null => p \notin Bufs(v)
    BY SoundOwns
  <2> QED BY <2>1, <2>2, FileOpened DEF Bufs
<1>2. CASE has
  BY <1>2, KeptSelf DEF GetBuffer
<1>3. CASE ~has /\ m.ptr = Null
  <2>1. u = SetFile(v, p, Raise(f, "NBF"))
    BY <1>3 DEF GetBuffer
  <2> QED BY <1>1, <2>1, Raised, SetKept
<1>4. CASE ~has /\ m.ptr # Null
  <2>1. u = [v EXCEPT !.heap = m.heap, !.file[p] = g]
    BY <1>4 DEF GetBuffer
  <2>2. "MYBUF" \notin f.flags
    BY <1>1, <1>4
  <2>3. /\ m.ptr \in Int /\ HeapOK(m.heap) /\ m.ptr \notin InUse(v.heap)
        /\ InUse(m.heap) = InUse(v.heap) \cup {m.ptr}
    BY <1>1, <1>4, MallocOK, StdioAssumption
  <2> HIDE DEF m, zeros
  <2>5. IsFile(g) /\ g.fd = f.fd /\ "MYBUF" \in g.flags /\ g.buf = m.ptr
    <3>1. g = Buffered(f, m.ptr, Bufsiz, zeros)
      BY DEF Buffered
    <3> HIDE DEF g, f
    <3> QED BY <1>1, <3>1, WithBuffer
  <2> HIDE DEF g
  <2>6. IsWorld(v)
    BY <1>1 DEF Base
  <2> DEFINE fl == [v.file EXCEPT ![p] = g]
  <2>7. u = [heap |-> m.heap, disk |-> v.disk, typed |-> v.typed, fds |-> v.fds,
             file |-> fl, tab |-> v.tab, cleanup |-> v.cleanup]
    BY <2>1, <2>6 DEF IsWorld
  <2> HIDE DEF fl
  <2>8. IsWorld(u) /\ u.heap = m.heap /\ u.tab = v.tab /\ u.fds = v.fds /\ u.file = fl
    BY ONLY <2>7 DEF IsWorld
  <2> DEFINE old == {v.file[q].buf : q \in Bufs(v) \cap {p}}
  <2>9. old = {}
    BY <2>2 DEF Bufs
  <2>10. /\ "MYBUF" \in g.flags => g.buf \notin InUse(v.heap) \ old
         /\ InUse(m.heap) = (InUse(v.heap) \ old) \cup {x \in {g.buf} : "MYBUF" \in g.flags}
    BY <2>3, <2>5, <2>9
  <2>11. u.file = Replaced(v.file, p, g)
    BY <2>8 DEF fl, Replaced
  <2> HIDE DEF old
  <2> DEFINE o2 == {v.file[q].buf : q \in Bufs(v) \cap {p}}
  <2>12. o2 = old
    BY DEF old
  <2> HIDE DEF o2
  <2>13. o2 = {v.file[q].buf : q \in Bufs(v) \cap {p}}
    BY DEF o2
  <2> QED BY <2>3, <2>5, <2>8, <2>10, <2>11, <2>12, <2>13, Rebuffered
<1> QED BY <1>2, <1>3, <1>4

\* The buffer is filled from the file.
LEMMA FillBytesQuiet ==
  ASSUME NEW v, Base(v), NEW p \in DOMAIN v.file, NEW o, NEW s, s = FillBytes(v, p, o)
  PROVE  Quiet(v, s.w)
<1> DEFINE g == v.file[p]
           t == SysRead(v, g.fd, g.bufsiz, o)
           e == IF t.r = 0 THEN "EOF" ELSE "ERR"
           c == [g EXCEPT !.count = t.r]
           g1 == Raise(c, e)
           y == t.r - 1
           d == Overlay(g.data, 0, t.b)
           g2 == [g EXCEPT !.data = d, !.count = y, !.ptr = 1]
<1>1. s = IF t.r <= 0 THEN Reply(SetFile(t.w, p, g1), EOF) ELSE Reply(SetFile(t.w, p, g2), t.b[1])
  BY DEF FillBytes, With
<1>2. IsFile(g) /\ Opened(v, g.fd)
  BY FileOpened
<1>3. Quiet(v, t.w)
  BY <1>2, SysReadQuiet DEF Sys
<1> HIDE DEF d, y, t
<1>4. Alike(g, g2)
  BY <1>2, VariedAll
<1> HIDE DEF g2
<1>5. Alike(g, c)
  BY <1>2, Varied
<1>51. IsFile(c)
  BY <1>5 DEF Alike
<1> HIDE DEF c
<1>6. Alike(c, g1)
  <2>1. e # "MYBUF"
    OBVIOUS
  <2> HIDE DEF e
  <2> QED BY <1>51, <2>1, Raised
<1> HIDE DEF g1
<1>7. Alike(g, g1)
  BY <1>5, <1>6, AlikeThen
<1>8. Quiet(v, SetFile(t.w, p, g1)) /\ Quiet(v, SetFile(t.w, p, g2))
  BY <1>3, <1>4, <1>7, PutBack
<1> QED
  BY <1>1, <1>8 DEF Reply

\* The buffer of one byte of an unbuffered stream.
LEMMA OneByteAlike ==
  ASSUME NEW v, NEW X, Sound(v, X), NEW p \in DOMAIN v.file,
         NEW g, g = [OneByte(v.file[p]) EXCEPT !.ptr = 0]
  PROVE  Alike(v.file[p], g)
<1> DEFINE f == v.file[p]
           b == [f EXCEPT !.buf = Static, !.bufsiz = 1, !.data = <<0>>]
<1>1. IsFile(f) /\ (f.buf = Null => "MYBUF" \notin f.flags)
  <2>1. f.buf = Null => p \notin Bufs(v)
    BY SoundOwns
  <2>2. Base(v)
    BY SoundOwns
  <2> QED BY <2>1, <2>2, FileOpened DEF Bufs
<1>2. CASE f.buf # Null
  <2>1. g = [f EXCEPT !.ptr = 0]
    BY <1>2 DEF OneByte
  <2> QED BY <1>1, <2>1, Varied
<1>3. CASE f.buf = Null
  <2>1. g = [b EXCEPT !.ptr = 0]
    BY <1>3 DEF OneByte
  <2> HIDE DEF f
  <2>2. g = [count |-> f.count, fd |-> f.fd, flags |-> f.flags, bufsiz |-> 1,
             buf |-> Static, ptr |-> 0, data |-> <<0>>]
    BY <1>1, <2>1 DEF IsFile
  <2>3. IsFile(g) /\ g.fd = f.fd /\ g.flags = f.flags
    BY ONLY <2>2 DEF IsFile
  <2>4. Alike(f, g)
    BY <1>1, <1>3, <2>3 DEF Alike
  <2> QED BY <2>4 DEF f
<1> QED BY <1>2, <1>3

\* __fillbuf
LEMMA FillbufKept ==
  ASSUME NEW v, NEW X, Sound(v, X), NEW p \in DOMAIN v.file, NEW o, NEW s, s = Fillbuf(v, p, o)
  PROVE  Kept(v, s.w, X)
<1> DEFINE f0 == v.file[p]
           f  == [v.file[p] EXCEPT !.count = 0]
           k0 == SetFile(v, p, Raise(f, "READING"))
           k1 == GetBuffer(k0, p)
           k2 == Flushed(k1, o)
           g  == [OneByte(k2.file[p]) EXCEPT !.ptr = 0]
           k3 == SetFile(k2, p, g)
           k4 == SetFile(v, p, f)
<1>1. s = Reply(k4, EOF) \/ s = Fail(k4, p) \/ s = FillBytes(k3, p, o)
  BY DEF Fillbuf, With
<1>2. IsFile(f0)
  BY FileOpened DEF Sound
<1>3. Alike(f0, f)
  BY <1>2, Varied
<1> HIDE DEF f
<1>4. Alike(f, Raise(f, "READING"))
  <2>1. IsFile(f)
    BY <1>3 DEF Alike
  <2> QED BY <2>1, Raised
<1>5. Alike(f0, Raise(f, "READING"))
  BY <1>3, <1>4, AlikeThen
<1>6. Kept(v, k4, X) /\ Sound(k4, X) /\ p \in DOMAIN k4.file
  BY <1>3, SetKept
<1>7. Kept(v, k0, X) /\ Sound(k0, X) /\ p \in DOMAIN k0.file
  BY <1>5, SetKept
<1> HIDE DEF k0, k4
<1>8. Kept(k0, k1, X)
  BY <1>7, GetBufferKept
<1>9. Sound(k1, X) /\ p \in DOMAIN k1.file
  BY <1>7, <1>8, KeptStream
<1> HIDE DEF k1
<1>10. Quiet(k1, k2)
  BY <1>9, FlushedQuiet, SoundOwns
<1>11. Kept(k1, k2, X)
  BY <1>9, <1>10, QuietKept
<1>12. Sound(k2, X) /\ p \in DOMAIN k2.file
  BY <1>9, <1>11, KeptStream
<1> HIDE DEF k2
<1>13. Alike(k2.file[p], g)
  BY <1>12, OneByteAlike
<1> HIDE DEF g
<1>14. Kept(k2, k3, X) /\ Sound(k3, X) /\ p \in DOMAIN k3.file
  BY <1>12, <1>13, SetKept
<1> HIDE DEF k3
<1>15. Kept(v, k3, X)
  BY <1>7, <1>8, <1>11, <1>14, KeptThen
<1>16. Kept(v, FillBytes(k3, p, o).w, X)
  <2>1. Quiet(k3, FillBytes(k3, p, o).w)
    BY <1>14, FillBytesQuiet, SoundOwns
  <2> QED BY <1>14, <1>15, <2>1, QuietKept, KeptThen
<1>17. Kept(v, Fail(k4, p).w, X)
  <2>1. Quiet(k4, Fail(k4, p).w)
    BY <1>6, FailQuiet, SoundOwns
  <2> QED BY <1>6, <2>1, QuietKept, KeptThen
<1> QED
  BY <1>1, <1>6, <1>16, <1>17 DEF Reply

\* __flushbuf of an unbuffered stream.
LEMMA UnbufferedQuiet ==
  ASSUME NEW v, Base(v), NEW p \in DOMAIN v.file, NEW c, NEW o, NEW r, r = Unbuffered(v, p, c, o)
  PROVE  Quiet(v, r.w)
<1> DEFINE f == v.file[p]
           g == [v.file[p] EXCEPT !.count = 0]
           s == ToEnd(v, v.file[p])
           t == SysWrite(s.w, v.file[p].fd, <<c>>, o)
           k == SetFile(v, p, g)
           l == SetFile(t.w, p, k.file[p])
<1>1. r = IF s.r = -1 THEN Fail(k, p) ELSE IF t.r = 1 THEN Reply(l, c) ELSE Fail(l, p)
  BY DEF Unbuffered
<1>2. IsFile(f) /\ Opened(v, f.fd)
  BY FileOpened
<1>3. Quiet(v, s.w)
  BY <1>2, ToEndQuiet DEF Sys
<1> HIDE DEF s
<1>4. Opened(s.w, f.fd) /\ Base(s.w)
  BY <1>2, <1>3, StaysOpen DEF Quiet
<1>5. Quiet(s.w, t.w)
  BY <1>4, SysWriteQuiet DEF Sys
<1> HIDE DEF t
<1>6. Quiet(v, t.w)
  BY <1>3, <1>5, QuietThen
<1>7. Alike(f, g)
  BY <1>2, Varied
<1> HIDE DEF g
<1>8. Quiet(v, k) /\ k.file[p] = g /\ Base(k) /\ p \in DOMAIN k.file
  BY <1>7, QuietSelf, PutBack
<1> HIDE DEF k
<1>9. Quiet(v, l) /\ Base(l) /\ p \in DOMAIN l.file
  BY <1>6, <1>7, <1>8, PutBack
<1> HIDE DEF l
<1>10. Quiet(v, Fail(k, p).w) /\ Quiet(v, Fail(l, p).w)
  BY <1>8, <1>9, FailQuiet, QuietThen
<1> QED
  BY <1>1, <1>9, <1>10 DEF Reply

\* A byte is put into the buffer.
LEMMA StoreAlike == ASSUME NEW f, IsFile(f), NEW c, NEW g, g = Store(f, c) PROVE Alike(f, g)
<1> DEFINE x == Overlay(f.data, f.ptr, <<c>>)
           y == f.ptr + 1
<1>1. g = [f EXCEPT !.data = x, !.ptr = y]
  BY DEF Store
<1> HIDE DEF x, y
<1> QED BY <1>1, Varied

\* __flushbuf of a line buffered stream.
LEMMA LineBufferedQuiet ==
  ASSUME NEW v, Base(v), NEW p \in DOMAIN v.file, NEW c, NEW o, NEW r, r = LineBuffered(v, p, c, o)
  PROVE  Quiet(v, r.w)
<1> DEFINE f0 == v.file[p]
           f == Store(v.file[p], c)
           g == [f EXCEPT !.ptr = 0, !.count = 0]
           k == SetFile(v, p, g)
           s == ToEnd(k, f)
           t == DoWrite(s.w, f.fd, SubSeq(f.data, 1, -f.count), o)
           kept == SetFile(v, p, f)
<1>1. \/ r = Reply(kept, c) \/ r = Fail(k, p) \/ r = Reply(t.w, c) \/ r = Fail(t.w, p)
  BY DEF LineBuffered
<1>2. IsFile(f0) /\ Opened(v, f0.fd)
  BY FileOpened
<1>3. Alike(f0, f)
  BY <1>2, StoreAlike
<1> HIDE DEF f
<1>4. IsFile(f) /\ f.fd = f0.fd
  BY <1>3 DEF Alike
<1>5. Alike(f, g)
  BY <1>4, Varied
<1> HIDE DEF g
<1>6. Alike(f0, g)
  BY <1>3, <1>5, AlikeThen
<1>7. Quiet(v, kept)
  BY <1>3, SetFileQuiet
<1>8. Quiet(v, k) /\ Base(k) /\ p \in DOMAIN k.file
  BY <1>6, QuietSelf, PutBack
<1>9. Opened(k, f.fd)
  BY <1>2, <1>4, <1>8, StaysOpen
<1> HIDE DEF k, kept
<1>10. Quiet(k, s.w)
  BY <1>8, <1>9, ToEndQuiet DEF Sys
<1>11. Opened(s.w, f.fd) /\ Base(s.w)
  BY <1>9, <1>10, StaysOpen DEF Quiet
<1> HIDE DEF s
<1>12. Quiet(s.w, t.w)
  BY <1>11, DoWriteQuiet DEF Sys
<1> HIDE DEF t
<1>13. Quiet(v, t.w)
  BY <1>8, <1>10, <1>12, QuietThen
<1>14. Base(t.w) /\ p \in DOMAIN t.w.file
  BY <1>13 DEF Quiet
<1>15. Quiet(v, Fail(k, p).w) /\ Quiet(v, Fail(t.w, p).w)
  BY <1>8, <1>13, <1>14, FailQuiet, QuietThen
<1> QED
  BY <1>1, <1>7, <1>13, <1>15 DEF Reply

\* __flushbuf of a fully buffered stream.
LEMMA FullyBufferedQuiet ==
  ASSUME NEW v, Base(v), NEW p \in DOMAIN v.file, NEW c, NEW o, NEW r, r = FullyBuffered(v, p, c, o)
  PROVE  Quiet(v, r.w)
<1> DEFINE f == v.file[p]
           b == SubSeq(f.data, 1, f.ptr)
           g == Afresh(f, c)
           h == [g EXCEPT !.data = f.data]
           s == ToEnd(v, f)
           t == DoWrite(s.w, f.fd, b, o)
           k1 == SetFile(v, p, g)
           k2 == SetFile(v, p, h)
           k3 == SetFile(t.w, p, g)
<1>1. r = Reply(k1, c) \/ r = Fail(k2, p) \/ r = Reply(k3, c) \/ r = Fail(k3, p)
  BY DEF FullyBuffered
<1>2. IsFile(f) /\ Opened(v, f.fd)
  BY FileOpened
<1>3. Quiet(v, t.w)
  <2>1. Quiet(v, s.w)
    BY <1>2, ToEndQuiet DEF Sys
  <2>2. Opened(s.w, f.fd) /\ Base(s.w)
    BY <1>2, <2>1, StaysOpen DEF Quiet
  <2> HIDE DEF s
  <2>3. Quiet(s.w, t.w)
    BY <2>2, DoWriteQuiet DEF Sys
  <2> QED BY <2>1, <2>3, QuietThen
<1> HIDE DEF t
<1>4. Alike(f, g)
  <2> DEFINE n == f.bufsiz - 1
             d == Overlay(f.data, 0, <<c>>)
  <2>1. g = [f EXCEPT !.count = n, !.ptr = 1, !.data = d]
    BY DEF Afresh
  <2> HIDE DEF f, g, n, d
  <2> QED BY <1>2, <2>1, VariedAll
<1> HIDE DEF g
<1>5. Alike(g, h)
  <2>1. IsFile(g)
    BY <1>4 DEF Alike
  <2> QED BY <2>1, Varied
<1> HIDE DEF h
<1>6. Alike(f, h)
  BY <1>4, <1>5, AlikeThen
<1>7. Quiet(v, k1)
  BY <1>4, SetFileQuiet
<1>8. Quiet(v, k2) /\ Base(k2) /\ p \in DOMAIN k2.file
  BY <1>6, QuietSelf, PutBack
<1>9. Quiet(v, k3) /\ Base(k3) /\ p \in DOMAIN k3.file
  BY <1>3, <1>4, PutBack
<1> HIDE DEF k1, k2, k3
<1>10. Quiet(v, Fail(k2, p).w) /\ Quiet(v, Fail(k3, p).w)
  BY <1>8, <1>9, FailQuiet, QuietThen
<1> QED
  BY <1>1, <1>7, <1>9, <1>10 DEF Reply

\* __flushbuf, when the stream has its buffer or cannot have one.
LEMMA PutInBufferQuiet ==
  ASSUME NEW v, Base(v), NEW p \in DOMAIN v.file, NEW f, NEW c, NEW o,
         NEW r, r = PutInBuffer(v, f, p, c, o)
  PROVE  Quiet(v, r.w)
<1> DEFINE g    == v.file[p]
           gotb == f.buf = Null /\ g.buf # Null
           line == Flagged(f, "LBF") \/ (gotb /\ v.fds[f.fd].name = Terminal /\ p = Stdout)
           g1   == IF line THEN Raise(g, "LBF") ELSE g
           n    == IF line THEN -1 ELSE Bufsiz - 1
           g2   == [g1 EXCEPT !.count = n]
           l    == IF ~gotb THEN v ELSE SetFile(v, p, g2)
<1>1. r = Unbuffered(l, p, c, o) \/ r = LineBuffered(l, p, c, o) \/ r = FullyBuffered(l, p, c, o)
  BY DEF PutInBuffer, With
<1>2. IsFile(g)
  BY FileOpened
<1>3. Alike(g, Raise(g, "LBF"))
  BY <1>2, Raised
<1>4. Alike(g, g1)
  BY <1>2, <1>3, AlikeSelf
<1> HIDE DEF g1, n
<1>5. Alike(g1, g2)
  <2>1. IsFile(g1)
    BY <1>4 DEF Alike
  <2> QED BY <2>1, Varied
<1> HIDE DEF g2
<1>6. Alike(g, g2)
  BY <1>4, <1>5, AlikeThen
<1>7. Quiet(v, SetFile(v, p, g2))
  BY <1>6, SetFileQuiet
<1>8. Quiet(v, l)
  BY <1>7, QuietSelf
<1> HIDE DEF l
<1>9. Base(l) /\ p \in DOMAIN l.file
  BY <1>8 DEF Quiet
<1>10. Quiet(l, r.w)
  BY <1>1, <1>9, UnbufferedQuiet, LineBufferedQuiet, FullyBufferedQuiet
<1> QED
  BY <1>8, <1>10, QuietThen

\* __exit_cleanup is set.
LEMMA CleanupSet ==
  ASSUME NEW v, Base(v), NEW x, NEW u, u = [v EXCEPT !.cleanup = x]
  PROVE  Sys(v, u)
<1>1. IsWorld(v)
  BY DEF Base
<1>2. u = [heap |-> v.heap, disk |-> v.disk, typed |-> v.typed, fds |-> v.fds,
           file |-> v.file, tab |-> v.tab, cleanup |-> x]
  BY <1>1 DEF IsWorld
<1>3. IsWorld(u) /\ u.heap = v.heap /\ u.tab = v.tab /\ u.fds = v.fds /\ u.file = v.file
  BY ONLY <1>2 DEF IsWorld
<1>4. Base(u)
  BY <1>3 DEF Base
<1> QED
  BY <1>3, <1>4 DEF Sys, Quiet, Alike, Base

\* __flushbuf
LEMMA FlushbufKept ==
  ASSUME NEW v, NEW X, Sound(v, X), NEW p \in DOMAIN v.file, NEW c, NEW o,
         NEW s, s = Flushbuf(v, p, c, o)
  PROVE  Kept(v, s.w, X)
<1> DEFINE k  == [v EXCEPT !.cleanup = TRUE]
           f  == v.file[p]
           g1 == Drop(f, {"READING"})
           g  == Raise(g1, "WRITING")
           k1 == SetFile(k, p, g)
           k2 == GetBuffer(k1, p)
<1>1. s = Reply(k, c) \/ s = Reply(k, EOF) \/ s = PutInBuffer(k2, f, p, c, o)
  BY DEF Flushbuf, With
<1>2. Base(v) /\ IsFile(f)
  BY FileOpened, SoundOwns
<1>3. Alike(f, g1)
  BY <1>2, Dropped
<1> HIDE DEF g1
<1>4. Alike(g1, g)
  <2>1. IsFile(g1)
    BY <1>3 DEF Alike
  <2> QED BY <2>1, Raised
<1> HIDE DEF g
<1>5. Alike(f, g)
  BY <1>3, <1>4, AlikeThen
<1>6. Quiet(v, k)
  BY <1>2, CleanupSet DEF Sys
<1> HIDE DEF k
<1>7. Quiet(v, k1)
  BY <1>2, <1>5, <1>6, PutBack
<1>8. Kept(v, k, X) /\ Kept(v, k1, X) /\ Sound(k1, X) /\ p \in DOMAIN k1.file
  BY <1>6, <1>7, QuietKept DEF Quiet
<1> HIDE DEF k1
<1>9. Kept(k1, k2, X)
  BY <1>8, GetBufferKept
<1>10. Sound(k2, X) /\ p \in DOMAIN k2.file
  BY <1>8, <1>9, KeptStream
<1> HIDE DEF k2
<1>11. Quiet(k2, PutInBuffer(k2, f, p, c, o).w)
  BY <1>10, SoundOwns, PutInBufferQuiet
<1>12. Kept(v, PutInBuffer(k2, f, p, c, o).w, X)
  BY <1>8, <1>9, <1>10, <1>11, QuietKept, KeptThen
<1> QED
  BY <1>1, <1>8, <1>12 DEF Reply

\* getc
LEMMA GetcKept ==
  ASSUME NEW v, NEW X, Sound(v, X), NEW p \in DOMAIN v.file, NEW o, NEW s, s = Getc(v, p, o)
  PROVE  Kept(v, s.w, X)
<1> DEFINE f  == v.file[p]
           n  == f.count - 1
           m  == f.ptr + 1
           g  == [f EXCEPT !.count = n, !.ptr = m]
           h  == [f EXCEPT !.count = n]
           k1 == SetFile(v, p, g)
           k2 == SetFile(v, p, h)
<1>1. s = Reply(k1, f.data[m]) \/ s = Fillbuf(k2, p, o)
  BY DEF Getc, With
<1>2. IsFile(f)
  BY FileOpened, SoundOwns
<1> HIDE DEF n, m
<1>3. Alike(f, g) /\ Alike(f, h)
  BY <1>2, Varied
<1> HIDE DEF g, h
<1>4. Kept(v, k1, X) /\ Kept(v, k2, X) /\ Sound(k2, X) /\ p \in DOMAIN k2.file
  BY <1>3, SetKept
<1> HIDE DEF k1, k2
<1>5. Kept(v, Fillbuf(k2, p, o).w, X)
  BY <1>4, FillbufKept, KeptThen
<1> QED
  BY <1>1, <1>4, <1>5 DEF Reply

\* putc
LEMMA PutcKept ==
  ASSUME NEW v, NEW X, Sound(v, X), NEW p \in DOMAIN v.file, NEW c, NEW o,
         NEW s, s = Putc(v, p, c, o)
  PROVE  Kept(v, s.w, X)
<1> DEFINE f0 == v.file[p]
           n  == f0.count - 1
           f  == [f0 EXCEPT !.count = n]
           g  == Store(f, c)
           k1 == SetFile(v, p, g)
           k2 == SetFile(v, p, f)
<1>1. s = Reply(k1, c) \/ s = Flushbuf(k2, p, c, o)
  BY DEF Putc, With
<1>2. IsFile(f0)
  BY FileOpened, SoundOwns
<1> HIDE DEF n
<1>3. Alike(f0, f)
  BY <1>2, Varied
<1> HIDE DEF f
<1>4. Alike(f, g)
  <2>1. IsFile(f)
    BY <1>3 DEF Alike
  <2> QED BY <2>1, StoreAlike
<1> HIDE DEF g
<1>5. Alike(f0, g)
  BY <1>3, <1>4, AlikeThen
<1>6. Kept(v, k1, X) /\ Kept(v, k2, X) /\ Sound(k2, X) /\ p \in DOMAIN k2.file
  BY <1>3, <1>5, SetKept
<1> HIDE DEF k1, k2
<1>7. Kept(v, Flushbuf(k2, p, c, o).w, X)
  BY <1>6, FlushbufKept, KeptThen
<1> QED
  BY <1>1, <1>6, <1>7 DEF Reply

\* ungetc
LEMMA UngetcKept ==
  ASSUME NEW v, NEW X, Sound(v, X), NEW p \in DOMAIN v.file, NEW c, NEW s, s = Ungetc(v, p, c)
  PROVE  Kept(v, s.w, X)
<1> DEFINE f  == v.file[p]
           at == IF f.ptr = 0 THEN 1 ELSE f.ptr
           d  == Overlay(f.data, at - 1, <<c>>)
           m  == at - 1
           n  == f.count + 1
           g  == [f EXCEPT !.data = d, !.ptr = m, !.count = n]
           k  == SetFile(v, p, g)
<1>1. s = Reply(v, EOF) \/ s = Reply(k, c)
  BY DEF Ungetc
<1>2. IsFile(f)
  BY FileOpened, SoundOwns
<1> HIDE DEF d, m, n
<1>3. Alike(f, g)
  <2>1. g = [f EXCEPT !.data = d, !.ptr = m, !.count = n]
    OBVIOUS
  <2> HIDE DEF f, g
  <2> QED BY <1>2, <2>1, VariedAll
<1> HIDE DEF g
<1>4. Kept(v, k, X)
  BY <1>3, SetKept
<1> QED
  BY <1>1, <1>4, KeptSelf DEF Reply

-----------------------------------------------------------------------------

\* Reading goes byte by byte.
LEMMA GatheringDef ==
  ASSUME NEW v, NEW p, NEW N \in Nat, NEW stop, NEW o, NEW a, a = Gathering(v, p, N, stop, o)
  PROVE  /\ a[0] = [w |-> v, r |-> 0, s |-> <<>>]
         /\ \A i \in 1 .. N : a[i] = GatherOne(a[i - 1], p, stop, o)
<1> DEFINE zero == [w |-> v, r |-> 0, s |-> <<>>]
           Def(n, g) == g = [i \in 0 .. n |-> IF i = 0 THEN zero ELSE GatherOne(g[i - 1], p, stop, o)]
           DefW(n, g) == g = [i \in 0 .. n |->
                          IF i = 0 THEN zero ELSE With(g[i - 1], LAMBDA k : GatherOne(k, p, stop, o))]
           G == {n \in Nat : \E g : Def(n, g)}
<1>0. a = CHOOSE h : DefW(N, h)
  BY DEF Gathering
<1> HIDE DEF zero
<1>1. Def(0, [i \in 0 .. 0 |-> zero])
  OBVIOUS
<1>2. ASSUME NEW n \in Nat \ {0}, n - 1 \in G PROVE n \in G
  <2>1. PICK g : Def(n - 1, g)
    BY <1>2
  <2> DEFINE h == [i \in 0 .. n |-> IF i = n THEN GatherOne(g[n - 1], p, stop, o) ELSE g[i]]
  <2>2. \A i \in 0 .. n : h[i] = IF i = 0 THEN zero ELSE GatherOne(h[i - 1], p, stop, o)
    BY <2>1
  <2>3. Def(n, h)
    BY <2>2
  <2> QED
    BY <2>3
<1>4. 0 \in G
  BY <1>1
<1>5. N \in G
  <2> HIDE DEF G
  <2> QED BY <1>2, <1>4, UpTo
<1>6. PICK g : Def(N, g)
  BY <1>5
<1>7. \A x : With(x, LAMBDA k : GatherOne(k, p, stop, o)) = GatherOne(x, p, stop, o)
  BY DEF With
<1>8. \A h : Def(N, h) <=> DefW(N, h)
  BY <1>7, Zenon
<1>9. DefW(N, g)
  BY <1>6, <1>8
<1>11. DefW(N, CHOOSE h : DefW(N, h))
  BY <1>9, Zenon
<1> HIDE DEF DefW
<1>12. DefW(N, a)
  BY <1>0, <1>11
<1>13. Def(N, a)
  BY <1>8, <1>12, Zenon
<1>14. a[0] = zero /\ \A i \in 1 .. N : a[i] = GatherOne(a[i - 1], p, stop, o)
  BY <1>13
<1> QED
  BY <1>14 DEF zero

\* Reading of any number of bytes.
LEMMA GatherKept ==
  ASSUME NEW v, NEW X, Sound(v, X), NEW p \in DOMAIN v.file, NEW N \in Nat, NEW stop, NEW o,
         NEW s, s = Gather(v, p, N, stop, o)
  PROVE  Kept(v, s.w, X)
<1> DEFINE a == Gathering(v, p, N, stop, o)
           G == {i \in 0 .. N : Kept(v, a[i].w, X)}
<1>1. a[0].w = v /\ \A i \in 1 .. N : a[i] = GatherOne(a[i - 1], p, stop, o)
  <2>1. a[0] = [w |-> v, r |-> 0, s |-> <<>>] /\ \A i \in 1 .. N : a[i] = GatherOne(a[i - 1], p, stop, o)
    BY GatheringDef
  <2> QED BY <2>1
<1> HIDE DEF a
<1>2. 0 \in G
  BY <1>1, KeptSelf
<1>3. ASSUME NEW i \in 1 .. N, i - 1 \in G PROVE i \in G
  <2> DEFINE k == a[i - 1]
             g == Getc(k.w, p, o)
  <2>1. Kept(v, k.w, X) /\ i \in 0 .. N
    BY <1>3
  <2>2. Sound(k.w, X) /\ p \in DOMAIN k.w.file
    BY <2>1, KeptStream
  <2>3. a[i] = GatherOne(k, p, stop, o)
    BY <1>1
  <2> HIDE DEF k
  <2> DEFINE new == [w |-> g.w, r |-> g.r, s |-> IF g.r = EOF THEN k.s ELSE Append(k.s, g.r)]
  <2>4. a[i] = k \/ a[i] = new
    BY <2>3 DEF GatherOne, With
  <2>6. new.w = g.w
    OBVIOUS
  <2> HIDE DEF new, g
  <2>5. Kept(k.w, g.w, X)
    BY <2>2, GetcKept DEF g
  <2> QED BY <2>1, <2>4, <2>5, <2>6, KeptThen
<1>4. 0 .. N \subseteq G
  <2> HIDE DEF G
  <2> QED BY <1>2, <1>3, UpTo
<1>5. Kept(v, a[N].w, X)
  BY <1>4
<1> QED
  BY <1>5 DEF Gather, a

\* Writing goes byte by byte.
LEMMA PuttingDef ==
  ASSUME NEW v, NEW p, NEW s, NEW N \in Nat, N = Len(s), NEW o, NEW a, a = Putting(v, p, s, o)
  PROVE  /\ a[0] = [w |-> v, n |-> 0, r |-> 0]
         /\ \A i \in 1 .. N : a[i] = PutOne(a[i - 1], p, s[i], o)
<1> DEFINE zero == [w |-> v, n |-> 0, r |-> 0]
           Def(n, g) == g = [i \in 0 .. n |-> IF i = 0 THEN zero ELSE PutOne(g[i - 1], p, s[i], o)]
           DefW(n, g) == g = [i \in 0 .. n |->
                          IF i = 0 THEN zero ELSE With(g[i - 1], LAMBDA k : PutOne(k, p, s[i], o))]
           G == {n \in Nat : \E g : Def(n, g)}
<1>0. a = CHOOSE h : DefW(N, h)
  BY DEF Putting
<1> HIDE DEF zero
<1>1. Def(0, [i \in 0 .. 0 |-> zero])
  OBVIOUS
<1>2. ASSUME NEW n \in Nat \ {0}, n - 1 \in G PROVE n \in G
  <2>1. PICK g : Def(n - 1, g)
    BY <1>2
  <2> DEFINE h == [i \in 0 .. n |-> IF i = n THEN PutOne(g[n - 1], p, s[n], o) ELSE g[i]]
  <2>2. \A i \in 0 .. n : h[i] = IF i = 0 THEN zero ELSE PutOne(h[i - 1], p, s[i], o)
    BY <2>1
  <2>3. Def(n, h)
    BY <2>2
  <2> QED
    BY <2>3
<1>4. 0 \in G
  BY <1>1
<1>5. N \in G
  <2> HIDE DEF G
  <2> QED BY <1>2, <1>4, UpTo
<1>6. PICK g : Def(N, g)
  BY <1>5
<1>7. \A x, c : With(x, LAMBDA k : PutOne(k, p, c, o)) = PutOne(x, p, c, o)
  BY DEF With
<1>8. ASSUME NEW h PROVE Def(N, h) <=> DefW(N, h)
  <2>1. \A i \in 0 .. N : (IF i = 0 THEN zero ELSE With(h[i - 1], LAMBDA k : PutOne(k, p, s[i], o)))
                         = (IF i = 0 THEN zero ELSE PutOne(h[i - 1], p, s[i], o))
    BY <1>7, Zenon
  <2> QED BY <2>1, Zenon
<1>9. DefW(N, g)
  BY <1>6, <1>8
<1>11. DefW(N, CHOOSE h : DefW(N, h))
  BY <1>9, Zenon
<1> HIDE DEF DefW
<1>12. DefW(N, a)
  BY <1>0, <1>11
<1>13. Def(N, a)
  BY <1>8, <1>12, Zenon
<1>14. a[0] = zero /\ \A i \in 1 .. N : a[i] = PutOne(a[i - 1], p, s[i], o)
  BY <1>13
<1> QED
  BY <1>14 DEF zero

\* Writing of any number of bytes.
LEMMA PutAllKept ==
  ASSUME NEW v, NEW X, Sound(v, X), NEW p \in DOMAIN v.file, NEW s \in Seq(Int), NEW o,
         NEW k, k = PutAll(v, p, s, o)
  PROVE  Kept(v, k.w, X)
<1> DEFINE N == Len(s)
           a == Putting(v, p, s, o)
           G == {i \in 0 .. N : Kept(v, a[i].w, X)}
<1>0. N \in Nat /\ N = Len(s)
  OBVIOUS
<1>6. k = a[N]
  BY DEF PutAll
<1> HIDE DEF N
<1>1. a[0].w = v /\ \A i \in 1 .. N : a[i] = PutOne(a[i - 1], p, s[i], o)
  <2>1. a[0] = [w |-> v, n |-> 0, r |-> 0] /\ \A i \in 1 .. N : a[i] = PutOne(a[i - 1], p, s[i], o)
    BY <1>0, PuttingDef
  <2> QED BY <2>1
<1> HIDE DEF a
<1>2. 0 \in G
  BY <1>0, <1>1, KeptSelf
<1>3. ASSUME NEW i \in 1 .. N, i - 1 \in G PROVE i \in G
  <2> DEFINE h == a[i - 1]
             c == s[i]
             g == Putc(h.w, p, c, o)
  <2>1. Kept(v, h.w, X) /\ i \in 0 .. N
    BY <1>0, <1>3
  <2>2. Sound(h.w, X) /\ p \in DOMAIN h.w.file
    BY <2>1, KeptStream
  <2>3. a[i] = PutOne(h, p, c, o)
    BY <1>1
  <2> HIDE DEF h, c
  <2> DEFINE new == [w |-> g.w, r |-> g.r, n |-> IF g.r = EOF THEN h.n ELSE h.n + 1]
  <2>4. a[i] = h \/ a[i] = new
    BY <2>3 DEF PutOne, With
  <2>6. new.w = g.w
    OBVIOUS
  <2> HIDE DEF new, g
  <2>5. Kept(h.w, g.w, X)
    BY <2>2, PutcKept DEF g
  <2> QED BY <2>1, <2>4, <2>5, <2>6, KeptThen
<1>4. 0 .. N \subseteq G
  <2> HIDE DEF G
  <2> QED BY <1>0, <1>2, <1>3, UpTo
<1>5. Kept(v, a[N].w, X)
  BY <1>0, <1>4
<1> QED
  BY <1>5, <1>6

-----------------------------------------------------------------------------

\* fseek (fseek.c)
LEMMA FseekQuiet ==
  ASSUME NEW v, Base(v), NEW p \in DOMAIN v.file, NEW offset, NEW whence, NEW o,
         NEW r, r = Fseek(v, p, offset, whence, o)
  PROVE  Quiet(v, r.w)
<1> DEFINE f0 == v.file[p]
           f  == Drop(v.file[p], {"EOF", "ERR"})
           adjust == IF Flagged(f, "READING") /\ whence = "CUR" /\ f.buf # Null /\ ~Flagged(f, "NBF")
                     THEN f.count ELSE 0
           f1 == [f EXCEPT !.count = 0]
           k1 == SetFile(v, p, f1)
           k2 == SetFile(v, p, f)
           k3 == Fflush(k2, p, o).w
           k  == CASE Flagged(f, "READING") -> k1
                   [] ~Flagged(f, "READING") /\ Flagged(f, "WRITING") -> k3
                   [] OTHER -> k2
           to == offset - adjust
           s  == Lseek(k, f.fd, to, whence)
           g  == s.w.file[p]
           g1 == IF Update(g) THEN Drop(g, {"READING", "WRITING"}) ELSE g
           g2 == [g1 EXCEPT !.ptr = 0]
<1>1. r.w = SetFile(s.w, p, g2)
  BY DEF Fseek, Reply
<1>2. IsFile(f0) /\ Opened(v, f0.fd)
  BY FileOpened
<1>3. Alike(f0, f)
  BY <1>2, Dropped
<1>4. k = k1 \/ k = k2 \/ k = k3
  OBVIOUS
<1> HIDE DEF f, k, to
<1>5. IsFile(f) /\ f.fd = f0.fd
  BY <1>3 DEF Alike
<1>6. Alike(f, f1)
  BY <1>5, Varied
<1> HIDE DEF f1
<1>7. Alike(f0, f1)
  BY <1>3, <1>6, AlikeThen
<1>8. Quiet(v, k1)
  BY <1>7, SetFileQuiet
<1>9. Quiet(v, k2) /\ Base(k2) /\ p \in DOMAIN k2.file
  BY <1>3, QuietSelf, PutBack
<1> HIDE DEF k1, k2
<1>10. Quiet(v, k3)
  BY <1>9, FflushQuiet, QuietThen
<1> HIDE DEF k3
<1>11. Quiet(v, k)
  BY <1>4, <1>8, <1>9, <1>10
<1>12. Base(k) /\ Opened(k, f.fd)
  BY <1>2, <1>5, <1>11, StaysOpen DEF Quiet
<1>13. Quiet(k, s.w)
  BY <1>12, LseekQuiet DEF Sys
<1> HIDE DEF s
<1>14. Quiet(v, s.w)
  BY <1>11, <1>13, QuietThen
<1>15. Base(s.w) /\ p \in DOMAIN s.w.file
  BY <1>14 DEF Quiet
<1>16. IsFile(g)
  BY <1>15, FileOpened
<1> HIDE DEF g
<1>17. Alike(g, g1)
  <2>1. Alike(g, Drop(g, {"READING", "WRITING"}))
    BY <1>16, Dropped
  <2> QED BY <1>16, <2>1, AlikeSelf
<1> HIDE DEF g1
<1>18. Alike(g1, g2)
  <2>1. IsFile(g1)
    BY <1>17 DEF Alike
  <2> QED BY <2>1, Varied
<1> HIDE DEF g2
<1>19. Alike(g, g2)
  BY <1>17, <1>18, AlikeThen
<1>20. Quiet(s.w, r.w)
  BY <1>1, <1>15, <1>19, SetFileQuiet DEF g
<1> QED
  BY <1>14, <1>20, QuietThen

\* rewind
LEMMA RewindQuiet ==
  ASSUME NEW v, Base(v), NEW p \in DOMAIN v.file, NEW o, NEW r, r = Rewind(v, p, o)
  PROVE  Quiet(v, r.w)
<1> DEFINE k == Fseek(v, p, 0, "SET", o).w
           f == k.file[p]
           g == Drop(f, {"ERR", "EOF"})
<1>1. r.w = SetFile(k, p, g)
  BY DEF Rewind, Reply
<1>2. Quiet(v, k)
  BY FseekQuiet
<1> HIDE DEF k
<1>3. Base(k) /\ p \in DOMAIN k.file
  BY <1>2 DEF Quiet
<1>4. Alike(f, g)
  BY <1>3, FileOpened, Dropped
<1> HIDE DEF g
<1>5. Quiet(k, r.w)
  BY <1>1, <1>3, <1>4, SetFileQuiet
<1> QED
  BY <1>2, <1>5, QuietThen

-----------------------------------------------------------------------------

\* free, where the classes of the regions do not matter.
LEMMA FreedOK ==
  ASSUME NEW h, HeapOK(h), NEW p \in InUse(h), NEW k, k = MemFree(h, p)
  PROVE  HeapOK(k) /\ InUse(k) = InUse(h) \ {p}
  BY MemFreeOK DEF HeapOK

Chosen(g, b, n, d, fl) ==
    [g EXCEPT !.buf = b, !.count = 0, !.ptr = 0, !.bufsiz = n, !.data = d, !.flags = fl]

\* The FILE with the buffer that was chosen.
LEMMA ChosenFile ==
  ASSUME NEW g, IsFile(g), NEW b, NEW n, NEW d, NEW fl, NEW f, f = Chosen(g, b, n, d, fl)
  PROVE  IsFile(f) /\ f.fd = g.fd /\ f.flags = fl /\ f.buf = b
<1>1. f = [count |-> 0, fd |-> g.fd, flags |-> fl, bufsiz |-> n, buf |-> b, ptr |-> 0, data |-> d]
  BY DEF IsFile, Chosen
<1> QED BY ONLY <1>1 DEF IsFile

Renewed(k, h, p, f) == [k EXCEPT !.cleanup = TRUE, !.heap = h, !.file[p] = f]

\* The world with another heap and another FILE.
LEMMA NewWorld ==
  ASSUME NEW k, IsWorld(k), NEW h, NEW p, NEW f, NEW u, u = Renewed(k, h, p, f)
  PROVE  IsWorld(u) /\ u.heap = h /\ u.tab = k.tab /\ u.fds = k.fds /\ u.file = Replaced(k.file, p, f)
<1> DEFINE fs == [k.file EXCEPT ![p] = f]
<1>1. u = [k EXCEPT !.cleanup = TRUE, !.heap = h, !.file = fs]
  BY DEF IsWorld, Renewed
<1> HIDE DEF fs
<1>2. u = [heap |-> h, disk |-> k.disk, typed |-> k.typed, fds |-> k.fds, file |-> fs,
           tab |-> k.tab, cleanup |-> TRUE]
  BY <1>1 DEF IsWorld
<1>3. IsWorld(u) /\ u.heap = h /\ u.tab = k.tab /\ u.fds = k.fds /\ u.file = fs
  BY ONLY <1>2 DEF IsWorld
<1> QED BY <1>3 DEF fs, Replaced

\* setvbuf (setvbuf.c): the old buffer goes if it is the library's.
LEMMA SetvbufKept ==
  ASSUME NEW v, NEW X, Sound(v, X), NEW p \in DOMAIN v.file, NEW buf, NEW mode, mode # "MYBUF",
         NEW size \in Nat, NEW s, s = Setvbuf(v, p, buf, mode, size)
  PROVE  Kept(v, s.w, X)
<1> DEFINE f    == v.file[p]
           mine == Flagged(f, "MYBUF")
           k    == IF mine THEN [v EXCEPT !.heap = MemFree(@, f.buf)] ELSE v
           g    == Drop(f, {"MYBUF", "NBF", "LBF"})
           m    == Malloc(k.heap, size)
           want == buf = Null /\ mode # "NBF" /\ size > 0
           gotm == want /\ m.ptr # Null
           b    == IF gotm THEN m.ptr ELSE buf
           n    == IF b = Null THEN 1 ELSE size
           g1   == IF gotm THEN Raise(g, "MYBUF") ELSE g
           kind == IF mode = "FBF" THEN {} ELSE {mode}
           zeros == [i \in 1 .. n |-> 0]
           h    == IF gotm THEN m.heap ELSE k.heap
           fl   == g1.flags \cup kind
           f1   == [g1 EXCEPT !.buf = b, !.count = 0, !.ptr = 0, !.bufsiz = n, !.data = zeros,
                              !.flags = fl]
           u    == s.w
           old  == {v.file[q].buf : q \in Bufs(v) \cap {p}}
<1>0. Sound(v, X) /\ p \in DOMAIN v.file
  OBVIOUS
<1>1. u = Renewed(k, h, p, f1)
  BY DEF Setvbuf, Reply, Renewed
<1>2. Base(v) /\ HeapOK(v.heap) /\ IsFile(f) /\ IsWorld(v)
  BY SoundOwns, FileOpened DEF Base
<1>3. mine <=> p \in Bufs(v)
  BY DEF Bufs, Flagged
<1>4. old = {x \in {f.buf} : mine}
  BY <1>3
<1>5. mine => f.buf \in InUse(v.heap)
  BY <1>3, SoundOwns
<1>6. /\ k.heap = IF mine THEN MemFree(v.heap, f.buf) ELSE v.heap
      /\ k.disk = v.disk /\ k.typed = v.typed /\ k.fds = v.fds /\ k.file = v.file /\ k.tab = v.tab
      /\ IsWorld(k)
  <2> DEFINE hh == MemFree(v.heap, f.buf)
  <2>1. CASE mine
    <3>1. k = [v EXCEPT !.heap = hh]
      BY <2>1
    <3> HIDE DEF hh, k, mine
    <3>2. k = [heap |-> hh, disk |-> v.disk, typed |-> v.typed, fds |-> v.fds,
               file |-> v.file, tab |-> v.tab, cleanup |-> v.cleanup]
      BY <1>2, <3>1 DEF IsWorld
    <3>3. /\ k.heap = hh /\ IsWorld(k)
          /\ k.disk = v.disk /\ k.typed = v.typed /\ k.fds = v.fds /\ k.file = v.file /\ k.tab = v.tab
      BY ONLY <3>2 DEF IsWorld
    <3> QED BY <2>1, <3>3 DEF hh
  <2>2. CASE ~mine
    <3>1. k = v
      BY <2>2
    <3> HIDE DEF k, mine
    <3> QED BY <1>2, <2>2, <3>1
  <2> QED BY <2>1, <2>2
<1>7. HeapOK(k.heap) /\ InUse(k.heap) = InUse(v.heap) \ old
  <2>1. CASE mine
    <3>1. k.heap = MemFree(v.heap, f.buf)
      BY <1>6, <2>1
    <3>2. old = {f.buf}
      BY <1>4, <2>1
    <3> HIDE DEF k, mine, old
    <3> QED BY <1>2, <1>5, <2>1, <3>1, <3>2, FreedOK
  <2>2. CASE ~mine
    <3>1. k.heap = v.heap /\ old = {}
      BY <1>4, <1>6, <2>2
    <3> HIDE DEF k, old
    <3> QED BY <1>2, <3>1
  <2> QED BY <2>1, <2>2
<1> HIDE DEF k
<1>8. gotm => /\ m.ptr \in Int /\ HeapOK(m.heap) /\ m.ptr \notin InUse(k.heap)
              /\ InUse(m.heap) = InUse(k.heap) \cup {m.ptr}
  BY <1>7, MallocOK
<1> HIDE DEF m, zeros, n, want
<1>9. /\ HeapOK(h)
      /\ InUse(h) = InUse(k.heap) \cup {x \in {m.ptr} : gotm}
  <2>1. CASE gotm
    <3>1. h = m.heap
      BY <2>1
    <3> HIDE DEF gotm, h
    <3> QED BY <1>8, <2>1, <3>1
  <2>2. CASE ~gotm
    <3>1. h = k.heap
      BY <2>2
    <3> HIDE DEF gotm, h
    <3> QED BY <1>7, <2>2, <3>1
  <2> QED BY <2>1, <2>2
<1>10. gotm => b = m.ptr
  OBVIOUS
<1> HIDE DEF gotm, h, b
<1>11. IsFile(g) /\ g.fd = f.fd /\ "MYBUF" \notin g.flags
  <2> HIDE DEF f
  <2>1. g = [count |-> f.count, fd |-> f.fd, flags |-> f.flags \ {"MYBUF", "NBF", "LBF"},
             bufsiz |-> f.bufsiz, buf |-> f.buf, ptr |-> f.ptr, data |-> f.data]
    BY <1>2 DEF IsFile, Drop
  <2> HIDE DEF g
  <2> QED BY ONLY <2>1 DEF IsFile
<1> HIDE DEF g
<1>12. IsFile(g1) /\ g1.fd = f.fd /\ ("MYBUF" \in g1.flags <=> gotm)
  <2>1. CASE gotm
    <3>1. g1 = Raise(g, "MYBUF")
      BY <2>1
    <3> HIDE DEF g1
    <3>2. g1 = [count |-> g.count, fd |-> g.fd, flags |-> g.flags \cup {"MYBUF"},
                bufsiz |-> g.bufsiz, buf |-> g.buf, ptr |-> g.ptr, data |-> g.data]
      BY <1>11, <3>1 DEF IsFile, Raise
    <3>3. IsFile(g1) /\ g1.fd = g.fd /\ "MYBUF" \in g1.flags
      BY ONLY <3>2 DEF IsFile
    <3> QED BY <1>11, <2>1, <3>3
  <2>2. CASE ~gotm
    BY <1>11, <2>2
  <2> QED BY <2>1, <2>2
<1> HIDE DEF g1
<1>13. "MYBUF" \in fl <=> gotm
  BY <1>12
<1> HIDE DEF fl
<1>14. f1 = Chosen(g1, b, n, zeros, fl)
  BY DEF Chosen
<1> HIDE DEF f1
<1>15. IsFile(f1) /\ f1.fd = f.fd /\ f1.flags = fl /\ f1.buf = b
  BY <1>12, <1>14, ChosenFile
<1> HIDE DEF u
<1>17. IsWorld(u) /\ u.heap = h /\ u.tab = v.tab /\ u.fds = v.fds
  BY <1>1, <1>6, NewWorld
<1>18. u.file = Replaced(v.file, p, f1)
  BY <1>1, <1>6, NewWorld
<1>19. InUse(h) = (InUse(v.heap) \ old) \cup {x \in {f1.buf} : "MYBUF" \in f1.flags}
  <2> HIDE DEF old
  <2> QED BY <1>7, <1>9, <1>10, <1>13, <1>15
<1>20. "MYBUF" \in f1.flags => f1.buf \notin InUse(v.heap) \ old
  <2> HIDE DEF old
  <2> QED BY <1>7, <1>8, <1>10, <1>13, <1>15
<1>21. old = {v.file[q].buf : q \in Bufs(v) \cap {p}}
  OBVIOUS
<1> HIDE DEF old
<1>22. IsFile(f1) /\ f1.fd = v.file[p].fd /\ HeapOK(h)
  BY <1>9, <1>15
<1>23. Kept(v, u, X)
  BY ONLY <1>0, <1>17, <1>18, <1>19, <1>20, <1>21, <1>22, Rebuffered
<1> QED
  BY <1>23 DEF u

\* What a sound world says of the table and the descriptors.
LEMMA PlacesFacts ==
  ASSUME NEW v, NEW X, Sound(v, X)
  PROVE  /\ v.tab = [i \in Slots |-> v.tab[i]]
         /\ \A i \in Slots : v.tab[i] # Null => v.tab[i] \in DOMAIN v.file
         /\ \A p \in DOMAIN v.file : p \in Int /\ p # Null /\ \E i \in Slots : v.tab[i] = p
         /\ \A p \in DOMAIN v.file : p > 0 \/ p \in {Stdin, Stdout}
         /\ Stdin \in DOMAIN v.file /\ Stdout \in DOMAIN v.file
         /\ v.file[Stdin].fd = 0 /\ v.file[Stdout].fd = 1
         /\ \A i \in 0 .. 2 : v.fds[i].name # ""
         /\ \A p \in Files(v) : v.file[p].fd > 2
         /\ \A p, q \in Files(v) : v.file[p].fd = v.file[q].fd => p = q
         /\ \A i \in Descriptors : i > 2 /\ v.fds[i].name # "" => \E p \in Files(v) : v.file[p].fd = i
         /\ \A p \in DOMAIN v.file : v.file[p].fd \in Descriptors
  <1>1. Places(v) /\ Base(v)
    BY DEF Sound
  <1>2. /\ Stdin \in DOMAIN v.file /\ Stdout \in DOMAIN v.file
        /\ \A i \in Slots : v.tab[i] # Null => v.tab[i] \in DOMAIN v.file
    BY <1>1 DEF Places, Tabbed
  <1>3. \A p \in DOMAIN v.file : v.file[p].fd \in Descriptors
    BY <1>1 DEF Base
  <1> QED BY <1>1, <1>2, <1>3 DEF Places

Without(tab, p)   == [i \in Slots |-> IF tab[i] = p THEN Null ELSE tab[i]]
Removed(files, p) == [q \in DOMAIN files \ {p} |-> files[q]]
ClosedAt(fds, fd) == [fds EXCEPT ![fd] = ClosedFd]

(* A stream goes, with its descriptor, its FILE and its buffer. *)
Going(v, X, p, e, h, old, u) ==
    /\ Sound(v, X)
    /\ p \in Files(v)
    /\ Base(e) /\ DOMAIN e.file = DOMAIN v.file
    /\ \A i \in Descriptors : e.fds[i].name = v.fds[i].name
    /\ \A q \in DOMAIN v.file : Alike(v.file[q], e.file[q])
    /\ HeapOK(h)
    /\ old = {v.file[q].buf : q \in Bufs(v) \cap {p}}
    /\ InUse(h) = (InUse(v.heap) \ old) \ {p}
    /\ IsWorld(u) /\ u.heap = h /\ u.tab = Without(v.tab, p)
    /\ u.fds = ClosedAt(e.fds, e.file[p].fd) /\ u.file = Removed(e.file, p)

\* A stream goes, with its descriptor, its FILE and its buffer.
LEMMA Gone ==
  ASSUME NEW v, NEW X, NEW p, NEW e, NEW h, NEW old, NEW u, Going(v, X, p, e, h, old, u)
  PROVE  Sound(u, X)
<1> DEFINE fd == v.file[p].fd
<1>a. Sound(v, X) /\ p \in Files(v)
  BY DEF Going
<1>b. Base(e) /\ DOMAIN e.file = DOMAIN v.file
  BY DEF Going
<1>c. \A i \in Descriptors : e.fds[i].name = v.fds[i].name
  BY DEF Going
<1>d. \A q \in DOMAIN v.file : Alike(v.file[q], e.file[q])
  BY DEF Going
<1>e. HeapOK(h) /\ InUse(h) = (InUse(v.heap) \ old) \ {p} /\ u.heap = h
  BY DEF Going
<1>f. old = {v.file[q].buf : q \in Bufs(v) \cap {p}}
  BY DEF Going
<1>g. IsWorld(u) /\ u.tab = Without(v.tab, p) /\ u.fds = ClosedAt(e.fds, e.file[p].fd) /\ u.file = Removed(e.file, p)
  BY DEF Going
<1>1. Base(v) /\ Owns(v, X)
  BY <1>a DEF Sound
<1>2. /\ \A q \in DOMAIN v.file : q \in Int /\ q # Null /\ \E i \in Slots : v.tab[i] = q
      /\ \A q \in DOMAIN v.file : q > 0 \/ q \in {Stdin, Stdout}
      /\ Stdin \in DOMAIN v.file /\ Stdout \in DOMAIN v.file
      /\ v.file[Stdin].fd = 0 /\ v.file[Stdout].fd = 1
  BY <1>a, PlacesFacts
<1>3. /\ \A i \in 0 .. 2 : v.fds[i].name # ""
      /\ \A q \in Files(v) : v.file[q].fd > 2
      /\ \A a, b \in Files(v) : v.file[a].fd = v.file[b].fd => a = b
      /\ \A i \in Descriptors : i > 2 /\ v.fds[i].name # "" => \E q \in Files(v) : v.file[q].fd = i
      /\ \A q \in DOMAIN v.file : v.file[q].fd \in Descriptors
  BY <1>a, PlacesFacts
<1>4. p \in DOMAIN v.file /\ p > 0 /\ p # Stdin /\ p # Stdout /\ fd \in Descriptors /\ fd > 2
  <2>1. p \in DOMAIN v.file /\ p > 0
    BY <1>a DEF Files
  <2>2. p \in Int
    BY <1>2, <2>1
  <2>3. p # Stdin /\ p # Stdout
    BY ONLY <2>1, <2>2 DEF Stdin, Stdout
  <2>4. fd > 2
    BY ONLY <1>3, <1>a
  <2>5. fd \in Descriptors
    BY ONLY <1>3, <2>1
  <2> QED BY <2>1, <2>3, <2>4, <2>5
<1>5. ASSUME NEW q \in DOMAIN v.file
      PROVE  /\ e.file[q].fd = v.file[q].fd
             /\ "MYBUF" \in e.file[q].flags <=> "MYBUF" \in v.file[q].flags
             /\ "MYBUF" \in v.file[q].flags => e.file[q].buf = v.file[q].buf
             /\ IsFile(e.file[q])
  <2>1. Alike(v.file[q], e.file[q])
    BY ONLY <1>d, q \in DOMAIN v.file
  <2> QED BY ONLY <2>1 DEF Alike
<1> HIDE DEF fd
<1>5a. e.file[p].fd = fd /\ v.file[p].fd = fd
  BY <1>4, <1>5 DEF fd
<1>6. /\ DOMAIN u.file = DOMAIN v.file \ {p}
      /\ \A q \in DOMAIN v.file \ {p} : u.file[q] = e.file[q]
      /\ u.file = [q \in DOMAIN u.file |-> u.file[q]]
  BY <1>b, <1>g DEF Removed
<1>7. AreFds(e.fds)
  BY <1>b DEF Base
<1>8. /\ u.fds = [i \in Descriptors |-> u.fds[i]]
      /\ u.fds[fd] = ClosedFd
      /\ \A i \in Descriptors : i # fd => u.fds[i] = e.fds[i]
  <2>1. u.fds = [e.fds EXCEPT ![fd] = ClosedFd]
    BY <1>5a, <1>g DEF ClosedAt
  <2>2. e.fds = [i \in Descriptors |-> e.fds[i]]
    BY <1>7 DEF AreFds
  <2> QED BY ONLY <1>4, <2>1, <2>2
<1>9. ClosedFd.name = "" /\ ClosedFd = [name |-> ClosedFd.name, pos |-> ClosedFd.pos]
  BY DEF ClosedFd
<1>10. AreFds(u.fds)
  BY <1>7, <1>8, <1>9 DEF AreFds
<1>11. ASSUME NEW q \in DOMAIN v.file \ {p} PROVE v.file[q].fd # fd
  <2>1. CASE q > 0
    <3>1. q \in Files(v) /\ q # p
      BY ONLY <2>1, q \in DOMAIN v.file \ {p} DEF Files
    <3> QED BY ONLY <1>3, <1>5a, <1>a, <3>1
  <2>2. CASE q \in {Stdin, Stdout}
    <3>1. v.file[q].fd = 0 \/ v.file[q].fd = 1
      BY ONLY <1>2, <2>2
    <3> QED BY ONLY <1>4, <3>1
  <2>3. q > 0 \/ q \in {Stdin, Stdout}
    BY ONLY <1>2, q \in DOMAIN v.file \ {p}
  <2> QED BY ONLY <2>1, <2>2, <2>3
<1>12. ASSUME NEW q \in DOMAIN u.file
       PROVE  IsFile(u.file[q]) /\ u.file[q].fd \in Descriptors /\ u.fds[u.file[q].fd].name # ""
  <2>1. q \in DOMAIN v.file \ {p}
    BY <1>6
  <2>2. u.file[q] = e.file[q] /\ e.file[q].fd = v.file[q].fd /\ v.file[q].fd \in Descriptors /\ IsFile(e.file[q])
    <3>1. u.file[q] = e.file[q]
      BY ONLY <1>6, <2>1
    <3>2. e.file[q].fd = v.file[q].fd /\ IsFile(e.file[q])
      BY ONLY <1>5, <2>1
    <3>3. v.file[q].fd \in Descriptors
      BY ONLY <1>3, <2>1
    <3> QED BY ONLY <3>1, <3>2, <3>3
  <2>3. v.fds[v.file[q].fd].name # ""
    BY <1>1, <2>1 DEF Base
  <2>4. v.file[q].fd # fd
    BY <1>11, <2>1
  <2>5. u.fds[v.file[q].fd] = e.fds[v.file[q].fd]
    BY ONLY <1>8, <2>2, <2>4
  <2>6. e.fds[v.file[q].fd].name = v.fds[v.file[q].fd].name
    BY ONLY <1>c, <2>2
  <2> QED BY ONLY <2>2, <2>3, <2>5, <2>6
<1>13. Base(u)
  BY <1>g, <1>6, <1>10, <1>12 DEF Base
<1>14. Files(u) = Files(v) \ {p} /\ \A q \in Files(u) : u.file[q].fd = v.file[q].fd
  <2>1. Files(u) = Files(v) \ {p}
    BY ONLY <1>6 DEF Files
  <2>2. ASSUME NEW q \in Files(u) PROVE u.file[q].fd = v.file[q].fd
    <3>1. q \in DOMAIN v.file \ {p}
      BY ONLY <1>6, q \in Files(u) DEF Files
    <3> QED BY ONLY <1>5, <1>6, <3>1
  <2> QED BY ONLY <2>1, <2>2
<1>15. u.tab = [i \in Slots |-> u.tab[i]] /\ \A i \in Slots : u.tab[i] = IF v.tab[i] = p THEN Null ELSE v.tab[i]
  BY <1>g DEF Without
<1>16. Tabbed(u)
  <2>1. \A i \in Slots : v.tab[i] # Null => v.tab[i] \in DOMAIN v.file
    BY <1>a, PlacesFacts
  <2> QED BY <1>6, <1>15, <2>1 DEF Tabbed
<1>17. ASSUME NEW q \in DOMAIN u.file PROVE \E i \in Slots : u.tab[i] = q
  <2>1. q \in DOMAIN v.file /\ q # p
    BY <1>6
  <2>2. PICK i \in Slots : v.tab[i] = q
    BY <1>2, <2>1
  <2> QED BY <1>15, <2>1, <2>2
<1>18. ASSUME NEW i \in 0 .. 2 PROVE u.fds[i].name # ""
  <2>1. i \in Descriptors /\ i # fd
    BY <1>4 DEF Descriptors
  <2> QED BY <1>c, <1>3, <1>8, <2>1
<1>19. ASSUME NEW i \in Descriptors, i > 2, u.fds[i].name # "" PROVE \E q \in Files(u) : u.file[q].fd = i
  <2>1. i # fd
    BY <1>8, <1>9, <1>19
  <2>2. v.fds[i].name # ""
    BY <1>c, <1>8, <1>19, <2>1
  <2>3. PICK q \in Files(v) : v.file[q].fd = i
    BY <1>3, <1>19, <2>2
  <2>4. q # p
    BY ONLY <1>5a, <2>1, <2>3
  <2>5. q \in Files(u)
    BY ONLY <1>14, <2>3, <2>4
  <2> QED BY ONLY <1>14, <2>3, <2>5
<1>20. Stdin \in DOMAIN u.file /\ Stdout \in DOMAIN u.file /\ u.file[Stdin].fd = 0 /\ u.file[Stdout].fd = 1
  <2>1. Stdin \in DOMAIN v.file \ {p} /\ Stdout \in DOMAIN v.file \ {p}
    BY ONLY <1>2, <1>4
  <2>2. u.file[Stdin] = e.file[Stdin] /\ u.file[Stdout] = e.file[Stdout]
    BY ONLY <1>6, <2>1
  <2>3. e.file[Stdin].fd = v.file[Stdin].fd /\ e.file[Stdout].fd = v.file[Stdout].fd
    BY ONLY <1>5, <2>1
  <2> QED BY ONLY <1>2, <1>6, <2>1, <2>2, <2>3
<1>21. /\ \A q \in DOMAIN u.file : q \in Int /\ q # Null
       /\ \A q \in DOMAIN u.file : q > 0 \/ q \in {Stdin, Stdout}
  BY <1>2, <1>6
<1>22. /\ \A q \in Files(u) : u.file[q].fd > 2
       /\ \A a, b \in Files(u) : u.file[a].fd = u.file[b].fd => a = b
  BY <1>3, <1>14
<1>23. Places(u)
  BY <1>15, <1>16, <1>17, <1>18, <1>19, <1>20, <1>21, <1>22 DEF Places
<1>24. /\ InUse(v.heap) = X \cup Files(v) \cup Given(v)
       /\ X \cap Files(v) = {} /\ X \cap Given(v) = {} /\ Files(v) \cap Given(v) = {}
       /\ \A a, b \in Bufs(v) : v.file[a].buf = v.file[b].buf => a = b
  BY <1>1 DEF Owns
<1>25. Bufs(u) = Bufs(v) \ {p} /\ \A q \in Bufs(u) : u.file[q].buf = v.file[q].buf
  <2>1. ASSUME NEW q \in DOMAIN v.file \ {p}
        PROVE  /\ "MYBUF" \in u.file[q].flags <=> "MYBUF" \in v.file[q].flags
               /\ "MYBUF" \in v.file[q].flags => u.file[q].buf = v.file[q].buf
    BY <1>5, <1>6
  <2>2. Bufs(u) = {q \in DOMAIN v.file \ {p} : "MYBUF" \in u.file[q].flags}
    BY ONLY <1>6 DEF Bufs
  <2>3. Bufs(v) = {q \in DOMAIN v.file : "MYBUF" \in v.file[q].flags}
    BY DEF Bufs
  <2>4. Bufs(u) = Bufs(v) \ {p}
    BY ONLY <2>1, <2>2, <2>3
  <2>5. ASSUME NEW q \in Bufs(u) PROVE u.file[q].buf = v.file[q].buf
    <3>1. q \in DOMAIN v.file \ {p} /\ "MYBUF" \in u.file[q].flags
      BY ONLY <2>2, q \in Bufs(u)
    <3> QED BY ONLY <2>1, <3>1
  <2> QED BY ONLY <2>4, <2>5
<1>26. old \subseteq Given(v) /\ \A q \in Bufs(v) : v.file[q].buf \in old <=> q = p
  BY <1>f, <1>24 DEF Given
<1>27. Given(u) = Given(v) \ old
  <2>1. ASSUME NEW x \in Given(u) PROVE x \in Given(v) \ old
    <3>1. PICK q \in Bufs(u) : x = u.file[q].buf
      BY DEF Given
    <3> QED BY <1>25, <1>26, <3>1 DEF Given
  <2>2. ASSUME NEW x \in Given(v) \ old PROVE x \in Given(u)
    <3>1. PICK q \in Bufs(v) : x = v.file[q].buf
      BY DEF Given
    <3>2. q \in Bufs(u)
      BY <1>25, <1>26, <3>1
    <3> QED BY <1>25, <3>1, <3>2 DEF Given
  <2> QED BY <2>1, <2>2
<1>28. InUse(u.heap) = X \cup Files(u) \cup Given(u)
  <2>1. InUse(u.heap) = ((X \cup Files(v) \cup Given(v)) \ old) \ {p}
    BY ONLY <1>e, <1>24
  <2>2. Files(u) = Files(v) \ {p} /\ Given(u) = Given(v) \ old
    BY ONLY <1>14, <1>27
  <2>3. p \in Files(v) /\ old \subseteq Given(v)
    BY ONLY <1>a, <1>26
  <2> QED BY ONLY <1>24, <2>1, <2>2, <2>3
<1>29. X \cap Files(u) = {} /\ X \cap Given(u) = {} /\ Files(u) \cap Given(u) = {}
  BY <1>14, <1>24, <1>27
<1>30. \A a, b \in Bufs(u) : u.file[a].buf = u.file[b].buf => a = b
  BY <1>24, <1>25
<1>31. Owns(u, X)
  BY <1>e, <1>28, <1>29, <1>30 DEF Owns
<1> QED
  BY <1>13, <1>23, <1>31 DEF Sound

Emptied(v, h)    == [v EXCEPT !.heap = h]

\* The world with another heap.
LEMMA HeapPut ==
  ASSUME NEW v, IsWorld(v), NEW h, NEW u, u = Emptied(v, h)
  PROVE  /\ IsWorld(u) /\ u.heap = h /\ u.disk = v.disk /\ u.typed = v.typed /\ u.fds = v.fds
         /\ u.file = v.file /\ u.tab = v.tab /\ u.cleanup = v.cleanup
<1>1. u = [heap |-> h, disk |-> v.disk, typed |-> v.typed, fds |-> v.fds,
           file |-> v.file, tab |-> v.tab, cleanup |-> v.cleanup]
  BY DEF IsWorld, Emptied
<1> QED BY ONLY <1>1 DEF IsWorld

\* The world with another table.
LEMMA TabPut ==
  ASSUME NEW v, IsWorld(v), NEW t, NEW u, u = [v EXCEPT !.tab = t]
  PROVE  /\ IsWorld(u) /\ u.heap = v.heap /\ u.disk = v.disk /\ u.typed = v.typed /\ u.fds = v.fds
         /\ u.file = v.file /\ u.tab = t /\ u.cleanup = v.cleanup
<1>1. u = [heap |-> v.heap, disk |-> v.disk, typed |-> v.typed, fds |-> v.fds,
           file |-> v.file, tab |-> t, cleanup |-> v.cleanup]
  BY DEF IsWorld
<1> QED BY ONLY <1>1 DEF IsWorld

\* The world with other descriptors.
LEMMA FdsPut ==
  ASSUME NEW v, IsWorld(v), NEW t, NEW u, u = [v EXCEPT !.fds = t]
  PROVE  /\ IsWorld(u) /\ u.heap = v.heap /\ u.disk = v.disk /\ u.typed = v.typed /\ u.fds = t
         /\ u.file = v.file /\ u.tab = v.tab /\ u.cleanup = v.cleanup
<1>1. u = [heap |-> v.heap, disk |-> v.disk, typed |-> v.typed, fds |-> t,
           file |-> v.file, tab |-> v.tab, cleanup |-> v.cleanup]
  BY DEF IsWorld
<1> QED BY ONLY <1>1 DEF IsWorld

\* The FILE of a stream that was opened is freed.
LEMMA DiscardPut ==
  ASSUME NEW v, IsWorld(v), NEW p, ~(p < 0), NEW u, u = Discard(v, p)
  PROVE  /\ IsWorld(u) /\ u.heap = MemFree(v.heap, p) /\ u.fds = v.fds
         /\ u.file = Removed(v.file, p) /\ u.tab = v.tab
<1> DEFINE hh == MemFree(v.heap, p)
           fs == Removed(v.file, p)
<1>1. u = [v EXCEPT !.heap = hh, !.file = fs]
  BY DEF Discard, Removed
<1> HIDE DEF hh, fs
<1>2. u = [heap |-> hh, disk |-> v.disk, typed |-> v.typed, fds |-> v.fds,
           file |-> fs, tab |-> v.tab, cleanup |-> v.cleanup]
  BY <1>1 DEF IsWorld
<1>3. IsWorld(u) /\ u.heap = hh /\ u.fds = v.fds /\ u.file = fs /\ u.tab = v.tab
  BY ONLY <1>2 DEF IsWorld
<1> QED BY <1>3 DEF hh, fs

\* The buffer of a stream is given back when it is the library's.
LEMMA BufferFreed ==
  ASSUME NEW v, NEW X, Sound(v, X), NEW p \in DOMAIN v.file, NEW f, Alike(v.file[p], f),
         NEW h, h = IF Flagged(f, "MYBUF") THEN MemFree(v.heap, f.buf) ELSE v.heap,
         NEW old, old = {v.file[q].buf : q \in Bufs(v) \cap {p}}
  PROVE  HeapOK(h) /\ InUse(h) = InUse(v.heap) \ old
<1>1. HeapOK(v.heap)
  BY SoundOwns
<1>2. CASE Flagged(f, "MYBUF")
  <2>1. p \in Bufs(v) /\ f.buf = v.file[p].buf
    BY <1>2 DEF Flagged, Alike, Bufs
  <2>2. old = {f.buf} /\ f.buf \in InUse(v.heap)
    BY <2>1, SoundOwns
  <2>3. h = MemFree(v.heap, f.buf)
    BY <1>2
  <2> QED BY <1>1, <2>2, <2>3, FreedOK
<1>3. CASE ~Flagged(f, "MYBUF")
  <2>1. p \notin Bufs(v)
    BY <1>3 DEF Flagged, Alike, Bufs
  <2>2. old = {}
    BY <2>1
  <2> QED BY <1>1, <1>3, <2>2
<1> QED BY <1>2, <1>3

\* fclose (fclose.c), whether or not its flush succeeds.
LEMMA FcloseSound ==
  ASSUME NEW v, NEW X, Sound(v, X), NEW p \in Files(v), NEW o, NEW r, r = Fclose(v, p, o)
  PROVE  Sound(r.w, X)
<1> DEFINE k   == [v EXCEPT !.tab = Without(v.tab, p)]
           s   == Fflush(k, p, o)
           e   == s.w
           f   == e.file[p]
           fds == ClosedAt(e.fds, f.fd)
           l   == [e EXCEPT !.fds = fds]
           hb  == IF Flagged(f, "MYBUF") THEN MemFree(v.heap, f.buf) ELSE v.heap
           b   == IF Flagged(f, "MYBUF") THEN Emptied(l, MemFree(l.heap, f.buf)) ELSE l
           u   == Discard(b, p)
           old == {v.file[q].buf : q \in Bufs(v) \cap {p}}
<1>1. Base(v) /\ IsWorld(v) /\ p \in DOMAIN v.file /\ p > 0 /\ p \in Int
  <2>1. p \in DOMAIN v.file /\ p > 0
    BY DEF Files
  <2> QED BY <2>1, SoundOwns, PlacesFacts DEF Base
<1>2. r.w = u
  <2>1. \E i \in Slots : v.tab[i] = p
    BY <1>1, PlacesFacts
  <2>2. r = Reply(u, s.r)
    BY <2>1 DEF Fclose, Without, SysClose, ClosedAt, Emptied
  <2> HIDE DEF u, s
  <2> QED BY <2>2 DEF Reply
<1>3. /\ IsWorld(k) /\ k.heap = v.heap /\ k.fds = v.fds /\ k.file = v.file /\ k.tab = Without(v.tab, p)
  <2> DEFINE t == Without(v.tab, p)
  <2>1. k = [v EXCEPT !.tab = t]
    OBVIOUS
  <2> HIDE DEF k, t
  <2>2. /\ IsWorld(k) /\ k.heap = v.heap /\ k.fds = v.fds /\ k.file = v.file /\ k.tab = t
    BY <1>1, <2>1, TabPut
  <2> QED BY <2>2 DEF t
<1> HIDE DEF k
<1>4. Base(k)
  BY <1>1, <1>3 DEF Base
<1>5. Quiet(k, e)
  <2>1. p \in DOMAIN k.file
    BY <1>1, <1>3
  <2> HIDE DEF s
  <2>2. s = Fflush(k, p, o)
    BY DEF s
  <2> QED BY <1>4, <2>1, <2>2, FflushQuiet
<1> HIDE DEF e
<1>6. /\ Base(e) /\ IsWorld(e) /\ e.heap = v.heap /\ e.tab = Without(v.tab, p)
      /\ DOMAIN e.file = DOMAIN v.file
      /\ \A i \in Descriptors : e.fds[i].name = v.fds[i].name
      /\ \A q \in DOMAIN v.file : Alike(v.file[q], e.file[q])
  BY <1>3, <1>5 DEF Quiet, Base
<1>7. Alike(v.file[p], f)
  BY <1>1, <1>6
<1>8. HeapOK(hb) /\ InUse(hb) = InUse(v.heap) \ old
  <2>1. old = {v.file[q].buf : q \in Bufs(v) \cap {p}}
    OBVIOUS
  <2>2. hb = IF Flagged(f, "MYBUF") THEN MemFree(v.heap, f.buf) ELSE v.heap
    OBVIOUS
  <2> HIDE DEF old, hb, f
  <2> QED BY <1>1, <1>7, <2>1, <2>2, BufferFreed
<1>9. /\ IsWorld(l) /\ l.heap = v.heap /\ l.fds = fds /\ l.file = e.file /\ l.tab = e.tab
  <2>1. l = [e EXCEPT !.fds = fds]
    OBVIOUS
  <2> HIDE DEF l, fds
  <2> QED BY <1>6, <2>1, FdsPut
<1>10. /\ IsWorld(b) /\ b.heap = hb /\ b.fds = fds /\ b.file = e.file /\ b.tab = e.tab
  <2> HIDE DEF l, fds, f
  <2>1. CASE Flagged(f, "MYBUF")
    <3>1. b = Emptied(l, MemFree(v.heap, f.buf)) /\ hb = MemFree(v.heap, f.buf)
      BY <1>9, <2>1
    <3> HIDE DEF b, hb
    <3> QED BY <1>9, <3>1, HeapPut
  <2>2. CASE ~Flagged(f, "MYBUF")
    BY <1>9, <2>2
  <2> QED BY <2>1, <2>2
<1> HIDE DEF b, hb, l
<1>11. IsWorld(u) /\ u.heap = MemFree(hb, p) /\ u.fds = fds /\ u.file = Removed(e.file, p) /\ u.tab = Without(v.tab, p)
  <2>1. ~(p < 0)
    BY <1>1
  <2>2. u = Discard(b, p)
    OBVIOUS
  <2> HIDE DEF u, fds
  <2> QED BY <1>6, <1>10, <2>1, <2>2, DiscardPut
<1> HIDE DEF u
<1>12. p \in InUse(hb)
  <2>1. InUse(v.heap) = X \cup Files(v) \cup Given(v) /\ Files(v) \cap Given(v) = {}
    BY DEF Sound, Owns
  <2>2. old \subseteq Given(v)
    BY DEF Given
  <2> HIDE DEF old
  <2> QED BY <1>8, <2>1, <2>2
<1>13. HeapOK(u.heap) /\ InUse(u.heap) = (InUse(v.heap) \ old) \ {p}
  <2> HIDE DEF old
  <2> QED BY <1>8, <1>11, <1>12, FreedOK
<1>14. old = {v.file[q].buf : q \in Bufs(v) \cap {p}}
  OBVIOUS
<1> HIDE DEF old
<1>15. Going(v, X, p, e, u.heap, old, u)
  BY <1>6, <1>11, <1>13, <1>14 DEF Going
<1>16. Sound(u, X)
  BY <1>15, Gone
<1> QED BY <1>2, <1>16

-----------------------------------------------------------------------------
(* Opening. *)
OpenedAt(fds, fd, name) == [fds EXCEPT ![fd] = [name |-> name, pos |-> 0]]

(* u differs from v in nothing but the contents of files. *)
Level(v, u) == IsWorld(u) /\ u.heap = v.heap /\ u.tab = v.tab /\ u.fds = v.fds /\ u.file = v.file

Opening(v, name, s) ==
    /\ IsWorld(s.w) /\ s.w.heap = v.heap /\ s.w.tab = v.tab /\ s.w.file = v.file
    /\ \/ s.r = -1 /\ s.w.fds = v.fds
       \/ s.r \in Descriptors /\ v.fds[s.r] = ClosedFd /\ s.w.fds = OpenedAt(v.fds, s.r, name)

\* What is in the files does not matter.
LEMMA LevelSound == ASSUME NEW v, NEW X, Sound(v, X), NEW u, Level(v, u) PROVE Sound(u, X)
<1>1. Base(v) /\ Places(v) /\ Owns(v, X)
  BY DEF Sound
<1>2. IsWorld(u) /\ u.heap = v.heap /\ u.tab = v.tab /\ u.fds = v.fds /\ u.file = v.file
  BY DEF Level
<1>3. Base(u)
  <2>1. AreFds(v.fds) /\ v.file = [p \in DOMAIN v.file |-> v.file[p]]
    BY <1>1 DEF Base
  <2>2. \A p \in DOMAIN v.file : /\ IsFile(v.file[p])
                                  /\ v.file[p].fd \in Descriptors
                                  /\ v.fds[v.file[p].fd].name # ""
    BY <1>1 DEF Base
  <2>3. AreFds(u.fds) /\ u.file = [p \in DOMAIN u.file |-> u.file[p]]
    BY ONLY <1>2, <2>1
  <2>4. \A p \in DOMAIN u.file : /\ IsFile(u.file[p])
                                  /\ u.file[p].fd \in Descriptors
                                  /\ u.fds[u.file[p].fd].name # ""
    BY ONLY <1>2, <2>2
  <2> QED BY ONLY <1>2, <2>3, <2>4 DEF Base
<1>4. \A p \in DOMAIN v.file : Alike(v.file[p], v.file[p])
  BY <1>1, FileOpened, AlikeSelf
<1>5. Quiet(v, u)
  <2>1. \A p \in DOMAIN v.file : Alike(v.file[p], u.file[p])
    BY ONLY <1>2, <1>4
  <2>2. DOMAIN u.file = DOMAIN v.file /\ \A i \in Descriptors : u.fds[i].name = v.fds[i].name
    BY ONLY <1>2
  <2> QED BY ONLY <1>2, <1>3, <2>1, <2>2 DEF Quiet
<1> QED BY <1>5, QuietKept

\* open takes a descriptor that is free.
LEMMA LowestFree ==
  ASSUME NEW v, AreFds(v.fds), FreeFds(v) # {},
         NEW fd, fd = CHOOSE x \in FreeFds(v) : \A y \in FreeFds(v) : x <= y
  PROVE  fd \in Descriptors /\ v.fds[fd] = ClosedFd
<1>1. DOMAIN v.fds = Descriptors
  BY DEF AreFds
<1>2. FreeFds(v) \subseteq Descriptors /\ \A x \in FreeFds(v) : v.fds[x] = ClosedFd
  BY <1>1 DEF FreeFds
<1>3. FreeFds(v) \subseteq Nat
  BY <1>2 DEF Descriptors
<1>4. PICK n \in FreeFds(v) : \A y \in FreeFds(v) : ~(y < n)
  BY <1>3, LeastNat
<1>5. \A y \in FreeFds(v) : n <= y
  BY <1>3, <1>4
<1>6. fd \in FreeFds(v)
  BY <1>4, <1>5
<1> QED BY <1>2, <1>6

\* fopen takes a slot that is free.
LEMMA LowestSlot ==
  ASSUME NEW v, NEW slots, slots = {i \in Slots : v.tab[i] = Null}, slots # {},
         NEW slot, slot = CHOOSE i \in slots : \A j \in slots : i <= j
  PROVE  slot \in Slots /\ v.tab[slot] = Null
<1>1. slots \subseteq Nat
  BY DEF Slots
<1>2. PICK n \in slots : \A y \in slots : ~(y < n)
  BY <1>1, LeastNat
<1>3. \A y \in slots : n <= y
  BY <1>1, <1>2
<1>4. slot \in slots
  BY <1>2, <1>3
<1> QED BY <1>4

\* open
LEMMA SysOpenOpening ==
  ASSUME NEW v, AreFds(v.fds), NEW z, Level(v, z), NEW name, NEW s, s = SysOpen(z, name)
  PROVE  Opening(v, name, s)
<1> DEFINE fd == CHOOSE x \in FreeFds(z) : \A y \in FreeFds(z) : x <= y
           no == name \notin DOMAIN z.disk \/ FreeFds(z) = {}
           fs == OpenedAt(z.fds, fd, name)
<1>1. IsWorld(z) /\ z.heap = v.heap /\ z.tab = v.tab /\ z.fds = v.fds /\ z.file = v.file
  BY DEF Level
<1>2. CASE no
  <2>1. s = Reply(z, -1)
    BY <1>2 DEF SysOpen
  <2>2. s.w = z /\ s.r = -1
    BY <2>1 DEF Reply
  <2> QED BY <1>1, <2>2 DEF Opening
<1>3. CASE ~no
  <2>1. fd \in Descriptors /\ z.fds[fd] = ClosedFd
    <3>1. AreFds(z.fds) /\ FreeFds(z) # {}
      BY <1>1, <1>3
    <3> QED BY <3>1, LowestFree
  <2>2. s = Reply([z EXCEPT !.fds = fs], fd)
    BY <1>3 DEF SysOpen, OpenedAt
  <2> HIDE DEF fd
  <2>3. s.r = fd /\ s.w = [z EXCEPT !.fds = fs]
    BY <2>2 DEF Reply
  <2>4. fs = OpenedAt(v.fds, fd, name)
    BY <1>1
  <2> HIDE DEF fs
  <2>5. IsWorld(s.w) /\ s.w.heap = z.heap /\ s.w.fds = fs /\ s.w.file = z.file /\ s.w.tab = z.tab
    BY <1>1, <2>3, FdsPut
  <2> QED BY <1>1, <2>1, <2>3, <2>4, <2>5 DEF Opening
<1> QED BY <1>2, <1>3

\* creat
LEMMA CreatOpening ==
  ASSUME NEW v, IsWorld(v), AreFds(v.fds), NEW name, NEW o, NEW s, s = Creat(v, name, o)
  PROVE  Opening(v, name, s)
<1> DEFINE d == Extended(v.disk, name, <<>>)
           z == [v EXCEPT !.disk = d]
<1>1. CASE o = "fail"
  <2>1. s.w = v /\ s.r = -1
    BY <1>1 DEF Creat, Reply
  <2> QED BY <2>1 DEF Opening
<1>2. CASE o # "fail"
  <2>1. s = SysOpen(z, name)
    BY <1>2 DEF Creat
  <2>2. z = [v EXCEPT !.disk = d]
    OBVIOUS
  <2> HIDE DEF d, z
  <2>3. z = [heap |-> v.heap, disk |-> d, typed |-> v.typed, fds |-> v.fds,
             file |-> v.file, tab |-> v.tab, cleanup |-> v.cleanup]
    BY <2>2 DEF IsWorld
  <2>4. Level(v, z)
    BY ONLY <2>3 DEF Level, IsWorld
  <2> QED BY <2>1, <2>4, SysOpenOpening
<1> QED BY <1>1, <1>2

\* A descriptor that was just opened is closed again.
LEMMA ClosedAgain ==
  ASSUME NEW v, AreFds(v.fds), NEW name, NEW s, Opening(v, name, s), s.r \in Descriptors,
         NEW u, u = SysClose(s.w, s.r)
  PROVE  Level(v, u)
<1>1. /\ IsWorld(s.w) /\ s.w.heap = v.heap /\ s.w.tab = v.tab /\ s.w.file = v.file
      /\ v.fds[s.r] = ClosedFd /\ s.w.fds = OpenedAt(v.fds, s.r, name)
  <2>1. s.r # -1
    BY DEF Descriptors
  <2> QED BY <2>1 DEF Opening
<1> DEFINE fs == ClosedAt(s.w.fds, s.r)
<1>2. fs = v.fds
  <2>1. v.fds = [i \in Descriptors |-> v.fds[i]]
    BY DEF AreFds
  <2>2. fs = [[v.fds EXCEPT ![s.r] = [name |-> name, pos |-> 0]] EXCEPT ![s.r] = ClosedFd]
    BY <1>1 DEF ClosedAt, OpenedAt
  <2>3. fs = [i \in Descriptors |-> IF i = s.r THEN ClosedFd ELSE v.fds[i]]
    BY ONLY <2>1, <2>2
  <2>4. \A i \in Descriptors : (IF i = s.r THEN ClosedFd ELSE v.fds[i]) = v.fds[i]
    BY <1>1
  <2> QED BY ONLY <2>1, <2>3, <2>4
<1>3. u = [s.w EXCEPT !.fds = fs]
  BY DEF SysClose, ClosedAt
<1> HIDE DEF fs
<1>4. IsWorld(u) /\ u.heap = s.w.heap /\ u.fds = fs /\ u.file = s.w.file /\ u.tab = s.w.tab
  BY <1>1, <1>3, FdsPut
<1> QED BY <1>1, <1>2, <1>4 DEF Level

Taken(tab, i, p)    == [tab EXCEPT ![i] = p]
Enrolled(k, h, i, p, f) ==
    [k EXCEPT !.heap = h, !.tab[i] = p, !.file = Extended(@, p, f)]

(* A stream p comes, on descriptor fd, in slot i. *)
Coming(v, X, p, fd, name, h, i, f, u) ==
    /\ Sound(v, X)
    /\ p \in Int /\ p > 0
    /\ p \notin InUse(v.heap)
    /\ HeapOK(h)
    /\ InUse(h) = InUse(v.heap) \cup {p}
    /\ fd \in Descriptors /\ v.fds[fd] = ClosedFd
    /\ name # ""
    /\ i \in Slots /\ v.tab[i] = Null
    /\ IsFile(f) /\ f.fd = fd /\ "MYBUF" \notin f.flags
    /\ IsWorld(u) /\ u.heap = h /\ u.tab = Taken(v.tab, i, p)
    /\ u.fds = OpenedAt(v.fds, fd, name) /\ u.file = Extended(v.file, p, f)

\* A stream comes, with a descriptor and a FILE of its own.
LEMMA Come ==
  ASSUME NEW v, NEW X, NEW p, NEW fd, NEW name, NEW h, NEW i, NEW f, NEW u,
         Coming(v, X, p, fd, name, h, i, f, u)
  PROVE  Sound(u, X) /\ p \in Files(u)
<1>a. Sound(v, X) /\ p \in Int /\ p > 0 /\ p \notin InUse(v.heap)
  BY DEF Coming
<1>b. HeapOK(h) /\ InUse(h) = InUse(v.heap) \cup {p} /\ u.heap = h
  BY DEF Coming
<1>c. fd \in Descriptors /\ v.fds[fd] = ClosedFd /\ name # "" /\ i \in Slots /\ v.tab[i] = Null
  BY DEF Coming
<1>d. IsFile(f) /\ f.fd = fd /\ "MYBUF" \notin f.flags
  BY DEF Coming
<1>e. /\ IsWorld(u) /\ u.tab = Taken(v.tab, i, p)
      /\ u.fds = OpenedAt(v.fds, fd, name) /\ u.file = Extended(v.file, p, f)
  BY DEF Coming
<1>1. Base(v) /\ Owns(v, X)
  BY <1>a DEF Sound
<1>2. /\ v.tab = [j \in Slots |-> v.tab[j]]
      /\ \A j \in Slots : v.tab[j] # Null => v.tab[j] \in DOMAIN v.file
      /\ \A q \in DOMAIN v.file : q \in Int /\ q # Null /\ \E j \in Slots : v.tab[j] = q
      /\ \A q \in DOMAIN v.file : q > 0 \/ q \in {Stdin, Stdout}
      /\ Stdin \in DOMAIN v.file /\ Stdout \in DOMAIN v.file
      /\ v.file[Stdin].fd = 0 /\ v.file[Stdout].fd = 1
  BY <1>a, PlacesFacts
<1>3. /\ \A j \in 0 .. 2 : v.fds[j].name # ""
      /\ \A q \in Files(v) : v.file[q].fd > 2
      /\ \A a, b \in Files(v) : v.file[a].fd = v.file[b].fd => a = b
      /\ \A j \in Descriptors : j > 2 /\ v.fds[j].name # "" => \E q \in Files(v) : v.file[q].fd = j
  BY <1>a, PlacesFacts
<1>4. /\ InUse(v.heap) = X \cup Files(v) \cup Given(v)
      /\ X \cap Files(v) = {} /\ X \cap Given(v) = {} /\ Files(v) \cap Given(v) = {}
      /\ \A a, b \in Bufs(v) : v.file[a].buf = v.file[b].buf => a = b
  BY <1>1 DEF Owns
<1>5. p \notin DOMAIN v.file
  <2>1. p \notin Files(v)
    BY ONLY <1>a, <1>4
  <2> QED BY ONLY <1>a, <2>1 DEF Files
<1>6. v.file = [q \in DOMAIN v.file |-> v.file[q]] /\ AreFds(v.fds)
  BY <1>1 DEF Base
<1>7. ASSUME NEW q \in DOMAIN v.file
      PROVE  IsFile(v.file[q]) /\ v.file[q].fd \in Descriptors /\ v.fds[v.file[q].fd].name # ""
  BY <1>1 DEF Base
<1>8. /\ DOMAIN u.file = DOMAIN v.file \cup {p}
      /\ u.file[p] = f
      /\ \A q \in DOMAIN v.file : u.file[q] = v.file[q]
      /\ u.file = [q \in DOMAIN u.file |-> u.file[q]]
  <2>1. u.file = [q \in DOMAIN v.file \cup {p} |-> IF q = p THEN f ELSE v.file[q]]
    BY <1>e DEF Extended
  <2> QED BY ONLY <1>5, <2>1
<1>9. ClosedFd.name = ""
  BY DEF ClosedFd
<1>10. /\ u.fds = [j \in Descriptors |-> u.fds[j]]
       /\ u.fds[fd] = [name |-> name, pos |-> 0]
       /\ \A j \in Descriptors : j # fd => u.fds[j] = v.fds[j]
  <2>1. v.fds = [j \in Descriptors |-> v.fds[j]]
    BY <1>6 DEF AreFds
  <2>2. u.fds = [v.fds EXCEPT ![fd] = [name |-> name, pos |-> 0]]
    BY <1>e DEF OpenedAt
  <2> QED BY ONLY <1>c, <2>1, <2>2
<1>11. AreFds(u.fds)
  <2>1. \A j \in Descriptors : /\ v.fds[j] = [name |-> v.fds[j].name, pos |-> v.fds[j].pos]
                               /\ v.fds[j].name = "" => v.fds[j] = ClosedFd
    BY <1>6 DEF AreFds
  <2>2. u.fds[fd].name = name /\ u.fds[fd] = [name |-> u.fds[fd].name, pos |-> u.fds[fd].pos]
    BY ONLY <1>10
  <2>3. ASSUME NEW j \in Descriptors
        PROVE  /\ u.fds[j] = [name |-> u.fds[j].name, pos |-> u.fds[j].pos]
               /\ u.fds[j].name = "" => u.fds[j] = ClosedFd
    <3>1. CASE j = fd
      BY ONLY <1>c, <2>2, <3>1
    <3>2. CASE j # fd
      <4>1. u.fds[j] = v.fds[j]
        BY ONLY <1>10, <3>2, j \in Descriptors
      <4> QED BY ONLY <2>1, <4>1, j \in Descriptors
    <3> QED BY ONLY <3>1, <3>2
  <2> QED BY ONLY <1>10, <2>3 DEF AreFds
<1>12. ASSUME NEW q \in DOMAIN v.file PROVE v.file[q].fd # fd
  BY ONLY <1>7, <1>9, <1>c, q \in DOMAIN v.file
<1>13. ASSUME NEW q \in DOMAIN u.file
       PROVE  IsFile(u.file[q]) /\ u.file[q].fd \in Descriptors /\ u.fds[u.file[q].fd].name # ""
  <2>1. CASE q = p
    <3>1. u.fds[fd].name = name
      BY ONLY <1>10
    <3> QED BY ONLY <1>8, <1>c, <1>d, <2>1, <3>1
  <2>2. CASE q # p
    <3>1. q \in DOMAIN v.file
      BY ONLY <1>8, <2>2, q \in DOMAIN u.file
    <3>2. u.file[q] = v.file[q]
      BY ONLY <1>8, <3>1
    <3>3. IsFile(v.file[q]) /\ v.file[q].fd \in Descriptors /\ v.fds[v.file[q].fd].name # "" /\ v.file[q].fd # fd
      BY ONLY <1>7, <1>12, <3>1
    <3>4. u.fds[v.file[q].fd] = v.fds[v.file[q].fd]
      BY ONLY <1>10, <3>3
    <3> QED BY ONLY <3>2, <3>3, <3>4
  <2> QED BY <2>1, <2>2
<1>14. Base(u)
  BY ONLY <1>e, <1>8, <1>11, <1>13 DEF Base
<1>15. Files(u) = Files(v) \cup {p} /\ p \notin Files(v) /\ \A q \in Files(v) : u.file[q].fd = v.file[q].fd
  <2>1. Files(v) = {q \in DOMAIN v.file : q > 0} /\ Files(u) = {q \in DOMAIN u.file : q > 0}
    BY DEF Files
  <2> QED BY ONLY <1>5, <1>8, <1>a, <2>1
<1>16. /\ u.tab = [j \in Slots |-> u.tab[j]]
       /\ u.tab[i] = p
       /\ \A j \in Slots : j # i => u.tab[j] = v.tab[j]
  <2>1. u.tab = [v.tab EXCEPT ![i] = p]
    BY <1>e DEF Taken
  <2> QED BY ONLY <1>2, <1>c, <2>1
<1>17. Tabbed(u)
  <2>1. ASSUME NEW j \in Slots, u.tab[j] # Null PROVE u.tab[j] \in DOMAIN u.file
    BY ONLY <1>2, <1>8, <1>16, <2>1
  <2> QED BY ONLY <2>1 DEF Tabbed
<1>18. ASSUME NEW q \in DOMAIN u.file
       PROVE  q \in Int /\ q # Null /\ (q > 0 \/ q \in {Stdin, Stdout}) /\ \E j \in Slots : u.tab[j] = q
  <2>1. CASE q = p
    <3>1. p # Null
      BY ONLY <1>a DEF Null
    <3> QED BY ONLY <1>16, <1>a, <1>c, <2>1, <3>1
  <2>2. CASE q # p
    <3>1. q \in DOMAIN v.file
      BY ONLY <1>8, <2>2, q \in DOMAIN u.file
    <3>2. q \in Int /\ q # Null /\ (q > 0 \/ q \in {Stdin, Stdout})
      BY ONLY <1>2, <3>1
    <3>3. PICK j \in Slots : v.tab[j] = q
      BY ONLY <1>2, <3>1
    <3>4. j # i
      BY ONLY <1>c, <3>2, <3>3
    <3> QED BY ONLY <1>16, <3>2, <3>3, <3>4
  <2> QED BY ONLY <2>1, <2>2
<1>19. /\ {Stdin, Stdout} \subseteq DOMAIN u.file /\ u.file[Stdin].fd = 0 /\ u.file[Stdout].fd = 1
  BY ONLY <1>2, <1>8
<1>20. ASSUME NEW j \in 0 .. 2 PROVE u.fds[j].name # ""
  <2>1. j \in Descriptors
    BY DEF Descriptors
  <2>2. v.fds[j].name # "" /\ j # fd
    BY ONLY <1>3, <1>9, <1>c, j \in 0 .. 2
  <2> QED BY ONLY <1>10, <2>1, <2>2
<1>21. fd > 2
  <2>1. fd \in 0 .. 3
    BY <1>c DEF Descriptors
  <2>2. fd \notin 0 .. 2
    BY ONLY <1>3, <1>9, <1>c
  <2> QED BY ONLY <2>1, <2>2
<1>22. \A q \in Files(u) : u.file[q].fd > 2
  BY ONLY <1>3, <1>8, <1>15, <1>21, <1>d
<1>23. ASSUME NEW a \in Files(u), NEW b \in Files(u), u.file[a].fd = u.file[b].fd PROVE a = b
  <2>1. \A q \in Files(v) : u.file[q].fd # fd /\ u.file[q].fd = v.file[q].fd
    <3>1. Files(v) \subseteq DOMAIN v.file
      BY DEF Files
    <3> QED BY ONLY <1>8, <1>12, <3>1
  <2>2. u.file[p].fd = fd
    BY ONLY <1>8, <1>d
  <2> QED BY ONLY <1>3, <1>15, <1>23, <2>1, <2>2
<1>24. ASSUME NEW j \in Descriptors, j > 2, u.fds[j].name # "" PROVE \E q \in Files(u) : u.file[q].fd = j
  <2>1. CASE j = fd
    BY ONLY <1>8, <1>15, <1>d, <2>1
  <2>2. CASE j # fd
    <3>1. v.fds[j].name # ""
      BY ONLY <1>10, <1>24, <2>2
    <3>2. PICK q \in Files(v) : v.file[q].fd = j
      BY ONLY <1>3, <1>24, <3>1
    <3> QED BY ONLY <1>15, <3>2
  <2> QED BY <2>1, <2>2
<1>25. Places(u)
  <2>1. \A q \in DOMAIN u.file : q \in Int /\ q # Null /\ \E j \in Slots : u.tab[j] = q
    BY ONLY <1>18
  <2>2. \A q \in DOMAIN u.file : q > 0 \/ q \in {Stdin, Stdout}
    BY ONLY <1>18
  <2>3. u.tab = [j \in Slots |-> u.tab[j]]
    BY ONLY <1>16
  <2> QED BY ONLY <1>17, <1>19, <1>20, <1>22, <1>23, <1>24, <2>1, <2>2, <2>3 DEF Places
<1>26. Bufs(u) = Bufs(v) /\ Bufs(v) \subseteq DOMAIN v.file
  <2>1. Bufs(v) = {q \in DOMAIN v.file : "MYBUF" \in v.file[q].flags}
    BY DEF Bufs
  <2>2. Bufs(u) = {q \in DOMAIN u.file : "MYBUF" \in u.file[q].flags}
    BY DEF Bufs
  <2> QED BY ONLY <1>5, <1>8, <1>d, <2>1, <2>2
<1>27. \A q \in Bufs(v) : u.file[q] = v.file[q]
  BY ONLY <1>8, <1>26
<1>28. Given(u) = Given(v)
  BY ONLY <1>26, <1>27 DEF Given
<1>29. InUse(u.heap) = X \cup Files(u) \cup Given(u)
  BY ONLY <1>4, <1>15, <1>28, <1>b
<1>30. X \cap Files(u) = {} /\ X \cap Given(u) = {} /\ Files(u) \cap Given(u) = {}
  BY ONLY <1>4, <1>15, <1>28, <1>a
<1>31. \A a, b \in Bufs(u) : u.file[a].buf = u.file[b].buf => a = b
  BY ONLY <1>4, <1>26, <1>27
<1>32. HeapOK(u.heap)
  BY ONLY <1>b
<1>33. Owns(u, X)
  BY ONLY <1>29, <1>30, <1>31, <1>32 DEF Owns
<1> QED
  BY <1>14, <1>15, <1>25, <1>33 DEF Sound

\* The FILE of a stream that is opened.
LEMMA NewFile ==
  ASSUME NEW fd, NEW mode \in Modes, NEW plus, NEW f, f = FileRec(fd, ModeFlags(mode, plus))
  PROVE  IsFile(f) /\ f.fd = fd /\ "MYBUF" \notin f.flags
<1>1. "MYBUF" \notin ModeFlags(mode, plus)
  <2>1. mode = "r" \/ mode = "w" \/ mode = "a"
    BY DEF Modes
  <2> QED BY <2>1 DEF ModeFlags
<1> DEFINE fl == ModeFlags(mode, plus)
<1>2. f = [count |-> 0, fd |-> fd, flags |-> fl, bufsiz |-> 0, buf |-> Null, ptr |-> 0, data |-> <<>>]
  BY DEF FileRec
<1> HIDE DEF fl
<1>3. IsFile(f) /\ f.fd = fd /\ f.flags = fl
  BY ONLY <1>2 DEF IsFile
<1> QED BY <1>1, <1>3 DEF fl

\* The world with one stream more.
LEMMA EnrolledWorld ==
  ASSUME NEW k, IsWorld(k), NEW h, NEW i, NEW p, NEW f, NEW u, u = Enrolled(k, h, i, p, f)
  PROVE  /\ IsWorld(u) /\ u.heap = h /\ u.fds = k.fds /\ u.tab = Taken(k.tab, i, p)
         /\ u.file = Extended(k.file, p, f)
<1> DEFINE fs == Extended(k.file, p, f)
           t  == Taken(k.tab, i, p)
<1>1. u = [k EXCEPT !.heap = h, !.tab = t, !.file = fs]
  BY DEF IsWorld, Enrolled, Taken
<1> HIDE DEF fs, t
<1>2. u = [heap |-> h, disk |-> k.disk, typed |-> k.typed, fds |-> k.fds,
           file |-> fs, tab |-> t, cleanup |-> k.cleanup]
  BY <1>1 DEF IsWorld
<1>3. IsWorld(u) /\ u.heap = h /\ u.fds = k.fds /\ u.tab = t /\ u.file = fs
  BY ONLY <1>2 DEF IsWorld
<1> QED BY <1>3 DEF fs, t

\* The descriptor fopen gets, if it gets one.
LEMMA FopenFd ==
  ASSUME NEW v, IsWorld(v), AreFds(v.fds), NEW name, NEW mode, NEW o,
         NEW first, first = IF mode = "w" THEN Reply(v, -1) ELSE SysOpen(v, name),
         NEW made, made = Creat(v, name, o),
         NEW fd, fd = IF mode # "r" /\ first.r < 0
                      THEN IF made.r > 0 THEN SysOpen(SysClose(made.w, made.r), name) ELSE made
                      ELSE first
  PROVE  Opening(v, name, fd)
<1>0. Level(v, v)
  BY DEF Level
<1>1. Opening(v, name, first)
  <2>1. CASE mode = "w"
    <3>1. first.w = v /\ first.r = -1
      BY <2>1 DEF Reply
    <3> QED BY <3>1 DEF Opening
  <2>2. CASE mode # "w"
    BY <1>0, <2>2, SysOpenOpening
  <2> QED BY <2>1, <2>2
<1>2. Opening(v, name, made)
  BY CreatOpening
<1>3. CASE made.r > 0
  <2>1. made.r \in Descriptors
    BY <1>2, <1>3 DEF Opening
  <2> DEFINE z == SysClose(made.w, made.r)
  <2>2. z = SysClose(made.w, made.r)
    OBVIOUS
  <2> HIDE DEF z
  <2>3. Level(v, z)
    BY <1>2, <2>1, <2>2, ClosedAgain
  <2>4. Opening(v, name, SysOpen(z, name))
    BY <2>3, SysOpenOpening
  <2>5. fd = SysOpen(z, name) \/ fd = first
    BY <1>3, <2>2
  <2> QED BY <1>1, <2>4, <2>5
<1>4. CASE ~(made.r > 0)
  <2>1. fd = made \/ fd = first
    BY <1>4
  <2> QED BY <1>1, <1>2, <2>1
<1> QED BY <1>3, <1>4

\* fopen (fopen.c), also when there is no slot, no file or no memory.
LEMMA FopenSound ==
  ASSUME NEW v, NEW X, Sound(v, X), NEW name, name # "", NEW mode \in Modes, NEW plus,
         NEW o, NEW r, r = Fopen(v, name, mode, plus, o)
  PROVE  Sound(r.w, X) /\ (r.r = Null \/ r.r \in Files(r.w))
<1> DEFINE slots == {i \in Slots : v.tab[i] = Null}
           slot  == CHOOSE i \in slots : \A j \in slots : i <= j
           first == IF mode = "w" THEN Reply(v, -1) ELSE SysOpen(v, name)
           made  == Creat(v, name, o)
           fd    == IF mode # "r" /\ first.r < 0
                    THEN IF made.r > 0 THEN SysOpen(SysClose(made.w, made.r), name) ELSE made
                    ELSE first
           m     == Malloc(fd.w.heap, FileSize)
           f     == FileRec(fd.r, ModeFlags(mode, plus))
           k     == Enrolled(fd.w, m.heap, slot, m.ptr, f)
           z     == SysClose(fd.w, fd.r)
<1>1. \/ r = Reply(v, Null)
      \/ fd.r < 0 /\ r = Reply(fd.w, Null)
      \/ ~(fd.r < 0) /\ r = Reply(z, Null)
      \/ slots # {} /\ ~(fd.r < 0) /\ m.ptr # Null /\ r = Reply(k, m.ptr)
  <2>1. r = CASE slots = {} -> Reply(v, Null)
              [] slots # {} /\ fd.r < 0 -> Reply(fd.w, Null)
              [] slots # {} /\ fd.r >= 0 /\ m.ptr = Null -> Reply(z, Null)
              [] OTHER -> Reply(k, m.ptr)
    BY DEF Fopen, Enrolled
  <2>2. fd.r \in Int
    <3>1. Opening(v, name, fd)
      BY FopenFd DEF Sound, Base
    <3> HIDE DEF fd
    <3> QED BY ONLY <3>1 DEF Opening, Descriptors
  <2> HIDE DEF slots, fd, m, z, k
  <2> QED BY ONLY <2>1, <2>2
<1>2. Base(v) /\ IsWorld(v) /\ AreFds(v.fds) /\ HeapOK(v.heap)
  BY SoundOwns DEF Base
<1>3. Opening(v, name, fd)
  BY <1>2, FopenFd
<1>4. slots # {} => slot \in Slots /\ v.tab[slot] = Null
  BY LowestSlot
<1> HIDE DEF fd
<1>5. CASE r = Reply(v, Null)
  <2>1. r.w = v /\ r.r = Null
    BY ONLY <1>5 DEF Reply
  <2> QED BY <2>1
<1>6. CASE fd.r < 0 /\ r = Reply(fd.w, Null)
  <2>1. r.w = fd.w /\ r.r = Null
    BY ONLY <1>6 DEF Reply
  <2>2. Level(v, fd.w)
    BY ONLY <1>3, <1>6 DEF Opening, Level, Descriptors
  <2>3. Sound(fd.w, X)
    BY <2>2, LevelSound
  <2> QED BY <2>1, <2>3
<1>7. ~(fd.r < 0) => fd.r \in Descriptors
  BY ONLY <1>3 DEF Opening
<1>8. CASE ~(fd.r < 0) /\ r = Reply(z, Null)
  <2>1. z = SysClose(fd.w, fd.r)
    OBVIOUS
  <2> HIDE DEF z
  <2>2. r.w = z /\ r.r = Null
    BY ONLY <1>8 DEF Reply
  <2>3. Level(v, z)
    BY <1>2, <1>3, <1>7, <1>8, <2>1, ClosedAgain
  <2>4. Sound(z, X)
    BY <2>3, LevelSound
  <2> QED BY <2>2, <2>4
<1>9. CASE slots # {} /\ ~(fd.r < 0) /\ m.ptr # Null /\ r = Reply(k, m.ptr)
  <2>0. /\ fd.r \in Descriptors /\ v.fds[fd.r] = ClosedFd /\ fd.w.fds = OpenedAt(v.fds, fd.r, name)
        /\ IsWorld(fd.w) /\ fd.w.heap = v.heap /\ fd.w.tab = v.tab /\ fd.w.file = v.file
    <3>1. fd.r \in Descriptors /\ fd.r # -1
      BY ONLY <1>7, <1>9 DEF Descriptors
    <3> QED BY <1>3, <3>1 DEF Opening
  <2>1. r.w = k /\ r.r = m.ptr
    <3> HIDE DEF k, m
    <3> QED BY ONLY <1>9 DEF Reply
  <2>2. m.ptr \in Int /\ m.ptr > 0 /\ HeapOK(m.heap) /\ m.ptr \notin InUse(v.heap) /\ InUse(m.heap) = InUse(v.heap) \cup {m.ptr}
    <3>1. m = Malloc(v.heap, FileSize)
      BY <2>0
    <3>2. FileSize \in Nat
      BY StdioAssumption
    <3> HIDE DEF m
    <3> QED BY <1>2, <1>9, <3>1, <3>2, MallocOK
  <2>3. IsFile(f) /\ f.fd = fd.r /\ "MYBUF" \notin f.flags
    BY NewFile
  <2>4. k = Enrolled(fd.w, m.heap, slot, m.ptr, f)
    OBVIOUS
  <2>5. slot \in Slots /\ v.tab[slot] = Null
    BY <1>4, <1>9
  <2> HIDE DEF k, m, f, slot, slots
  <2>6. /\ IsWorld(k) /\ k.heap = m.heap /\ k.fds = fd.w.fds /\ k.tab = Taken(fd.w.tab, slot, m.ptr)
        /\ k.file = Extended(fd.w.file, m.ptr, f)
    BY ONLY <2>0, <2>4, EnrolledWorld
  <2>7. Coming(v, X, m.ptr, fd.r, name, m.heap, slot, f, k)
    BY <2>0, <2>2, <2>3, <2>5, <2>6 DEF Coming
  <2>8. Sound(k, X) /\ m.ptr \in Files(k)
    BY <2>7, Come
  <2> QED BY <2>1, <2>8
<1> QED
  <2> HIDE DEF slots, m, z, k
  <2> QED BY ONLY <1>1, <1>5, <1>6, <1>8, <1>9

Kinds == {"FBF", "LBF", "NBF"}

\* What the program holds is in use, with room for what it asked for.
Roomy(h, m) == \A p \in DOMAIN m : /\ p \in InUse(h)
                                   /\ m[p] + Header <= SizeMax => Room(h, p) >= m[p]

\* The invariant. The program holds no region in the scenes without memory, and
\* the stream it uses, once open, is one of the table.
LibInv ==
    /\ calls \in Nat
    /\ scene # "memory" => DOMAIN mem = {}
    /\ HeapOK(w.heap)
    /\ Roomy(w.heap, mem)
    /\ dir # "exited" => Sound(w, DOMAIN mem) /\ (fp = Null \/ fp \in Files(w))
    /\ dir = "exited" => calls = MaxCalls /\ scene = "file"

\* The streams are those there were.
LEMMA KeptHere ==
  ASSUME NEW v, NEW X, Sound(v, X), NEW u, Kept(v, u, X)
  PROVE  Sound(u, X) /\ Files(u) = Files(v)
<1>1. Sound(u, X)
  BY KeptSound
<1>2. DOMAIN u.file = DOMAIN v.file
  BY DEF Kept, Same
<1> QED BY <1>1, <1>2 DEF Files

\* They are after a quiet call.
LEMMA QuietHere ==
  ASSUME NEW v, NEW X, Sound(v, X), NEW u, Quiet(v, u)
  PROVE  Sound(u, X) /\ Files(u) = Files(v)
  BY QuietKept, KeptHere

\* The calls on a stream, as the program makes them.
LEMMA FilesHere == ASSUME NEW v, NEW X, Sound(v, X), NEW p \in Files(v) PROVE p \in DOMAIN v.file
  BY DEF Files

\* stdin and stdout are always there.
LEMMA StdHere == ASSUME NEW v, NEW X, Sound(v, X) PROVE Stdin \in DOMAIN v.file /\ Stdout \in DOMAIN v.file
  BY PlacesFacts

\* fwrite and fputs
LEMMA WrittenKept ==
  ASSUME NEW v, NEW X, Sound(v, X), NEW p \in DOMAIN v.file, NEW s \in Seq(Int), NEW n, NEW o,
         NEW k, k = Fwrite(v, p, s, n, o) \/ k = Fputs(v, p, s, o)
  PROVE  Kept(v, k.w, X)
<1> DEFINE a == PutAll(v, p, s, o)
<1>1. Kept(v, a.w, X)
  <2>1. a = PutAll(v, p, s, o)
    OBVIOUS
  <2> HIDE DEF a
  <2> QED BY <2>1, PutAllKept
<1>2. k.w = a.w
  BY DEF Fwrite, Fputs
<1> QED BY <1>1, <1>2

\* puts
LEMMA PutsKept ==
  ASSUME NEW v, NEW X, Sound(v, X), NEW s \in Seq(Int), NEW o, NEW k, k = Puts(v, s, o)
  PROVE  Kept(v, k.w, X)
<1>1. Append(s, Newline) \in Seq(Int)
  BY StdioAssumption
<1>2. k = PutAll(v, Stdout, Append(s, Newline), o)
  BY DEF Puts
<1> QED BY <1>1, <1>2, StdHere, PutAllKept

\* fgets, fread and getc
LEMMA ReadKept ==
  ASSUME NEW v, NEW X, Sound(v, X), NEW p \in DOMAIN v.file, NEW n \in Nat, NEW o,
         NEW k, k = Fgets(v, p, n + 1, o) \/ k = Fread(v, p, 1, n, o) \/ k = Gather(v, p, 1, {}, o)
  PROVE  Kept(v, k.w, X)
<1> DEFINE a == Gather(v, p, n + 1 - 1, {Newline}, o)
           b == Gather(v, p, 1 * n, {}, o)
           c == Gather(v, p, 1, {}, o)
<1>1. n + 1 - 1 \in Nat /\ 1 * n \in Nat
  OBVIOUS
<1>2. Kept(v, a.w, X)
  <2>1. a = Gather(v, p, n + 1 - 1, {Newline}, o)
    OBVIOUS
  <2> HIDE DEF a
  <2> QED BY <1>1, <2>1, GatherKept
<1>3. Kept(v, b.w, X)
  <2>1. b = Gather(v, p, 1 * n, {}, o)
    OBVIOUS
  <2> HIDE DEF b
  <2> QED BY <1>1, <2>1, GatherKept
<1>4. Kept(v, c.w, X)
  <2>1. c = Gather(v, p, 1, {}, o)
    OBVIOUS
  <2> HIDE DEF c
  <2> QED BY <2>1, GatherKept
<1>5. k.w = a.w \/ k.w = b.w \/ k.w = c.w
  <2>1. CASE k = Fgets(v, p, n + 1, o)
    <3>1. \A x : With(x, LAMBDA y : Line(y, p, y.s)) = Line(x, p, x.s)
      BY ONLY DEF With
    <3>2. PICK m : m = n + 1
      OBVIOUS
    <3>3. k = Fgets(v, p, m, o)
      BY ONLY <2>1, <3>2
    <3>4. k = With(Gather(v, p, m - 1, {Newline}, o), LAMBDA y : Line(y, p, y.s))
      BY ONLY <3>3, Zenon DEF Fgets
    <3>5. k = Line(a, p, a.s)
      <4>1. a = Gather(v, p, m - 1, {Newline}, o)
        BY ONLY <3>2
      <4> HIDE DEF a
      <4> QED BY ONLY <3>1, <3>4, <4>1, Zenon
    <3> QED BY ONLY <3>5 DEF Line
  <2>2. CASE k = Fread(v, p, 1, n, o)
    BY ONLY <2>2 DEF Fread
  <2>3. CASE k = c
    BY ONLY <2>3
  <2> QED BY <2>1, <2>2, <2>3
<1> QED BY ONLY <1>2, <1>3, <1>4, <1>5

\* gets
LEMMA GetsKept ==
  ASSUME NEW v, NEW X, Sound(v, X), NEW o, NEW k, k = Gets(v, 3, o)
  PROVE  Kept(v, k.w, X)
<1> DEFINE a == Gather(v, Stdin, 3, {Newline}, o)
<1>1. Kept(v, a.w, X)
  <2>1. a = Gather(v, Stdin, 3, {Newline}, o)
    OBVIOUS
  <2> HIDE DEF a
  <2> QED BY <2>1, StdHere, GatherKept
<1>2. k.w = a.w
  <2> DEFINE Rest(x) == SelectSeq(x.s, LAMBDA c : c # Newline)
  <2>1. \A x : With(x, LAMBDA y : Line(y, Stdin, Rest(y))) = Line(x, Stdin, Rest(x))
    <3> HIDE DEF Rest
    <3> QED BY ONLY DEF With
  <2>2. k = Line(a, Stdin, Rest(a))
    BY <2>1, Zenon DEF Gets
  <2> HIDE DEF Rest, a
  <2> QED BY ONLY <2>2 DEF Line
<1> QED BY <1>1, <1>2

\* fseek, rewind and fsetpos
LEMMA PositionQuiet ==
  ASSUME NEW v, NEW X, Sound(v, X), NEW p \in DOMAIN v.file, NEW whence, NEW offset, NEW o,
         NEW k, k = Fseek(v, p, offset, whence, o) \/ k = Rewind(v, p, o) \/ k = Fsetpos(v, p, offset, o)
  PROVE  Quiet(v, k.w)
<1>1. k = Fseek(v, p, offset, whence, o) \/ k = Rewind(v, p, o) \/ k = Fseek(v, p, offset, "SET", o)
  BY DEF Fsetpos
<1> QED BY <1>1, SoundOwns, FseekQuiet, RewindQuiet

\* setbuf and setvbuf
LEMMA SetbufKept ==
  ASSUME NEW v, NEW X, Sound(v, X), NEW p \in DOMAIN v.file, NEW buf, NEW mode \in Kinds,
         NEW k, k = Setbuf(v, p, buf) \/ k = Setvbuf(v, p, buf, mode, Bufsiz)
  PROVE  Kept(v, k.w, X)
<1>1. Bufsiz \in Nat /\ mode # "MYBUF"
  BY StdioAssumption DEF Kinds
<1>2. CASE k = Setvbuf(v, p, buf, mode, Bufsiz)
  BY <1>1, <1>2, SetvbufKept
<1>3. CASE k = Setbuf(v, p, buf)
  <2>1. k = Setvbuf(v, p, buf, "NBF", Bufsiz) \/ k = Setvbuf(v, p, buf, "FBF", Bufsiz)
    BY <1>3 DEF Setbuf
  <2> QED BY <1>1, <2>1, SetvbufKept
<1> QED BY <1>2, <1>3

-----------------------------------------------------------------------------

\* A step that leaves the world v, with the stream fp' on the file or none.
LEMMA Onward ==
  ASSUME LibInv, scene # "memory", dir # "exited",
         NEW v, Sound(v, {}), w' = v, fp' = Null \/ fp' \in Files(v),
         dir' # "exited", UNCHANGED <<scene, mem>>, calls' \in Nat
  PROVE  LibInv'
<1>1. DOMAIN mem' = {} /\ scene' # "memory"
  BY DEF LibInv
<1>2. HeapOK(w'.heap)
  BY SoundOwns
<1>3. Roomy(w'.heap, mem')
  BY <1>1 DEF Roomy
<1>4. Sound(w', DOMAIN mem') /\ (fp' = Null \/ fp' \in Files(w'))
  BY <1>1
<1> QED BY <1>1, <1>2, <1>3, <1>4 DEF LibInv

\* Where no program with memory is, and calls are left.
LEMMA InFile ==
  ASSUME LibInv, calls < MaxCalls, scene # "memory"
  PROVE  /\ dir # "exited" /\ DOMAIN mem = {} /\ Sound(w, {}) /\ calls + 1 \in Nat
         /\ fp = Null \/ fp \in Files(w)
<1>1. calls \in Nat /\ calls # MaxCalls
  <2>1. calls \in Nat
    BY DEF LibInv
  <2>2. MaxCalls \in Nat
    BY LibcAssumption
  <2>3. calls < MaxCalls
    OBVIOUS
  <2> QED BY ONLY <2>1, <2>2, <2>3
<1>2. dir # "exited"
  BY <1>1 DEF LibInv
<1>3. DOMAIN mem = {}
  BY DEF LibInv
<1>4. Sound(w, DOMAIN mem) /\ (fp = Null \/ fp \in Files(w))
  BY <1>2 DEF LibInv
<1>5. Sound(w, {})
  BY ONLY <1>3, <1>4
<1>6. calls + 1 \in Nat
  BY <1>1
<1> QED BY ONLY <1>2, <1>3, <1>4, <1>5, <1>6

\* A call on the stream that keeps every stream where it is.
LEMMA FileCall ==
  ASSUME LibInv, NEW c, NEW bad, NEW v, Did(c, v, bad), Sound(v, {}),
         fp' = Null \/ fp' \in Files(v), dir' # "exited"
  PROVE  LibInv'
<1>1. scene = "file" /\ calls < MaxCalls /\ calls' = calls + 1 /\ w' = v /\ UNCHANGED <<scene, mem>>
  BY DEF Did, Counted
<1>2. dir # "exited" /\ calls' \in Nat
  BY <1>1, InFile
<1> QED BY <1>1, <1>2, Onward

\* The stream the program is using.
LEMMA OnFile ==
  ASSUME LibInv, fp # Null, scene = "file", calls < MaxCalls
  PROVE  Sound(w, {}) /\ fp \in Files(w) /\ fp \in DOMAIN w.file /\ dir # "exited" /\ Base(w) /\ Tabbed(w)
<1>1. Sound(w, {}) /\ fp \in Files(w) /\ dir # "exited"
  BY InFile
<1> QED BY <1>1, FilesHere, SoundOwns

\* A call on the file is one of those that are left.
LEMMA DidFacts ==
  ASSUME NEW c, NEW bad, NEW v, Did(c, v, bad) PROVE scene = "file" /\ calls < MaxCalls
  BY DEF Did, Counted

\* The program opens the file.
LEMMA OpenFileInv ==
  ASSUME LibInv, NEW mode \in Modes, NEW plus, NEW o, OpenFile(mode, plus, o) PROVE LibInv'
<1> DEFINE k == Fopen(w, Name, mode, plus, o)
<1>1. /\ Did([op |-> "open", mode |-> mode], k.w, k.r = Null)
      /\ fp' = k.r /\ dir' = "new"
  BY DEF OpenFile
<1>2. k = Fopen(w, Name, mode, plus, o)
  OBVIOUS
<1> HIDE DEF k
<1>3. Sound(w, {}) /\ Name # ""
  BY <1>1, DidFacts, InFile, LibcAssumption
<1>4. Sound(k.w, {}) /\ (k.r = Null \/ k.r \in Files(k.w))
  BY <1>2, <1>3, FopenSound
<1> QED BY <1>1, <1>4, FileCall

\* It chooses a buffer.
LEMMA SetbufferInv ==
  ASSUME LibInv, NEW mode \in Kinds, NEW buf, Setbuffer(mode, buf) PROVE LibInv'
<1> DEFINE k == IF mode = "FBF" /\ buf # Null THEN Setbuf(w, fp, buf) ELSE Setvbuf(w, fp, buf, mode, Bufsiz)
<1>1. Did([op |-> "flush"], k.w, k.r = EOF) /\ fp' = fp /\ fp # Null /\ dir' = ""
  BY DEF Setbuffer, Using
<1>2. k = Setbuf(w, fp, buf) \/ k = Setvbuf(w, fp, buf, mode, Bufsiz)
  OBVIOUS
<1> HIDE DEF k
<1>3. Sound(w, {}) /\ fp \in Files(w) /\ fp \in DOMAIN w.file
  BY <1>1, DidFacts, OnFile
<1>4. Kept(w, k.w, {})
  BY <1>2, <1>3, SetbufKept
<1>5. Sound(k.w, {}) /\ Files(k.w) = Files(w)
  BY <1>3, <1>4, KeptHere
<1> QED BY <1>1, <1>3, <1>5, FileCall

\* It writes.
LEMMA WriteInv ==
  ASSUME LibInv, NEW how, NEW s \in Texts, NEW o, Write(how, s, o) PROVE LibInv'
<1>1. PICK k \in {IF how = "fwrite" THEN Fwrite(w, fp, s, 2, o) ELSE Fputs(w, fp, s, o)} :
         Did([op |-> "put", s |-> s], k.w,
             IF how = "fwrite" THEN k.r # Len(s) \div 2 ELSE k.r = EOF)
  BY DEF Write
<1>2. fp' = fp /\ fp # Null /\ dir' = "out"
  BY DEF Write, MayWrite, Using
<1>3. k = Fwrite(w, fp, s, 2, o) \/ k = Fputs(w, fp, s, o)
  BY <1>1
<1> DEFINE bad == IF how = "fwrite" THEN k.r # Len(s) \div 2 ELSE k.r = EOF
<1>4. Did([op |-> "put", s |-> s], k.w, bad)
  BY <1>1
<1> HIDE DEF bad
<1>5. Sound(w, {}) /\ fp \in Files(w) /\ fp \in DOMAIN w.file
  BY <1>2, <1>4, DidFacts, OnFile
<1>6. s \in Seq(Int)
  BY LibcAssumption
<1>7. Kept(w, k.w, {})
  BY <1>3, <1>5, <1>6, WrittenKept
<1>8. Sound(k.w, {}) /\ Files(k.w) = Files(w)
  BY <1>5, <1>7, KeptHere
<1> QED BY <1>2, <1>4, <1>5, <1>8, FileCall

\* It reads.
LEMMA ReadInv ==
  ASSUME LibInv, NEW how \in {"getc", "fgets", "fread"}, NEW n \in 1 .. 3, NEW o, Read(how, n, o) PROVE LibInv'
<1> DEFINE ks == {CASE how = "fgets" -> Fgets(w, fp, n + 1, o)
                    [] how = "fread" -> Fread(w, fp, 1, n, o)
                    [] how = "getc" -> Gather(w, fp, 1, {}, o)}
           c(k) == [op |-> "get", n |-> IF how = "getc" THEN 1 ELSE n,
                    line |-> how = "fgets" /\ k.s # <<>> /\ Last(k.s) = Newline]
<1>1. PICK k \in ks : Did(c(k), k.w, FALSE)
  BY DEF Read
<1>2. fp' = fp /\ fp # Null /\ dir' = "in"
  BY DEF Read, MayRead, Using
<1>3. k = Fgets(w, fp, n + 1, o) \/ k = Fread(w, fp, 1, n, o) \/ k = Gather(w, fp, 1, {}, o)
  <2>1. how = "fgets" \/ how = "fread" \/ how = "getc"
    OBVIOUS
  <2> QED BY <1>1, <2>1
<1> HIDE DEF ks, c
<1>4. Sound(w, {}) /\ fp \in Files(w) /\ fp \in DOMAIN w.file
  BY <1>1, <1>2, DidFacts, OnFile
<1>5. n \in Nat
  OBVIOUS
<1>6. Kept(w, k.w, {})
  BY <1>3, <1>4, <1>5, ReadKept
<1>7. Sound(k.w, {}) /\ Files(k.w) = Files(w)
  BY <1>4, <1>6, KeptHere
<1> QED BY <1>1, <1>2, <1>4, <1>7, FileCall

\* It pushes a byte back.
LEMMA PushBackInv == ASSUME LibInv, PushBack PROVE LibInv'
<1> DEFINE k == Ungetc(w, fp, Last(got))
<1>1. Did([op |-> "unget"], k.w, FALSE) /\ fp' = fp /\ fp # Null /\ dir' = "in"
  BY DEF PushBack, Using
<1>2. k = Ungetc(w, fp, Last(got))
  OBVIOUS
<1> HIDE DEF k
<1>3. Sound(w, {}) /\ fp \in Files(w) /\ fp \in DOMAIN w.file
  BY <1>1, DidFacts, OnFile
<1>4. Kept(w, k.w, {})
  BY <1>2, <1>3, UngetcKept
<1>5. Sound(k.w, {}) /\ Files(k.w) = Files(w)
  BY <1>3, <1>4, KeptHere
<1> QED BY <1>1, <1>3, <1>5, FileCall

\* It positions the stream.
LEMMA PositionInv ==
  ASSUME LibInv, NEW whence \in {"SET", "CUR", "END"}, NEW offset, NEW o, Position(whence, offset, o) PROVE LibInv'
<1> DEFINE k == CASE whence = "CUR" \/ whence = "END" -> Fseek(w, fp, offset, whence, o)
                  [] whence = "SET" /\ offset = 0 -> Rewind(w, fp, o)
                  [] OTHER -> Fsetpos(w, fp, offset, o)
           bad == k.r = -1 \/ (whence = "SET" /\ offset = 0 /\ o # "ok")
<1>1. /\ Did([op |-> "seek", whence |-> whence, offset |-> offset], k.w, bad)
      /\ fp' = fp /\ fp # Null /\ dir' # "exited"
  BY DEF Position, Using
<1>2. k = Fseek(w, fp, offset, whence, o) \/ k = Rewind(w, fp, o) \/ k = Fsetpos(w, fp, offset, o)
  OBVIOUS
<1> HIDE DEF k, bad
<1>3. Sound(w, {}) /\ fp \in Files(w) /\ fp \in DOMAIN w.file
  BY <1>1, DidFacts, OnFile
<1>4. Quiet(w, k.w)
  BY <1>2, <1>3, PositionQuiet
<1>5. Sound(k.w, {}) /\ Files(k.w) = Files(w)
  BY <1>3, <1>4, QuietHere
<1> QED BY <1>1, <1>3, <1>5, FileCall

\* It asks for the place.
LEMMA WhereIsInv == ASSUME LibInv, WhereIs PROVE LibInv'
<1>1. PICK c : Did(c, w, FALSE)
  BY DEF WhereIs
<1>2. fp' = fp /\ fp # Null /\ dir' = dir
  BY DEF WhereIs, Using
<1>3. Sound(w, {}) /\ fp \in Files(w) /\ dir # "exited"
  BY <1>1, <1>2, DidFacts, OnFile
<1> QED BY <1>1, <1>2, <1>3, FileCall

\* It flushes.
LEMMA FlushStreamInv == ASSUME LibInv, NEW all, NEW o, FlushStream(all, o) PROVE LibInv'
<1> DEFINE a == FlushAll(w, {}, o)
           b == Fflush(w, fp, o)
           k == IF all THEN Reply(a, 0) ELSE b
<1>1. /\ Did([op |-> "flush"], k.w, k.r = EOF)
      /\ fp' = fp /\ fp # Null /\ dir' = IF Flagged(k.w.file[fp], "NBF") THEN dir ELSE ""
  BY DEF FlushStream, Using
<1>2. k.w = a \/ k = b
  BY DEF Reply
<1>3. a = FlushAll(w, {}, o) /\ b = Fflush(w, fp, o)
  OBVIOUS
<1> HIDE DEF k, a, b
<1>4. Sound(w, {}) /\ fp \in Files(w) /\ fp \in DOMAIN w.file /\ dir # "exited" /\ Base(w) /\ Tabbed(w)
  BY <1>1, DidFacts, OnFile
<1>5. Quiet(w, a) /\ Quiet(w, b.w)
  BY <1>3, <1>4, FlushAllQuiet, FflushQuiet
<1>6. Quiet(w, k.w)
  BY <1>2, <1>5
<1>7. Sound(k.w, {}) /\ Files(k.w) = Files(w)
  BY <1>4, <1>6, QuietHere
<1>8. dir' # "exited"
  BY ONLY <1>1, <1>4
<1> QED BY <1>1, <1>4, <1>7, <1>8, FileCall

\* It closes.
LEMMA CloseFileInv == ASSUME LibInv, NEW o, CloseFile(o) PROVE LibInv'
<1> DEFINE k == Fclose(w, fp, o)
<1>1. Did([op |-> "close"], k.w, k.r = EOF) /\ fp' = Null /\ fp # Null /\ dir' = ""
  BY DEF CloseFile
<1>2. k = Fclose(w, fp, o)
  OBVIOUS
<1> HIDE DEF k
<1>3. Sound(w, {}) /\ fp \in Files(w)
  BY <1>1, DidFacts, OnFile
<1>4. Sound(k.w, {})
  BY <1>2, <1>3, FcloseSound
<1> QED BY <1>1, <1>4, FileCall

\* It ends.
LEMMA ExitProgramInv == ASSUME LibInv, NEW o, ExitProgram(o) PROVE LibInv'
<1> DEFINE k   == Cleanup(w, o)
           fds == [i \in DOMAIN k.fds |-> ClosedFd]
           tab == [i \in Slots |-> Null]
           u   == [k EXCEPT !.fds = fds, !.tab = tab]
           bad == o # "ok"
<1>1. /\ Did([op |-> "close"], u, bad)
      /\ fp # Null /\ dir' = "exited" /\ calls' = MaxCalls
  BY DEF ExitProgram
<1>2. k = Cleanup(w, o) /\ u = [k EXCEPT !.fds = fds, !.tab = tab]
  OBVIOUS
<1> HIDE DEF k, u, fds, tab, bad
<1>3. Sound(w, {}) /\ Base(w) /\ Tabbed(w)
  BY <1>1, DidFacts, OnFile
<1>4. Quiet(w, k)
  BY <1>2, <1>3, CleanupQuiet
<1>5. IsWorld(k) /\ k.heap = w.heap
  BY <1>4 DEF Quiet, Base
<1>6. u = [heap |-> k.heap, disk |-> k.disk, typed |-> k.typed, fds |-> fds,
           file |-> k.file, tab |-> tab, cleanup |-> k.cleanup]
  BY ONLY <1>2, <1>5 DEF IsWorld
<1>7. u.heap = w.heap
  BY ONLY <1>5, <1>6
<1>8. w' = u /\ scene' = scene /\ mem' = mem /\ scene = "file"
  BY <1>1 DEF Did
<1>9. HeapOK(w.heap) /\ Roomy(w.heap, mem) /\ DOMAIN mem = {}
  BY <1>8 DEF LibInv
<1>10. MaxCalls \in Nat
  BY LibcAssumption
<1>11. w'.heap = w.heap
  BY <1>7, <1>8
<1>12. HeapOK(w'.heap) /\ Roomy(w'.heap, mem') /\ DOMAIN mem' = {}
  BY <1>8, <1>9, <1>11
<1> QED BY ONLY <1>1, <1>8, <1>10, <1>12 DEF LibInv

\* A call on the terminal.
LEMMA TalkInv ==
  ASSUME LibInv, NEW v, NEW s, Talk(v, s), Kept(w, v, {}) PROVE LibInv'
<1>1. scene = "terminal" /\ calls < MaxCalls /\ calls' = calls + 1 /\ w' = v /\ UNCHANGED <<scene, mem, fp, dir>>
  BY DEF Talk, Counted
<1>2. dir # "exited" /\ calls' \in Nat /\ Sound(w, {}) /\ (fp = Null \/ fp \in Files(w))
  BY <1>1, InFile
<1>3. Sound(v, {}) /\ Files(v) = Files(w)
  BY <1>2, KeptHere
<1> QED BY <1>1, <1>2, <1>3, Onward

\* A call on the terminal is one of those that are left.
LEMMA TalkFacts == ASSUME LibInv, NEW v, NEW s, Talk(v, s) PROVE Sound(w, {})
<1>1. scene = "terminal" /\ calls < MaxCalls
  BY DEF Talk, Counted
<1> QED BY <1>1, InFile

\* It writes to the terminal.
LEMMA SayInv == ASSUME LibInv, NEW line, NEW s \in Texts, NEW o, Say(line, s, o) PROVE LibInv'
<1> DEFINE k == IF line THEN Puts(w, s, o) ELSE Fputs(w, Stdout, s, o)
           t == IF line THEN Append(s, Newline) ELSE s
<1>1. Talk(k.w, t)
  BY DEF Say
<1>2. k = Puts(w, s, o) \/ k = Fputs(w, Stdout, s, o)
  OBVIOUS
<1> HIDE DEF k, t
<1>3. Sound(w, {})
  BY <1>1, TalkFacts
<1>4. s \in Seq(Int) /\ Stdout \in DOMAIN w.file
  BY <1>3, StdHere, LibcAssumption
<1>5. Kept(w, k.w, {})
  BY <1>2, <1>3, <1>4, PutsKept, WrittenKept
<1> QED BY <1>1, <1>5, TalkInv

\* It reads what is typed.
LEMMA HearInv == ASSUME LibInv, NEW o, Hear(o) PROVE LibInv'
<1> DEFINE k == Gets(w, 3, o)
<1>1. Talk(k.w, <<>>) /\ k = Gets(w, 3, o)
  BY DEF Hear
<1> HIDE DEF k
<1>2. Sound(w, {})
  BY <1>1, TalkFacts
<1>3. Kept(w, k.w, {})
  BY <1>1, <1>2, GetsKept
<1> QED BY <1>1, <1>3, TalkInv

-----------------------------------------------------------------------------

\* The program gets memory, or gives some back.
LEMMA HeapSwapped ==
  ASSUME NEW v, NEW X, Sound(v, X), NEW h, HeapOK(h), NEW Y,
         InUse(h) = (InUse(v.heap) \ X) \cup Y, Y \cap (InUse(v.heap) \ X) = {},
         NEW u, u = Emptied(v, h)
  PROVE  Sound(u, Y) /\ Files(u) = Files(v)
<1>1. Base(v) /\ Places(v) /\ Owns(v, X) /\ IsWorld(v)
  BY DEF Sound, Base
<1>2. /\ IsWorld(u) /\ u.heap = h /\ u.disk = v.disk /\ u.typed = v.typed /\ u.fds = v.fds
      /\ u.file = v.file /\ u.tab = v.tab /\ u.cleanup = v.cleanup
  BY <1>1, HeapPut
<1>3. Files(u) = Files(v) /\ Bufs(u) = Bufs(v)
  BY <1>2 DEF Files, Bufs
<1>4. Given(u) = Given(v)
  BY <1>2, <1>3 DEF Given
<1>5. Base(u)
  <2>1. AreFds(v.fds) /\ v.file = [p \in DOMAIN v.file |-> v.file[p]]
    BY <1>1 DEF Base
  <2>2. \A p \in DOMAIN v.file : /\ IsFile(v.file[p])
                                  /\ v.file[p].fd \in Descriptors
                                  /\ v.fds[v.file[p].fd].name # ""
    BY <1>1 DEF Base
  <2>3. AreFds(u.fds) /\ u.file = [p \in DOMAIN u.file |-> u.file[p]]
    BY ONLY <1>2, <2>1
  <2>4. \A p \in DOMAIN u.file : /\ IsFile(u.file[p])
                                  /\ u.file[p].fd \in Descriptors
                                  /\ u.fds[u.file[p].fd].name # ""
    BY ONLY <1>2, <2>2
  <2> QED BY ONLY <1>2, <2>3, <2>4 DEF Base
<1>6. Same(v, u)
  <2>1. DOMAIN u.file = DOMAIN v.file /\ \A i \in Descriptors : u.fds[i].name = v.fds[i].name
    BY ONLY <1>2
  <2>2. \A p \in DOMAIN v.file : u.file[p].fd = v.file[p].fd
    BY ONLY <1>2
  <2> QED BY ONLY <1>2, <1>5, <2>1, <2>2 DEF Same
<1>7. InUse(v.heap) = X \cup Files(v) \cup Given(v) /\ X \cap Files(v) = {} /\ X \cap Given(v) = {} /\ Files(v) \cap Given(v) = {}
  BY <1>1 DEF Owns
<1>8. InUse(v.heap) \ X = Files(v) \cup Given(v)
  BY ONLY <1>7
<1>8a. InUse(h) = (Files(v) \cup Given(v)) \cup Y /\ Y \cap (Files(v) \cup Given(v)) = {}
  BY <1>8
<1>9. InUse(u.heap) = Y \cup Files(u) \cup Given(u) /\ Y \cap Files(u) = {} /\ Y \cap Given(u) = {} /\ Files(u) \cap Given(u) = {}
  <2>1. InUse(u.heap) = Y \cup Files(v) \cup Given(v)
    BY ONLY <1>2, <1>8a
  <2>2. Y \cap Files(v) = {} /\ Y \cap Given(v) = {}
    BY ONLY <1>8a
  <2> QED BY ONLY <1>3, <1>4, <1>7, <2>1, <2>2
<1>10. \A a, b \in Bufs(v) : v.file[a].buf = v.file[b].buf => a = b
  BY <1>1 DEF Owns
<1>11. \A a, b \in Bufs(u) : u.file[a].buf = u.file[b].buf => a = b
  BY ONLY <1>2, <1>3, <1>10
<1>12. Owns(u, Y)
  BY <1>2, <1>9, <1>11 DEF Owns
<1>13. Places(u)
  BY <1>1, <1>6, SamePlaces
<1> QED BY <1>3, <1>5, <1>12, <1>13 DEF Sound

\* What holds when the program calls malloc or free.
LEMMA TouchFacts ==
  ASSUME LibInv, Touch
  PROVE  /\ scene = "memory" /\ calls' \in Nat /\ dir # "exited" /\ dir' = dir /\ fp' = fp /\ scene' = scene
         /\ Sound(w, DOMAIN mem) /\ (fp = Null \/ fp \in Files(w)) /\ IsWorld(w)
         /\ HeapOK(w.heap) /\ Roomy(w.heap, mem)
<1>1. scene = "memory" /\ calls < MaxCalls /\ calls' = calls + 1 /\ UNCHANGED <<scene, fp, dir>>
  BY DEF Touch, Counted
<1>2. calls \in Nat
  BY DEF LibInv
<1>3. dir # "exited"
  BY <1>1 DEF LibInv
<1>4. Sound(w, DOMAIN mem) /\ (fp = Null \/ fp \in Files(w)) /\ HeapOK(w.heap) /\ Roomy(w.heap, mem)
  BY <1>3 DEF LibInv
<1>5. IsWorld(w)
  BY <1>4 DEF Sound, Base
<1> QED BY <1>1, <1>2, <1>3, <1>4, <1>5

\* It allocates.
LEMMA AllocateInv == ASSUME LibInv, NEW n \in Requests, Allocate(n) PROVE LibInv'
<1> DEFINE m == Malloc(w.heap, n)
<1>1. Touch /\ w' = Emptied(w, m.heap) /\ mem' = IF m.ptr = Null THEN mem ELSE Extended(mem, m.ptr, n)
  BY DEF Allocate, Emptied
<1>2. /\ scene = "memory" /\ calls' \in Nat /\ dir # "exited" /\ dir' = dir /\ fp' = fp /\ scene' = scene
      /\ Sound(w, DOMAIN mem) /\ (fp = Null \/ fp \in Files(w)) /\ IsWorld(w)
      /\ HeapOK(w.heap) /\ Roomy(w.heap, mem)
  BY <1>1, TouchFacts
<1>3. m = Malloc(w.heap, n) /\ n \in Nat
  BY LibcAssumption
<1> HIDE DEF m
<1>4. w'.heap = m.heap
  BY <1>1, <1>2, HeapPut
<1>5. DOMAIN mem \subseteq InUse(w.heap)
  BY <1>2 DEF Sound, Owns
<1>6. \/ m.ptr = Null /\ m.heap = w.heap
      \/ /\ m.ptr \in Int /\ m.ptr > 0
         /\ HeapOK(m.heap)
         /\ m.ptr \notin InUse(w.heap)
         /\ InUse(m.heap) = InUse(w.heap) \cup {m.ptr}
         /\ \A p \in InUse(w.heap) : Room(m.heap, p) = Room(w.heap, p)
         /\ n + Header <= SizeMax => Room(m.heap, m.ptr) >= n
  BY ONLY <1>2, <1>3, MallocOK
<1>7. CASE m.ptr = Null /\ m.heap = w.heap
  <2>1. mem' = mem
    BY <1>1, <1>7
  <2>2. InUse(m.heap) = (InUse(w.heap) \ DOMAIN mem) \cup DOMAIN mem
    BY ONLY <1>5, <1>7
  <2>3. HeapOK(m.heap)
    BY ONLY <1>2, <1>7
  <2>4. DOMAIN mem \cap (InUse(w.heap) \ DOMAIN mem) = {}
    OBVIOUS
  <2>5. Sound(w', DOMAIN mem') /\ Files(w') = Files(w)
    BY ONLY <1>1, <1>2, <2>1, <2>2, <2>3, <2>4, HeapSwapped
  <2>6. Roomy(w'.heap, mem') /\ HeapOK(w'.heap)
    BY <1>2, <1>4, <1>7, <2>1
  <2> QED BY <1>2, <2>5, <2>6 DEF LibInv
<1>8. CASE /\ m.ptr \in Int /\ m.ptr > 0
           /\ HeapOK(m.heap)
           /\ m.ptr \notin InUse(w.heap)
           /\ InUse(m.heap) = InUse(w.heap) \cup {m.ptr}
           /\ \A p \in InUse(w.heap) : Room(m.heap, p) = Room(w.heap, p)
           /\ n + Header <= SizeMax => Room(m.heap, m.ptr) >= n
  <2>1. mem' = Extended(mem, m.ptr, n)
    BY <1>1, <1>8 DEF Null
  <2>2. /\ DOMAIN mem' = DOMAIN mem \cup {m.ptr}
        /\ mem'[m.ptr] = n /\ \A p \in DOMAIN mem : p # m.ptr => mem'[p] = mem[p]
    BY <2>1 DEF Extended
  <2>3. InUse(m.heap) = (InUse(w.heap) \ DOMAIN mem) \cup DOMAIN mem'
    BY ONLY <1>5, <1>8, <2>2
  <2>4. DOMAIN mem' \cap (InUse(w.heap) \ DOMAIN mem) = {}
    BY ONLY <1>8, <2>2
  <2>5. Sound(w', DOMAIN mem') /\ Files(w') = Files(w)
    <3>1. HeapOK(m.heap) /\ w' = Emptied(w, m.heap) /\ Sound(w, DOMAIN mem)
      BY <1>1, <1>2, <1>8
    <3> QED BY ONLY <2>3, <2>4, <3>1, HeapSwapped
  <2>6. ASSUME NEW p \in DOMAIN mem'
        PROVE  p \in InUse(m.heap) /\ (mem'[p] + Header <= SizeMax => Room(m.heap, p) >= mem'[p])
    <3>1. CASE p = m.ptr
      BY ONLY <1>8, <2>2, <3>1
    <3>2. CASE p # m.ptr
      <4>1. p \in DOMAIN mem /\ p \in InUse(w.heap) /\ mem'[p] = mem[p]
        BY ONLY <1>5, <2>2, <3>2, p \in DOMAIN mem'
      <4>2. mem[p] + Header <= SizeMax => Room(w.heap, p) >= mem[p]
        BY <1>2, <4>1 DEF Roomy
      <4> QED BY ONLY <1>8, <4>1, <4>2
    <3> QED BY ONLY <3>1, <3>2
  <2>7. Roomy(w'.heap, mem') /\ HeapOK(w'.heap)
    BY <1>4, <1>8, <2>6 DEF Roomy
  <2> QED BY <1>2, <2>5, <2>7 DEF LibInv
<1> QED BY ONLY <1>6, <1>7, <1>8

\* It frees.
LEMMA ReleaseInv == ASSUME LibInv, NEW p \in DOMAIN mem, Release(p) PROVE LibInv'
<1> DEFINE h == MemFree(w.heap, p)
<1>1. Touch /\ w' = Emptied(w, h) /\ mem' = [q \in DOMAIN mem \ {p} |-> mem[q]]
  BY DEF Release, Emptied
<1>2. /\ scene = "memory" /\ calls' \in Nat /\ dir # "exited" /\ dir' = dir /\ fp' = fp /\ scene' = scene
      /\ Sound(w, DOMAIN mem) /\ (fp = Null \/ fp \in Files(w)) /\ IsWorld(w)
      /\ HeapOK(w.heap) /\ Roomy(w.heap, mem)
  BY <1>1, TouchFacts
<1>3. h = MemFree(w.heap, p)
  OBVIOUS
<1> HIDE DEF h
<1>4. w'.heap = h
  BY <1>1, <1>2, HeapPut
<1>5. DOMAIN mem \subseteq InUse(w.heap) /\ p \in InUse(w.heap)
  BY <1>2 DEF Sound, Owns
<1>6. HeapOK(h) /\ InUse(h) = InUse(w.heap) \ {p} /\ \A q \in InUse(h) : Room(h, q) = Room(w.heap, q)
  <2>1. PICK cls : Classed(w.heap, cls)
    BY <1>2 DEF HeapOK
  <2>2. Classed(h, cls) /\ InUse(h) = InUse(w.heap) \ {p} /\ \A q \in InUse(h) : Room(h, q) = Room(w.heap, q)
    BY ONLY <1>3, <1>5, <2>1, MemFreeOK
  <2> QED BY <2>2 DEF HeapOK
<1>7. DOMAIN mem' = DOMAIN mem \ {p} /\ \A q \in DOMAIN mem' : mem'[q] = mem[q]
  BY <1>1
<1>8. InUse(h) = (InUse(w.heap) \ DOMAIN mem) \cup DOMAIN mem'
  BY ONLY <1>5, <1>6, <1>7, p \in DOMAIN mem
<1>9. DOMAIN mem' \cap (InUse(w.heap) \ DOMAIN mem) = {}
  BY ONLY <1>7
<1>10. Sound(w', DOMAIN mem') /\ Files(w') = Files(w)
  BY ONLY <1>1, <1>2, <1>6, <1>8, <1>9, HeapSwapped
<1>11. ASSUME NEW q \in DOMAIN mem'
       PROVE  q \in InUse(h) /\ (mem'[q] + Header <= SizeMax => Room(h, q) >= mem'[q])
  <2>1. q \in DOMAIN mem /\ q # p /\ mem'[q] = mem[q]
    BY <1>7
  <2>2. q \in InUse(h) /\ Room(h, q) = Room(w.heap, q)
    BY ONLY <1>5, <1>6, <2>1
  <2>3. mem[q] + Header <= SizeMax => Room(w.heap, q) >= mem[q]
    BY <1>2, <2>1 DEF Roomy
  <2> QED BY ONLY <2>1, <2>2, <2>3
<1>12. Roomy(w'.heap, mem') /\ HeapOK(w'.heap)
  BY <1>4, <1>6, <1>11 DEF Roomy
<1> QED BY <1>2, <1>10, <1>12 DEF LibInv

\* It does nothing.
LEMMA SameInv == ASSUME LibInv, UNCHANGED <<scene, w, fp, mem, dir, calls>> PROVE LibInv'
  BY DEF LibInv

\* It calls a function without state.
LEMMA ComputeInv == ASSUME LibInv, Compute PROVE LibInv'
<1>1. UNCHANGED <<scene, w, fp, mem, dir>> /\ calls' = 1 /\ scene = "text"
  BY DEF Compute
<1> QED BY <1>1 DEF LibInv

-----------------------------------------------------------------------------

\* The program starts.
LEMMA InitInv == ASSUME Init PROVE LibInv
<1>1. PICK limit \in Limits, text \in Contents, typed \in Typed :
         w = [heap |-> EmptyHeap(limit),
              disk |-> [f \in {Terminal, Name} |-> IF f = Name THEN text ELSE <<>>],
              typed |-> typed,
              fds |-> [i \in 0 .. 3 |-> IF i < 3 THEN [name |-> Terminal, pos |-> 0]
                                        ELSE ClosedFd],
              file |-> StdStreams,
              tab |-> [i \in Slots |-> CASE i = 1 -> Stdin [] i = 2 -> Stdout [] OTHER -> Null],
              cleanup |-> FALSE]
  BY DEF Init
<1> DEFINE heap == EmptyHeap(limit)
           disk == [f \in {Terminal, Name} |-> IF f = Name THEN text ELSE <<>>]
           fds  == [i \in 0 .. 3 |-> IF i < 3 THEN [name |-> Terminal, pos |-> 0] ELSE ClosedFd]
           tab  == [i \in Slots |-> CASE i = 1 -> Stdin [] i = 2 -> Stdout [] OTHER -> Null]
<1>2. w = [heap |-> heap, disk |-> disk, typed |-> typed, fds |-> fds,
           file |-> StdStreams, tab |-> tab, cleanup |-> FALSE]
  BY <1>1
<1>3. HeapOK(heap) /\ InUse(heap) = {}
  BY EmptyOK, LibcAssumption
<1>4. /\ fds = [i \in Descriptors |-> fds[i]]
      /\ \A i \in 0 .. 2 : fds[i] = [name |-> Terminal, pos |-> 0]
      /\ fds[3] = ClosedFd
  BY DEF Descriptors
<1>5. /\ tab = [i \in Slots |-> tab[i]]
      /\ 1 \in Slots /\ 2 \in Slots /\ tab[1] = Stdin /\ tab[2] = Stdout
      /\ \A i \in Slots : tab[i] \in {Stdin, Stdout, Null}
  BY StdioAssumption DEF Slots
<1> HIDE DEF heap, disk, fds, tab
<1>6. IsWorld(w) /\ w.heap = heap /\ w.fds = fds /\ w.file = StdStreams /\ w.tab = tab
  BY ONLY <1>2 DEF IsWorld
<1>4a. /\ \A i \in 0 .. 2 : fds[i].name = Terminal /\ fds[i] = [name |-> fds[i].name, pos |-> fds[i].pos]
       /\ fds[3].name = "" /\ fds[3] = [name |-> fds[3].name, pos |-> fds[3].pos]
  <2>1. ASSUME NEW i \in 0 .. 2 PROVE fds[i].name = Terminal /\ fds[i] = [name |-> fds[i].name, pos |-> fds[i].pos]
    <3>1. fds[i] = [name |-> Terminal, pos |-> 0]
      BY ONLY <1>4, i \in 0 .. 2
    <3> QED BY ONLY <3>1
  <2>2. fds[3].name = "" /\ fds[3] = [name |-> fds[3].name, pos |-> fds[3].pos]
    <3>1. fds[3] = ClosedFd
      BY ONLY <1>4
    <3>2. ClosedFd.name = "" /\ ClosedFd = [name |-> ClosedFd.name, pos |-> ClosedFd.pos]
      BY DEF ClosedFd
    <3> QED BY ONLY <3>1, <3>2
  <2> QED BY ONLY <2>1, <2>2
<1>4b. Terminal # ""
  BY DEF Terminal
<1>7. AreFds(fds)
  <2>1. ASSUME NEW i \in Descriptors
        PROVE  /\ fds[i] = [name |-> fds[i].name, pos |-> fds[i].pos]
               /\ fds[i].name = "" => fds[i] = ClosedFd
    <3>1. i \in 0 .. 2 \/ i = 3
      BY DEF Descriptors
    <3> QED BY ONLY <1>4, <1>4a, <1>4b, <3>1
  <2> QED BY ONLY <1>4, <2>1 DEF AreFds
<1>8. \A i \in 0 .. 2 : fds[i].name # ""
  BY ONLY <1>4a, <1>4b
<1>9. Stdin # Stdout /\ Stdin # Null /\ Stdout # Null /\ ~(Stdin > 0) /\ ~(Stdout > 0) /\ Stdin \in Int /\ Stdout \in Int
  BY DEF Stdin, Stdout, Null
<1>10. /\ DOMAIN StdStreams = {Stdin, Stdout}
       /\ StdStreams = [p \in DOMAIN StdStreams |-> StdStreams[p]]
       /\ StdStreams[Stdin] = FileRec(0, {"READ"}) /\ StdStreams[Stdout] = FileRec(1, {"WRITE"})
  BY <1>9 DEF StdStreams
<1>11. ASSUME NEW fd, NEW fl, "MYBUF" \notin fl, NEW f, f = FileRec(fd, fl)
       PROVE  IsFile(f) /\ f.fd = fd /\ "MYBUF" \notin f.flags
  <2>1. f = [count |-> 0, fd |-> fd, flags |-> fl, bufsiz |-> 0, buf |-> Null, ptr |-> 0, data |-> <<>>]
    BY <1>11 DEF FileRec
  <2>2. IsFile(f) /\ f.fd = fd /\ f.flags = fl
    BY ONLY <2>1 DEF IsFile
  <2> QED BY ONLY <1>11, <2>2
<1>12. /\ IsFile(StdStreams[Stdin]) /\ StdStreams[Stdin].fd = 0 /\ "MYBUF" \notin StdStreams[Stdin].flags
       /\ IsFile(StdStreams[Stdout]) /\ StdStreams[Stdout].fd = 1 /\ "MYBUF" \notin StdStreams[Stdout].flags
  <2>1. "MYBUF" \notin {"READ"} /\ "MYBUF" \notin {"WRITE"}
    OBVIOUS
  <2> QED BY ONLY <1>10, <1>11, <2>1
<1>13. Base(w)
  <2>1. ASSUME NEW p \in DOMAIN w.file
        PROVE  IsFile(w.file[p]) /\ w.file[p].fd \in Descriptors /\ w.fds[w.file[p].fd].name # ""
    <3>1. p = Stdin \/ p = Stdout
      BY ONLY <1>6, <1>10, p \in DOMAIN w.file
    <3>2. 0 \in Descriptors /\ 1 \in Descriptors
      BY DEF Descriptors
    <3>3. 0 \in 0 .. 2 /\ 1 \in 0 .. 2
      OBVIOUS
    <3> QED BY ONLY <1>6, <1>8, <1>12, <3>1, <3>2, <3>3
  <2>2. AreFds(w.fds) /\ w.file = [p \in DOMAIN w.file |-> w.file[p]]
    BY ONLY <1>6, <1>7, <1>10
  <2> QED BY ONLY <1>6, <2>1, <2>2 DEF Base
<1>14. Files(w) = {} /\ Bufs(w) = {} /\ Given(w) = {}
  <2>1. Files(w) = {}
    BY ONLY <1>6, <1>9, <1>10 DEF Files
  <2>2. Bufs(w) = {}
    BY ONLY <1>6, <1>10, <1>12 DEF Bufs
  <2> QED BY <2>1, <2>2 DEF Given
<1>15. Places(w)
  <2>1. w.tab = [i \in Slots |-> w.tab[i]]
    BY ONLY <1>5, <1>6
  <2>2. Tabbed(w)
    BY ONLY <1>5, <1>6, <1>10 DEF Tabbed
  <2>3. \A p \in DOMAIN w.file : p \in Int /\ p # Null /\ \E i \in Slots : w.tab[i] = p
    BY ONLY <1>5, <1>6, <1>9, <1>10
  <2>4. \A p \in DOMAIN w.file : p > 0 \/ p \in {Stdin, Stdout}
    BY ONLY <1>6, <1>10
  <2>5. {Stdin, Stdout} \subseteq DOMAIN w.file /\ w.file[Stdin].fd = 0 /\ w.file[Stdout].fd = 1
    BY ONLY <1>6, <1>10, <1>12
  <2>6. \A i \in 0 .. 2 : w.fds[i].name # ""
    BY ONLY <1>6, <1>8
  <2>7. ASSUME NEW i \in Descriptors, i > 2, w.fds[i].name # "" PROVE \E p \in Files(w) : w.file[p].fd = i
    <3>0. i \in 0 .. 3
      BY DEF Descriptors
    <3>1. i = 3
      BY ONLY <3>0, i > 2
    <3>2. w.fds[3].name = ""
      BY ONLY <1>4a, <1>6
    <3> QED BY ONLY <2>7, <3>1, <3>2
  <2> QED BY ONLY <1>14, <2>1, <2>2, <2>3, <2>4, <2>5, <2>6, <2>7 DEF Places
<1>16. Owns(w, {})
  BY ONLY <1>3, <1>6, <1>14 DEF Owns
<1>17. Sound(w, {})
  BY <1>13, <1>15, <1>16 DEF Sound
<1>18. fp = Null /\ DOMAIN mem = {} /\ dir = "" /\ calls = 0
  <2>1. fp = Null /\ mem = <<>> /\ dir = "" /\ calls = 0
    BY DEF Init
  <2>2. DOMAIN mem = {}
    <3>1. mem = <<>>
      BY <2>1
    <3> QED BY ONLY <3>1
  <2> QED BY ONLY <2>1, <2>2
<1>19. Roomy(w.heap, mem)
  BY ONLY <1>18 DEF Roomy
<1>20. HeapOK(w.heap)
  BY ONLY <1>3, <1>6
<1>21. Sound(w, DOMAIN mem)
  BY ONLY <1>17, <1>18
<1> QED BY ONLY <1>18, <1>19, <1>20, <1>21 DEF LibInv

\* Whatever it does next.
LEMMA NextInv == ASSUME LibInv, [Next]_vars PROVE LibInv'
<1>1. ASSUME NEW mode \in Modes, NEW plus \in BOOLEAN, NEW o \in Outcomes, OpenFile(mode, plus, o) PROVE LibInv'
  BY ONLY LibInv, <1>1, OpenFileInv
<1>2. ASSUME NEW mode \in {"FBF", "LBF", "NBF"}, NEW buf \in {Null, UserBuf}, Setbuffer(mode, buf) PROVE LibInv'
  <2>1. mode \in Kinds
    BY DEF Kinds
  <2> QED BY ONLY LibInv, <1>2, <2>1, SetbufferInv
<1>3. ASSUME NEW how \in {"putc", "fputs", "fwrite"}, NEW s \in Texts, NEW o \in Outcomes, Write(how, s, o) PROVE LibInv'
  BY ONLY LibInv, <1>3, WriteInv
<1>4. ASSUME NEW how \in {"getc", "fgets", "fread"}, NEW n \in 1 .. 3, NEW o \in Outcomes, Read(how, n, o) PROVE LibInv'
  BY ONLY LibInv, <1>4, ReadInv
<1>5. ASSUME PushBack PROVE LibInv'
  BY ONLY LibInv, <1>5, PushBackInv
<1>6. ASSUME NEW s \in Seeks, NEW o \in Outcomes, Position(s[1], s[2], o) PROVE LibInv'
  <2>1. s[1] \in {"SET", "CUR", "END"}
    BY DEF Seeks
  <2> DEFINE whence == s[1]  offset == s[2]
  <2>2. whence \in {"SET", "CUR", "END"} /\ Position(whence, offset, o)
    BY <1>6, <2>1
  <2> HIDE DEF whence, offset
  <2> QED BY ONLY LibInv, <2>2, PositionInv
<1>7. ASSUME WhereIs PROVE LibInv'
  BY ONLY LibInv, <1>7, WhereIsInv
<1>8. ASSUME NEW all \in BOOLEAN, NEW o \in Outcomes, FlushStream(all, o) PROVE LibInv'
  BY ONLY LibInv, <1>8, FlushStreamInv
<1>9. ASSUME NEW o \in Outcomes, CloseFile(o) PROVE LibInv'
  BY ONLY LibInv, <1>9, CloseFileInv
<1>10. ASSUME NEW o \in Outcomes, ExitProgram(o) PROVE LibInv'
  BY ONLY LibInv, <1>10, ExitProgramInv
<1>11. ASSUME NEW line \in BOOLEAN, NEW s \in Texts, NEW o \in Outcomes, Say(line, s, o) PROVE LibInv'
  BY ONLY LibInv, <1>11, SayInv
<1>12. ASSUME NEW o \in Outcomes, Hear(o) PROVE LibInv'
  BY ONLY LibInv, <1>12, HearInv
<1>13. ASSUME NEW n \in Requests, Allocate(n) PROVE LibInv'
  BY ONLY LibInv, <1>13, AllocateInv
<1>14. ASSUME NEW p \in DOMAIN mem, Release(p) PROVE LibInv'
  BY ONLY LibInv, <1>14, ReleaseInv
<1>15. ASSUME Compute PROVE LibInv'
  BY ONLY LibInv, <1>15, ComputeInv
<1>16. ASSUME UNCHANGED vars PROVE LibInv'
  BY <1>16, SameInv DEF vars
<1> QED
  BY <1>1, <1>2, <1>3, <1>4, <1>5, <1>6, <1>7, <1>8, <1>9, <1>10, <1>11, <1>12, <1>13, <1>14,
     <1>15, <1>16 DEF Next

\* The invariant has Disjoint in it.
LEMMA InvDisjoint == ASSUME LibInv PROVE Disjoint
<1>1. HeapOK(w.heap) /\ Roomy(w.heap, mem)
  BY DEF LibInv
<1>2. Apart(w.heap)
  BY <1>1, OKApart
<1> QED BY <1>1, <1>2 DEF Disjoint, Roomy

\* The table holds every FILE, so that the open streams are the FILEs.
LEMMA SoundOwned ==
  ASSUME NEW v, NEW X, Sound(v, X),
         NEW open, open = {p \in DOMAIN v.file : \E i \in Slots : v.tab[i] = p}
  PROVE  /\ open = DOMAIN v.file
         /\ {p \in open : p > 0} = Files(v)
         /\ {p \in open : Flagged(v.file[p], "MYBUF")} = Bufs(v)
         /\ {i \in DOMAIN v.fds : i > 2 /\ v.fds[i] # ClosedFd} = {v.file[p].fd : p \in open} \ {0, 1}
<1>1. open = DOMAIN v.file
  <2>1. \A p \in DOMAIN v.file : \E i \in Slots : v.tab[i] = p
    BY DEF Sound, Places
  <2> QED BY ONLY <2>1, open = {p \in DOMAIN v.file : \E i \in Slots : v.tab[i] = p}
<1>2. {p \in open : p > 0} = Files(v) /\ {p \in open : Flagged(v.file[p], "MYBUF")} = Bufs(v)
  BY <1>1 DEF Files, Bufs, Flagged
<1>3. /\ \A p \in DOMAIN v.file : p > 0 \/ p \in {Stdin, Stdout}
      /\ v.file[Stdin].fd = 0 /\ v.file[Stdout].fd = 1
      /\ \A p \in Files(v) : v.file[p].fd > 2
      /\ \A i \in Descriptors : i > 2 /\ v.fds[i].name # "" => \E p \in Files(v) : v.file[p].fd = i
  BY PlacesFacts
<1>4. AreFds(v.fds)
  BY DEF Sound, Base
<1>5. /\ DOMAIN v.fds = Descriptors
      /\ \A i \in Descriptors : v.fds[i].name = "" <=> v.fds[i] = ClosedFd
  <2>1. DOMAIN v.fds = Descriptors
    BY <1>4 DEF AreFds
  <2>2. \A i \in Descriptors : v.fds[i].name = "" => v.fds[i] = ClosedFd
    BY <1>4 DEF AreFds
  <2>3. ClosedFd.name = ""
    BY DEF ClosedFd
  <2> QED BY ONLY <2>1, <2>2, <2>3
<1>6. \A p \in DOMAIN v.file : v.file[p].fd \in Descriptors /\ v.fds[v.file[p].fd].name # ""
  BY DEF Sound, Base
<1>7. ASSUME NEW i \in DOMAIN v.fds, i > 2, v.fds[i] # ClosedFd PROVE i \in {v.file[p].fd : p \in open} \ {0, 1}
  <2>1. PICK p \in Files(v) : v.file[p].fd = i
    BY <1>3, <1>5, <1>7
  <2>2. p \in open
    BY <1>1, <2>1 DEF Files
  <2>3. i # 0 /\ i # 1
    BY <1>7
  <2> QED BY <2>1, <2>2, <2>3
<1>8. ASSUME NEW i \in {v.file[p].fd : p \in open} \ {0, 1} PROVE i \in DOMAIN v.fds /\ i > 2 /\ v.fds[i] # ClosedFd
  <2>1. PICK p \in DOMAIN v.file : i = v.file[p].fd
    BY <1>1
  <2>2. i \in Descriptors /\ v.fds[i] # ClosedFd
    BY <1>5, <1>6, <2>1
  <2>3. p > 0
    BY <1>3, <2>1
  <2>4. i > 2
    BY <1>3, <2>1, <2>3 DEF Files
  <2> QED BY <1>5, <2>2, <2>4
<1>9. {i \in DOMAIN v.fds : i > 2 /\ v.fds[i] # ClosedFd} = {v.file[p].fd : p \in open} \ {0, 1}
  BY <1>7, <1>8
<1> QED BY <1>1, <1>2, <1>9

\* The invariant has Owned in it.
LEMMA InvOwned == ASSUME LibInv PROVE Owned
<1> DEFINE open  == {p \in DOMAIN w.file : \E i \in Slots : w.tab[i] = p}
           files == {p \in open : p > 0}
           bufs  == {p \in open : Flagged(w.file[p], "MYBUF")}
           given == {w.file[p].buf : p \in bufs}
           X     == DOMAIN mem
<1> SUFFICES ASSUME dir # "exited"
             PROVE  /\ InUse(w.heap) = DOMAIN mem \cup files \cup given
                    /\ DOMAIN mem \cap files = {} /\ DOMAIN mem \cap given = {} /\ files \cap given = {}
                    /\ \A p, q \in bufs : w.file[p].buf = w.file[q].buf => p = q
                    /\ {i \in DOMAIN w.fds : i > 2 /\ w.fds[i] # ClosedFd} = {w.file[p].fd : p \in open} \ {0, 1}
  BY DEF Owned
<1>1. Sound(w, X)
  BY DEF LibInv
<1>2. /\ files = Files(w)
      /\ bufs = Bufs(w)
      /\ {i \in DOMAIN w.fds : i > 2 /\ w.fds[i] # ClosedFd} = {w.file[p].fd : p \in open} \ {0, 1}
  <2>1. open = {p \in DOMAIN w.file : \E i \in Slots : w.tab[i] = p}
    OBVIOUS
  <2> HIDE DEF open
  <2> QED BY <1>1, <2>1, SoundOwned
<1>3. given = Given(w)
  <2> HIDE DEF bufs
  <2> QED BY <1>2 DEF Given
<1>4. /\ InUse(w.heap) = X \cup Files(w) \cup Given(w)
      /\ X \cap Files(w) = {} /\ X \cap Given(w) = {} /\ Files(w) \cap Given(w) = {}
      /\ \A p, q \in Bufs(w) : w.file[p].buf = w.file[q].buf => p = q
  BY <1>1 DEF Sound, Owns
<1> HIDE DEF open, files, bufs, given
<1> QED BY <1>2, <1>3, <1>4

\* Whatever calls are made and however the system calls turn out, every stream
\* in __iotab has a descriptor that is open and its own, the memory in use is
\* that of the program, of the FILEs and of their buffers, and the heap is in
\* order (malloc.c, fopen.c, fclose.c).
THEOREM LibcInvariant == Spec => []LibInv
<1>1. Init => LibInv
  BY InitInv
<1>2. LibInv /\ [Next]_vars => LibInv'
  BY NextInv
<1> QED BY <1>1, <1>2, PTL DEF Spec

\* No two regions overlap, and one has the room that was asked for, for every
\* page, number of buckets and header (malloc.c:64).
THEOREM LibcDisjoint == Spec => []Disjoint
<1>1. LibInv => Disjoint
  BY InvDisjoint
<1> QED BY <1>1, LibcInvariant, PTL

\* Every region and descriptor in use belongs to one stream or to the program:
\* a stream that fails to open or is closed after an error leaves nothing
\* (fopen.c:114, fclose.c:50).
THEOREM LibcOwned == Spec => []Owned
<1>1. LibInv => Owned
  BY InvOwned
<1> QED BY <1>1, LibcInvariant, PTL
=============================================================================

-------------------------------- MODULE Heap --------------------------------
(* The allocator of the library (libc/malloc.c) and what it gets its memory  *)
(* from (libc/brk.c). Every request is rounded up to a power of two; memory  *)
(* that is freed goes to the bucket of its size and never back to the        *)
(* system. A heap is a value: [brk, limit, buckets, header], where header    *)
(* gives, for every region the allocator has made, the bucket it came from   *)
(* while the program has it and Link while it is in a bucket: the two share  *)
(* their memory, so that a region that is freed loses its magic.             *)
EXTENDS Integers, Sequences, FiniteSets

CONSTANTS PageSize,     \* a slab of small regions is a page
          Log2Smallest, \* the smallest region, as a power of two
          NrBuckets,
          Header,       \* the size of the header of a region
          SizeMax,      \* the largest size_t
          HeapStart     \* the first break, which need not be on a page

ASSUME HeapAssumption ==
    /\ {PageSize, NrBuckets, Header, HeapStart} \subseteq Nat \ {0}
    /\ Log2Smallest \in Nat
    /\ Header <= 2 ^ Log2Smallest
    /\ SizeMax \in Nat

Null == 0
Link == NrBuckets           \* what a free region's header is
Buckets == 0 .. NrBuckets - 1

BucketToSize(b) == 2 ^ (b + Log2Smallest)
RoundUp(a, b)   == ((a + b - 1) \div b) * b

EmptyHeap(limit) ==
    [brk |-> HeapStart, limit |-> limit,
     buckets |-> [b \in Buckets |-> <<>>],
     header |-> <<>>]

(* __brk, the system call: the new break, or the old one if it cannot be.    *)
SysBrk(h, new) == IF new > h.limit THEN h.brk ELSE new

(* sbrk: the heap after it, or the heap as it is when it returns -1.         *)
Sbrk(h, inc) == [h EXCEPT !.brk = SysBrk(h, h.brk + inc)]

Refill_Fault(h, b) ==
    LET size  == BucketToSize(b)
        n     == IF size < PageSize THEN PageSize \div size + 1 ELSE 1
        alloc == RoundUp(h.brk, PageSize) - h.brk + (PageSize \div size) * size
        k     == Sbrk(h, alloc)
        new   == [i \in 1 .. n |-> h.brk + (n - i) * size]
    IN IF k.brk = h.brk THEN h
       ELSE [k EXCEPT !.buckets[b] = new \o @,
                      !.header = [r \in DOMAIN @ \cup {new[i] : i \in 1 .. n} |->
                                    IF r \in DOMAIN @ THEN @[r] ELSE Link]]

(* refill: a page of regions, or one larger region. The break is moved up to *)
(* a page first, but the regions begin where it was.                         *)
Refill(h, b) ==
    LET size  == BucketToSize(b)
        n     == IF size < PageSize THEN PageSize \div size ELSE 1
        alloc == RoundUp(h.brk, PageSize) - h.brk + n * size
        k     == Sbrk(h, alloc)
        new   == [i \in 1 .. n |-> h.brk + (n - i) * size]
    IN IF k.brk = h.brk THEN h
       ELSE [k EXCEPT !.buckets[b] = new \o @,
                      !.header = [r \in DOMAIN @ \cup {new[i] : i \in 1 .. n} |->
                                    IF r \in DOMAIN @ THEN @[r] ELSE Link]]

Fitting(bytes) == {b \in Buckets : bytes <= BucketToSize(b)}

(* The user's pointer to a region, and the region of a pointer.              *)
Data(r)    == r + Header
Region(p)  == p - Header

(* malloc: [heap, ptr]. The size with the header wraps.                      *)
Malloc(h, bytes) ==
    LET all  == (bytes + Header) % (SizeMax + 1)
        b    == CHOOSE x \in Fitting(all) : \A y \in Fitting(all) : x <= y
        k    == IF h.buckets[b] = <<>> THEN Refill(h, b) ELSE h
        r    == Head(k.buckets[b])
    IN IF Fitting(all) = {} \/ k.buckets[b] = <<>> THEN [heap |-> h, ptr |-> Null]
       ELSE [heap |-> [k EXCEPT !.buckets[b] = Tail(@), !.header[r] = b],
             ptr  |-> Data(r)]

MemFree_Fault(h, p) ==
    LET b == h.header[Region(p)]
    IN IF b = Link THEN h
       ELSE [h EXCEPT !.buckets[b] = <<Region(p)>> \o @]

(* free: only a region that has its magic.                                   *)
MemFree(h, p) ==
    LET b == h.header[Region(p)]
    IN IF b = Link THEN h
       ELSE [h EXCEPT !.buckets[b] = <<Region(p)>> \o @, !.header[Region(p)] = Link]

InUse(h)  == {Data(r) : r \in {x \in DOMAIN h.header : h.header[x] # Link}}
Room(h, p) == BucketToSize(h.header[Region(p)]) - Header

(* Every region with its bucket and its place in it, 0 if it is in use, and  *)
(* the memory it takes.                                                      *)
Regions(h) ==
    {<<h.header[r], 0, r>> : r \in {x \in DOMAIN h.header : h.header[x] # Link}}
      \cup UNION {{<<b, i, h.buckets[b][i]>> : i \in DOMAIN h.buckets[b]} : b \in Buckets}
Memory(x) == x[3] .. x[3] + BucketToSize(x[1]) - 1

(* No two regions overlap, in use or free; a free one is in one bucket, that *)
(* of its size, once; all lie below the break, and none has been lost.       *)
Apart(h) ==
    /\ \A x, y \in Regions(h) : x # y => Memory(x) \cap Memory(y) = {}
    /\ \A x \in Regions(h) : Memory(x) \subseteq HeapStart .. h.brk - 1
    /\ DOMAIN h.header = {x[3] : x \in Regions(h)}
    /\ \A x \in Regions(h) : x[2] # 0 => h.header[x[3]] = Link
=============================================================================

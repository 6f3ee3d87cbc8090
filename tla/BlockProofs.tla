----------------------------- MODULE BlockProofs -----------------------------
(***************************************************************************)
(* Proofs about Block: what the operations of block.c do to any graph of   *)
(* blocks. They keep both ends of every edge, a block that is pruned or    *)
(* taken in leaves no edge behind, and the successors that are coalesced   *)
(* or redirected decide as they did.                                       *)
(*                                                                         *)
(* First counting edges, then what is built by number and by rank, then    *)
(* one lemma per operation, and at last the theorems.                      *)
(***************************************************************************)
EXTENDS Block, FiniteSetTheorems, SequenceTheorems, TLAPS

Ways    == DOMAIN Accepts \cup {"ALWAYS", "DEFAULT", "SWITCH"}
Cessors == [cc : Ways, b : BlockIds, min : Int, max : Int]

(* The graphs: no block is in the list twice. The controlling operands are   *)
(* those of K, the insns those of I.                                         *)
Records(K, I) ==
    [list : Seq(BlockIds), succ : [BlockIds -> Seq(Cessors)],
     pred : [BlockIds -> [BlockIds -> Int]],
     control : [BlockIds -> K \cup {NoControl}], body : [BlockIds -> Seq(I)]]

Graphs(K, I) ==
    {g \in Records(K, I) : \A i, j \in DOMAIN g.list : g.list[i] = g.list[j] => i = j}

-----------------------------------------------------------------------------
(* Counting edges *)

\* The places of a list are finitely many, and so are some of them.
LEMMA FinitePlaces ==
  ASSUME NEW S, NEW s \in Seq(S)
  PROVE  /\ IsFiniteSet(DOMAIN s) /\ Cardinality(DOMAIN s) = Len(s)
         /\ \A P \in SUBSET DOMAIN s : IsFiniteSet(P) /\ Cardinality(P) \in Nat
<1>1. Len(s) \in Nat /\ DOMAIN s = 1 .. Len(s)
  OBVIOUS
<1>2. IsFiniteSet(DOMAIN s) /\ Cardinality(DOMAIN s) = Len(s)
  BY <1>1, FS_Interval
<1> QED BY ONLY <1>2, FS_Subset, FS_CardinalityType

\* What a successor is made of.
LEMMA CessorParts ==
  ASSUME NEW s \in Seq(Cessors), NEW i \in DOMAIN s
  PROVE  s[i] \in Cessors /\ s[i].b \in BlockIds /\ s[i].min \in Int /\ s[i].max \in Int /\ i \in Int
<1>1. s[i] \in Cessors
  OBVIOUS
<1> QED BY <1>1 DEF Cessors

\* The edges to a block are counted.
LEMMA EdgesToType == ASSUME NEW s \in Seq(Cessors), NEW t PROVE EdgesTo(s, t) \in Nat
BY FinitePlaces DEF EdgesTo

\* There are none when no successor is that block.
LEMMA NoEdges ==
  ASSUME NEW s \in Seq(Cessors), NEW t
  PROVE  EdgesTo(s, t) = 0 <=> \A i \in DOMAIN s : s[i].b # t
<1> DEFINE P == {i \in DOMAIN s : s[i].b = t}
<1>2. IsFiniteSet(P)
  BY FinitePlaces
<1>3. Cardinality(P) = 0 <=> P = {}
  BY <1>2, FS_EmptySet
<1> QED BY <1>3 DEF EdgesTo

\* Only the targets count.
LEMMA SameEdges ==
  ASSUME NEW s, NEW u, NEW t, DOMAIN u = DOMAIN s, \A i \in DOMAIN s : u[i].b = t <=> s[i].b = t
  PROVE  EdgesTo(u, t) = EdgesTo(s, t)
<1>1. {i \in DOMAIN u : u[i].b = t} = {i \in DOMAIN s : s[i].b = t}
  OBVIOUS
<1> QED BY <1>1 DEF EdgesTo

\* One more successor is one more edge.
LEMMA EdgesAppend ==
  ASSUME NEW s \in Seq(Cessors), NEW c \in Cessors, NEW t
  PROVE  EdgesTo(Append(s, c), t) = EdgesTo(s, t) + (IF c.b = t THEN 1 ELSE 0)
<1> DEFINE P == {i \in DOMAIN s : s[i].b = t}
           u == Append(s, c)
           n == Len(s) + 1
<1>2. IsFiniteSet(P)
  BY FinitePlaces
<1>3. DOMAIN u = DOMAIN s \cup {n} /\ u[n] = c /\ \A i \in DOMAIN s : u[i] = s[i]
  OBVIOUS
<1>4. n \notin P
  OBVIOUS
<1>5. CASE c.b = t
  <2>1. {i \in DOMAIN u : u[i].b = t} = P \cup {n}
    <3> HIDE DEF n, u
    <3> QED BY <1>3, <1>5
  <2>2. Cardinality(P \cup {n}) = Cardinality(P) + 1
    <3> HIDE DEF n, P
    <3> QED BY <1>2, <1>4, FS_AddElement
  <2>3. Cardinality(P \cup {n}) = EdgesTo(u, t) /\ Cardinality(P) = EdgesTo(s, t)
    BY <2>1 DEF EdgesTo
  <2>4. EdgesTo(u, t) = EdgesTo(s, t) + 1
    BY ONLY <2>2, <2>3
  <2> QED BY <1>5, <2>4
<1>6. CASE c.b # t
  <2>1. {i \in DOMAIN u : u[i].b = t} = P
    <3> HIDE DEF n, u
    <3> QED BY <1>3, <1>6
  <2>2. EdgesTo(s, t) \in Nat
    BY EdgesToType
  <2>3. EdgesTo(u, t) = EdgesTo(s, t)
    BY <2>1 DEF EdgesTo
  <2> QED BY <1>6, <2>2, <2>3
<1> QED BY <1>5, <1>6

\* Edges that go elsewhere move from the one count to the other.
LEMMA EdgesMoved ==
  ASSUME NEW s \in Seq(Cessors), NEW from \in BlockIds, NEW to \in BlockIds, from # to,
         NEW u, u = [i \in DOMAIN s |-> IF s[i].b = from THEN [s[i] EXCEPT !.b = to] ELSE s[i]]
  PROVE  /\ EdgesTo(u, from) = 0
         /\ EdgesTo(u, to) = EdgesTo(s, to) + EdgesTo(s, from)
         /\ \A t \in BlockIds \ {from, to} : EdgesTo(u, t) = EdgesTo(s, t)
<1> DEFINE A == {i \in DOMAIN s : s[i].b = from}
           B == {i \in DOMAIN s : s[i].b = to}
<1>0. \A i \in DOMAIN s : s[i] \in Cessors
  OBVIOUS
<1>1. DOMAIN u = DOMAIN s /\ \A i \in DOMAIN s : u[i].b = IF s[i].b = from THEN to ELSE s[i].b
  BY <1>0 DEF Cessors
<1>3. IsFiniteSet(A) /\ IsFiniteSet(B)
  BY FinitePlaces
<1>4. EdgesTo(u, from) = 0
  <2>1. {i \in DOMAIN u : u[i].b = from} = {}
    BY <1>1
  <2> QED BY <2>1, FS_EmptySet DEF EdgesTo
<1>5. EdgesTo(u, to) = EdgesTo(s, to) + EdgesTo(s, from)
  <2>1. {i \in DOMAIN u : u[i].b = to} = A \cup B
    BY <1>1
  <2>2. A \cap B = {}
    OBVIOUS
  <2>3. Cardinality(A \cup B) = Cardinality(A) + Cardinality(B) - Cardinality(A \cap B)
    <3> HIDE DEF A, B
    <3> QED BY ONLY <1>3, FS_Union
  <2>4. Cardinality(A \cap B) = 0 /\ Cardinality(A) \in Nat /\ Cardinality(B) \in Nat
    <3> HIDE DEF A, B
    <3> QED BY <1>3, <2>2, FS_EmptySet, FS_CardinalityType
  <2>5. EdgesTo(u, to) = Cardinality(A \cup B)
    BY <2>1 DEF EdgesTo
  <2>6. EdgesTo(s, to) = Cardinality(B) /\ EdgesTo(s, from) = Cardinality(A)
    BY DEF EdgesTo
  <2> HIDE DEF A, B
  <2> QED BY ONLY <2>3, <2>4, <2>5, <2>6
<1>6. ASSUME NEW t \in BlockIds \ {from, to} PROVE EdgesTo(u, t) = EdgesTo(s, t)
  <2>1. DOMAIN u = DOMAIN s /\ \A i \in DOMAIN s : u[i].b = t <=> s[i].b = t
    BY <1>1
  <2> QED BY ONLY <2>1, SameEdges
<1> QED BY <1>4, <1>5, <1>6

-----------------------------------------------------------------------------
(* Numbers *)

\* A set of naturals that is not empty has a least element.
LEMMA LeastNat ==
  ASSUME NEW S, S \subseteq Nat, S # {}
  PROVE  \E n \in S : \A m \in S : ~(m < n)
<1> DEFINE F == {0 .. n : n \in S}
           B == UNION F
<1>1. \A n \in S : IsFiniteSet(0 .. n)
  BY FS_Interval
<1>2. F \subseteq FiniteSubsetsOf(B) /\ F # {}
  BY <1>1 DEF FiniteSubsetsOf
<1>3. PICK x \in F : \A y \in F : ~(<<y, x>> \in StrictSubsetOrdering(B))
  BY <1>2, FS_StrictSubsetOrderingWellFounded, WFMin, Zenon
<1>4. PICK n \in S : x = 0 .. n
  BY <1>3
<1>5. ASSUME NEW m \in S, m < n PROVE FALSE
  <2>1. 0 .. m \in F
    OBVIOUS
  <2>2. 0 .. m \subseteq 0 .. n /\ 0 .. m # 0 .. n
    BY <1>5
  <2>3. <<0 .. m, x>> \in StrictSubsetOrdering(B)
    BY <2>1, <2>2, <1>3, <1>4 DEF StrictSubsetOrdering
  <2> QED
    BY <2>1, <2>3, <1>3
<1> QED
  BY <1>5

\* Induction up to a bound, for a set of numbers.
LEMMA UpTo ==
  ASSUME NEW N \in Nat, NEW G, 0 \in G, \A i \in 1 .. N : i - 1 \in G => i \in G
  PROVE  0 .. N \subseteq G
<1> SUFFICES ASSUME (0 .. N) \ G # {} PROVE FALSE
  OBVIOUS
<1>0. (0 .. N) \ G \subseteq Nat
  OBVIOUS
<1>1. PICK n \in (0 .. N) \ G : \A m \in (0 .. N) \ G : ~(m < n)
  BY <1>0, LeastNat, Zenon
<1>2. n # 0 /\ n - 1 \in 0 .. N /\ n - 1 < n /\ n \in 1 .. N
  BY <1>1
<1>3. n - 1 \in G
  BY <1>1, <1>2
<1> QED
  BY <1>1, <1>2, <1>3

-----------------------------------------------------------------------------
(* Lists in the order of their ranks *)

(* D puts its places in order.                                               *)
Orders(D) ==
    /\ \A i \in DOMAIN D : D[i] \in SUBSET DOMAIN D /\ i \in D[i]
    /\ \A i, j \in DOMAIN D :
          i # j => (D[i] \subseteq D[j] /\ j \notin D[i]) \/ (D[j] \subseteq D[i] /\ i \notin D[j])

(* The nth place in that order is f[n], and u has the members of s there.    *)
Ranks(u, s, D, n, f) ==
    /\ f \in [1 .. n -> DOMAIN D]
    /\ \A i \in DOMAIN D : \E k \in 1 .. n : f[k] = i
    /\ DOMAIN u = 1 .. n /\ \A k \in 1 .. n : u[k] = s[f[k]]
    /\ \A k, l \in 1 .. n : k < l => f[k] \in D[f[l]] /\ f[l] \notin D[f[k]]

\* A place is one of finitely many, and the list has each of them once, every
\* place behind those that come no later.
LEMMA ArrangedRanks ==
  ASSUME NEW S, NEW s \in Seq(S), NEW D, DOMAIN D \subseteq DOMAIN s, Orders(D)
  PROVE  Cardinality(DOMAIN D) \in Nat /\ \E f : Ranks(Arranged(s, D), s, D, Cardinality(DOMAIN D), f)
<1> USE DEF Orders
<1> DEFINE P == DOMAIN D
           n == Cardinality(P)
           r == [i \in P |-> Cardinality(D[i])]
<1>1. IsFiniteSet(P) /\ n \in Nat
  BY FinitePlaces
<1>2. ASSUME NEW i \in P
      PROVE  IsFiniteSet(D[i]) /\ r[i] \in 1 .. n
  <2>1. D[i] \in SUBSET P /\ i \in D[i]
    OBVIOUS
  <2>2. IsFiniteSet(D[i]) /\ Cardinality(D[i]) <= n
    <3> HIDE DEF P
    <3> QED BY <1>1, <2>1, FS_Subset
  <2>3. Cardinality(D[i]) \in Nat /\ Cardinality(D[i]) # 0
    BY <2>1, <2>2, FS_EmptySet, FS_CardinalityType
  <2> QED BY <1>1, <2>2, <2>3
<1>3. ASSUME NEW i \in P, NEW j \in P, D[i] \subseteq D[j], j \notin D[i]
      PROVE  r[i] < r[j]
  <2>1. IsFiniteSet(D[j]) /\ D[i] \in SUBSET D[j] /\ D[i] # D[j]
    BY <1>2, <1>3
  <2>2. Cardinality(D[i]) <= Cardinality(D[j]) /\ Cardinality(D[i]) # Cardinality(D[j])
    BY ONLY <2>1, FS_Subset
  <2>3. r[i] \in Int /\ r[j] \in Int
    BY <1>1, <1>2
  <2> QED BY <2>2, <2>3
<1>4. r \in Injection(P, 1 .. n)
  <2>1. r \in [P -> 1 .. n]
    BY <1>2
  <2>2. \A i, j \in P : r[i] \in Int /\ (i # j => r[i] < r[j] \/ r[j] < r[i])
    BY <1>1, <1>2, <1>3
  <2>3. \A i, j \in P : r[i] = r[j] => i = j
    <3> HIDE DEF r, P
    <3> QED BY ONLY <2>2
  <2> HIDE DEF r, P, n
  <2> QED BY ONLY <2>1, <2>3 DEF Injection, IsInjective
<1>5. IsFiniteSet(1 .. n) /\ Cardinality(1 .. n) = n
  BY <1>1, FS_Interval
<1>6. r \in Surjection(P, 1 .. n)
  <2> HIDE DEF r, P
  <2> QED BY <1>4, <1>5, FS_Injection
<1>7. \A k \in 1 .. n : \E i \in P : r[i] = k
  <2> HIDE DEF r, P, n
  <2> QED BY <1>6 DEF Surjection
<1> DEFINE f == [k \in 1 .. n |-> CHOOSE i \in P : Cardinality(D[i]) = k]
<1>8. \A k \in 1 .. n : f[k] \in P /\ r[f[k]] = k
  BY <1>7
<1>9. Arranged(s, D) = [k \in 1 .. n |-> s[f[k]]]
  BY DEF Arranged
<1>10. \A i \in P : \E k \in 1 .. n : f[k] = i
  <2> SUFFICES ASSUME NEW i \in P PROVE f[r[i]] = i
    BY <1>2
  <2>1. r[i] \in 1 .. n
    BY <1>2
  <2>2. f[r[i]] \in P /\ r[f[r[i]]] = r[i]
    <3> HIDE DEF f, r, n, P
    <3> QED BY <1>8, <2>1
  <2> HIDE DEF f, r, n, P
  <2> QED BY <1>4, <2>2 DEF Injection, IsInjective
<1>11. ASSUME NEW k \in 1 .. n, NEW l \in 1 .. n, k < l
       PROVE  f[k] \in D[f[l]] /\ f[l] \notin D[f[k]]
  <2>1. f[k] \in P /\ f[l] \in P /\ r[f[k]] = k /\ r[f[l]] = l
    <3> HIDE DEF f, r, n, P
    <3> QED BY <1>8
  <2>2. ~(r[f[l]] < r[f[k]]) /\ f[k] # f[l]
    <3> HIDE DEF f, r, P
    <3> QED BY <1>11, <2>1
  <2>3. ~(D[f[l]] \subseteq D[f[k]] /\ f[k] \notin D[f[l]])
    <3> HIDE DEF f, r, P
    <3> QED BY <1>3, <2>1, <2>2
  <2>4. f[k] \in D[f[k]]
    <3> HIDE DEF f
    <3> QED BY <2>1
  <2> HIDE DEF f, r
  <2> QED BY <2>1, <2>2, <2>3, <2>4
<1>12. f \in [1 .. n -> P]
  BY <1>8
<1>13. DOMAIN Arranged(s, D) = 1 .. n /\ \A k \in 1 .. n : Arranged(s, D)[k] = s[f[k]]
  <2> HIDE DEF f, n
  <2> QED BY <1>9
<1> HIDE DEF f, n
<1>14. Ranks(Arranged(s, D), s, D, n, f)
  BY <1>10, <1>11, <1>12, <1>13 DEF Ranks
<1> QED BY <1>1, <1>14 DEF n

-----------------------------------------------------------------------------
(* One block is edited: its successors, and whether it is a switch *)

(* Only b is different.                                                      *)
Touched(g, h, b) ==
    /\ h.list = g.list
    /\ h.body = g.body
    /\ \A p \in BlockIds \ {b} : h.succ[p] = g.succ[p] /\ h.control[p] = g.control[p]

(* The graph h is what g was, but b has the successors u and is controlled   *)
(* by c.                                                                     *)
Edited(K, I, g, h, b, u, c) ==
    h \in Graphs(K, I) /\ Linked(h) /\ Touched(g, h, b) /\ h.succ[b] = u /\ h.control[b] = c

Edit(g, b, u, pred, c) == [g EXCEPT !.succ[b] = u, !.pred = pred, !.control[b] = c]

Shrink(g, b, u, c) ==
    [g EXCEPT !.succ[b] = u, !.control[b] = c,
              !.pred = [t \in BlockIds |->
                           [g.pred[t] EXCEPT ![b] = @ - (EdgesTo(g.succ[b], t) - EdgesTo(u, t))]]]

Counts(g, b, u, pred) ==
    \A t \in BlockIds : /\ pred[t][b] = EdgesTo(u, t)
                        /\ \A p \in BlockIds \ {b} : pred[t][p] = g.pred[t][p]

\* A graph's parts.
LEMMA Parts ==
  ASSUME NEW K, NEW I, NEW g \in Graphs(K, I)
  PROVE  /\ g.list \in Seq(BlockIds) /\ g.succ \in [BlockIds -> Seq(Cessors)]
         /\ g.pred \in [BlockIds -> [BlockIds -> Int]]
         /\ g.control \in [BlockIds -> K \cup {NoControl}] /\ g.body \in [BlockIds -> Seq(I)]
         /\ \A i, j \in DOMAIN g.list : g.list[i] = g.list[j] => i = j
         /\ g \in Records(K, I)
BY DEF Graphs, Records

\* What an edit of one block has to keep.
LEMMA EditKeeps ==
  ASSUME NEW K, NEW I, NEW g \in Graphs(K, I), Linked(g), NEW b \in BlockIds,
         NEW u \in Seq(Cessors), NEW c \in K \cup {NoControl}, NEW pred, NEW h,
         h = Edit(g, b, u, pred, c),
         pred \in [BlockIds -> [BlockIds -> Int]], Counts(g, b, u, pred)
  PROVE  Edited(K, I, g, h, b, u, c)
<1>1. h = [list |-> g.list, succ |-> [g.succ EXCEPT ![b] = u], pred |-> pred,
           control |-> [g.control EXCEPT ![b] = c], body |-> g.body]
  <2>1. g \in Records(K, I)
    BY Parts
  <2> QED BY ONLY <2>1, h = Edit(g, b, u, pred, c) DEF Records, Edit
<1>2. /\ h.list = g.list /\ h.succ = [g.succ EXCEPT ![b] = u] /\ h.pred = pred
      /\ h.control = [g.control EXCEPT ![b] = c] /\ h.body = g.body
  BY ONLY <1>1
<1>3. h \in Graphs(K, I)
  <2>1. /\ [g.succ EXCEPT ![b] = u] \in [BlockIds -> Seq(Cessors)]
        /\ [g.control EXCEPT ![b] = c] \in [BlockIds -> K \cup {NoControl}]
    BY Parts
  <2>2. h \in Records(K, I)
    BY <1>1, <2>1, Parts DEF Records
  <2> QED BY ONLY <1>2, <2>2, Parts, g \in Graphs(K, I) DEF Graphs
<1>4. Touched(g, h, b) /\ h.succ[b] = u /\ h.control[b] = c
  <2>1. g.succ \in [BlockIds -> Seq(Cessors)] /\ g.control \in [BlockIds -> K \cup {NoControl}]
    BY Parts
  <2> QED BY ONLY <1>2, <2>1, b \in BlockIds DEF Touched
<1>5. Linked(h)
  <2> SUFFICES ASSUME NEW t \in BlockIds, NEW p \in BlockIds PROVE h.pred[t][p] = EdgesTo(h.succ[p], t)
    BY DEF Linked
  <2>1. CASE p = b
    BY <1>2, <1>4, <2>1 DEF Counts
  <2>2. CASE p # b
    BY <1>2, <1>4, <2>2 DEF Linked, Touched, Counts
  <2> QED BY <2>1, <2>2
<1> QED BY <1>3, <1>4, <1>5 DEF Edited

\* block_add_successor
LEMMA AddKeeps ==
  ASSUME NEW K, NEW I, NEW g \in Graphs(K, I), Linked(g), NEW b \in BlockIds, NEW c \in Cessors,
         NEW h, h = AddSuccessor(g, b, c)
  PROVE  Edited(K, I, g, h, b, Append(g.succ[b], c), g.control[b])
<1>1. c.b \in BlockIds /\ g.succ[b] \in Seq(Cessors) /\ g.control[b] \in K \cup {NoControl}
  <2>1. c.b \in BlockIds
    BY DEF Cessors
  <2> QED BY <2>1, Parts
<1> DEFINE u == Append(g.succ[b], c)
           pred == [g.pred EXCEPT ![c.b][b] = @ + 1]
<1>2. u \in Seq(Cessors)
  BY <1>1
<1>3. h = Edit(g, b, u, pred, g.control[b])
  <2>1. g \in Records(K, I)
    BY Parts
  <2>2. h = [g EXCEPT !.succ[b] = u, !.pred = pred]
    BY ONLY <2>1, h = AddSuccessor(g, b, c) DEF AddSuccessor, Records
  <2>3. g.control \in [BlockIds -> K \cup {NoControl}]
    BY Parts
  <2> HIDE DEF pred, u
  <2> QED BY ONLY <2>1, <2>2, <2>3, b \in BlockIds DEF Records, Edit
<1>4. pred \in [BlockIds -> [BlockIds -> Int]]
  BY <1>1, Parts
<1>5. ASSUME NEW t \in BlockIds
      PROVE  pred[t][b] = EdgesTo(u, t) /\ \A p \in BlockIds \ {b} : pred[t][p] = g.pred[t][p]
  <2>1. g.pred[t][b] = EdgesTo(g.succ[b], t)
    BY DEF Linked
  <2>2. EdgesTo(u, t) = g.pred[t][b] + (IF c.b = t THEN 1 ELSE 0)
    BY <1>1, <2>1, EdgesAppend
  <2>3. g.pred[t] \in [BlockIds -> Int]
    BY Parts
  <2>4. CASE c.b = t
    BY <1>1, <2>2, <2>3, <2>4, Parts
  <2>5. CASE c.b # t
    BY <1>1, <2>2, <2>3, <2>5, Parts
  <2> QED BY <2>4, <2>5
<1> HIDE DEF pred, u
<1>6. Counts(g, b, u, pred)
  BY <1>5 DEF Counts
<1>7. Edited(K, I, g, h, b, u, g.control[b])
  BY <1>1, <1>2, <1>3, <1>4, <1>6, EditKeeps, Zenon
<1> QED BY <1>7 DEF u

\* A list of predecessors that loses what the block's list of successors does.
LEMMA Shrunk ==
  ASSUME NEW K, NEW I, NEW g \in Graphs(K, I), Linked(g), NEW b \in BlockIds,
         NEW u \in Seq(Cessors), NEW c \in K \cup {NoControl}, NEW h,
         h = Shrink(g, b, u, c)
  PROVE  Edited(K, I, g, h, b, u, c)
<1> DEFINE pred == [t \in BlockIds |->
                        [g.pred[t] EXCEPT ![b] = @ - (EdgesTo(g.succ[b], t) - EdgesTo(u, t))]]
<1>1. g.succ[b] \in Seq(Cessors)
  BY Parts
<1>2. ASSUME NEW t \in BlockIds
      PROVE  /\ pred[t] \in [BlockIds -> Int] /\ pred[t][b] = EdgesTo(u, t)
             /\ \A p \in BlockIds \ {b} : pred[t][p] = g.pred[t][p]
  <2>1. g.pred[t] \in [BlockIds -> Int] /\ g.pred[t][b] = EdgesTo(g.succ[b], t)
    BY Parts DEF Linked
  <2>2. EdgesTo(g.succ[b], t) \in Nat /\ EdgesTo(u, t) \in Nat
    BY <1>1, EdgesToType
  <2>3. pred[t] = [g.pred[t] EXCEPT ![b] = @ - (EdgesTo(g.succ[b], t) - EdgesTo(u, t))]
    OBVIOUS
  <2> HIDE DEF pred
  <2> QED BY <2>1, <2>2, <2>3
<1>3. pred \in [BlockIds -> [BlockIds -> Int]]
  <2>1. \A t \in BlockIds : pred[t] \in [BlockIds -> Int]
    BY <1>2
  <2> QED BY <2>1
<1>4. h = Edit(g, b, u, pred, c)
  <2>1. g \in Records(K, I)
    BY Parts
  <2>2. h = [g EXCEPT !.succ[b] = u, !.control[b] = c, !.pred = pred]
    BY DEF Shrink
  <2> HIDE DEF pred
  <2> QED BY ONLY <2>1, <2>2 DEF Records, Edit
<1> HIDE DEF pred
<1>5. Counts(g, b, u, pred)
  BY <1>2 DEF Counts
<1> QED BY <1>3, <1>4, <1>5, EditKeeps, Zenon

\* Nothing is edited.
LEMMA EditedSelf ==
  ASSUME NEW K, NEW I, NEW g \in Graphs(K, I), Linked(g), NEW b
  PROVE  Edited(K, I, g, g, b, g.succ[b], g.control[b])
BY DEF Edited, Touched

\* One edit follows another.
LEMMA EditedThen ==
  ASSUME NEW K, NEW I, NEW g, NEW k, NEW h, NEW b, NEW u1, NEW c1, NEW u, NEW c,
         Edited(K, I, g, k, b, u1, c1), Edited(K, I, k, h, b, u, c)
  PROVE  Edited(K, I, g, h, b, u, c)
BY DEF Edited, Touched

\* block_remove_successors
LEMMA RemoveKeeps ==
  ASSUME NEW K, NEW I, NEW g \in Graphs(K, I), Linked(g), NEW b \in BlockIds,
         NEW h, h = RemoveSuccessors(g, b)
  PROVE  Edited(K, I, g, h, b, <<>>, NoControl)
<1>1. g.succ[b] \in Seq(Cessors)
  BY Parts
<1>2. \A t \in BlockIds : EdgesTo(g.succ[b], t) - EdgesTo(<<>>, t) = EdgesTo(g.succ[b], t)
  <2> TAKE t \in BlockIds
  <2>1. EdgesTo(g.succ[b], t) \in Nat
    BY <1>1, EdgesToType
  <2>2. <<>> \in Seq(Cessors)
    OBVIOUS
  <2>3. EdgesTo(<<>>, t) = 0
    <3>1. EdgesTo(<<>>, t) = 0 <=> \A i \in DOMAIN <<>> : <<>>[i].b # t
      BY <2>2, NoEdges, Zenon
    <3> QED BY <3>1
  <2> QED BY <2>1, <2>3
<1>3. [t \in BlockIds |-> [g.pred[t] EXCEPT ![b] = @ - EdgesTo(g.succ[b], t)]]
      = [t \in BlockIds |-> [g.pred[t] EXCEPT ![b] = @ - (EdgesTo(g.succ[b], t) - EdgesTo(<<>>, t))]]
  BY <1>2
<1>4. h = Shrink(g, b, <<>>, NoControl)
  <2> DEFINE p1 == [t \in BlockIds |-> [g.pred[t] EXCEPT ![b] = @ - EdgesTo(g.succ[b], t)]]
             p2 == [t \in BlockIds |->
                      [g.pred[t] EXCEPT ![b] = @ - (EdgesTo(g.succ[b], t) - EdgesTo(<<>>, t))]]
  <2>1. h = [g EXCEPT !.succ[b] = <<>>, !.pred = p1, !.control[b] = NoControl]
    BY DEF RemoveSuccessors
  <2>2. Shrink(g, b, <<>>, NoControl) = [g EXCEPT !.succ[b] = <<>>, !.control[b] = NoControl, !.pred = p2]
    BY DEF Shrink
  <2>3. p1 = p2
    BY <1>3
  <2>4. g \in Records(K, I)
    BY Parts
  <2> HIDE DEF p1, p2
  <2> QED BY ONLY <2>1, <2>2, <2>3, <2>4 DEF Records
<1>5. <<>> \in Seq(Cessors) /\ NoControl \in K \cup {NoControl}
  OBVIOUS
<1> QED BY <1>4, <1>5, Shrunk, Zenon

-----------------------------------------------------------------------------
(* The cases of a switch *)

(* The default first, then cases, each of them a range, none of which has a  *)
(* value of another.                                                         *)
Cased(s) ==
    /\ Len(s) > 0 /\ s[1].cc = "DEFAULT"
    /\ \A i \in 2 .. Len(s) : s[i].cc = "SWITCH" /\ s[i].min <= s[i].max
    /\ \A i, j \in 2 .. Len(s) : i # j => s[i].max < s[j].min \/ s[j].max < s[i].min

(* They are in order.                                                        *)
Ascending(s) ==
    /\ Len(s) > 0 /\ s[1].cc = "DEFAULT"
    /\ \A i \in 2 .. Len(s) : s[i].cc = "SWITCH" /\ s[i].min <= s[i].max
    /\ \A i, j \in 2 .. Len(s) : i < j => s[i].max < s[j].min

(* The first n successors send v to t.                                       *)
Sends(s, n, v, t) == \E i \in 2 .. n : s[i].min <= v /\ v <= s[i].max /\ s[i].b = t

\* Sorting has every successor once, and the cases by their lower bounds.
LEMMA SortRanks ==
  ASSUME NEW s \in Seq(Cessors)
  PROVE  /\ SwitchSort(s) \in Seq(Cessors) /\ Len(SwitchSort(s)) = Len(s)
         /\ \E f \in [DOMAIN s -> DOMAIN s] :
               /\ \A i \in DOMAIN s : \E k \in DOMAIN s : f[k] = i
               /\ \A k \in DOMAIN s : SwitchSort(s)[k] = s[f[k]] /\ (f[k] = 1 <=> k = 1)
               /\ \A k, l \in DOMAIN s : k < l => f[k] # f[l]
               /\ \A k, l \in DOMAIN s : 1 < k /\ k < l => s[f[k]].min <= s[f[l]].min
<1> DEFINE D == [i \in DOMAIN s |->
                    {j \in DOMAIN s : \/ j = 1
                                      \/ i # 1 /\ s[j].min < s[i].min
                                      \/ i # 1 /\ s[j].min = s[i].min /\ j =< i}]
           n == Cardinality(DOMAIN s)
           u == SwitchSort(s)
<1>1. n = Len(s) /\ DOMAIN s = 1 .. Len(s) /\ Len(s) \in Nat
  BY FinitePlaces
<1>2. \A i \in DOMAIN s : s[i].min \in Int /\ i \in Int
  BY CessorParts
<1>3. DOMAIN D = DOMAIN s /\ \A i \in DOMAIN D : D[i] \in SUBSET DOMAIN D /\ i \in D[i]
  BY <1>2
<1>4. ASSUME NEW i \in DOMAIN D, NEW j \in DOMAIN D, i # j
      PROVE  \/ D[i] \subseteq D[j] /\ j \notin D[i]
             \/ D[j] \subseteq D[i] /\ i \notin D[j]
  <2>1. CASE i = 1 \/ (j # 1 /\ (s[i].min < s[j].min \/ (s[i].min = s[j].min /\ i < j)))
    <3>1. D[i] \subseteq D[j] /\ j \notin D[i]
      BY <1>2, <1>4, <2>1
    <3> QED BY <3>1
  <2>2. CASE ~(i = 1 \/ (j # 1 /\ (s[i].min < s[j].min \/ (s[i].min = s[j].min /\ i < j))))
    <3>1. D[j] \subseteq D[i] /\ i \notin D[j]
      BY <1>2, <1>4, <2>2
    <3> QED BY <3>1
  <2> QED BY <2>1, <2>2
<1>5. u = Arranged(s, D)
  BY DEF SwitchSort
<1>6. /\ DOMAIN u = DOMAIN s
      /\ \E f \in [DOMAIN s -> DOMAIN s] :
            /\ \A i \in DOMAIN s : \E k \in DOMAIN s : f[k] = i
            /\ \A k \in DOMAIN s : u[k] = s[f[k]]
            /\ \A k, l \in DOMAIN s : k < l => f[k] \in D[f[l]] /\ f[l] \notin D[f[k]]
  <2> HIDE DEF D, u
  <2>1. Orders(D) /\ DOMAIN D \subseteq DOMAIN s
    BY <1>3, <1>4 DEF Orders
  <2>2. PICK f : Ranks(u, s, D, Cardinality(DOMAIN D), f)
    BY <1>5, <2>1, ArrangedRanks
  <2>3. DOMAIN D = DOMAIN s /\ Cardinality(DOMAIN D) = Len(s) /\ DOMAIN s = 1 .. Len(s)
    BY <1>1, <1>3
  <2> QED BY ONLY <2>2, <2>3 DEF Ranks
<1>7. PICK f \in [DOMAIN s -> DOMAIN s] :
            /\ \A i \in DOMAIN s : \E k \in DOMAIN s : f[k] = i
            /\ \A k \in DOMAIN s : u[k] = s[f[k]]
            /\ \A k, l \in DOMAIN s : k < l => f[k] \in D[f[l]] /\ f[l] \notin D[f[k]]
  <2> HIDE DEF D, u
  <2> QED BY <1>6
<1>8. \A k, l \in DOMAIN s : k < l => f[k] # f[l] /\ f[l] # 1
  <2> SUFFICES ASSUME NEW k \in DOMAIN s, NEW l \in DOMAIN s, k < l PROVE f[k] # f[l] /\ f[l] # 1
    OBVIOUS
  <2>1. f[k] \in DOMAIN s /\ f[l] \in DOMAIN s /\ f[l] \notin D[f[k]]
    <3> HIDE DEF D
    <3> QED BY <1>7
  <2>2. f[k] \in D[f[k]]
    <3> HIDE DEF D
    <3> QED BY <2>1, <1>3
  <2>3. \A i \in DOMAIN s : 1 \in DOMAIN s => 1 \in D[i]
    OBVIOUS
  <2>4. 1 \in DOMAIN s
    BY <1>1
  <2> HIDE DEF D
  <2> QED BY <2>1, <2>2, <2>3, <2>4
<1>9. \A k \in DOMAIN s : f[k] = 1 <=> k = 1
  <2> SUFFICES ASSUME NEW k \in DOMAIN s PROVE f[k] = 1 <=> k = 1
    OBVIOUS
  <2>1. 1 \in DOMAIN s /\ k >= 1 /\ \A i \in DOMAIN s : i \in Int
    BY <1>1
  <2>2. PICK m \in DOMAIN s : f[m] = 1
    <3> HIDE DEF D, u
    <3> QED BY <1>7, <2>1
  <2>3. m = 1
    <3> HIDE DEF D, u
    <3> QED BY ONLY <1>1, <1>8, <2>1, <2>2
  <2> HIDE DEF D, u
  <2> QED BY ONLY <1>1, <1>8, <2>1, <2>2, <2>3, k \in DOMAIN s
<1>10. \A k, l \in DOMAIN s : 1 < k /\ k < l => s[f[k]].min <= s[f[l]].min
  <2> SUFFICES ASSUME NEW k \in DOMAIN s, NEW l \in DOMAIN s, 1 < k, k < l PROVE s[f[k]].min <= s[f[l]].min
    OBVIOUS
  <2>1. f[k] \in DOMAIN s /\ f[l] \in DOMAIN s /\ f[k] \in D[f[l]]
    <3> HIDE DEF D
    <3> QED BY <1>7
  <2>2. f[k] # 1
    BY <1>9
  <2>3. s[f[k]].min < s[f[l]].min \/ s[f[k]].min = s[f[l]].min
    BY <2>1, <2>2
  <2>4. s[f[k]].min \in Int /\ s[f[l]].min \in Int
    BY <1>2, <2>1
  <2> HIDE DEF D
  <2> QED BY ONLY <2>3, <2>4
<1>11. u \in Seq(Cessors) /\ Len(u) = Len(s)
  <2>1. u = [k \in 1 .. Len(s) |-> u[k]]
    <3>1. u = [k \in DOMAIN u |-> u[k]]
      BY <1>5 DEF Arranged
    <3> HIDE DEF D, u
    <3> QED BY ONLY <1>1, <1>6, <3>1
  <2>2. \A k \in 1 .. Len(s) : u[k] \in Cessors
    <3> HIDE DEF D, u
    <3> QED BY <1>1, <1>7
  <2> HIDE DEF D, u
  <2> QED BY ONLY <1>1, <2>1, <2>2
<1> HIDE DEF D
<1> QED BY <1>7, <1>8, <1>9, <1>10, <1>11

\* What leads nowhere else: every target of u is one of s.
Within(u, s) == \A i \in DOMAIN u : \E j \in DOMAIN s : u[i].b = s[j].b

\* The sorted cases are those there were, in order.
LEMMA SortKeeps ==
  ASSUME NEW s \in Seq(Cessors), NEW u, u = SwitchSort(s)
  PROVE  /\ u \in Seq(Cessors) /\ Len(u) = Len(s) /\ Within(u, s)
         /\ Cased(s) => /\ Ascending(u) /\ u[1] = s[1]
                        /\ \A v, t : Sends(u, Len(u), v, t) <=> Sends(s, Len(s), v, t)
<1>1. u \in Seq(Cessors) /\ Len(u) = Len(s)
  BY SortRanks
<1>2. PICK f \in [DOMAIN s -> DOMAIN s] :
               /\ \A i \in DOMAIN s : \E k \in DOMAIN s : f[k] = i
               /\ \A k \in DOMAIN s : u[k] = s[f[k]] /\ (f[k] = 1 <=> k = 1)
               /\ \A k, l \in DOMAIN s : k < l => f[k] # f[l]
               /\ \A k, l \in DOMAIN s : 1 < k /\ k < l => s[f[k]].min <= s[f[l]].min
  BY SortRanks, ZenonT(30)
<1>3. DOMAIN s = 1 .. Len(s) /\ DOMAIN u = 1 .. Len(s) /\ Len(s) \in Nat
  BY <1>1
<1>4. Within(u, s)
  BY <1>2, <1>3 DEF Within
<1>5. ASSUME Cased(s) PROVE Ascending(u) /\ u[1] = s[1]
  <2>1. u[1] = s[1]
    <3>1. 1 \in DOMAIN s
      BY <1>3, <1>5 DEF Cased
    <3> QED BY <1>2, <3>1
  <2>2. ASSUME NEW i \in 2 .. Len(u)
        PROVE  u[i].cc = "SWITCH" /\ u[i].min <= u[i].max
    <3>1. i \in DOMAIN s /\ f[i] \in DOMAIN s /\ f[i] # 1
      BY <1>1, <1>2, <1>3
    <3>2. f[i] \in 2 .. Len(s)
      BY <1>3, <3>1
    <3>3. u[i] = s[f[i]]
      BY <1>2, <3>1
    <3> QED BY <1>5, <3>2, <3>3 DEF Cased
  <2>3. ASSUME NEW i \in 2 .. Len(u), NEW j \in 2 .. Len(u), i < j
        PROVE  u[i].max < u[j].min
    <3>0. \A k \in 2 .. Len(u) : k \in DOMAIN s /\ f[k] \in DOMAIN s /\ f[k] # 1
      BY <1>1, <1>2, <1>3
    <3>1. i \in DOMAIN s /\ f[i] \in DOMAIN s /\ f[i] # 1 /\ j \in DOMAIN s /\ f[j] \in DOMAIN s /\ f[j] # 1
      BY ONLY <3>0, <2>3
    <3>2. f[i] \in 2 .. Len(s) /\ f[j] \in 2 .. Len(s) /\ 1 < i
      BY <1>3, <3>1
    <3>3. f[i] # f[j] /\ s[f[i]].min <= s[f[j]].min
      BY ONLY <1>2, <2>3, <3>1, <3>2
    <3>4. s[f[i]].max < s[f[j]].min \/ s[f[j]].max < s[f[i]].min
      BY <1>5, <3>2, <3>3 DEF Cased
    <3>5. s[f[j]].min <= s[f[j]].max
      BY <1>5, <3>2 DEF Cased
    <3>6. {s[f[i]].min, s[f[i]].max, s[f[j]].min, s[f[j]].max} \subseteq Int
      BY <3>1, CessorParts
    <3>7. u[i] = s[f[i]] /\ u[j] = s[f[j]]
      BY <1>2, <3>1
    <3> QED BY ONLY <3>3, <3>4, <3>5, <3>6, <3>7
  <2>4. Len(u) > 0 /\ u[1].cc = "DEFAULT"
    BY <1>1, <1>5, <2>1 DEF Cased
  <2> QED BY <2>1, <2>2, <2>3, <2>4 DEF Ascending
<1>6. ASSUME Cased(s), NEW v, NEW t PROVE Sends(u, Len(u), v, t) <=> Sends(s, Len(s), v, t)
  <2>1. ASSUME NEW i \in 2 .. Len(u) PROVE f[i] \in 2 .. Len(s) /\ u[i] = s[f[i]]
    <3>1. i \in DOMAIN s /\ f[i] \in DOMAIN s /\ f[i] # 1
      BY <1>1, <1>2, <1>3
    <3> QED BY <1>2, <1>3, <3>1
  <2>2. ASSUME NEW j \in 2 .. Len(s) PROVE \E i \in 2 .. Len(u) : u[i] = s[j]
    <3>1. j \in DOMAIN s /\ j # 1
      BY <1>3
    <3>2. PICK i \in DOMAIN s : f[i] = j
      BY <1>2, <3>1
    <3>3. i # 1
      BY <1>2, <3>1, <3>2
    <3> QED BY <1>1, <1>2, <1>3, <3>2, <3>3
  <2>3. Len(u) = Len(s)
    BY <1>1
  <2>4. ASSUME NEW i \in 2 .. Len(u), u[i].min <= v /\ v <= u[i].max /\ u[i].b = t
        PROVE  Sends(s, Len(s), v, t)
    BY ONLY <2>1, <2>4 DEF Sends
  <2>5. ASSUME NEW j \in 2 .. Len(s), s[j].min <= v /\ v <= s[j].max /\ s[j].b = t
        PROVE  Sends(u, Len(u), v, t)
    <3>1. PICK i \in 2 .. Len(u) : u[i] = s[j]
      BY <2>2
    <3> QED BY ONLY <2>5, <3>1 DEF Sends
  <2> QED BY <2>4, <2>5 DEF Sends
<1> QED BY <1>1, <1>4, <1>5, <1>6

\* The pass over the cases goes from one to the next.
LEMMA SwallowingDef ==
  ASSUME NEW s, NEW N \in Nat, N = Len(s), NEW a, a = Swallowing(s)
  PROVE  /\ a[0] = [out |-> <<>>, open |-> FALSE]
         /\ \A i \in 1 .. N : a[i] = SwallowOne(a[i - 1], s[i])
<1> DEFINE zero == [out |-> <<>>, open |-> FALSE]
           Def(n, g) == g = [i \in 0 .. n |-> IF i = 0 THEN zero ELSE SwallowOne(g[i - 1], s[i])]
           G == {n \in Nat : \E g : Def(n, g)}
<1>0. a = CHOOSE h : Def(N, h)
  BY DEF Swallowing
<1> HIDE DEF zero
<1>1. Def(0, [i \in 0 .. 0 |-> zero])
  OBVIOUS
<1>2. ASSUME NEW n \in Nat \ {0}, n - 1 \in G PROVE n \in G
  <2>1. PICK g : Def(n - 1, g)
    BY <1>2
  <2> DEFINE h == [i \in 0 .. n |-> IF i = n THEN SwallowOne(g[n - 1], s[n]) ELSE g[i]]
  <2>2. \A i \in 0 .. n : h[i] = IF i = 0 THEN zero ELSE SwallowOne(h[i - 1], s[i])
    BY <2>1
  <2>3. Def(n, h)
    BY <2>2
  <2> QED
    BY <2>3
<1>4. 0 \in G
  BY <1>1
<1>5. N \in G
  <2> HIDE DEF G
  <2> QED BY <1>2, <1>4, UpTo, SMTT(30)
<1>6. PICK g : Def(N, g)
  BY <1>5
<1>7. Def(N, CHOOSE h : Def(N, h))
  BY <1>6, Zenon
<1>8. Def(N, a)
  <2> HIDE DEF Def
  <2> QED BY <1>0, <1>7
<1>9. a[0] = zero /\ \A i \in 1 .. N : a[i] = SwallowOne(a[i - 1], s[i])
  BY <1>8
<1> QED
  BY <1>9 DEF zero

(* The case c comes behind those of o.                                       *)
Grown(o, c, q) ==
    /\ Len(q) = Len(o) + 1 /\ q[Len(o) + 1] = c
    /\ \A k \in 1 .. Len(o) : q[k] = o[k]

(* The last case of o is widened to take in c.                               *)
Widened(o, c, q) ==
    /\ Len(o) > 0 /\ Adjoin(o[Len(o)], c) /\ Len(q) = Len(o)
    /\ LET x == o[Len(o)] y == q[Len(o)]
       IN y.cc = x.cc /\ y.b = x.b /\ y.min = x.min /\ y.max = c.max
    /\ \A k \in 1 .. Len(o) - 1 : q[k] = o[k]

\* The last member of a list is replaced.
LEMMA LastReplaced ==
  ASSUME NEW S, NEW o \in Seq(S), Len(o) > 0, NEW x \in S, NEW w, w = [o EXCEPT ![Len(o)] = x]
  PROVE  /\ w \in Seq(S) /\ Len(w) = Len(o) /\ w[Len(o)] = x
         /\ \A k \in 1 .. Len(o) - 1 : w[k] = o[k]
<1>1. PICK n \in Nat : n = Len(o)
  OBVIOUS
<1>2. n \in 1 .. n /\ DOMAIN o = 1 .. n
  BY <1>1
<1>3. w \in Seq(S) /\ Len(w) = n
  BY <1>1, <1>2, ExceptSeq
<1>4. w = [o EXCEPT ![n] = x]
  BY <1>1
<1>5. w[n] = x
  BY ONLY <1>2, <1>4
<1>6. ASSUME NEW k \in 1 .. n - 1 PROVE w[k] = o[k]
  <2>1. k \in 1 .. n /\ k # n
    OBVIOUS
  <2> QED BY ONLY <1>2, <1>4, <2>1
<1> QED BY ONLY <1>1, <1>3, <1>5, <1>6

\* A step of the pass does one or the other.
LEMMA SwallowStep ==
  ASSUME NEW o \in Seq(Cessors), NEW p \in BOOLEAN, p => Len(o) > 0, NEW c \in Cessors,
         NEW e, e.out = o, e.open = p, NEW r, r = SwallowOne(e, c)
  PROVE  /\ r.open \in BOOLEAN /\ r.out \in Seq(Cessors) /\ Len(r.out) > 0
         /\ Grown(o, c, r.out) \/ Widened(o, c, r.out)
<1> DEFINE n == Len(o)
           x == [o[n] EXCEPT !.max = c.max]
           w == [o EXCEPT ![n] = x]
<1>1. n \in Nat /\ DOMAIN o = 1 .. n
  OBVIOUS
<1>2. CASE p /\ Adjoin(o[n], c)
  <2>1. r.out = w /\ r.open = FALSE
    BY <1>2 DEF SwallowOne
  <2>2. n > 0 /\ o[n] \in Cessors
    BY <1>1, <1>2
  <2>3. x \in Cessors /\ x.cc = o[n].cc /\ x.b = o[n].b /\ x.min = o[n].min /\ x.max = c.max
    <3> HIDE DEF n
    <3> QED BY ONLY <2>2, c \in Cessors DEF Cessors
  <2> HIDE DEF x
  <2>4. w \in Seq(Cessors) /\ Len(w) = n /\ w[n] = x /\ \A k \in 1 .. n - 1 : w[k] = o[k]
    BY ONLY <2>2, <2>3, LastReplaced, o \in Seq(Cessors)
  <2> HIDE DEF w
  <2>6. Widened(o, c, w)
    BY ONLY <1>2, <2>2, <2>3, <2>4 DEF Widened
  <2> QED BY <2>1, <2>2, <2>4, <2>6
<1>3. CASE ~(p /\ Adjoin(o[n], c))
  <2>1. r.out = Append(o, c) /\ r.open = TRUE
    BY <1>3 DEF SwallowOne
  <2> DEFINE q == Append(o, c)
  <2>2. q \in Seq(Cessors) /\ Len(q) > 0 /\ Grown(o, c, q)
    BY DEF Grown
  <2> HIDE DEF q
  <2> QED BY <2>1, <2>2 DEF q
<1> QED BY <1>2, <1>3

\* The pass makes a list of successors, and leads to no other block.
LEMMA SwallowType ==
  ASSUME NEW s \in Seq(Cessors), NEW u, u = Swallow(s)
  PROVE  u \in Seq(Cessors) /\ Within(u, s) /\ (s # <<>> => u # <<>>)
<1> DEFINE N == Len(s)
           a == Swallowing(s)
           Fine(i) == /\ a[i].out \in Seq(Cessors) /\ a[i].open \in BOOLEAN
                      /\ a[i].open => Len(a[i].out) > 0
                      /\ i > 0 => Len(a[i].out) > 0
                      /\ \A k \in DOMAIN a[i].out : \E j \in 1 .. i : a[i].out[k].b = s[j].b
           G == {i \in 0 .. N : Fine(i)}
<1>1. N \in Nat /\ DOMAIN s = 1 .. N
  OBVIOUS
<1>2. a[0] = [out |-> <<>>, open |-> FALSE] /\ \A i \in 1 .. N : a[i] = SwallowOne(a[i - 1], s[i])
  BY <1>1, SwallowingDef
<1> HIDE DEF a
<1>3. 0 \in G
  <2>1. Fine(0)
    BY <1>2
  <2> QED BY <1>1, <2>1
<1>4. ASSUME NEW i \in 1 .. N, i - 1 \in G PROVE i \in G
  <2> DEFINE o == a[i - 1].out
             r == a[i]
  <2>1. Fine(i - 1) /\ s[i] \in Cessors /\ i \in 0 .. N /\ i > 0 /\ i - 1 \in Int
    BY <1>1, <1>4
  <2>2. /\ r.open \in BOOLEAN /\ r.out \in Seq(Cessors) /\ Len(r.out) > 0
        /\ Grown(o, s[i], r.out) \/ Widened(o, s[i], r.out)
    <3>1. r = SwallowOne(a[i - 1], s[i])
      BY <1>2
    <3>2. o \in Seq(Cessors) /\ a[i - 1].open \in BOOLEAN /\ (a[i - 1].open => Len(o) > 0)
      BY <2>1
    <3> HIDE DEF r, o
    <3> QED BY <2>1, <3>1, <3>2, SwallowStep DEF o
  <2>3. ASSUME NEW k \in DOMAIN r.out PROVE \E j \in 1 .. i : r.out[k].b = s[j].b
    <3>1. Len(o) \in Nat /\ DOMAIN o = 1 .. Len(o) /\ DOMAIN r.out = 1 .. Len(r.out) /\ Len(r.out) \in Nat
      BY <2>1, <2>2
    <3>2. \A m \in DOMAIN o : \E j \in 1 .. i - 1 : o[m].b = s[j].b
      BY <2>1
    <3>3. \A m \in DOMAIN o : \E j \in 1 .. i : o[m].b = s[j].b
      BY <3>2
    <3> HIDE DEF o, r, Fine, G
    <3>4. CASE Grown(o, s[i], r.out)
      <4>1. CASE k = Len(o) + 1
        BY <3>4, <4>1 DEF Grown
      <4>2. CASE k \in 1 .. Len(o)
        BY <3>1, <3>3, <3>4, <4>2 DEF Grown
      <4> QED BY <2>3, <3>1, <3>4, <4>1, <4>2 DEF Grown
    <3>5. CASE Widened(o, s[i], r.out)
      <4>1. k \in DOMAIN o /\ r.out[k].b = o[k].b
        <5>1. CASE k = Len(o)
          BY <3>1, <3>5, <5>1 DEF Widened
        <5>2. CASE k \in 1 .. Len(o) - 1
          BY <3>1, <3>5, <5>2 DEF Widened
        <5> QED BY <2>3, <3>1, <3>5, <5>1, <5>2 DEF Widened
      <4> QED BY <3>3, <4>1
    <3> QED BY <2>2, <3>4, <3>5
  <2>4. Fine(i)
    BY <2>2, <2>3
  <2> HIDE DEF Fine
  <2> QED BY <2>1, <2>4
<1>5. 0 .. N \subseteq G
  <2> HIDE DEF G, Fine, N
  <2> QED BY <1>1, <1>3, <1>4, UpTo
<1>6. Fine(N)
  <2> HIDE DEF Fine
  <2> QED BY <1>1, <1>5
<1>7. u = a[N].out
  BY DEF Swallow, a
<1>8. u \in Seq(Cessors) /\ Within(u, s)
  BY <1>1, <1>6, <1>7 DEF Within
<1>9. s # <<>> => u # <<>>
  <2>1. s # <<>> => N > 0
    BY <1>1
  <2> QED BY <1>6, <1>7, <2>1
<1> QED BY <1>8, <1>9

(* The list o has the first i successors of s, put together.                 *)
Passed(o, s, i) ==
    /\ Len(o) > 0 /\ o[1] = s[1] /\ Ascending(o)
    /\ i = 1 => Len(o) = 1
    /\ i > 1 => Len(o) > 1 /\ o[Len(o)].max = s[i].max
    /\ \A v \in Int, t \in BlockIds : Sends(o, Len(o), v, t) <=> Sends(s, i, v, t)

\* The first successor, which is the default.
LEMMA FirstPassed ==
  ASSUME NEW s \in Seq(Cessors), Ascending(s), NEW q, Grown(<<>>, s[1], q), q \in Seq(Cessors)
  PROVE  Passed(q, s, 1)
<1>1. Len(q) = 1 /\ q[1] = s[1]
  BY DEF Grown
<1>2. Ascending(q)
  BY <1>1 DEF Ascending
<1>3. \A v, t : ~Sends(q, Len(q), v, t) /\ ~Sends(s, 1, v, t)
  BY <1>1 DEF Sends
<1> QED BY <1>1, <1>2, <1>3 DEF Passed

\* A successor that comes behind the others.
LEMMA GrownPassed ==
  ASSUME NEW s \in Seq(Cessors), Ascending(s), NEW i \in 2 .. Len(s), NEW o \in Seq(Cessors),
         Passed(o, s, i - 1), NEW q \in Seq(Cessors), Grown(o, s[i], q)
  PROVE  Passed(q, s, i)
<1> DEFINE n == Len(o)
           c == s[i]
<1>1. n \in Nat /\ n > 0 /\ Len(s) \in Nat /\ i \in Int
  BY DEF Passed
<1>2. Len(q) = n + 1 /\ q[n + 1] = c /\ \A k \in 1 .. n : q[k] = o[k]
  BY DEF Grown
<1>3. c.cc = "SWITCH" /\ c.min <= c.max
  BY DEF Ascending
<1>4. o[1] = s[1] /\ Ascending(o)
  BY DEF Passed
<1>5. \A k \in 1 .. n : o[k].min \in Int /\ o[k].max \in Int
  BY CessorParts
<1>6. c.min \in Int /\ c.max \in Int
  <2>1. i \in DOMAIN s
    OBVIOUS
  <2> QED BY <2>1, CessorParts
<1>7. n > 1 => o[n].max < c.min
  <2>1. CASE i = 2
    <3>1. i - 1 = 1
      BY <2>1
    <3>2. n = 1
      BY ONLY <3>1, Passed(o, s, i - 1) DEF Passed
    <3> QED BY ONLY <3>2
  <2>2. CASE i > 2
    <3>1. i - 1 \in 2 .. Len(s) /\ i - 1 < i
      BY <1>1, <2>2
    <3>2. s[i - 1].max < s[i].min
      BY <3>1 DEF Ascending
    <3>3. o[n].max = s[i - 1].max
      BY <3>1, <1>1 DEF Passed
    <3> QED BY <3>2, <3>3
  <2> QED BY <1>1, <2>1, <2>2
<1> HIDE DEF c, n
<1>8. \A k \in 2 .. n : o[k].cc = "SWITCH" /\ o[k].min <= o[k].max
  BY <1>4 DEF Ascending, n
<1>9. \A k, l \in 2 .. n : k < l => o[k].max < o[l].min
  BY <1>4 DEF Ascending, n
<1>10. \A k \in 2 .. n : o[k].max < c.min
  <2> SUFFICES ASSUME NEW k \in 2 .. n PROVE o[k].max < c.min
    OBVIOUS
  <2>1. CASE k = n
    BY <1>1, <1>7, <2>1
  <2>2. CASE k # n
    <3>1. n \in 2 .. n /\ k < n /\ k \in 1 .. n /\ n \in 1 .. n /\ n > 1
      BY <1>1, <2>2
    <3>2. o[k].max < o[n].min /\ o[n].min <= o[n].max /\ o[n].max < c.min
      BY <1>7, <1>8, <1>9, <3>1
    <3>3. o[k].max \in Int /\ o[n].min \in Int /\ o[n].max \in Int /\ c.min \in Int
      BY <1>5, <1>6, <3>1
    <3> QED BY ONLY <3>2, <3>3
  <2> QED BY <2>1, <2>2
<1>11. Ascending(q)
  <2>1. Len(q) > 0 /\ q[1].cc = "DEFAULT"
    BY <1>1, <1>2, <1>4 DEF Ascending
  <2>2. \A k \in 2 .. n + 1 : q[k].cc = "SWITCH" /\ q[k].min <= q[k].max
    <3> SUFFICES ASSUME NEW k \in 2 .. n + 1 PROVE q[k].cc = "SWITCH" /\ q[k].min <= q[k].max
      OBVIOUS
    <3>1. k = n + 1 \/ (k \in 2 .. n /\ k \in 1 .. n)
      BY <1>1
    <3> QED BY <1>2, <1>3, <1>8, <3>1
  <2>3. \A k, l \in 2 .. n + 1 : k < l => q[k].max < q[l].min
    <3> SUFFICES ASSUME NEW k \in 2 .. n + 1, NEW l \in 2 .. n + 1, k < l PROVE q[k].max < q[l].min
      OBVIOUS
    <3>1. k \in 2 .. n /\ k \in 1 .. n /\ (l = n + 1 \/ (l \in 2 .. n /\ l \in 1 .. n))
      BY <1>1
    <3> QED BY <1>2, <1>9, <1>10, <3>1
  <2> QED BY <1>2, <2>1, <2>2, <2>3 DEF Ascending
<1>12. Len(q) > 1 /\ q[Len(q)].max = s[i].max /\ q[1] = s[1] /\ i # 1
  BY <1>1, <1>2, <1>4 DEF c
<1>13. ASSUME NEW v \in Int, NEW t \in BlockIds PROVE Sends(q, Len(q), v, t) <=> Sends(s, i, v, t)
  <2>1. Sends(o, n, v, t) <=> Sends(s, i - 1, v, t)
    BY DEF Passed, n
  <2>2. Sends(q, n + 1, v, t) <=> Sends(o, n, v, t) \/ (c.min <= v /\ v <= c.max /\ c.b = t)
    <3>1. \A k : k \in 2 .. n + 1 <=> k = n + 1 \/ k \in 2 .. n
      BY <1>1
    <3>2. \A k \in 2 .. n : k \in 1 .. n
      BY <1>1
    <3> QED BY ONLY <1>2, <3>1, <3>2 DEF Sends
  <2>3. Sends(s, i, v, t) <=> Sends(s, i - 1, v, t) \/ (c.min <= v /\ v <= c.max /\ c.b = t)
    <3>1. \A k : k \in 2 .. i <=> k = i \/ k \in 2 .. i - 1
      BY <1>1
    <3> QED BY ONLY <3>1 DEF Sends, c
  <2> QED BY <1>2, <2>1, <2>2, <2>3
<1> QED BY <1>1, <1>2, <1>11, <1>12, <1>13 DEF Passed

\* A successor that widens the last of the others.
LEMMA WidenedPassed ==
  ASSUME NEW s \in Seq(Cessors), Ascending(s), NEW i \in 2 .. Len(s), NEW o \in Seq(Cessors),
         Passed(o, s, i - 1), NEW q \in Seq(Cessors), Widened(o, s[i], q)
  PROVE  Passed(q, s, i)
<1> DEFINE n == Len(o)
           c == s[i]
           x == o[n]
           y == q[n]
<1>1. n \in Nat /\ n > 0 /\ Len(s) \in Nat /\ i \in Int
  BY DEF Passed
<1>2. /\ Len(q) = n /\ y.cc = x.cc /\ y.b = x.b /\ y.min = x.min /\ y.max = c.max
      /\ \A k \in 1 .. n - 1 : q[k] = o[k]
  BY DEF Widened
<1>3. c.cc = "SWITCH" /\ c.min <= c.max
  BY DEF Ascending
<1>4. o[1] = s[1] /\ Ascending(o)
  BY DEF Passed
<1>5. x.cc = "SWITCH" /\ x.b = c.b /\ c.min = x.max + 1
  BY DEF Widened, Adjoin
<1>6. n > 1
  <2>1. n # 1
    BY <1>4, <1>5 DEF Ascending
  <2> HIDE DEF n
  <2> QED BY <1>1, <2>1
<1>7. \A k \in 1 .. n : o[k].min \in Int /\ o[k].max \in Int
  BY CessorParts
<1>8. c.min \in Int /\ c.max \in Int
  <2>1. i \in DOMAIN s
    OBVIOUS
  <2> QED BY <2>1, CessorParts
<1>9. x.min \in Int /\ x.max \in Int
  BY <1>1, <1>7
<1> HIDE DEF c, n
<1>10. \A k \in 2 .. n : o[k].cc = "SWITCH" /\ o[k].min <= o[k].max
  BY <1>4 DEF Ascending, n
<1>11. \A k, l \in 2 .. n : k < l => o[k].max < o[l].min
  BY <1>4 DEF Ascending, n
<1>12. Ascending(q)
  <2>1. Len(q) > 0 /\ q[1].cc = "DEFAULT"
    <3>1. 1 \in 1 .. n - 1
      BY <1>1, <1>6
    <3> QED BY <1>1, <1>2, <1>4, <3>1 DEF Ascending
  <2>2. \A k \in 2 .. n : q[k].cc = "SWITCH" /\ q[k].min <= q[k].max
    <3> SUFFICES ASSUME NEW k \in 2 .. n PROVE q[k].cc = "SWITCH" /\ q[k].min <= q[k].max
      OBVIOUS
    <3>1. CASE k = n
      <4>1. x.min <= x.max
        BY <1>1, <1>6, <1>10
      <4>2. x.min <= c.max
        BY ONLY <4>1, <1>3, <1>5, <1>8, <1>9
      <4> QED BY <1>2, <1>5, <3>1, <4>2
    <3>2. CASE k \in 1 .. n - 1
      BY <1>2, <1>10, <3>2
    <3> QED BY <1>1, <3>1, <3>2
  <2>3. \A k, l \in 2 .. n : k < l => q[k].max < q[l].min
    <3> SUFFICES ASSUME NEW k \in 2 .. n, NEW l \in 2 .. n, k < l PROVE q[k].max < q[l].min
      OBVIOUS
    <3>1. q[k] = o[k] /\ q[l].min = o[l].min
      <4>1. k \in 1 .. n - 1 /\ (l = n \/ l \in 1 .. n - 1)
        BY <1>1
      <4> QED BY <1>2, <4>1
    <3> QED BY <1>11, <3>1
  <2> HIDE DEF y, x
  <2> QED BY <1>2, <2>1, <2>2, <2>3 DEF Ascending
<1>13. Len(q) > 1 /\ q[Len(q)].max = s[i].max /\ q[1] = s[1] /\ i # 1
  <2>1. 1 \in 1 .. n - 1
    BY <1>1, <1>6
  <2> QED BY <1>1, <1>2, <1>4, <1>6, <2>1 DEF c
<1>14. ASSUME NEW v \in Int, NEW t \in BlockIds PROVE Sends(q, Len(q), v, t) <=> Sends(s, i, v, t)
  <2>1. Sends(o, n, v, t) <=> Sends(s, i - 1, v, t)
    BY DEF Passed, n
  <2> DEFINE R == c.min <= v /\ v <= c.max /\ c.b = t
  <2>2. Sends(q, n, v, t) <=> Sends(o, n, v, t) \/ R
    <3>1. \A k : k \in 2 .. n <=> k = n \/ k \in 2 .. n - 1
      BY <1>1, <1>6
    <3>2. \A k \in 2 .. n - 1 : k \in 1 .. n - 1
      BY <1>1
    <3>3. x.min <= x.max
      BY <1>1, <1>6, <1>10
    <3>4. (y.min <= v /\ v <= y.max /\ y.b = t) <=> (x.min <= v /\ v <= x.max /\ x.b = t) \/ R
      <4> HIDE DEF x, y
      <4> QED BY ONLY <1>2, <1>3, <1>5, <1>8, <1>9, <3>3, v \in Int
    <3> HIDE DEF R
    <3>5. Sends(q, n, v, t) <=> (\E k \in 2 .. n - 1 : q[k].min <= v /\ v <= q[k].max /\ q[k].b = t)
                                \/ (y.min <= v /\ v <= y.max /\ y.b = t)
      BY ONLY <3>1 DEF Sends
    <3>6. Sends(o, n, v, t) <=> (\E k \in 2 .. n - 1 : o[k].min <= v /\ v <= o[k].max /\ o[k].b = t)
                                \/ (x.min <= v /\ v <= x.max /\ x.b = t)
      BY ONLY <3>1 DEF Sends
    <3>7. (\E k \in 2 .. n - 1 : q[k].min <= v /\ v <= q[k].max /\ q[k].b = t)
          <=> (\E k \in 2 .. n - 1 : o[k].min <= v /\ v <= o[k].max /\ o[k].b = t)
      BY ONLY <1>2, <3>2
    <3> QED BY ONLY <3>4, <3>5, <3>6, <3>7
  <2>3. Sends(s, i, v, t) <=> Sends(s, i - 1, v, t) \/ R
    <3>1. \A k : k \in 2 .. i <=> k = i \/ k \in 2 .. i - 1
      BY <1>1
    <3> QED BY ONLY <3>1 DEF Sends, c
  <2> HIDE DEF R
  <2> QED BY <1>2, <2>1, <2>2, <2>3
<1> QED BY <1>1, <1>2, <1>12, <1>13, <1>14 DEF Passed

\* The pass over ascending cases leaves ascending cases, and every value where
\* it was.
LEMMA SwallowKeeps ==
  ASSUME NEW s \in Seq(Cessors), Ascending(s), NEW u, u = Swallow(s)
  PROVE  Passed(u, s, Len(s))
<1> DEFINE N == Len(s)
           a == Swallowing(s)
           Fine(i) == /\ a[i].out \in Seq(Cessors) /\ a[i].open \in BOOLEAN
                      /\ a[i].open => Len(a[i].out) > 0
                      /\ i = 0 => a[i].out = <<>>
                      /\ i > 0 => Passed(a[i].out, s, i)
           G == {i \in 0 .. N : Fine(i)}
<1>1. N \in Nat /\ DOMAIN s = 1 .. N /\ N > 0
  BY DEF Ascending
<1>2. a[0] = [out |-> <<>>, open |-> FALSE] /\ \A i \in 1 .. N : a[i] = SwallowOne(a[i - 1], s[i])
  BY <1>1, SwallowingDef
<1> HIDE DEF a
<1>3. 0 \in G
  <2>1. Fine(0)
    BY <1>2
  <2> QED BY <1>1, <2>1
<1>4. ASSUME NEW i \in 1 .. N, i - 1 \in G PROVE i \in G
  <2> DEFINE o == a[i - 1].out
             r == a[i]
  <2>1. Fine(i - 1) /\ s[i] \in Cessors /\ i \in 0 .. N /\ i > 0 /\ i - 1 \in Int
    BY <1>1, <1>4
  <2>2. /\ r.open \in BOOLEAN /\ r.out \in Seq(Cessors) /\ Len(r.out) > 0
        /\ Grown(o, s[i], r.out) \/ Widened(o, s[i], r.out)
    <3>1. r = SwallowOne(a[i - 1], s[i])
      BY <1>2
    <3>2. o \in Seq(Cessors) /\ a[i - 1].open \in BOOLEAN /\ (a[i - 1].open => Len(o) > 0)
      BY <2>1
    <3> HIDE DEF r, o
    <3> QED BY <2>1, <3>1, <3>2, SwallowStep DEF o
  <2>3. Passed(r.out, s, i)
    <3>1. CASE i = 1
      <4>1. o = <<>>
        <5>1. i - 1 = 0
          BY <3>1
        <5> QED BY <2>1, <5>1
      <4>2. ~Widened(o, s[i], r.out)
        <5> HIDE DEF o, r
        <5> QED BY <4>1 DEF Widened
      <4>3. Grown(<<>>, s[1], r.out)
        <5> HIDE DEF o, r
        <5> QED BY <2>2, <3>1, <4>1, <4>2
      <4> HIDE DEF o, r
      <4> QED BY <2>2, <3>1, <4>3, FirstPassed
    <3>2. CASE i > 1
      <4>1. Passed(o, s, i - 1) /\ o \in Seq(Cessors) /\ i \in 2 .. Len(s)
        BY <1>1, <2>1, <3>2
      <4> HIDE DEF o, r
      <4> QED BY <2>2, <4>1, GrownPassed, WidenedPassed
    <3> HIDE DEF o, r, Fine, G
    <3> QED BY <2>1, <3>1, <3>2
  <2>4. Fine(i)
    BY <2>1, <2>2, <2>3
  <2> HIDE DEF Fine
  <2> QED BY <2>1, <2>4
<1>5. 0 .. N \subseteq G
  <2> HIDE DEF G, Fine, N
  <2> QED BY <1>1, <1>3, <1>4, UpTo
<1>6. Fine(N)
  <2> HIDE DEF Fine
  <2> QED BY <1>1, <1>5
<1>7. u = a[N].out
  BY DEF Swallow, a
<1> QED BY <1>1, <1>6, <1>7

\* Cases that ascend have no value twice.
LEMMA AscendingCased == ASSUME NEW s \in Seq(Cessors), Ascending(s) PROVE Cased(s)
<1>1. \A i, j \in 2 .. Len(s) : i # j => i < j \/ j < i
  OBVIOUS
<1> QED BY <1>1 DEF Ascending, Cased

\* block_switch_lookup finds the case with the value, or the default.
LEMMA LookupLeads ==
  ASSUME NEW s \in Seq(Cessors), Cased(s), NEW v \in Int
  PROVE  /\ \A t : Sends(s, Len(s), v, t) => SwitchLookup(s, v) = t
         /\ ~(\E t : Sends(s, Len(s), v, t)) => SwitchLookup(s, v) = s[1].b
<1> DEFINE hits == {i \in 2 .. Len(s) : s[i].min =< v /\ v =< s[i].max}
           first == CHOOSE i \in hits : \A j \in hits : i =< j
<1>1. \A i \in 2 .. Len(s) : s[i].min \in Int /\ s[i].max \in Int
  <2> SUFFICES ASSUME NEW i \in 2 .. Len(s) PROVE s[i].min \in Int /\ s[i].max \in Int
    OBVIOUS
  <2>1. i \in DOMAIN s
    OBVIOUS
  <2> QED BY <2>1, CessorParts
<1>2. \A i, j \in hits : i = j
  <2> SUFFICES ASSUME NEW i \in hits, NEW j \in hits, i # j PROVE FALSE
    OBVIOUS
  <2>1. i \in 2 .. Len(s) /\ j \in 2 .. Len(s)
    OBVIOUS
  <2>2. s[i].max < s[j].min \/ s[j].max < s[i].min
    BY ONLY <2>1, Cased(s), i # j DEF Cased
  <2>3. s[i].min <= v /\ v <= s[i].max /\ s[j].min <= v /\ v <= s[j].max
    OBVIOUS
  <2> QED BY ONLY <1>1, <2>1, <2>2, <2>3, v \in Int
<1>3. SwitchLookup(s, v) = IF hits = {} THEN s[1].b ELSE s[first].b
  BY DEF SwitchLookup
<1>4. ASSUME NEW t, Sends(s, Len(s), v, t) PROVE SwitchLookup(s, v) = t
  <2>1. PICK i \in hits : s[i].b = t
    BY <1>4 DEF Sends
  <2>2. \A j \in hits : j \in Int
    OBVIOUS
  <2> HIDE DEF hits
  <2>3. i \in hits /\ \A j \in hits : i =< j
    BY <1>2, <2>1, <2>2
  <2>4. first \in hits
    BY <2>3
  <2>5. first = i
    BY <1>2, <2>1, <2>4
  <2> QED BY <1>3, <2>1, <2>5
<1>5. ASSUME ~(\E t : Sends(s, Len(s), v, t)) PROVE SwitchLookup(s, v) = s[1].b
  <2>1. \A i \in hits : Sends(s, Len(s), v, s[i].b)
    BY DEF Sends
  <2>2. hits = {}
    <3> HIDE DEF hits
    <3> QED BY <1>5, <2>1
  <2> QED BY <1>3, <2>2
<1> QED BY <1>4, <1>5

\* Lists that send every value the same way look up the same.
LEMMA SameLookup ==
  ASSUME NEW s \in Seq(Cessors), Cased(s), NEW u \in Seq(Cessors), Cased(u), u[1].b = s[1].b,
         \A v \in Int, t \in BlockIds : Sends(u, Len(u), v, t) <=> Sends(s, Len(s), v, t)
  PROVE  \A v \in Int : SwitchLookup(u, v) = SwitchLookup(s, v)
<1> SUFFICES ASSUME NEW v \in Int PROVE SwitchLookup(u, v) = SwitchLookup(s, v)
  OBVIOUS
<1>1. \A t : Sends(s, Len(s), v, t) => t \in BlockIds
  <2> SUFFICES ASSUME NEW i \in 2 .. Len(s) PROVE s[i].b \in BlockIds
    BY DEF Sends
  <2>1. i \in DOMAIN s
    OBVIOUS
  <2> QED BY <2>1, CessorParts
<1>2. \A t : Sends(u, Len(u), v, t) => t \in BlockIds
  <2> SUFFICES ASSUME NEW i \in 2 .. Len(u) PROVE u[i].b \in BlockIds
    BY DEF Sends
  <2>1. i \in DOMAIN u
    OBVIOUS
  <2> QED BY <2>1, CessorParts
<1>3. \A t : Sends(u, Len(u), v, t) <=> Sends(s, Len(s), v, t)
  BY <1>1, <1>2
<1>4. /\ \A t : Sends(s, Len(s), v, t) => SwitchLookup(s, v) = t
      /\ ~(\E t : Sends(s, Len(s), v, t)) => SwitchLookup(s, v) = s[1].b
  BY LookupLeads
<1>5. /\ \A t : Sends(u, Len(u), v, t) => SwitchLookup(u, v) = t
      /\ ~(\E t : Sends(u, Len(u), v, t)) => SwitchLookup(u, v) = u[1].b
  BY LookupLeads
<1>6. CASE \E t : Sends(s, Len(s), v, t)
  BY <1>3, <1>4, <1>5, <1>6, Zenon
<1>7. CASE ~(\E t : Sends(s, Len(s), v, t))
  <2>1. ~(\E t : Sends(u, Len(u), v, t))
    BY <1>3, <1>7, Zenon
  <2> QED BY <1>4, <1>5, <1>7, <2>1
<1> QED BY <1>6, <1>7

(* The cases u decide what those of s decide.                                *)
SameCases(u, s) ==
    Cased(s) => /\ Ascending(u) /\ u[1] = s[1]
                /\ \A v \in Int : SwitchLookup(u, v) = SwitchLookup(s, v)

\* Sorting and then joining.
LEMMA CasesKept ==
  ASSUME NEW s \in Seq(Cessors), NEW u, u = Swallow(SwitchSort(s))
  PROVE  u \in Seq(Cessors) /\ Within(u, s) /\ (s # <<>> => u # <<>>) /\ SameCases(u, s)
<1> DEFINE w == SwitchSort(s)
<1>1. /\ w \in Seq(Cessors) /\ Len(w) = Len(s) /\ Within(w, s)
      /\ Cased(s) => /\ Ascending(w) /\ w[1] = s[1]
                     /\ \A v, t : Sends(w, Len(w), v, t) <=> Sends(s, Len(s), v, t)
  BY SortKeeps
<1> HIDE DEF w
<1>2. u \in Seq(Cessors) /\ Within(u, w) /\ (w # <<>> => u # <<>>)
  BY <1>1, SwallowType DEF w
<1>3. Within(u, s)
  BY <1>1, <1>2 DEF Within
<1>4. s # <<>> => w # <<>>
  BY <1>1
<1>5. ASSUME Cased(s)
      PROVE  Ascending(u) /\ u[1] = s[1] /\ \A v \in Int : SwitchLookup(u, v) = SwitchLookup(s, v)
  <2>1. Passed(u, w, Len(w))
    BY <1>1, <1>5, SwallowKeeps DEF w
  <2>2. Ascending(u) /\ u[1] = s[1]
    BY <1>1, <1>5, <2>1 DEF Passed
  <2>3. \A v \in Int, t \in BlockIds : Sends(u, Len(u), v, t) <=> Sends(s, Len(s), v, t)
    BY <1>1, <1>5, <2>1 DEF Passed
  <2>4. Cased(u) /\ u[1].b = s[1].b
    BY <1>2, <2>2, AscendingCased
  <2>5. \A v \in Int : SwitchLookup(u, v) = SwitchLookup(s, v)
    BY ONLY <1>2, <1>5, <2>3, <2>4, SameLookup, s \in Seq(Cessors)
  <2> QED BY <2>2, <2>5
<1> QED BY <1>2, <1>3, <1>4, <1>5 DEF SameCases

-----------------------------------------------------------------------------
(* Where a block leads *)

(* What b decides, it goes on to decide.                                     *)
Firm(g, h, b) == DecidedAt(g, b) => DecidedAt(h, b)

(* Cases in order, each below the next.                                      *)
Climbing(s) ==
    /\ s # <<>> /\ s[1].cc = "DEFAULT"
    /\ \A i \in 2 .. Len(s) : s[i].cc = "SWITCH" /\ s[i].min <= s[i].max
    /\ \A i \in 2 .. Len(s) - 1 : s[i].max < s[i + 1].min

\* Each is below all that follow.
LEMMA ClimbingAscends ==
  ASSUME NEW s \in Seq(Cessors)
  PROVE  Climbing(s) <=> Ascending(s)
<1> DEFINE N == Len(s)
<1>1. N \in Nat /\ (s # <<>> <=> N > 0)
  OBVIOUS
<1>2. \A i \in 2 .. N : s[i].min \in Int /\ s[i].max \in Int
  <2> SUFFICES ASSUME NEW i \in 2 .. N PROVE s[i].min \in Int /\ s[i].max \in Int
    OBVIOUS
  <2>1. i \in DOMAIN s
    OBVIOUS
  <2> QED BY <2>1, CessorParts
<1>3. ASSUME Climbing(s) PROVE Ascending(s)
  <2> DEFINE Fine(j) == \A i \in 2 .. N : i < j /\ j \in 2 .. N => s[i].max < s[j].min
             G == {j \in 0 .. N : Fine(j)}
  <2>0. /\ \A i \in 2 .. N : s[i].cc = "SWITCH" /\ s[i].min <= s[i].max
        /\ \A i \in 2 .. N - 1 : s[i].max < s[i + 1].min
    BY <1>3 DEF Climbing
  <2> HIDE DEF N
  <2>1. 0 \in G
    BY <1>1
  <2>2. ASSUME NEW j \in 1 .. N, j - 1 \in G PROVE j \in G
    <3> SUFFICES ASSUME NEW i \in 2 .. N, i < j, j \in 2 .. N PROVE s[i].max < s[j].min
      BY <1>1
    <3>1. j - 1 \in 2 .. N - 1 /\ j - 1 \in 2 .. N /\ (j - 1) + 1 = j
      BY <1>1
    <3>2. s[j - 1].max < s[j].min
      BY ONLY <2>0, <3>1
    <3>3. CASE i = j - 1
      BY <3>2, <3>3
    <3>4. CASE i < j - 1
      <4>1. s[i].max < s[j - 1].min
        BY <2>2, <3>1, <3>4
      <4>2. s[j - 1].min <= s[j - 1].max
        BY ONLY <2>0, <3>1
      <4> QED BY ONLY <1>2, <3>1, <3>2, <4>1, <4>2, i \in 2 .. N, j \in 2 .. N
    <3> QED BY <1>1, <3>3, <3>4
  <2>3. 0 .. N \subseteq G
    <3> HIDE DEF G, Fine
    <3> QED BY <1>1, <2>1, <2>2, UpTo
  <2>4. \A j \in 2 .. N : j \in 0 .. N
    BY <1>1
  <2>5. \A i, j \in 2 .. N : i < j => s[i].max < s[j].min
    BY <2>3, <2>4
  <2> QED BY <1>1, <1>3, <2>0, <2>5 DEF Climbing, Ascending, N
<1>4. ASSUME Ascending(s) PROVE Climbing(s)
  <2>1. \A i \in 2 .. N - 1 : i \in 2 .. N /\ i + 1 \in 2 .. N /\ i < i + 1
    BY <1>1
  <2> QED BY <1>1, <1>4, <2>1 DEF Climbing, Ascending
<1> QED BY <1>3, <1>4

\* A switch that decides has its cases in order.
LEMMA SwitchDecides ==
  ASSUME NEW K, NEW I, NEW g \in Graphs(K, I), NEW b \in BlockIds, IsSwitch(g, b)
  PROVE  DecidedAt(g, b) <=> Ascending(g.succ[b])
<1>1. DecidedAt(g, b) <=> Climbing(g.succ[b])
  BY DEF DecidedAt, Climbing
<1>2. g.succ[b] \in Seq(Cessors)
  BY Parts
<1> QED BY <1>1, <1>2, ClimbingAscends

\* Successors and controlling operand say what is decided.
LEMMA DecidedSame ==
  ASSUME NEW g, NEW h, NEW b, h.succ[b] = g.succ[b], h.control[b] = g.control[b]
  PROVE  DecidedAt(h, b) <=> DecidedAt(g, b)
BY DEF DecidedAt, IsSwitch

(* What block h leads to is what g does, as far as that is somewhere.        *)
SameWay(g, h, b) ==
    (IsSwitch(g, b) => Cased(g.succ[b])) =>
        /\ IsSwitch(h, b) => Cased(h.succ[b])
        /\ \A C : \A v \in Int : Leads(g, b, C, v) # {} => Leads(h, b, C, v) = Leads(g, b, C, v)

(* Where b leads is all that is different, and it leads nowhere else.        *)
Narrowed(K, I, g, h, b) ==
    /\ Edited(K, I, g, h, b, h.succ[b], h.control[b])
    /\ Within(h.succ[b], g.succ[b])

\* Successors and controlling operand say where a block leads.
LEMMA LeadsSame ==
  ASSUME NEW g, NEW h, NEW b, h.succ[b] = g.succ[b], h.control[b] = g.control[b]
  PROVE  SameWay(g, h, b)
BY DEF SameWay, Leads, IsSwitch

\* No narrower than itself.
LEMMA WithinSelf == ASSUME NEW s PROVE Within(s, s)
BY DEF Within

LEMMA WithinThen ==
  ASSUME NEW s, NEW u, NEW w, Within(w, u), Within(u, s) PROVE Within(w, s)
BY DEF Within

\* block_switch_coalesce
LEMMA SwitchCoalesceKeeps ==
  ASSUME NEW K, NEW I, NEW g \in Graphs(K, I), Linked(g), NEW b \in BlockIds,
         NEW h, h = SwitchCoalesce(g, b)
  PROVE  /\ Edited(K, I, g, h, b, Swallow(SwitchSort(g.succ[b])), g.control[b])
         /\ Narrowed(K, I, g, h, b)
         /\ IsSwitch(g, b) => SameWay(g, h, b) /\ Firm(g, h, b)
<1> DEFINE s == g.succ[b]
           u == Swallow(SwitchSort(s))
<1>1. s \in Seq(Cessors) /\ g.control[b] \in K \cup {NoControl}
  BY Parts
<1>2. u \in Seq(Cessors) /\ Within(u, s) /\ (s # <<>> => u # <<>>) /\ SameCases(u, s)
  BY <1>1, CasesKept
<1>3. h = Shrink(g, b, u, g.control[b])
  <2> DEFINE p == [t \in BlockIds |-> [g.pred[t] EXCEPT ![b] = @ - (EdgesTo(s, t) - EdgesTo(u, t))]]
  <2>1. h = [g EXCEPT !.succ[b] = u, !.pred = p]
    BY DEF SwitchCoalesce
  <2>2. Shrink(g, b, u, g.control[b]) = [g EXCEPT !.succ[b] = u, !.control[b] = g.control[b], !.pred = p]
    BY DEF Shrink
  <2>3. g \in Records(K, I) /\ g.control \in [BlockIds -> K \cup {NoControl}]
    BY Parts
  <2>4. [g.control EXCEPT ![b] = g.control[b]] = g.control
    BY ONLY <2>3
  <2> HIDE DEF p, u
  <2>5. h = [list |-> g.list, succ |-> [g.succ EXCEPT ![b] = u], pred |-> p,
             control |-> g.control, body |-> g.body]
    BY ONLY <2>1, <2>3 DEF Records
  <2>6. Shrink(g, b, u, g.control[b])
        = [list |-> g.list, succ |-> [g.succ EXCEPT ![b] = u], pred |-> p,
           control |-> [g.control EXCEPT ![b] = g.control[b]], body |-> g.body]
    BY ONLY <2>2, <2>3 DEF Records
  <2> QED BY ONLY <2>4, <2>5, <2>6
<1> HIDE DEF u
<1>4. Edited(K, I, g, h, b, u, g.control[b])
  BY <1>1, <1>2, <1>3, Shrunk
<1>5. h.succ[b] = u /\ h.control[b] = g.control[b]
  BY <1>4 DEF Edited
<1>6. Narrowed(K, I, g, h, b)
  BY <1>2, <1>4, <1>5 DEF Narrowed
<1>7. ASSUME IsSwitch(g, b) PROVE SameWay(g, h, b)
  <2> SUFFICES ASSUME Cased(s)
               PROVE  Cased(u) /\ \A C : \A v \in Int : Leads(h, b, C, v) = Leads(g, b, C, v)
    BY <1>5, <1>7 DEF SameWay
  <2>1. Ascending(u) /\ \A v \in Int : SwitchLookup(u, v) = SwitchLookup(s, v)
    BY <1>2 DEF SameCases
  <2>2. Cased(u)
    BY <1>2, <2>1, AscendingCased
  <2>3. IsSwitch(h, b)
    BY <1>5, <1>7 DEF IsSwitch
  <2> QED BY <1>5, <1>7, <2>1, <2>2, <2>3 DEF Leads
<1>8. ASSUME IsSwitch(g, b) PROVE Firm(g, h, b)
  <2> SUFFICES ASSUME DecidedAt(g, b) PROVE DecidedAt(h, b)
    BY DEF Firm
  <2>1. Ascending(s)
    BY <1>8, SwitchDecides
  <2>2. Ascending(u)
    BY <1>1, <1>2, <2>1, AscendingCased DEF SameCases
  <2>3. IsSwitch(h, b) /\ h \in Graphs(K, I)
    BY <1>4, <1>5, <1>8 DEF IsSwitch, Edited
  <2> QED BY <1>5, <2>2, <2>3, SwitchDecides
<1> QED BY <1>4, <1>6, <1>7, <1>8 DEF u

\* A block whose successors are all one block leads to it.
LEMMA LeadsToOne ==
  ASSUME NEW K, NEW I, NEW g \in Graphs(K, I), NEW b \in BlockIds, NEW t,
         g.succ[b] # <<>>, \A i \in DOMAIN g.succ[b] : g.succ[b][i].b = t,
         IsSwitch(g, b) => Cased(g.succ[b]), NEW C, NEW v \in Int
  PROVE  Leads(g, b, C, v) \subseteq {t}
<1> DEFINE s == g.succ[b]
<1>1. s \in Seq(Cessors)
  BY Parts
<1>2. CASE IsSwitch(g, b)
  <2>1. /\ \A u : Sends(s, Len(s), v, u) => SwitchLookup(s, v) = u
        /\ ~(\E u : Sends(s, Len(s), v, u)) => SwitchLookup(s, v) = s[1].b
    BY <1>1, <1>2, LookupLeads
  <2>2. 1 \in DOMAIN s /\ \A i \in 2 .. Len(s) : i \in DOMAIN s
    BY <1>1
  <2>3. \A u : Sends(s, Len(s), v, u) => u = t
    BY <2>2 DEF Sends
  <2>4. SwitchLookup(s, v) = t
    BY <2>1, <2>2, <2>3
  <2> QED BY <1>2, <2>4 DEF Leads
<1>3. CASE ~IsSwitch(g, b)
  BY <1>3 DEF Leads
<1> QED BY <1>2, <1>3

\* A new successor.
LEMMA CessorType ==
  ASSUME NEW cc \in Ways, NEW b \in BlockIds, NEW c, c = Cessor(cc, b)
  PROVE  c \in Cessors /\ c.b = b /\ c.cc = cc
BY DEF Cessor, Cessors

\* The one successor that takes the place of all of them.
LEMMA OneSuccessor ==
  ASSUME NEW K, NEW I, NEW g \in Graphs(K, I), Linked(g), NEW b \in BlockIds,
         g.succ[b] # <<>>, \A i \in DOMAIN g.succ[b] : g.succ[b][i].b = g.succ[b][1].b,
         NEW h, h = AddSuccessor(RemoveSuccessors(g, b), b, Cessor("ALWAYS", g.succ[b][1].b))
  PROVE  Narrowed(K, I, g, h, b) /\ SameWay(g, h, b) /\ Firm(g, h, b)
<1> DEFINE s == g.succ[b]
           t == s[1].b
           c == Cessor("ALWAYS", t)
           k == RemoveSuccessors(g, b)
<1>1. s \in Seq(Cessors) /\ 1 \in DOMAIN s
  BY Parts
<1>2. t \in BlockIds /\ c \in Cessors /\ c.b = t /\ c.cc = "ALWAYS"
  <2>1. t \in BlockIds
    BY <1>1, CessorParts
  <2>2. c = Cessor("ALWAYS", t) /\ "ALWAYS" \in Ways
    BY DEF Ways
  <2> HIDE DEF t, c
  <2>3. c \in Cessors /\ c.b = t /\ c.cc = "ALWAYS"
    BY ONLY <2>1, <2>2, CessorType
  <2> QED BY <2>1, <2>3
<1>3. Edited(K, I, g, k, b, <<>>, NoControl)
  BY RemoveKeeps
<1> HIDE DEF c, k
<1>4. k \in Graphs(K, I) /\ Linked(k) /\ k.succ[b] = <<>> /\ k.control[b] = NoControl
  BY <1>3 DEF Edited
<1>5. Edited(K, I, k, h, b, <<c>>, NoControl)
  <2>1. Edited(K, I, k, h, b, Append(k.succ[b], c), k.control[b])
    BY <1>2, <1>4, AddKeeps DEF c, k
  <2>2. Append(<<>>, c) = <<c>>
    OBVIOUS
  <2> QED BY ONLY <1>4, <2>1, <2>2
<1>6. Edited(K, I, g, h, b, <<c>>, NoControl)
  BY <1>3, <1>5, EditedThen, Zenon
<1>7. h.succ[b] = <<c>> /\ h.control[b] = NoControl
  BY <1>6 DEF Edited
<1>8. Narrowed(K, I, g, h, b)
  <2>1. Within(<<c>>, s)
    BY <1>1, <1>2 DEF Within
  <2> QED BY <1>6, <1>7, <2>1 DEF Narrowed
<1>9. SameWay(g, h, b)
  <2>1. ~IsSwitch(h, b)
    BY <1>7 DEF IsSwitch
  <2>2. ASSUME NEW C PROVE \A v : Leads(h, b, C, v) = {t}
    <3> DEFINE w == <<c>>
    <3>1. {w[i].b : i \in {j \in DOMAIN w : w[j].cc \in C \cup {"ALWAYS"}}} = {t}
      <4>1. DOMAIN w = {1} /\ w[1] = c
        OBVIOUS
      <4> HIDE DEF w, t
      <4> QED BY ONLY <1>2, <4>1
    <3>2. h.succ[b] = w
      BY <1>7
    <3> HIDE DEF w
    <3> QED BY <2>1, <3>1, <3>2 DEF Leads
  <2>3. ASSUME IsSwitch(g, b) => Cased(s), NEW C, NEW v \in Int PROVE Leads(g, b, C, v) \subseteq {t}
    BY <2>3, LeadsToOne
  <2> QED BY <2>1, <2>2, <2>3 DEF SameWay
<1>10. DecidedAt(h, b)
  <2> DEFINE w == <<c>>
  <2>1. Len(w) = 1 /\ w[1] = c
    OBVIOUS
  <2>2. h.succ[b] = w /\ ~IsSwitch(h, b)
    BY <1>7 DEF IsSwitch
  <2> HIDE DEF w
  <2> QED BY <1>2, <2>1, <2>2 DEF DecidedAt
<1> QED BY <1>8, <1>9, <1>10 DEF Firm

\* A block leads where it did when the way there has two parts.
LEMMA WayThen ==
  ASSUME NEW g, NEW k, NEW h, NEW b, SameWay(g, k, b), SameWay(k, h, b)
  PROVE  SameWay(g, h, b)
BY DEF SameWay

LEMMA NarrowedThen ==
  ASSUME NEW K, NEW I, NEW g, NEW k, NEW h, NEW b,
         Narrowed(K, I, g, k, b), Narrowed(K, I, k, h, b)
  PROVE  Narrowed(K, I, g, h, b)
<1>1. Edited(K, I, g, h, b, h.succ[b], h.control[b])
  BY EditedThen DEF Narrowed
<1>2. Within(h.succ[b], g.succ[b])
  BY WithinThen DEF Narrowed
<1> QED BY <1>1, <1>2 DEF Narrowed

\* block_coalesce_successors
LEMMA CoalesceKeeps ==
  ASSUME NEW K, NEW I, NEW g \in Graphs(K, I), Linked(g), NEW b \in BlockIds,
         NEW h, h = CoalesceSuccessors(g, b)
  PROVE  Narrowed(K, I, g, h, b) /\ SameWay(g, h, b) /\ Firm(g, h, b)
<1> DEFINE k == IF IsSwitch(g, b) THEN SwitchCoalesce(g, b) ELSE g
           s == k.succ[b]
<1>1. Narrowed(K, I, g, k, b) /\ SameWay(g, k, b) /\ Firm(g, k, b)
  <2>1. CASE IsSwitch(g, b)
    <3>1. k = SwitchCoalesce(g, b)
      BY <2>1
    <3> HIDE DEF k
    <3> QED BY <2>1, <3>1, SwitchCoalesceKeeps
  <2>2. CASE ~IsSwitch(g, b)
    <3>1. k = g
      BY <2>2
    <3>2. Edited(K, I, g, g, b, g.succ[b], g.control[b]) /\ Within(g.succ[b], g.succ[b])
      BY EditedSelf, WithinSelf
    <3>3. SameWay(g, g, b) /\ Firm(g, g, b)
      BY LeadsSame DEF Firm
    <3> HIDE DEF k
    <3> QED BY <3>1, <3>2, <3>3 DEF Narrowed
  <2> QED BY <2>1, <2>2
<1>2. k \in Graphs(K, I) /\ Linked(k)
  <2> HIDE DEF k
  <2> QED BY <1>1 DEF Narrowed, Edited
<1>3. h = IF s = <<>> \/ s[1].cc = "ALWAYS" \/ (\E i \in DOMAIN s : s[i].b # s[1].b) THEN k
          ELSE AddSuccessor(RemoveSuccessors(k, b), b, Cessor("ALWAYS", s[1].b))
  BY DEF CoalesceSuccessors
<1> HIDE DEF k
<1>4. CASE s = <<>> \/ s[1].cc = "ALWAYS" \/ (\E i \in DOMAIN s : s[i].b # s[1].b)
  BY <1>1, <1>3, <1>4
<1>5. CASE ~(s = <<>> \/ s[1].cc = "ALWAYS" \/ (\E i \in DOMAIN s : s[i].b # s[1].b))
  <2>1. Narrowed(K, I, k, h, b) /\ SameWay(k, h, b) /\ Firm(k, h, b)
    BY <1>2, <1>3, <1>5, OneSuccessor
  <2>2. Firm(g, h, b)
    BY <1>1, <2>1 DEF Firm
  <2> QED BY <1>1, <2>1, <2>2, NarrowedThen, WayThen, Zenon
<1> QED BY <1>4, <1>5

(* The members of S, but to for from.                                        *)
Renamed(S, from, to) == {IF t = from THEN to ELSE t : t \in S}

(* What block g leads to, block h does, but to for from.                     *)
NewWay(g, h, b, from, to) ==
    (IsSwitch(g, b) => Cased(g.succ[b])) =>
        /\ IsSwitch(h, b) => Cased(h.succ[b])
        /\ \A C : \A v \in Int :
              Leads(g, b, C, v) # {} => Leads(h, b, C, v) = Renamed(Leads(g, b, C, v), from, to)

(* The successors u lead where those of s do, but to for from.               *)
Diverted(u, s, from, to) ==
    \A i \in DOMAIN u : u[i].b # from /\ (u[i].b = to \/ \E j \in DOMAIN s : u[i].b = s[j].b)

Turned(s, from, to) == [i \in DOMAIN s |-> IF s[i].b = from THEN [s[i] EXCEPT !.b = to] ELSE s[i]]

\* Only the targets are different.
LEMMA TurnedParts ==
  ASSUME NEW s \in Seq(Cessors), NEW from, NEW to \in BlockIds, NEW u, u = Turned(s, from, to)
  PROVE  /\ u \in Seq(Cessors) /\ DOMAIN u = DOMAIN s /\ Len(u) = Len(s)
         /\ \A i \in DOMAIN s : /\ u[i].b = IF s[i].b = from THEN to ELSE s[i].b
                                /\ u[i].cc = s[i].cc /\ u[i].min = s[i].min /\ u[i].max = s[i].max
<1>1. ASSUME NEW i \in DOMAIN s
      PROVE  /\ u[i] \in Cessors
             /\ u[i].b = IF s[i].b = from THEN to ELSE s[i].b
             /\ u[i].cc = s[i].cc /\ u[i].min = s[i].min /\ u[i].max = s[i].max
  <2>1. s[i] \in Cessors
    BY CessorParts
  <2>2. u[i] = IF s[i].b = from THEN [s[i] EXCEPT !.b = to] ELSE s[i]
    BY DEF Turned
  <2> QED BY ONLY <2>1, <2>2, to \in BlockIds DEF Cessors
<1>2. DOMAIN s = 1 .. Len(s) /\ Len(s) \in Nat
  OBVIOUS
<1>3. u = [i \in 1 .. Len(s) |-> u[i]]
  BY <1>2 DEF Turned
<1>4. u \in Seq(Cessors) /\ Len(u) = Len(s)
  BY ONLY <1>1, <1>2, <1>3
<1> QED BY <1>1, <1>2, <1>4

\* Cases that go elsewhere.
LEMMA TurnedCases ==
  ASSUME NEW s \in Seq(Cessors), Cased(s), NEW from, NEW to \in BlockIds,
         NEW u, u = Turned(s, from, to)
  PROVE  /\ Cased(u)
         /\ \A v \in Int : SwitchLookup(u, v) = IF SwitchLookup(s, v) = from THEN to ELSE SwitchLookup(s, v)
<1>1. /\ u \in Seq(Cessors) /\ DOMAIN u = DOMAIN s /\ Len(u) = Len(s)
      /\ \A i \in DOMAIN s : /\ u[i].b = IF s[i].b = from THEN to ELSE s[i].b
                             /\ u[i].cc = s[i].cc /\ u[i].min = s[i].min /\ u[i].max = s[i].max
  BY TurnedParts
<1>2. Len(s) > 0 /\ 1 \in DOMAIN s /\ \A i \in 2 .. Len(s) : i \in DOMAIN s
  BY DEF Cased
<1>3. Cased(u)
  BY ONLY <1>1, <1>2, Cased(s) DEF Cased
<1>4. ASSUME NEW v \in Int
      PROVE  SwitchLookup(u, v) = IF SwitchLookup(s, v) = from THEN to ELSE SwitchLookup(s, v)
  <2>1. /\ \A t : Sends(s, Len(s), v, t) => SwitchLookup(s, v) = t
        /\ ~(\E t : Sends(s, Len(s), v, t)) => SwitchLookup(s, v) = s[1].b
    BY LookupLeads
  <2>2. /\ \A t : Sends(u, Len(u), v, t) => SwitchLookup(u, v) = t
        /\ ~(\E t : Sends(u, Len(u), v, t)) => SwitchLookup(u, v) = u[1].b
    BY <1>1, <1>3, LookupLeads
  <2>3. CASE \E t : Sends(s, Len(s), v, t)
    <3>1. PICK i \in 2 .. Len(s) : s[i].min <= v /\ v <= s[i].max
      BY <2>3 DEF Sends
    <3>2. Sends(s, Len(s), v, s[i].b) /\ Sends(u, Len(u), v, u[i].b)
      BY <1>1, <1>2, <3>1 DEF Sends
    <3>3. SwitchLookup(s, v) = s[i].b /\ SwitchLookup(u, v) = u[i].b
      BY <2>1, <2>2, <3>2
    <3> QED BY <1>1, <1>2, <3>3
  <2>4. CASE ~(\E t : Sends(s, Len(s), v, t))
    <3>1. ~(\E t : Sends(u, Len(u), v, t))
      BY ONLY <1>1, <1>2, <2>4 DEF Sends
    <3> QED BY <1>1, <1>2, <2>1, <2>2, <2>4, <3>1
  <2> QED BY <2>3, <2>4
<1> QED BY <1>3, <1>4

\* block_redirect_successors
LEMMA RedirectKeeps ==
  ASSUME NEW K, NEW I, NEW g \in Graphs(K, I), Linked(g), NEW b \in BlockIds,
         NEW from \in BlockIds, NEW to \in BlockIds, from # to,
         NEW h, h = RedirectSuccessors(g, b, from, to)
  PROVE  /\ Edited(K, I, g, h, b, h.succ[b], h.control[b])
         /\ Diverted(h.succ[b], g.succ[b], from, to)
         /\ NewWay(g, h, b, from, to) /\ Firm(g, h, b)
<1> DEFINE s == g.succ[b]
           n == EdgesTo(s, from)
           u == Turned(s, from, to)
           pred == [g.pred EXCEPT ![from][b] = @ - n, ![to][b] = @ + n]
           k == [g EXCEPT !.succ[b] = u, !.pred = pred]
<1>1. s \in Seq(Cessors) /\ g.control[b] \in K \cup {NoControl}
  BY Parts
<1>2. /\ u \in Seq(Cessors) /\ DOMAIN u = DOMAIN s /\ Len(u) = Len(s)
      /\ \A i \in DOMAIN s : /\ u[i].b = IF s[i].b = from THEN to ELSE s[i].b
                             /\ u[i].cc = s[i].cc /\ u[i].min = s[i].min /\ u[i].max = s[i].max
  BY <1>1, TurnedParts
<1>3. h = CoalesceSuccessors(k, b)
  BY DEF RedirectSuccessors, Turned
<1>4. n \in Nat
  BY <1>1, EdgesToType
<1>5. /\ EdgesTo(u, from) = 0
      /\ EdgesTo(u, to) = EdgesTo(s, to) + n
      /\ \A t \in BlockIds \ {from, to} : EdgesTo(u, t) = EdgesTo(s, t)
  <2>1. u = [i \in DOMAIN s |-> IF s[i].b = from THEN [s[i] EXCEPT !.b = to] ELSE s[i]]
    BY DEF Turned
  <2> HIDE DEF u, s
  <2> QED BY ONLY <1>1, <2>1, EdgesMoved, from \in BlockIds, to \in BlockIds, from # to DEF n
<1>6. k = Edit(g, b, u, pred, g.control[b])
  <2>1. g \in Records(K, I)
    BY Parts
  <2> HIDE DEF u, n, s, pred
  <2>2. k = [list |-> g.list, succ |-> [g.succ EXCEPT ![b] = u], pred |-> pred,
             control |-> g.control, body |-> g.body]
    <3>1. k = [g EXCEPT !.succ[b] = u, !.pred = pred]
      OBVIOUS
    <3> HIDE DEF k
    <3> QED BY ONLY <2>1, <3>1 DEF Records
  <2>3. [g.control EXCEPT ![b] = g.control[b]] = g.control
    BY <2>1 DEF Records
  <2> HIDE DEF k
  <2>4. Edit(g, b, u, pred, g.control[b])
        = [list |-> g.list, succ |-> [g.succ EXCEPT ![b] = u], pred |-> pred,
           control |-> [g.control EXCEPT ![b] = g.control[b]], body |-> g.body]
    <3>1. Edit(g, b, u, pred, g.control[b])
          = [g EXCEPT !.succ[b] = u, !.pred = pred, !.control[b] = g.control[b]]
      BY DEF Edit
    <3> QED BY ONLY <2>1, <3>1 DEF Records
  <2> QED BY ONLY <2>2, <2>3, <2>4
<1>7. pred \in [BlockIds -> [BlockIds -> Int]] /\ Counts(g, b, u, pred)
  <2>1. g.pred \in [BlockIds -> [BlockIds -> Int]]
    BY Parts
  <2>2. \A t \in BlockIds : g.pred[t][b] = EdgesTo(s, t)
    BY DEF Linked
  <2> HIDE DEF n, u, s
  <2>3. /\ pred \in [BlockIds -> [BlockIds -> Int]]
        /\ pred[from][b] = g.pred[from][b] - n /\ pred[to][b] = g.pred[to][b] + n
        /\ \A t \in BlockIds \ {from, to} : pred[t][b] = g.pred[t][b]
        /\ \A t \in BlockIds, p \in BlockIds \ {b} : pred[t][p] = g.pred[t][p]
    BY ONLY <1>4, <2>1, from \in BlockIds, to \in BlockIds, b \in BlockIds, from # to
  <2> HIDE DEF pred
  <2>4. \A t \in BlockIds : pred[t][b] = EdgesTo(u, t)
    <3> SUFFICES ASSUME NEW t \in BlockIds PROVE pred[t][b] = EdgesTo(u, t)
      OBVIOUS
    <3>1. CASE t = from
      BY <1>4, <1>5, <2>2, <2>3, <3>1 DEF n
    <3>2. CASE t = to
      BY <1>5, <2>2, <2>3, <3>2
    <3>3. CASE t \notin {from, to}
      BY <1>5, <2>2, <2>3, <3>3
    <3> QED BY <3>1, <3>2, <3>3
  <2> QED BY <2>3, <2>4 DEF Counts
<1> HIDE DEF pred, k, u
<1>8. Edited(K, I, g, k, b, u, g.control[b])
  BY <1>1, <1>2, <1>6, <1>7, EditKeeps, Zenon
<1>9. k \in Graphs(K, I) /\ Linked(k) /\ k.succ[b] = u /\ k.control[b] = g.control[b]
  BY <1>8 DEF Edited
<1>10. Narrowed(K, I, k, h, b) /\ SameWay(k, h, b) /\ Firm(k, h, b)
  BY <1>3, <1>9, CoalesceKeeps
<1>11. Edited(K, I, g, h, b, h.succ[b], h.control[b])
  <2>1. Edited(K, I, k, h, b, h.succ[b], h.control[b])
    BY <1>10 DEF Narrowed
  <2> QED BY ONLY <1>8, <2>1, EditedThen
<1>12. Diverted(h.succ[b], s, from, to)
  <2>1. Within(h.succ[b], u)
    BY <1>9, <1>10 DEF Narrowed
  <2>2. Diverted(u, s, from, to)
    BY <1>2 DEF Diverted
  <2> QED BY ONLY <2>1, <2>2 DEF Diverted, Within
<1>13. NewWay(g, k, b, from, to)
  <2> SUFFICES ASSUME IsSwitch(g, b) => Cased(s)
               PROVE  /\ IsSwitch(k, b) => Cased(u)
                      /\ \A C : \A v \in Int : Leads(k, b, C, v) = Renamed(Leads(g, b, C, v), from, to)
    BY <1>9 DEF NewWay
  <2>1. CASE IsSwitch(g, b)
    <3>1. /\ Cased(u)
          /\ \A v \in Int : SwitchLookup(u, v) = IF SwitchLookup(s, v) = from THEN to ELSE SwitchLookup(s, v)
      BY <1>1, <2>1, TurnedCases DEF u
    <3>2. IsSwitch(k, b)
      BY <1>9, <2>1 DEF IsSwitch
    <3> QED BY <1>9, <2>1, <3>1, <3>2 DEF Leads, Renamed
  <2>2. CASE ~IsSwitch(g, b)
    <3>1. ~IsSwitch(k, b)
      BY <1>9, <2>2 DEF IsSwitch
    <3>2. ASSUME NEW C, NEW v PROVE Leads(k, b, C, v) = Renamed(Leads(g, b, C, v), from, to)
      <4> DEFINE J == {j \in DOMAIN s : s[j].cc \in C \cup {"ALWAYS"}}
      <4>1. Leads(k, b, C, v) = {u[i].b : i \in {j \in DOMAIN u : u[j].cc \in C \cup {"ALWAYS"}}}
        BY <1>9, <3>1 DEF Leads
      <4>2. {j \in DOMAIN u : u[j].cc \in C \cup {"ALWAYS"}} = J
        BY <1>2
      <4>3. Leads(g, b, C, v) = {s[i].b : i \in J}
        BY <2>2 DEF Leads
      <4>4. \A i \in J : u[i].b = IF s[i].b = from THEN to ELSE s[i].b
        BY <1>2
      <4> HIDE DEF J, s
      <4> QED BY ONLY <4>1, <4>2, <4>3, <4>4 DEF Renamed
    <3> QED BY <3>1, <3>2
  <2> QED BY <2>1, <2>2
<1>14. NewWay(g, h, b, from, to)
  <2> SUFFICES ASSUME IsSwitch(g, b) => Cased(s)
               PROVE  /\ IsSwitch(h, b) => Cased(h.succ[b])
                      /\ \A C : \A v \in Int : Leads(g, b, C, v) # {} => Leads(h, b, C, v) = Renamed(Leads(g, b, C, v), from, to)
    BY DEF NewWay
  <2>1. /\ IsSwitch(k, b) => Cased(k.succ[b])
        /\ \A C : \A v \in Int : Leads(g, b, C, v) # {} => Leads(k, b, C, v) = Renamed(Leads(g, b, C, v), from, to)
    BY <1>13 DEF NewWay
  <2>2. /\ IsSwitch(h, b) => Cased(h.succ[b])
        /\ \A C : \A v \in Int : Leads(k, b, C, v) # {} => Leads(h, b, C, v) = Leads(k, b, C, v)
    BY <1>10, <2>1 DEF SameWay
  <2>3. \A S : S # {} => Renamed(S, from, to) # {}
    BY DEF Renamed
  <2> QED BY <2>1, <2>2, <2>3
<1>15. Firm(g, h, b)
  <2> SUFFICES ASSUME DecidedAt(g, b) PROVE DecidedAt(k, b)
    BY <1>10 DEF Firm
  <2>1. CASE IsSwitch(g, b)
    <3>1. Ascending(s)
      BY <2>1, SwitchDecides
    <3>2. Ascending(u)
      BY ONLY <1>2, <3>1 DEF Ascending
    <3>3. IsSwitch(k, b)
      BY <1>9, <2>1 DEF IsSwitch
    <3> QED BY <1>9, <3>2, <3>3, SwitchDecides
  <2>2. CASE ~IsSwitch(g, b)
    <3>1. ~IsSwitch(k, b)
      BY <1>9, <2>2 DEF IsSwitch
    <3>2. \/ s = <<>> /\ b = Exit
          \/ Len(s) = 1 /\ s[1].cc = "ALWAYS"
          \/ /\ \A i \in DOMAIN s : Conditional(s[i].cc)
             /\ \A o \in Outcome : Cardinality({i \in DOMAIN s : o \in Accepts[s[i].cc]}) = 1
      BY <2>2 DEF DecidedAt
    <3> HIDE DEF s
    <3>3. CASE s = <<>> /\ b = Exit
      <4>1. u = <<>>
        BY <1>2, <3>3
      <4> QED BY <1>9, <3>1, <3>3, <4>1 DEF DecidedAt
    <3>4. CASE Len(s) = 1 /\ s[1].cc = "ALWAYS"
      <4>1. 1 \in DOMAIN s
        BY <1>1, <3>4
      <4>2. Len(u) = 1 /\ u[1].cc = "ALWAYS"
        BY <1>2, <3>4, <4>1
      <4> QED BY <1>9, <3>1, <4>2 DEF DecidedAt
    <3>5. CASE /\ \A i \in DOMAIN s : Conditional(s[i].cc)
               /\ \A o \in Outcome : Cardinality({i \in DOMAIN s : o \in Accepts[s[i].cc]}) = 1
      <4>1. \A i \in DOMAIN u : Conditional(u[i].cc)
        BY <1>2, <3>5
      <4>2. \A o : {i \in DOMAIN u : o \in Accepts[u[i].cc]} = {i \in DOMAIN s : o \in Accepts[s[i].cc]}
        BY <1>2
      <4>3. \A o \in Outcome : Cardinality({i \in DOMAIN u : o \in Accepts[u[i].cc]}) = 1
        BY <3>5, <4>2
      <4> QED BY <1>9, <3>1, <4>1, <4>3 DEF DecidedAt
    <3> QED BY <3>2, <3>3, <3>4, <3>5
  <2> QED BY <2>1, <2>2
<1> QED BY <1>11, <1>12, <1>14, <1>15

-----------------------------------------------------------------------------
(* Many blocks are redirected *)

(* The blocks of Q lead to to instead of from; no other is different.        *)
Turning(K, I, g, h, Q, from, to) ==
    /\ h \in Graphs(K, I) /\ Linked(h) /\ h.list = g.list /\ h.body = g.body
    /\ \A p \in Q : /\ Diverted(h.succ[p], g.succ[p], from, to)
                   /\ NewWay(g, h, p, from, to) /\ Firm(g, h, p)
    /\ \A p \in BlockIds \ Q : h.succ[p] = g.succ[p] /\ h.control[p] = g.control[p]

\* The list is gone through from its start to its end.
LEMMA RedirectingDef ==
  ASSUME NEW g, NEW P, NEW from, NEW to, NEW N \in Nat, N = Len(g.list),
         NEW a, a = Redirecting(g, P, from, to)
  PROVE  /\ a[0] = g
         /\ \A i \in 1 .. N : a[i] = IF g.list[i] \in P THEN RedirectSuccessors(a[i - 1], g.list[i], from, to)
                                     ELSE a[i - 1]
<1> DEFINE step(x, i) == IF g.list[i] \in P THEN RedirectSuccessors(x, g.list[i], from, to) ELSE x
           Def(n, f) == f = [i \in 0 .. n |-> IF i = 0 THEN g ELSE step(f[i - 1], i)]
           G == {n \in Nat : \E f : Def(n, f)}
<1>0. a = CHOOSE f : Def(N, f)
  BY DEF Redirecting
<1> HIDE DEF step
<1>1. Def(0, [i \in 0 .. 0 |-> g])
  OBVIOUS
<1>2. ASSUME NEW n \in Nat \ {0}, n - 1 \in G PROVE n \in G
  <2>1. PICK f : Def(n - 1, f)
    BY <1>2
  <2> DEFINE h == [i \in 0 .. n |-> IF i = n THEN step(f[n - 1], n) ELSE f[i]]
  <2>2. \A i \in 0 .. n : h[i] = IF i = 0 THEN g ELSE step(h[i - 1], i)
    BY <2>1
  <2>3. Def(n, h)
    BY <2>2
  <2> QED
    BY <2>3
<1>4. 0 \in G
  BY <1>1
<1>5. N \in G
  <2> HIDE DEF G
  <2> QED BY <1>2, <1>4, UpTo
<1>6. PICK f : Def(N, f)
  BY <1>5
<1>7. Def(N, CHOOSE h : Def(N, h))
  BY <1>6, Zenon
<1>8. Def(N, a)
  <2> HIDE DEF Def
  <2> QED BY <1>0, <1>7
<1>9. a[0] = g /\ \A i \in 1 .. N : a[i] = step(a[i - 1], i)
  BY <1>8
<1> QED
  BY <1>9 DEF step

\* Where a block leads is in its successors and its controlling operand.
LEMMA LeadsEqual ==
  ASSUME NEW g, NEW h, NEW b, h.succ[b] = g.succ[b], h.control[b] = g.control[b]
  PROVE  /\ IsSwitch(h, b) <=> IsSwitch(g, b)
         /\ \A C, v : Leads(h, b, C, v) = Leads(g, b, C, v)
BY DEF Leads, IsSwitch

LEMMA NewWaySame ==
  ASSUME NEW g, NEW k, NEW h, NEW p, NEW from, NEW to, NewWay(g, k, p, from, to),
         h.succ[p] = k.succ[p], h.control[p] = k.control[p]
  PROVE  NewWay(g, h, p, from, to)
BY LeadsEqual DEF NewWay

LEMMA NewWayFrom ==
  ASSUME NEW g, NEW k, NEW h, NEW p, NEW from, NEW to, NewWay(k, h, p, from, to),
         k.succ[p] = g.succ[p], k.control[p] = g.control[p]
  PROVE  NewWay(g, h, p, from, to)
BY LeadsEqual DEF NewWay

\* One block more.
LEMMA TurningStep ==
  ASSUME NEW K, NEW I, NEW g, NEW k, NEW Q \in SUBSET BlockIds, NEW from \in BlockIds, NEW to \in BlockIds,
         from # to, Turning(K, I, g, k, Q, from, to), NEW b \in BlockIds \ Q,
         NEW h, h = RedirectSuccessors(k, b, from, to)
  PROVE  Turning(K, I, g, h, Q \cup {b}, from, to)
<1>1. k \in Graphs(K, I) /\ Linked(k)
  BY DEF Turning
<1>2. /\ Edited(K, I, k, h, b, h.succ[b], h.control[b])
      /\ Diverted(h.succ[b], k.succ[b], from, to)
      /\ NewWay(k, h, b, from, to) /\ Firm(k, h, b)
  BY <1>1, RedirectKeeps
<1>3. h \in Graphs(K, I) /\ Linked(h) /\ Touched(k, h, b)
  BY <1>2 DEF Edited
<1>4. \A p \in BlockIds \ {b} : h.succ[p] = k.succ[p] /\ h.control[p] = k.control[p]
  BY <1>3 DEF Touched
<1>5. k.succ[b] = g.succ[b] /\ k.control[b] = g.control[b]
  BY DEF Turning
<1>6. /\ Diverted(h.succ[b], g.succ[b], from, to) /\ NewWay(g, h, b, from, to)
      /\ Firm(g, h, b)
  BY <1>2, <1>5, NewWayFrom, DecidedSame DEF Firm
<1>7. ASSUME NEW p \in Q
      PROVE  /\ Diverted(h.succ[p], g.succ[p], from, to) /\ NewWay(g, h, p, from, to)
             /\ Firm(g, h, p)
  <2>1. h.succ[p] = k.succ[p] /\ h.control[p] = k.control[p]
    BY <1>4
  <2>2. Diverted(k.succ[p], g.succ[p], from, to) /\ NewWay(g, k, p, from, to) /\ Firm(g, k, p)
    BY DEF Turning
  <2> QED BY <2>1, <2>2, NewWaySame, DecidedSame DEF Firm
<1>8. \A p \in BlockIds \ (Q \cup {b}) : h.succ[p] = g.succ[p] /\ h.control[p] = g.control[p]
  BY <1>4 DEF Turning
<1>9. h.list = g.list /\ h.body = g.body
  BY <1>3 DEF Turning, Touched
<1> QED BY <1>3, <1>6, <1>7, <1>8, <1>9 DEF Turning

\* Every block of P, which are in the list.
LEMMA RedirectedKeeps ==
  ASSUME NEW K, NEW I, NEW g \in Graphs(K, I), Linked(g), NEW P, P \subseteq Live(g),
         NEW from \in BlockIds, NEW to \in BlockIds, from # to,
         NEW h, h = Redirected(g, P, from, to)
  PROVE  Turning(K, I, g, h, P, from, to)
<1> DEFINE s == g.list
           N == Len(s)
           a == Redirecting(g, P, from, to)
           Q(i) == {s[j] : j \in 1 .. i} \cap P
           Fine(i) == Turning(K, I, g, a[i], Q(i), from, to)
           G == {i \in 0 .. N : Fine(i)}
<1>1. s \in Seq(BlockIds) /\ N \in Nat /\ DOMAIN s = 1 .. N /\ \A i, j \in DOMAIN s : s[i] = s[j] => i = j
  BY Parts
<1>2. /\ a[0] = g
      /\ \A i \in 1 .. N : a[i] = IF s[i] \in P THEN RedirectSuccessors(a[i - 1], s[i], from, to)
                                  ELSE a[i - 1]
  BY <1>1, RedirectingDef
<1> HIDE DEF a
<1>3. 0 \in G
  <2>1. Q(0) = {}
    OBVIOUS
  <2>2. Turning(K, I, g, g, {}, from, to)
    BY DEF Turning
  <2>3. Fine(0)
    BY <1>2, <2>1, <2>2
  <2> QED BY <1>1, <2>3
<1>4. ASSUME NEW i \in 1 .. N, i - 1 \in G PROVE i \in G
  <2>1. Turning(K, I, g, a[i - 1], Q(i - 1), from, to) /\ i \in 0 .. N
    BY <1>1, <1>4
  <2>2. \A x : x \in Q(i) <=> x \in P /\ (x \in Q(i - 1) \/ x = s[i])
    <3>1. \A j : j \in 1 .. i <=> j \in 1 .. i - 1 \/ j = i
      BY <1>1
    <3> QED BY <3>1
  <2>3. Q(i - 1) \in SUBSET BlockIds /\ s[i] \in BlockIds /\ s[i] \notin Q(i - 1) /\ Q(i - 1) \subseteq P
    <3>1. \A j \in 1 .. i - 1 : j \in DOMAIN s /\ j # i /\ i \in DOMAIN s
      BY <1>1
    <3>2. \A j \in DOMAIN s : s[j] \in BlockIds
      BY <1>1
    <3>3. i \in DOMAIN s
      BY <1>1
    <3> HIDE DEF s
    <3> QED BY <1>1, <3>1, <3>2, <3>3
  <2> HIDE DEF Q
  <2>4. Fine(i)
    <3>1. CASE s[i] \in P
      <4>1. Q(i) = Q(i - 1) \cup {s[i]}
        BY <2>2, <2>3, <3>1
      <4>2. a[i] = RedirectSuccessors(a[i - 1], s[i], from, to)
        BY <1>2, <3>1
      <4> HIDE DEF s
      <4>3. Turning(K, I, g, a[i], Q(i - 1) \cup {s[i]}, from, to)
        BY ONLY <2>1, <2>3, <4>2, TurningStep, from \in BlockIds, to \in BlockIds, from # to
      <4> QED BY <4>1, <4>3
    <3>2. CASE s[i] \notin P
      <4>1. Q(i) = Q(i - 1)
        BY <2>2, <2>3, <3>2
      <4>2. a[i] = a[i - 1]
        BY <1>2, <3>2
      <4> QED BY <2>1, <4>1, <4>2
    <3> QED BY <3>1, <3>2
  <2> HIDE DEF Fine
  <2> QED BY <2>1, <2>4
<1>5. 0 .. N \subseteq G
  <2> HIDE DEF G, Fine, N
  <2> QED BY <1>1, <1>3, <1>4, UpTo
<1>6. Fine(N)
  <2> HIDE DEF Fine
  <2> QED BY <1>1, <1>5
<1>7. h = a[N]
  BY DEF Redirected, a
<1>8. Q(N) = P
  <2>1. \A x \in P : \E j \in 1 .. N : x = s[j]
    BY <1>1 DEF Live, ToSet
  <2> QED BY <2>1
<1> QED BY <1>6, <1>7, <1>8

-----------------------------------------------------------------------------
(* Blocks that go, copied successors and known outcomes *)

\* A list without one of its members.
LEMMA WithoutParts ==
  ASSUME NEW S, NEW s \in Seq(S), \A i, j \in DOMAIN s : s[i] = s[j] => i = j,
         NEW b \in ToSet(s), NEW u, u = Without(s, b)
  PROVE  /\ u \in Seq(S) /\ \A i, j \in DOMAIN u : u[i] = u[j] => i = j
         /\ ToSet(u) = ToSet(s) \ {b}
<1> DEFINE N == Len(s)
           at == CHOOSE i \in DOMAIN s : s[i] = b
<1>1. N \in Nat /\ DOMAIN s = 1 .. N
  OBVIOUS
<1>2. at \in 1 .. N /\ s[at] = b
  <2>1. \E i \in DOMAIN s : s[i] = b
    BY DEF ToSet
  <2> QED BY <1>1, <2>1
<1>3. u = [i \in 1 .. N - 1 |-> IF i < at THEN s[i] ELSE s[i + 1]]
  BY DEF Without
<1> HIDE DEF at, N
<1>4. \A i \in 1 .. N - 1 : i \in 1 .. N /\ i + 1 \in 1 .. N
  BY <1>1
<1>5. u \in Seq(S)
  BY <1>1, <1>3, <1>4
<1>6. DOMAIN u = 1 .. N - 1 /\ \A i \in DOMAIN u : u[i] = IF i < at THEN s[i] ELSE s[i + 1]
  BY <1>3
<1>7. \A i, j \in DOMAIN u : u[i] = u[j] => i = j
  <2> SUFFICES ASSUME NEW i \in 1 .. N - 1, NEW j \in 1 .. N - 1, u[i] = u[j] PROVE i = j
    BY <1>6
  <2> DEFINE x == IF i < at THEN i ELSE i + 1
             y == IF j < at THEN j ELSE j + 1
  <2>1. x \in DOMAIN s /\ y \in DOMAIN s
    BY <1>1, <1>4
  <2>2. u[i] = s[x] /\ u[j] = s[y]
    BY <1>6
  <2>3. x = y
    <3> HIDE DEF x, y
    <3> QED BY <2>1, <2>2
  <2> QED BY <1>1, <1>2, <2>3
<1>8. ToSet(u) = ToSet(s) \ {b}
  <2>1. ASSUME NEW i \in DOMAIN u PROVE u[i] \in ToSet(s) \ {b}
    <3> DEFINE x == IF i < at THEN i ELSE i + 1
    <3>1. x \in DOMAIN s /\ x # at /\ at \in DOMAIN s
      BY <1>1, <1>2, <1>4, <1>6
    <3>2. u[i] = s[x]
      BY <1>6
    <3> HIDE DEF x
    <3>3. s[x] # b
      BY <1>2, <3>1
    <3> QED BY <3>1, <3>2, <3>3 DEF ToSet
  <2>2. ASSUME NEW x \in DOMAIN s, s[x] # b PROVE s[x] \in ToSet(u)
    <3>1. x # at
      BY <1>2, <2>2
    <3> DEFINE i == IF x < at THEN x ELSE x - 1
    <3>2. i \in DOMAIN u /\ u[i] = s[x]
      <4>1. CASE x < at
        BY <1>1, <1>2, <1>6, <4>1
      <4>2. CASE x > at
        <5>1. x - 1 \in 1 .. N - 1 /\ ~(x - 1 < at) /\ (x - 1) + 1 = x
          BY <1>1, <1>2, <4>2
        <5> QED BY <1>2, <1>6, <1>1, <4>2, <5>1
      <4> QED BY <1>1, <1>2, <3>1, <4>1, <4>2
    <3> HIDE DEF i
    <3> QED BY <3>2 DEF ToSet
  <2> QED BY <2>1, <2>2 DEF ToSet
<1> QED BY <1>5, <1>7, <1>8

(* The block b has gone: it leads nowhere, and nothing else is different.    *)
Freed(K, I, g, h, b) ==
    /\ h \in Graphs(K, I) /\ Linked(h) /\ Live(h) = Live(g) \ {b}
    /\ h.succ[b] = <<>> /\ h.control[b] = NoControl /\ h.body[b] = <<>>
    /\ \A p \in BlockIds \ {b} :
          h.succ[p] = g.succ[p] /\ h.control[p] = g.control[p] /\ h.body[p] = g.body[p]

\* block_free
LEMMA FreeKeeps ==
  ASSUME NEW K, NEW I, NEW g \in Graphs(K, I), Linked(g), NEW b \in BlockIds, b \in Live(g),
         NEW h, h = Free(g, b)
  PROVE  Freed(K, I, g, h, b)
<1> DEFINE k == RemoveSuccessors(g, b)
           s == Without(k.list, b)
<1>1. Edited(K, I, g, k, b, <<>>, NoControl)
  BY RemoveKeeps
<1>2. h = [k EXCEPT !.body[b] = <<>>, !.list = s]
  BY DEF Free
<1> HIDE DEF k
<1>3. /\ k \in Graphs(K, I) /\ Linked(k) /\ k.list = g.list /\ k.body = g.body
      /\ k.succ[b] = <<>> /\ k.control[b] = NoControl
      /\ \A p \in BlockIds \ {b} : k.succ[p] = g.succ[p] /\ k.control[p] = g.control[p]
  BY <1>1 DEF Edited, Touched
<1>4. /\ k.list \in Seq(BlockIds) /\ k.body \in [BlockIds -> Seq(I)] /\ k \in Records(K, I)
      /\ \A i, j \in DOMAIN k.list : k.list[i] = k.list[j] => i = j
  BY <1>3, Parts
<1>5. /\ s \in Seq(BlockIds) /\ \A i, j \in DOMAIN s : s[i] = s[j] => i = j
      /\ ToSet(s) = ToSet(k.list) \ {b}
  BY <1>3, <1>4, WithoutParts DEF Live
<1> HIDE DEF s
<1>6. h = [list |-> s, succ |-> k.succ, pred |-> k.pred, control |-> k.control,
           body |-> [k.body EXCEPT ![b] = <<>>]]
  BY ONLY <1>2, <1>4 DEF Records
<1>7. /\ h.list = s /\ h.succ = k.succ /\ h.pred = k.pred /\ h.control = k.control
      /\ h.body = [k.body EXCEPT ![b] = <<>>]
  BY ONLY <1>6
<1>8. h \in Graphs(K, I)
  <2>1. [k.body EXCEPT ![b] = <<>>] \in [BlockIds -> Seq(I)]
    BY <1>4
  <2>2. h \in Records(K, I)
    BY ONLY <1>4, <1>5, <1>6, <2>1 DEF Records
  <2> QED BY ONLY <1>5, <1>7, <2>2 DEF Graphs
<1>9. Linked(h)
  BY <1>3, <1>7 DEF Linked
<1>10. h.body[b] = <<>> /\ \A p \in BlockIds \ {b} : h.body[p] = g.body[p]
  BY <1>3, <1>4, <1>7
<1> QED BY <1>3, <1>5, <1>7, <1>8, <1>9, <1>10 DEF Freed, Live

\* block_dup_successors
LEMMA DupKeeps ==
  ASSUME NEW K, NEW I, NEW g \in Graphs(K, I), Linked(g), NEW b \in BlockIds, NEW from \in BlockIds,
         NEW h, h = DupSuccessors(g, b, from)
  PROVE  /\ Edited(K, I, g, h, b, h.succ[b], g.control[from])
         /\ Within(h.succ[b], g.succ[from])
         /\ ~IsSwitch(g, from) => \A C, v : Leads(h, b, C, v) = Leads(g, from, C, v)
<1> DEFINE s == g.succ[from]
           k == RemoveSuccessors(g, b)
           u == [i \in DOMAIN s |-> Cessor(s[i].cc, s[i].b)]
           c == g.control[from]
           pred == [t \in BlockIds |-> [k.pred[t] EXCEPT ![b] = @ + EdgesTo(s, t)]]
<1>1. s \in Seq(Cessors) /\ c \in K \cup {NoControl}
  BY Parts
<1>2. Edited(K, I, g, k, b, <<>>, NoControl)
  BY RemoveKeeps
<1>3. h = [k EXCEPT !.succ[b] = u, !.pred = pred,
                    !.control[b] = IF IsSwitch(g, from) THEN c ELSE k.control[b]]
  BY DEF DupSuccessors
<1> HIDE DEF k
<1>4. k \in Graphs(K, I) /\ Linked(k) /\ k.succ[b] = <<>> /\ k.control[b] = NoControl
  BY <1>2 DEF Edited
<1>5. (IF IsSwitch(g, from) THEN c ELSE k.control[b]) = c
  BY <1>4 DEF IsSwitch
<1>6. /\ u \in Seq(Cessors) /\ DOMAIN u = DOMAIN s
      /\ \A i \in DOMAIN s : u[i].b = s[i].b /\ u[i].cc = s[i].cc
  <2>1. ASSUME NEW i \in DOMAIN s PROVE u[i] \in Cessors /\ u[i].b = s[i].b /\ u[i].cc = s[i].cc
    <3>1. s[i].cc \in Ways /\ s[i].b \in BlockIds
      <4>1. s[i] \in Cessors
        BY <1>1, CessorParts
      <4> QED BY <4>1 DEF Cessors
    <3>2. u[i] = Cessor(s[i].cc, s[i].b)
      OBVIOUS
    <3> HIDE DEF u, s
    <3> QED BY ONLY <3>1, <3>2, CessorType
  <2>2. DOMAIN s = 1 .. Len(s) /\ Len(s) \in Nat
    BY <1>1
  <2>3. u = [i \in 1 .. Len(s) |-> u[i]]
    BY <2>2
  <2>4. u \in Seq(Cessors)
    <3> HIDE DEF u
    <3> QED BY ONLY <2>1, <2>2, <2>3, SMTT(30)
  <2> QED BY <2>1, <2>4
<1> HIDE DEF u
<1>7. pred \in [BlockIds -> [BlockIds -> Int]] /\ Counts(k, b, u, pred)
  <2>1. ASSUME NEW t \in BlockIds
        PROVE  /\ pred[t] \in [BlockIds -> Int] /\ pred[t][b] = EdgesTo(u, t)
               /\ \A p \in BlockIds \ {b} : pred[t][p] = k.pred[t][p]
    <3>1. k.pred[t] \in [BlockIds -> Int]
      BY <1>4, Parts
    <3>2. k.pred[t][b] = 0
      <4>1. EdgesTo(<<>>, t) = 0
        <5>1. <<>> \in Seq(Cessors)
          OBVIOUS
        <5>2. EdgesTo(<<>>, t) = 0 <=> \A i \in DOMAIN <<>> : <<>>[i].b # t
          BY <5>1, NoEdges, Zenon
        <5> QED BY <5>2
      <4> QED BY <1>4, <4>1 DEF Linked
    <3>3. EdgesTo(s, t) \in Nat
      BY <1>1, EdgesToType
    <3>4. EdgesTo(u, t) = EdgesTo(s, t)
      BY ONLY <1>6, SameEdges
    <3>5. pred[t] = [k.pred[t] EXCEPT ![b] = @ + EdgesTo(s, t)]
      OBVIOUS
    <3> HIDE DEF pred, s
    <3> QED BY <3>1, <3>2, <3>3, <3>4, <3>5
  <2>2. pred \in [BlockIds -> [BlockIds -> Int]]
    <3>1. \A t \in BlockIds : pred[t] \in [BlockIds -> Int]
      BY <2>1
    <3> QED BY <3>1
  <2> HIDE DEF pred
  <2> QED BY <2>1, <2>2 DEF Counts
<1> HIDE DEF pred, c
<1>8. h = Edit(k, b, u, pred, c)
  BY <1>3, <1>5 DEF Edit
<1>9. Edited(K, I, k, h, b, u, c)
  BY <1>1, <1>4, <1>6, <1>7, <1>8, EditKeeps, Zenon
<1>10. Edited(K, I, g, h, b, u, c)
  BY ONLY <1>2, <1>9, EditedThen
<1>11. h.succ[b] = u /\ h.control[b] = c
  BY <1>10 DEF Edited
<1>12. Within(u, s)
  BY <1>6 DEF Within
<1>13. ASSUME ~IsSwitch(g, from), NEW C, NEW v PROVE Leads(h, b, C, v) = Leads(g, from, C, v)
  <2>1. ~IsSwitch(h, b)
    BY <1>11, <1>13 DEF IsSwitch, c
  <2> DEFINE J == {j \in DOMAIN s : s[j].cc \in C \cup {"ALWAYS"}}
  <2>2. {j \in DOMAIN u : u[j].cc \in C \cup {"ALWAYS"}} = J
    BY <1>6
  <2>3. Leads(h, b, C, v) = {u[i].b : i \in J}
    BY <1>11, <2>1, <2>2 DEF Leads
  <2>4. Leads(g, from, C, v) = {s[i].b : i \in J}
    BY <1>13 DEF Leads
  <2>5. \A i \in J : u[i].b = s[i].b
    BY <1>6
  <2> HIDE DEF J, s
  <2> QED BY ONLY <2>3, <2>4, <2>5
<1> QED BY <1>10, <1>11, <1>12, <1>13 DEF c

\* The copies have the condition codes of what is copied.
LEMMA DupShape ==
  ASSUME NEW K, NEW I, NEW g \in Graphs(K, I), NEW b \in BlockIds, NEW from \in BlockIds,
         NEW h, h = DupSuccessors(g, b, from)
  PROVE  /\ DOMAIN h.succ[b] = DOMAIN g.succ[from]
         /\ \A i \in DOMAIN g.succ[from] : h.succ[b][i].cc = g.succ[from][i].cc
<1> DEFINE s == g.succ[from]
           k == RemoveSuccessors(g, b)
           u == [i \in DOMAIN s |-> Cessor(s[i].cc, s[i].b)]
<1>1. h.succ = [k.succ EXCEPT ![b] = u]
  BY DEF DupSuccessors
<1>2. k.succ = [g.succ EXCEPT ![b] = <<>>]
  BY DEF RemoveSuccessors
<1>3. g.succ \in [BlockIds -> Seq(Cessors)]
  BY Parts
<1> HIDE DEF k, u
<1>4. h.succ[b] = u
  BY ONLY <1>1, <1>2, <1>3, b \in BlockIds
<1> QED BY <1>4 DEF u, Cessor

(* The condition codes that hold when a comparison finds o.                  *)
Finding(o) == {cc \in DOMAIN Accepts : o \in Accepts[cc]}

\* block_known_ccs
LEMMA KnownKeeps ==
  ASSUME NEW K, NEW I, NEW g \in Graphs(K, I), Linked(g), NEW b \in BlockIds, NEW o,
         NEW h, h = KnownCcs(g, b, o)
  PROVE  /\ Edited(K, I, g, h, b, h.succ[b], g.control[b])
         /\ Within(h.succ[b], g.succ[b])
         /\ (\A i \in DOMAIN g.succ[b] : Conditional(g.succ[b][i].cc)) /\ ~IsSwitch(g, b) =>
               \A C, v : Leads(h, b, C, v) = Leads(g, b, Finding(o), v)
<1> DEFINE s == g.succ[b]
           P == {i \in DOMAIN s : o \in Accepts[s[i].cc]}
           D == [i \in P |-> {j \in P : j =< i}]
           kept == Arranged(s, D)
           u == [i \in DOMAIN kept |-> [kept[i] EXCEPT !.cc = "ALWAYS"]]
           n == Cardinality(DOMAIN D)
<1>1. s \in Seq(Cessors) /\ g.control[b] \in K \cup {NoControl} /\ DOMAIN s = 1 .. Len(s)
  BY Parts
<1>2. CASE s = <<>> \/ ~Conditional(s[1].cc)
  <2>1. h = g
    BY <1>2 DEF KnownCcs
  <2>2. Edited(K, I, g, g, b, g.succ[b], g.control[b]) /\ Within(g.succ[b], g.succ[b])
    BY EditedSelf, WithinSelf
  <2>3. ASSUME \A i \in DOMAIN s : Conditional(s[i].cc), ~IsSwitch(g, b), NEW C, NEW v
        PROVE  Leads(h, b, C, v) = {} /\ Leads(g, b, Finding(o), v) = {}
    <3>1. DOMAIN s = {}
      BY <1>1, <1>2, <2>3
    <3> QED BY <2>1, <2>3, <3>1 DEF Leads
  <2> QED BY <2>1, <2>2, <2>3
<1>3. CASE ~(s = <<>> \/ ~Conditional(s[1].cc))
  <2>1. Orders(D) /\ DOMAIN D \subseteq DOMAIN s /\ DOMAIN D = P
    <3>1. \A i \in P : i \in Int
      BY <1>1
    <3>2. ASSUME NEW i \in P, NEW j \in P, i # j
          PROVE  (D[i] \subseteq D[j] /\ j \notin D[i]) \/ (D[j] \subseteq D[i] /\ i \notin D[j])
      <4> HIDE DEF P
      <4>1. CASE i < j
        BY <3>1, <4>1
      <4>2. CASE j < i
        BY <3>1, <4>2
      <4> QED BY <3>1, <3>2, <4>1, <4>2
    <3>3. \A i \in P : D[i] \in SUBSET P /\ i \in D[i]
      BY <3>1
    <3>4. DOMAIN D = P
      OBVIOUS
    <3> HIDE DEF D
    <3> QED BY <3>2, <3>3, <3>4 DEF Orders
  <2> HIDE DEF D
  <2>2. n \in Nat /\ \E f : Ranks(kept, s, D, n, f)
    BY <1>1, <2>1, ArrangedRanks
  <2> HIDE DEF kept, n
  <2>3. PICK f : /\ f \in [1 .. n -> P] /\ DOMAIN kept = 1 .. n
                 /\ \A i \in P : \E k \in 1 .. n : f[k] = i
                 /\ \A k \in 1 .. n : kept[k] = s[f[k]]
    BY <2>1, <2>2 DEF Ranks
  <2>4. ASSUME NEW k \in 1 .. n
        PROVE  u[k] \in Cessors /\ u[k].b = s[f[k]].b /\ u[k].cc = "ALWAYS" /\ f[k] \in P /\ f[k] \in DOMAIN s
    <3>1. f[k] \in P
      BY <2>3
    <3>2. s[f[k]] \in Cessors
      BY <1>1, <3>1
    <3>3. u[k] = [s[f[k]] EXCEPT !.cc = "ALWAYS"]
      BY <2>3
    <3>4. "ALWAYS" \in Ways
      BY DEF Ways
    <3>5. f[k] \in DOMAIN s
      BY <3>1
    <3> HIDE DEF P, s, u
    <3> QED BY ONLY <3>1, <3>2, <3>3, <3>4, <3>5 DEF Cessors
  <2>5. DOMAIN u = 1 .. n /\ u = [k \in 1 .. n |-> u[k]]
    BY <2>3
  <2>6. DOMAIN u = DOMAIN kept /\ \A k \in DOMAIN kept : u[k].b = kept[k].b
    BY <2>3, <2>4
  <2>7. h = [g EXCEPT !.succ[b] = u,
                      !.pred = [t \in BlockIds |->
                                  [g.pred[t] EXCEPT ![b] = @ - (EdgesTo(s, t) - EdgesTo(kept, t))]]]
    BY <1>3 DEF KnownCcs, kept, D
  <2> HIDE DEF u
  <2>8. u \in Seq(Cessors)
    BY ONLY <2>2, <2>4, <2>5
  <2>9. \A t \in BlockIds : EdgesTo(kept, t) = EdgesTo(u, t)
    BY ONLY <2>6, SameEdges
  <2>10. Within(u, s)
    BY <2>4, <2>5 DEF Within
  <2>11. h = Shrink(g, b, u, g.control[b])
    <3> DEFINE p == [t \in BlockIds |->
                      [g.pred[t] EXCEPT ![b] = @ - (EdgesTo(s, t) - EdgesTo(kept, t))]]
               q == [t \in BlockIds |-> [g.pred[t] EXCEPT ![b] = @ - (EdgesTo(s, t) - EdgesTo(u, t))]]
    <3>1. p = q
      BY <2>9
    <3>2. h = [g EXCEPT !.succ[b] = u, !.pred = p]
      BY <2>7
    <3>3. Shrink(g, b, u, g.control[b]) = [g EXCEPT !.succ[b] = u, !.control[b] = g.control[b], !.pred = q]
      BY DEF Shrink
    <3>4. g \in Records(K, I) /\ g.control \in [BlockIds -> K \cup {NoControl}]
      BY Parts
    <3>5. [g.control EXCEPT ![b] = g.control[b]] = g.control
      BY ONLY <3>4
    <3> HIDE DEF p, q, s
    <3>6. h = [list |-> g.list, succ |-> [g.succ EXCEPT ![b] = u], pred |-> p,
               control |-> g.control, body |-> g.body]
      BY ONLY <3>2, <3>4 DEF Records
    <3>7. Shrink(g, b, u, g.control[b])
          = [list |-> g.list, succ |-> [g.succ EXCEPT ![b] = u], pred |-> q,
             control |-> [g.control EXCEPT ![b] = g.control[b]], body |-> g.body]
      BY ONLY <3>3, <3>4 DEF Records
    <3> QED BY ONLY <3>1, <3>5, <3>6, <3>7
  <2>12. Edited(K, I, g, h, b, u, g.control[b])
    BY <1>1, <2>8, <2>11, Shrunk
  <2>13. h.succ[b] = u /\ h.control[b] = g.control[b]
    BY <2>12 DEF Edited
  <2>14. ASSUME \A i \in DOMAIN s : Conditional(s[i].cc), ~IsSwitch(g, b), NEW C, NEW v
         PROVE  Leads(h, b, C, v) = Leads(g, b, Finding(o), v)
    <3>1. ~IsSwitch(h, b)
      BY <2>13, <2>14 DEF IsSwitch
    <3>2. \A i \in DOMAIN s : s[i].cc \in Finding(o) \cup {"ALWAYS"} <=> i \in P
      <4>1. \A i \in DOMAIN s : s[i].cc \in DOMAIN Accepts /\ s[i].cc # "ALWAYS"
        BY <2>14 DEF Conditional, Accepts
      <4> HIDE DEF s
      <4> QED BY <4>1 DEF Finding
    <3>3. {j \in DOMAIN s : s[j].cc \in Finding(o) \cup {"ALWAYS"}} = P
      BY <3>2
    <3>4. Leads(g, b, Finding(o), v) = {s[i].b : i \in P}
      BY <2>14, <3>3 DEF Leads
    <3>5. {j \in DOMAIN u : u[j].cc \in C \cup {"ALWAYS"}} = 1 .. n
      BY <2>4, <2>5
    <3>6. Leads(h, b, C, v) = {u[i].b : i \in 1 .. n}
      BY <2>13, <3>1, <3>5 DEF Leads
    <3> HIDE DEF P, s
    <3>7. \A i \in P : \E k \in 1 .. n : u[k].b = s[i].b
      BY ONLY <2>3, <2>4
    <3> QED BY ONLY <2>4, <3>4, <3>6, <3>7
  <2> QED BY <2>10, <2>12, <2>13, <2>14
<1> QED BY <1>2, <1>3

-----------------------------------------------------------------------------
(* A graph that is whole *)

Whole(K, I, g) == g \in Graphs(K, I) /\ Linked(g) /\ Rested(g) /\ Closed(g) /\ Decided(g)

\* A block in the list that is a switch has its cases apart.
LEMMA WholeCased ==
  ASSUME NEW K, NEW I, NEW g, Whole(K, I, g), NEW b \in BlockIds, IsSwitch(g, b)
  PROVE  Cased(g.succ[b])
<1>1. g \in Graphs(K, I) /\ g.succ[b] \in Seq(Cessors)
  BY Parts DEF Whole
<1>2. b \in Live(g)
  BY DEF Whole, Rested
<1>3. DecidedAt(g, b)
  BY <1>2 DEF Whole, Decided
<1> QED BY <1>1, <1>3, SwitchDecides, AscendingCased

\* A block leads to one of its successors.
LEMMA LeadsWithin ==
  ASSUME NEW K, NEW I, NEW g, Whole(K, I, g), NEW b \in BlockIds, NEW C, NEW v \in Int
  PROVE  Leads(g, b, C, v) \subseteq Succs(g, b)
<1> DEFINE s == g.succ[b]
<1>1. s \in Seq(Cessors)
  BY Parts DEF Whole
<1>2. CASE IsSwitch(g, b)
  <2>1. Cased(s)
    BY <1>2, WholeCased
  <2>2. /\ \A t : Sends(s, Len(s), v, t) => SwitchLookup(s, v) = t
        /\ ~(\E t : Sends(s, Len(s), v, t)) => SwitchLookup(s, v) = s[1].b
    BY <1>1, <2>1, LookupLeads
  <2>3. 1 \in DOMAIN s /\ \A i \in 2 .. Len(s) : i \in DOMAIN s
    BY <1>1, <2>1 DEF Cased
  <2>4. \A t : Sends(s, Len(s), v, t) => \E i \in DOMAIN s : s[i].b = t
    BY <2>3 DEF Sends
  <2>5. \E i \in DOMAIN s : SwitchLookup(s, v) = s[i].b
    BY <2>2, <2>3, <2>4
  <2> QED BY <1>2, <2>5 DEF Leads, Succs
<1>3. CASE ~IsSwitch(g, b)
  BY <1>3 DEF Leads, Succs
<1> QED BY <1>2, <1>3

\* What counts as an edge is a successor.
LEMMA SuccsCount ==
  ASSUME NEW K, NEW I, NEW g \in Graphs(K, I), Linked(g), NEW p \in BlockIds, NEW t \in BlockIds
  PROVE  /\ g.pred[t][p] \in Nat /\ (g.pred[t][p] = 0 <=> t \notin Succs(g, p))
         /\ (g.pred[t][p] > 0 <=> t \in Succs(g, p))
<1>1. g.succ[p] \in Seq(Cessors)
  BY Parts
<1>2. g.pred[t][p] = EdgesTo(g.succ[p], t)
  BY DEF Linked
<1>3. g.pred[t][p] \in Nat
  BY <1>1, <1>2, EdgesToType
<1>4. g.pred[t][p] = 0 <=> t \notin Succs(g, p)
  BY <1>1, <1>2, NoEdges DEF Succs
<1> QED BY <1>3, <1>4

\* Nothing comes of a name that is not there.
LEMMA NothingRenamed ==
  ASSUME NEW S, NEW from, NEW to, from \notin S PROVE Renamed(S, from, to) = S
BY DEF Renamed

\* An always-successor is a block.
LEMMA AlwaysParts ==
  ASSUME NEW K, NEW I, NEW g, Whole(K, I, g), NEW b \in BlockIds, HasAlways(g, b)
  PROVE  /\ AlwaysSuccessor(g, b) \in BlockIds /\ AlwaysSuccessor(g, b) \in Live(g)
         /\ AlwaysSuccessor(g, b) \in Succs(g, b)
<1>1. g.succ[b] \in Seq(Cessors)
  BY Parts DEF Whole
<1>2. 1 \in DOMAIN g.succ[b]
  BY <1>1 DEF HasAlways
<1>3. g.succ[b][1].b \in Succs(g, b) /\ g.succ[b][1].b \in BlockIds
  BY <1>1, <1>2, CessorParts DEF Succs
<1> QED BY <1>3 DEF AlwaysSuccessor, Whole, Closed

\* The blocks in the list are blocks.
LEMMA LiveBlocks ==
  ASSUME NEW K, NEW I, NEW g \in Graphs(K, I) PROVE Live(g) \subseteq BlockIds
BY Parts DEF Live, ToSet

-----------------------------------------------------------------------------
(* The theorems *)

(* Whatever comparison the block ended with, and whatever controls it, it    *)
(* leads to one block, and that block is in the list: the graph says what    *)
(* the program does next (block.h's invariants on successors).               *)
THEOREM WholeLeads ==
  ASSUME NEW K, NEW I, NEW g, Whole(K, I, g), NEW b \in Live(g), b # Exit,
         NEW o \in Outcome, NEW v \in Int
  PROVE  \E t \in Live(g) : Leads(g, b, Finding(o), v) = {t}
<1> DEFINE s == g.succ[b]
           C == Finding(o)
<1>1. b \in BlockIds /\ s \in Seq(Cessors)
  BY LiveBlocks, Parts DEF Whole
<1>2. Leads(g, b, C, v) \subseteq Live(g)
  BY <1>1, LeadsWithin DEF Whole, Closed
<1>3. \E t : Leads(g, b, C, v) = {t}
  <2>1. DecidedAt(g, b)
    BY DEF Whole, Decided
  <2>2. CASE IsSwitch(g, b)
    BY <2>2 DEF Leads
  <2>3. CASE ~IsSwitch(g, b)
    <3> DEFINE J == {j \in DOMAIN s : s[j].cc \in C \cup {"ALWAYS"}}
    <3>1. Leads(g, b, C, v) = {s[i].b : i \in J}
      BY <2>3 DEF Leads
    <3>2. \E i : J = {i}
      <4>1. CASE Len(s) = 1 /\ s[1].cc = "ALWAYS"
        <5>1. DOMAIN s = {1}
          BY <1>1, <4>1
        <5>2. J = {1}
          BY <4>1, <5>1
        <5> QED BY <5>2
      <4>2. CASE /\ \A i \in DOMAIN s : Conditional(s[i].cc)
                 /\ \A x \in Outcome : Cardinality({i \in DOMAIN s : x \in Accepts[s[i].cc]}) = 1
        <5> DEFINE T == {i \in DOMAIN s : o \in Accepts[s[i].cc]}
        <5>1. \A i \in DOMAIN s : s[i].cc \in DOMAIN Accepts /\ s[i].cc # "ALWAYS"
          BY <4>2 DEF Conditional, Accepts
        <5>2. \A i \in DOMAIN s : s[i].cc \in C \cup {"ALWAYS"} <=> o \in Accepts[s[i].cc]
          <6> HIDE DEF s
          <6> QED BY <5>1 DEF Finding
        <5>3. J = T
          BY <5>2
        <5>4. IsFiniteSet(T) /\ Cardinality(T) = 1
          BY <1>1, <4>2, FinitePlaces
        <5> HIDE DEF T
        <5>5. \E i : T = {i}
          BY <5>4, FS_Singleton
        <5> QED BY <5>3, <5>5
      <4>3. \/ Len(s) = 1 /\ s[1].cc = "ALWAYS"
            \/ /\ \A i \in DOMAIN s : Conditional(s[i].cc)
               /\ \A x \in Outcome : Cardinality({i \in DOMAIN s : x \in Accepts[s[i].cc]}) = 1
        BY <2>1, <2>3 DEF DecidedAt
      <4> HIDE DEF J
      <4> QED BY <4>1, <4>2, <4>3
    <3> HIDE DEF J
    <3>3. PICK i : J = {i}
      BY <3>2
    <3>4. {s[j].b : j \in J} = {s[i].b}
      BY <3>3
    <3> QED BY <3>1, <3>4
  <2> QED BY <2>2, <2>3
<1> QED BY <1>2, <1>3

(* block_switch_coalesce, with the sort before it, sends every value of the  *)
(* controlling operand where it went, and leaves the cases in order: as      *)
(* block_switch_lookup finds them and switch_gen needs them.                 *)
THEOREM CoalesceKeepsCases ==
  ASSUME NEW K, NEW I, NEW g \in Graphs(K, I), Linked(g), NEW b \in BlockIds,
         Cased(g.succ[b]), NEW h, h = SwitchCoalesce(g, b)
  PROVE  /\ Ascending(h.succ[b])
         /\ \A v \in Int : SwitchLookup(h.succ[b], v) = SwitchLookup(g.succ[b], v)
<1> DEFINE u == Swallow(SwitchSort(g.succ[b]))
<1>1. h.succ[b] = u
  BY SwitchCoalesceKeeps DEF Edited
<1>2. SameCases(u, g.succ[b])
  BY Parts, CasesKept
<1> HIDE DEF u
<1> QED BY <1>1, <1>2 DEF SameCases

(* Whichever operation of block.c edits the successors of a block, the       *)
(* predecessors of every block say what leads to it, and no other block is   *)
(* touched.                                                                  *)
THEOREM EditsKeepLinked ==
  ASSUME NEW K, NEW I, NEW g \in Graphs(K, I), Linked(g), NEW b \in BlockIds, NEW h,
         \/ \E c \in Cessors : h = AddSuccessor(g, b, c)
         \/ h = RemoveSuccessors(g, b)
         \/ h = SwitchCoalesce(g, b)
         \/ h = CoalesceSuccessors(g, b)
         \/ \E from, to \in BlockIds : from # to /\ h = RedirectSuccessors(g, b, from, to)
         \/ \E p \in BlockIds : h = DupSuccessors(g, b, p)
         \/ \E o \in Outcome : h = KnownCcs(g, b, o)
  PROVE  h \in Graphs(K, I) /\ Linked(h) /\ Touched(g, h, b)
<1>1. \A u, c : Edited(K, I, g, h, b, u, c) => h \in Graphs(K, I) /\ Linked(h) /\ Touched(g, h, b)
  BY DEF Edited
<1>2. ASSUME NEW c \in Cessors, h = AddSuccessor(g, b, c) PROVE \E u, d : Edited(K, I, g, h, b, u, d)
  BY <1>2, AddKeeps
<1>3. ASSUME h = RemoveSuccessors(g, b) PROVE \E u, d : Edited(K, I, g, h, b, u, d)
  BY <1>3, RemoveKeeps
<1>4. ASSUME h = SwitchCoalesce(g, b) PROVE \E u, d : Edited(K, I, g, h, b, u, d)
  BY <1>4, SwitchCoalesceKeeps
<1>5. ASSUME h = CoalesceSuccessors(g, b) PROVE \E u, d : Edited(K, I, g, h, b, u, d)
  BY <1>5, CoalesceKeeps DEF Narrowed
<1>6. ASSUME NEW from \in BlockIds, NEW to \in BlockIds, from # to, h = RedirectSuccessors(g, b, from, to)
      PROVE  \E u, d : Edited(K, I, g, h, b, u, d)
  BY <1>6, RedirectKeeps
<1>7. ASSUME NEW p \in BlockIds, h = DupSuccessors(g, b, p) PROVE \E u, d : Edited(K, I, g, h, b, u, d)
  BY <1>7, DupKeeps
<1>8. ASSUME NEW o \in Outcome, h = KnownCcs(g, b, o) PROVE \E u, d : Edited(K, I, g, h, b, u, d)
  BY <1>8, KnownKeeps
<1> QED BY <1>1, <1>2, <1>3, <1>4, <1>5, <1>6, <1>7, <1>8

(* block_coalesce_successors leaves what a block decides, and where it leads *)
(* for every outcome and every controlling value; block_redirect_successors  *)
(* does, but that it is to for from; block_known_ccs leads where the outcome *)
(* that is known did; and block_dup_successors leads where the other block   *)
(* does, unless that is a switch, whose ranges are not copied.               *)
THEOREM EditsKeepWays ==
  ASSUME NEW K, NEW I, NEW g \in Graphs(K, I), Linked(g), NEW b \in BlockIds, DecidedAt(g, b),
         NEW C, NEW v \in Int, Leads(g, b, C, v) # {}
  PROVE  /\ \A h : h = CoalesceSuccessors(g, b) =>
               DecidedAt(h, b) /\ Leads(h, b, C, v) = Leads(g, b, C, v)
         /\ \A h : \A from, to \in BlockIds : from # to /\ h = RedirectSuccessors(g, b, from, to) =>
               DecidedAt(h, b) /\ Leads(h, b, C, v) = Renamed(Leads(g, b, C, v), from, to)
         /\ \A h : \A o \in Outcome :
               h = KnownCcs(g, b, o) /\ ~IsSwitch(g, b) /\ Conditional(g.succ[b][1].cc) =>
               Leads(h, b, C, v) = Leads(g, b, Finding(o), v)
         /\ \A h : \A p \in BlockIds : h = DupSuccessors(g, p, b) /\ ~IsSwitch(g, b) =>
               Leads(h, p, C, v) = Leads(g, b, C, v)
<1>1. IsSwitch(g, b) => Cased(g.succ[b])
  BY SwitchDecides, AscendingCased, Parts
<1>2. ASSUME NEW h, h = CoalesceSuccessors(g, b)
      PROVE  DecidedAt(h, b) /\ Leads(h, b, C, v) = Leads(g, b, C, v)
  <2>1. SameWay(g, h, b) /\ Firm(g, h, b)
    BY <1>2, CoalesceKeeps
  <2> QED BY <1>1, <2>1 DEF SameWay, Firm
<1>3. ASSUME NEW h, NEW from \in BlockIds, NEW to \in BlockIds, from # to,
             h = RedirectSuccessors(g, b, from, to)
      PROVE  DecidedAt(h, b) /\ Leads(h, b, C, v) = Renamed(Leads(g, b, C, v), from, to)
  <2>1. NewWay(g, h, b, from, to) /\ Firm(g, h, b)
    BY <1>3, RedirectKeeps
  <2> QED BY <1>1, <2>1 DEF NewWay, Firm
<1>4. ASSUME NEW h, NEW o \in Outcome, h = KnownCcs(g, b, o), ~IsSwitch(g, b), Conditional(g.succ[b][1].cc)
      PROVE  Leads(h, b, C, v) = Leads(g, b, Finding(o), v)
  <2>1. g.succ[b][1].cc # "ALWAYS"
    BY <1>4 DEF Conditional, Accepts
  <2>2. \A i \in DOMAIN g.succ[b] : Conditional(g.succ[b][i].cc)
    BY <1>4, <2>1 DEF DecidedAt
  <2> QED BY <1>4, <2>2, KnownKeeps
<1>5. ASSUME NEW h, NEW p \in BlockIds, h = DupSuccessors(g, p, b), ~IsSwitch(g, b)
      PROVE  Leads(h, p, C, v) = Leads(g, b, C, v)
  BY <1>5, DupKeeps
<1> QED BY <1>2, <1>3, <1>4, <1>5

(* prune0 and its callees: what came to a block that does nothing goes where *)
(* that block went, for every outcome and value; the block is gone and       *)
(* nothing leads to it; every other block does what it did, and the graph is *)
(* as whole as it was.                                                       *)
THEOREM BypassKeeps ==
  ASSUME NEW K, NEW I, NEW g, Whole(K, I, g), NEW b \in Live(g), CanPrune(g, b),
         NEW h, h = Bypass(g, b), NEW t, t = AlwaysSuccessor(g, b)
  PROVE  /\ Whole(K, I, h) /\ Live(h) = Live(g) \ {b}
         /\ \A p \in Live(h) :
               /\ h.body[p] = g.body[p]
               /\ \A C : \A v \in Int :
                     Leads(g, p, C, v) # {} => Leads(h, p, C, v) = Renamed(Leads(g, p, C, v), b, t)
<1> DEFINE P == Preds(g, b)
           k == Redirected(g, P, b, t)
<1>1. /\ g \in Graphs(K, I) /\ Linked(g) /\ Rested(g) /\ Closed(g) /\ Decided(g)
      /\ b \in BlockIds /\ Live(g) \subseteq BlockIds
  BY LiveBlocks DEF Whole
<1>2. t \in BlockIds /\ t \in Live(g) /\ b # t
  BY <1>1, AlwaysParts DEF CanPrune
<1>3. \A p \in BlockIds : p \in P <=> b \in Succs(g, p)
  BY <1>1, SuccsCount DEF Preds
<1>4. P \subseteq BlockIds
  BY DEF Preds
<1>5. P \subseteq Live(g)
  <2> SUFFICES ASSUME NEW p \in BlockIds \ Live(g) PROVE p \notin P
    BY <1>4
  <2>1. g.succ[p] = <<>>
    BY <1>1 DEF Rested
  <2>2. Succs(g, p) = {}
    BY <2>1 DEF Succs
  <2> QED BY <1>3, <2>2
<1>6. h = Free(k, b)
  BY DEF Bypass
<1>7. Turning(K, I, g, k, P, b, t)
  <2> HIDE DEF P
  <2> QED BY <1>1, <1>2, <1>5, RedirectedKeeps
<1> HIDE DEF k, P
<1>8. /\ k \in Graphs(K, I) /\ Linked(k) /\ Live(k) = Live(g) /\ k.body = g.body
      /\ \A p \in P : /\ Diverted(k.succ[p], g.succ[p], b, t)
                      /\ NewWay(g, k, p, b, t) /\ Firm(g, k, p)
      /\ \A p \in BlockIds \ P : k.succ[p] = g.succ[p] /\ k.control[p] = g.control[p]
  BY <1>7 DEF Turning, Live
<1>9. Freed(K, I, k, h, b)
  BY <1>1, <1>6, <1>8, FreeKeeps
<1>10. /\ h \in Graphs(K, I) /\ Linked(h) /\ Live(h) = Live(g) \ {b}
       /\ h.succ[b] = <<>> /\ h.control[b] = NoControl
       /\ \A p \in BlockIds \ {b} :
             h.succ[p] = k.succ[p] /\ h.control[p] = k.control[p] /\ h.body[p] = g.body[p]
  BY <1>8, <1>9 DEF Freed
<1>11. Rested(h)
  <2> SUFFICES ASSUME NEW p \in BlockIds, p \notin Live(h) PROVE h.succ[p] = <<>> /\ ~IsSwitch(h, p)
    BY DEF Rested
  <2>1. CASE p = b
    BY <1>10, <2>1 DEF IsSwitch
  <2>2. CASE p # b
    <3>1. p \in BlockIds \ Live(g) /\ p \in BlockIds \ P /\ p \in BlockIds \ {b}
      BY <1>5, <1>10, <2>2
    <3>2. g.succ[p] = <<>> /\ ~IsSwitch(g, p)
      BY <1>1, <3>1 DEF Rested
    <3>3. h.succ[p] = g.succ[p] /\ h.control[p] = g.control[p]
      BY <1>8, <1>10, <3>1
    <3> QED BY <3>2, <3>3 DEF IsSwitch
  <2> QED BY <2>1, <2>2
<1>12. Closed(h)
  <2> SUFFICES ASSUME NEW p \in BlockIds, NEW i \in DOMAIN h.succ[p]
               PROVE  h.succ[p][i].b \in Live(g) /\ h.succ[p][i].b # b
    BY <1>10 DEF Closed, Succs
  <2>1. p # b
    BY <1>10
  <2>2. h.succ[p] = k.succ[p]
    BY <1>10, <2>1
  <2>3. \A j \in DOMAIN g.succ[p] : g.succ[p][j].b \in Live(g)
    BY <1>1 DEF Closed, Succs
  <2>4. CASE p \in P
    BY <1>2, <1>8, <2>2, <2>3, <2>4 DEF Diverted
  <2>5. CASE p \notin P
    <3>1. h.succ[p] = g.succ[p]
      BY <1>8, <2>2, <2>5
    <3>2. b \notin Succs(g, p)
      BY <1>3, <2>5
    <3> QED BY <2>3, <3>1, <3>2 DEF Succs
  <2> QED BY <2>4, <2>5
<1>13. Decided(h)
  <2> SUFFICES ASSUME NEW p \in Live(h) PROVE DecidedAt(h, p)
    BY DEF Decided
  <2>1. p \in Live(g) /\ p \in BlockIds \ {b}
    BY <1>1, <1>10
  <2>2. DecidedAt(g, p)
    BY <1>1, <2>1 DEF Decided
  <2>3. DecidedAt(k, p)
    BY <1>8, <2>1, <2>2, DecidedSame DEF Firm
  <2> QED BY <1>10, <2>1, <2>3, DecidedSame
<1>14. ASSUME NEW p \in Live(h), NEW C, NEW v \in Int, Leads(g, p, C, v) # {}
       PROVE  Leads(h, p, C, v) = Renamed(Leads(g, p, C, v), b, t)
  <2>1. p \in BlockIds \ {b}
    BY <1>1, <1>10
  <2>2. Leads(h, p, C, v) = Leads(k, p, C, v)
    BY <1>10, <2>1, LeadsEqual
  <2>3. CASE p \in P
    <3>1. IsSwitch(g, p) => Cased(g.succ[p])
      BY <2>1, WholeCased
    <3>2. NewWay(g, k, p, b, t)
      BY <1>8, <2>3
    <3>3. Leads(k, p, C, v) = Renamed(Leads(g, p, C, v), b, t)
      BY <1>14, <3>1, <3>2 DEF NewWay
    <3> QED BY <2>2, <3>3
  <2>4. CASE p \notin P
    <3>1. Leads(k, p, C, v) = Leads(g, p, C, v)
      BY <1>8, <2>1, <2>4, LeadsEqual
    <3>2. b \notin Leads(g, p, C, v)
      BY <1>3, <2>1, <2>4, LeadsWithin
    <3> QED BY <2>2, <3>1, <3>2, NothingRenamed
  <2> QED BY <2>3, <2>4
<1>15. \A p \in Live(h) : h.body[p] = g.body[p]
  BY <1>1, <1>10
<1> QED BY <1>10, <1>11, <1>12, <1>13, <1>14, <1>15 DEF Whole

(* coal0 and its callees: the block has the insns of its successor behind    *)
(* its own, and leads where that one led; the successor is gone and nothing  *)
(* leads to it; no other block is touched. That holds unless the successor   *)
(* is a switch: block_dup_successors leaves the ranges behind. Both ends of  *)
(* every edge are there even then.                                           *)
THEOREM TakeInKeeps ==
  ASSUME NEW K, NEW I, NEW g, Whole(K, I, g), NEW b \in Live(g), CanCoal(g, b),
         NEW t, t = AlwaysSuccessor(g, b), NEW h, h = TakeIn(g, b, t)
  PROVE  /\ h \in Graphs(K, I) /\ Linked(h) /\ Rested(h) /\ Closed(h) /\ Live(h) = Live(g) \ {t}
         /\ h.body[b] = g.body[b] \o g.body[t] /\ h.control[b] = g.control[t]
         /\ \A p \in Live(h) \ {b} :
               h.succ[p] = g.succ[p] /\ h.control[p] = g.control[p] /\ h.body[p] = g.body[p]
         /\ ~IsSwitch(g, t) =>
               Decided(h) /\ \A C, v : Leads(h, b, C, v) = Leads(g, t, C, v)
<1> DEFINE j == [g EXCEPT !.body[b] = g.body[b] \o g.body[t]]
           k == DupSuccessors(j, b, t)
<1>1. /\ g \in Graphs(K, I) /\ Linked(g) /\ Rested(g) /\ Closed(g) /\ Decided(g)
      /\ b \in BlockIds /\ Live(g) \subseteq BlockIds
  BY LiveBlocks DEF Whole
<1>2. t \in BlockIds /\ t \in Live(g) /\ t \in Succs(g, b) /\ b # t /\ t # Exit
  BY <1>1, AlwaysParts DEF CanCoal
<1>3. \A p \in BlockIds \ {b} : t \notin Succs(g, p)
  <2>1. OnePredecessor(g, t)
    BY DEF CanCoal
  <2>2. PICK q \in BlockIds : g.pred[t] = [p \in BlockIds |-> IF p = q THEN 1 ELSE 0]
    BY <2>1 DEF OnePredecessor
  <2>3. g.pred[t][b] # 0
    BY <1>1, <1>2, SuccsCount
  <2>4. q = b
    BY <1>1, <2>2, <2>3
  <2>5. \A p \in BlockIds \ {b} : g.pred[t][p] = 0
    BY <2>2, <2>4
  <2> QED BY <1>1, <1>2, <2>5, SuccsCount
<1>4. /\ j \in Graphs(K, I) /\ j.list = g.list /\ j.succ = g.succ /\ j.pred = g.pred
      /\ j.control = g.control /\ j.body = [g.body EXCEPT ![b] = g.body[b] \o g.body[t]]
  <2>1. g \in Records(K, I)
    BY <1>1, Parts
  <2>2. j = [list |-> g.list, succ |-> g.succ, pred |-> g.pred, control |-> g.control,
             body |-> [g.body EXCEPT ![b] = g.body[b] \o g.body[t]]]
    <3> DEFINE x == g.body[b] \o g.body[t]
    <3>1. j = [g EXCEPT !.body[b] = x]
      OBVIOUS
    <3> HIDE DEF j, x
    <3>2. j = [list |-> g.list, succ |-> g.succ, pred |-> g.pred, control |-> g.control,
               body |-> [g.body EXCEPT ![b] = x]]
      BY ONLY <2>1, <3>1 DEF Records
    <3> QED BY <3>2 DEF x
  <2>3. g.body \in [BlockIds -> Seq(I)]
    BY <1>1, Parts
  <2>4. [g.body EXCEPT ![b] = g.body[b] \o g.body[t]] \in [BlockIds -> Seq(I)]
    BY <1>1, <1>2, <2>3
  <2> HIDE DEF j
  <2>5. j \in Records(K, I)
    BY ONLY <2>1, <2>2, <2>4 DEF Records
  <2> QED BY ONLY <1>1, <2>2, <2>5, Parts DEF Graphs
<1>5. h = Free(k, t)
  BY DEF TakeIn
<1> HIDE DEF j, k
<1>6. Linked(j)
  BY <1>1, <1>4 DEF Linked
<1>7. /\ Edited(K, I, j, k, b, k.succ[b], j.control[t])
      /\ Within(k.succ[b], j.succ[t])
      /\ ~IsSwitch(j, t) => \A C, v : Leads(k, b, C, v) = Leads(j, t, C, v)
  BY <1>1, <1>2, <1>4, <1>6, DupKeeps DEF k
<1>8. /\ k \in Graphs(K, I) /\ Linked(k) /\ Live(k) = Live(g) /\ k.body = j.body
      /\ k.control[b] = g.control[t] /\ Within(k.succ[b], g.succ[t])
      /\ \A p \in BlockIds \ {b} : k.succ[p] = g.succ[p] /\ k.control[p] = g.control[p]
  BY <1>4, <1>7 DEF Edited, Touched, Live
<1>9. Freed(K, I, k, h, t)
  BY <1>2, <1>5, <1>8, FreeKeeps
<1>10. /\ h \in Graphs(K, I) /\ Linked(h) /\ Live(h) = Live(g) \ {t}
       /\ h.succ[t] = <<>> /\ h.control[t] = NoControl
       /\ \A p \in BlockIds \ {t} :
             h.succ[p] = k.succ[p] /\ h.control[p] = k.control[p] /\ h.body[p] = j.body[p]
  BY <1>8, <1>9 DEF Freed
<1>11. h.succ[b] = k.succ[b] /\ h.control[b] = k.control[b] /\ h.body[b] = j.body[b]
  BY <1>1, <1>2, <1>10
<1>12. \A p \in BlockIds \ {b, t} : h.succ[p] = g.succ[p] /\ h.control[p] = g.control[p]
  BY <1>8, <1>10
<1>13. h.body[b] = g.body[b] \o g.body[t] /\ \A p \in BlockIds \ {b, t} : h.body[p] = g.body[p]
  <2>1. g.body \in [BlockIds -> Seq(I)]
    BY <1>1, Parts
  <2>2. j.body[b] = g.body[b] \o g.body[t] /\ \A p \in BlockIds \ {b} : j.body[p] = g.body[p]
    BY <1>1, <1>4, <2>1
  <2> QED BY <1>10, <1>11, <2>2
<1>14. Rested(h)
  <2> SUFFICES ASSUME NEW p \in BlockIds, p \notin Live(h) PROVE h.succ[p] = <<>> /\ ~IsSwitch(h, p)
    BY DEF Rested
  <2>1. CASE p = t
    BY <1>10, <2>1 DEF IsSwitch
  <2>2. CASE p # t
    <3>1. p \in BlockIds \ Live(g) /\ p \in BlockIds \ {b, t}
      BY <1>10, <2>2
    <3>2. g.succ[p] = <<>> /\ ~IsSwitch(g, p)
      BY <1>1, <3>1 DEF Rested
    <3> QED BY <1>12, <3>1, <3>2 DEF IsSwitch
  <2> QED BY <2>1, <2>2
<1>15. Closed(h)
  <2> SUFFICES ASSUME NEW p \in BlockIds, NEW i \in DOMAIN h.succ[p]
               PROVE  h.succ[p][i].b \in Live(g) /\ h.succ[p][i].b # t
    BY <1>10 DEF Closed, Succs
  <2>1. p # t
    BY <1>10
  <2>2. CASE p = b
    <3>1. PICK n \in DOMAIN g.succ[t] : h.succ[p][i].b = g.succ[t][n].b
      BY <1>8, <1>11, <2>2 DEF Within
    <3>2. h.succ[p][i].b \in Succs(g, t)
      BY <3>1 DEF Succs
    <3> QED BY <1>1, <1>2, <1>3, <3>2 DEF Closed
  <2>3. CASE p # b
    <3>1. h.succ[p][i].b \in Succs(g, p)
      BY <1>12, <2>1, <2>3 DEF Succs
    <3> QED BY <1>1, <1>3, <2>3, <3>1 DEF Closed
  <2> QED BY <2>2, <2>3
<1>16. \A p \in Live(h) \ {b} :
          h.succ[p] = g.succ[p] /\ h.control[p] = g.control[p] /\ h.body[p] = g.body[p]
  BY <1>1, <1>10, <1>12, <1>13
<1>17. ASSUME ~IsSwitch(g, t) PROVE Decided(h) /\ \A C, v : Leads(h, b, C, v) = Leads(g, t, C, v)
  <2>1. ~IsSwitch(j, t) /\ ~IsSwitch(h, b)
    BY <1>4, <1>8, <1>11, <1>17 DEF IsSwitch
  <2>2. \A C, v : Leads(h, b, C, v) = Leads(k, b, C, v)
    BY <1>11, LeadsEqual
  <2>3. \A C, v : Leads(j, t, C, v) = Leads(g, t, C, v)
    BY <1>4, LeadsEqual
  <2>4. DecidedAt(h, b)
    <3> DEFINE s == g.succ[t]
               u == h.succ[b]
    <3>1. DOMAIN u = DOMAIN s /\ \A i \in DOMAIN s : u[i].cc = s[i].cc
      BY <1>1, <1>2, <1>4, <1>8, <1>11, DupShape DEF k
    <3>2. /\ s \in Seq(Cessors) /\ u \in Seq(Cessors)
      BY <1>1, <1>2, <1>10, Parts
    <3>3. DecidedAt(g, t)
      BY <1>1, <1>2 DEF Decided
    <3>4. \/ Len(s) = 1 /\ s[1].cc = "ALWAYS"
          \/ /\ \A i \in DOMAIN s : Conditional(s[i].cc)
             /\ \A o \in Outcome : Cardinality({i \in DOMAIN s : o \in Accepts[s[i].cc]}) = 1
      BY <1>2, <1>17, <3>3 DEF DecidedAt
    <3> HIDE DEF s, u
    <3>5. CASE Len(s) = 1 /\ s[1].cc = "ALWAYS"
      <4>1. Len(u) = 1 /\ u[1].cc = "ALWAYS"
        BY <3>1, <3>2, <3>5
      <4> QED BY <2>1, <4>1 DEF DecidedAt, u
    <3>6. CASE /\ \A i \in DOMAIN s : Conditional(s[i].cc)
               /\ \A o \in Outcome : Cardinality({i \in DOMAIN s : o \in Accepts[s[i].cc]}) = 1
      <4>1. \A i \in DOMAIN u : Conditional(u[i].cc)
        BY <3>1, <3>6
      <4>2. \A o : {i \in DOMAIN u : o \in Accepts[u[i].cc]} = {i \in DOMAIN s : o \in Accepts[s[i].cc]}
        BY <3>1
      <4>3. \A o \in Outcome : Cardinality({i \in DOMAIN u : o \in Accepts[u[i].cc]}) = 1
        BY <3>6, <4>2
      <4> QED BY <2>1, <4>1, <4>3 DEF DecidedAt, u
    <3> QED BY <3>4, <3>5, <3>6
  <2>5. Decided(h)
    <3> SUFFICES ASSUME NEW p \in Live(h), p # b PROVE DecidedAt(h, p)
      BY <2>4 DEF Decided
    <3>1. p \in Live(g) /\ h.succ[p] = g.succ[p] /\ h.control[p] = g.control[p]
      BY <1>10, <1>16
    <3> QED BY <1>1, <3>1, DecidedSame DEF Decided
  <2> QED BY <1>7, <2>1, <2>2, <2>3, <2>5
<1> QED BY <1>8, <1>10, <1>11, <1>13, <1>14, <1>15, <1>16, <1>17

(* block_preheader: no block outside the loop leads to its head any more,    *)
(* but to the new block, which leads to the head; the blocks of the loop and *)
(* what the others do are as they were, and so is where they lead, and the   *)
(* graph is as whole as it was.                                              *)
THEOREM PreheaderKeeps ==
  ASSUME NEW K, NEW I, NEW g, Whole(K, I, g), NEW head \in Live(g),
         NEW new \in BlockIds \ Live(g), NEW loop, NEW h, h = Preheader(g, head, new, loop)
  PROVE  /\ Whole(K, I, h) /\ Live(h) = Live(g) \cup {new} /\ h.body = g.body
         /\ \A C, v : Leads(h, new, C, v) = {head}
         /\ \A p \in loop \cap Live(g) : h.succ[p] = g.succ[p] /\ h.control[p] = g.control[p]
         /\ \A p \in Live(g) \ loop :
               /\ head \notin Succs(h, p)
               /\ \A C : \A v \in Int :
                     Leads(g, p, C, v) # {} => Leads(h, p, C, v) = Renamed(Leads(g, p, C, v), head, new)
<1> DEFINE j == [g EXCEPT !.list = Append(g.list, new)]
           c == Cessor("ALWAYS", head)
           k == AddSuccessor(j, new, c)
           P == Live(g) \ loop
<1>1. /\ g \in Graphs(K, I) /\ Linked(g) /\ Rested(g) /\ Closed(g) /\ Decided(g)
      /\ Live(g) \subseteq BlockIds /\ head \in BlockIds /\ new \in BlockIds /\ head # new
      /\ g.succ[new] = <<>> /\ g.control[new] = NoControl
  BY LiveBlocks DEF Whole, Rested, IsSwitch
<1>2. c \in Cessors /\ c.b = head /\ c.cc = "ALWAYS"
  <2>1. "ALWAYS" \in Ways
    BY DEF Ways
  <2> HIDE DEF c
  <2> QED BY <1>1, <2>1, CessorType DEF c
<1>3. /\ j \in Graphs(K, I) /\ j.list = Append(g.list, new) /\ j.succ = g.succ /\ j.pred = g.pred
      /\ j.control = g.control /\ j.body = g.body /\ Live(j) = Live(g) \cup {new}
  <2> DEFINE s == g.list
             u == Append(s, new)
  <2>1. /\ g \in Records(K, I) /\ s \in Seq(BlockIds)
        /\ \A i, n \in DOMAIN s : s[i] = s[n] => i = n
    BY <1>1, Parts
  <2>2. j = [list |-> u, succ |-> g.succ, pred |-> g.pred, control |-> g.control, body |-> g.body]
    <3>1. j = [g EXCEPT !.list = u]
      OBVIOUS
    <3> HIDE DEF j, u
    <3> QED BY ONLY <2>1, <3>1 DEF Records
  <2>3. \A i \in DOMAIN s : s[i] # new
    BY DEF Live, ToSet
  <2>4. u \in Seq(BlockIds)
    BY <1>1, <2>1
  <2>5. /\ DOMAIN u = DOMAIN s \cup {Len(s) + 1} /\ u[Len(s) + 1] = new
        /\ \A i \in DOMAIN s : u[i] = s[i]
    BY <2>1
  <2> HIDE DEF j, u, s
  <2>6. \A i, n \in DOMAIN u : u[i] = u[n] => i = n
    BY ONLY <2>1, <2>3, <2>5
  <2>7. j \in Records(K, I)
    BY ONLY <2>1, <2>2, <2>4 DEF Records
  <2>8. j.list = u /\ j.succ = g.succ /\ j.pred = g.pred /\ j.control = g.control /\ j.body = g.body
    BY ONLY <2>2
  <2>9. j \in Graphs(K, I)
    BY ONLY <2>6, <2>7, <2>8 DEF Graphs
  <2>10. ToSet(u) = ToSet(s) \cup {new}
    BY ONLY <2>5 DEF ToSet
  <2> QED BY <2>8, <2>9, <2>10 DEF Live, u, s
<1>4. Linked(j)
  BY <1>1, <1>3 DEF Linked
<1>5. h = Redirected(k, P, head, new)
  BY DEF Preheader
<1> HIDE DEF j, c, k, P
<1>6. Edited(K, I, j, k, new, <<c>>, NoControl)
  <2>1. Edited(K, I, j, k, new, Append(j.succ[new], c), j.control[new])
    BY <1>1, <1>2, <1>3, <1>4, AddKeeps DEF k
  <2>2. Append(<<>>, c) = <<c>>
    OBVIOUS
  <2>3. j.succ[new] = <<>> /\ j.control[new] = NoControl
    BY <1>1, <1>3
  <2> QED BY ONLY <2>1, <2>2, <2>3
<1>7. /\ k \in Graphs(K, I) /\ Linked(k) /\ Live(k) = Live(g) \cup {new} /\ k.body = g.body
      /\ k.succ[new] = <<c>> /\ k.control[new] = NoControl
      /\ \A p \in BlockIds \ {new} : k.succ[p] = g.succ[p] /\ k.control[p] = g.control[p]
  BY <1>3, <1>6 DEF Edited, Touched, Live
<1>8. P \subseteq Live(k) /\ new \notin P /\ P \subseteq BlockIds /\ P \subseteq Live(g)
  BY <1>1, <1>7 DEF P
<1>9. Turning(K, I, k, h, P, head, new)
  BY <1>1, <1>5, <1>7, <1>8, RedirectedKeeps
<1>10. /\ h \in Graphs(K, I) /\ Linked(h) /\ Live(h) = Live(g) \cup {new} /\ h.body = g.body
       /\ \A p \in P : /\ Diverted(h.succ[p], k.succ[p], head, new)
                       /\ NewWay(k, h, p, head, new) /\ Firm(k, h, p)
       /\ \A p \in BlockIds \ P : h.succ[p] = k.succ[p] /\ h.control[p] = k.control[p]
  BY <1>7, <1>9 DEF Turning, Live
<1>11. h.succ[new] = <<c>> /\ h.control[new] = NoControl
  BY <1>1, <1>7, <1>8, <1>10
<1>12. DecidedAt(h, new) /\ \A C, v : Leads(h, new, C, v) = {head}
  <2> DEFINE w == <<c>>
  <2>1. Len(w) = 1 /\ w[1] = c /\ DOMAIN w = {1}
    OBVIOUS
  <2>2. h.succ[new] = w /\ ~IsSwitch(h, new)
    BY <1>11 DEF IsSwitch
  <2> HIDE DEF w
  <2>3. ASSUME NEW C, NEW v PROVE Leads(h, new, C, v) = {head}
    <3>1. {w[i].b : i \in {n \in DOMAIN w : w[n].cc \in C \cup {"ALWAYS"}}} = {head}
      BY ONLY <1>2, <2>1
    <3> QED BY <2>2, <3>1 DEF Leads
  <2>4. DecidedAt(h, new)
    BY <1>2, <2>1, <2>2 DEF DecidedAt
  <2> QED BY <2>3, <2>4
<1>13. Rested(h)
  <2> SUFFICES ASSUME NEW p \in BlockIds, p \notin Live(h) PROVE h.succ[p] = <<>> /\ ~IsSwitch(h, p)
    BY DEF Rested
  <2>1. p \in BlockIds \ Live(g) /\ p \in BlockIds \ P /\ p \in BlockIds \ {new}
    BY <1>8, <1>10
  <2>2. g.succ[p] = <<>> /\ ~IsSwitch(g, p)
    BY <1>1, <2>1 DEF Rested
  <2> QED BY <1>7, <1>10, <2>1, <2>2 DEF IsSwitch
<1>14. Closed(h)
  <2> SUFFICES ASSUME NEW p \in BlockIds, NEW i \in DOMAIN h.succ[p]
               PROVE  h.succ[p][i].b \in Live(g) \cup {new}
    BY <1>10 DEF Closed, Succs
  <2>1. \A q \in BlockIds : \A n \in DOMAIN g.succ[q] : g.succ[q][n].b \in Live(g)
    BY <1>1 DEF Closed, Succs
  <2>2. \A n \in DOMAIN k.succ[p] : k.succ[p][n].b \in Live(g)
    <3>1. CASE p = new
      <4> DEFINE w == <<c>>
      <4>1. w[1] = c /\ DOMAIN w = {1}
        OBVIOUS
      <4>2. k.succ[p] = w
        BY <1>7, <3>1
      <4> HIDE DEF w
      <4> QED BY <1>2, <4>1, <4>2
    <3>2. CASE p # new
      BY <1>7, <2>1, <3>2
    <3> QED BY <3>1, <3>2
  <2>3. CASE p \in P
    BY <1>10, <2>2, <2>3 DEF Diverted
  <2>4. CASE p \notin P
    BY <1>10, <2>2, <2>4
  <2> QED BY <2>3, <2>4
<1>15. Decided(h)
  <2> SUFFICES ASSUME NEW p \in Live(g) PROVE DecidedAt(h, p)
    BY <1>10, <1>12 DEF Decided
  <2>1. p \in BlockIds \ {new} /\ DecidedAt(g, p)
    BY <1>1 DEF Decided
  <2>2. DecidedAt(k, p)
    BY <1>7, <2>1, DecidedSame
  <2> QED BY <1>10, <2>1, <2>2, DecidedSame DEF Firm
<1>16. \A p \in loop \cap Live(g) : h.succ[p] = g.succ[p] /\ h.control[p] = g.control[p]
  <2> SUFFICES ASSUME NEW p \in loop \cap Live(g) PROVE h.succ[p] = g.succ[p] /\ h.control[p] = g.control[p]
    OBVIOUS
  <2>1. p \in BlockIds \ P /\ p \in BlockIds \ {new}
    BY <1>1 DEF P
  <2> QED BY <1>7, <1>10, <2>1
<1>17. ASSUME NEW p \in P
       PROVE  /\ head \notin Succs(h, p)
              /\ \A C : \A v \in Int :
                    Leads(g, p, C, v) # {} => Leads(h, p, C, v) = Renamed(Leads(g, p, C, v), head, new)
  <2>1. p \in BlockIds \ {new} /\ k.succ[p] = g.succ[p] /\ k.control[p] = g.control[p]
    BY <1>7, <1>8
  <2>2. Diverted(h.succ[p], k.succ[p], head, new) /\ NewWay(k, h, p, head, new)
    BY <1>10
  <2>3. NewWay(g, h, p, head, new)
    BY <2>1, <2>2, NewWayFrom
  <2>4. IsSwitch(g, p) => Cased(g.succ[p])
    BY <2>1, WholeCased
  <2> QED BY <2>2, <2>3, <2>4 DEF NewWay, Diverted, Succs
<1> QED BY <1>10, <1>12, <1>13, <1>14, <1>15, <1>16, <1>17 DEF Whole, P

=============================================================================

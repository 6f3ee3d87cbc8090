----------------------------- MODULE LiveProofs -----------------------------
(***************************************************************************)
(* What cc1/live.c computes, for every function: however many blocks, any  *)
(* control flow graph, any set of registers.  The inductive invariant is   *)
(* IInv of the module Live.                                                *)
(***************************************************************************)
EXTENDS Live, FiniteSetTheorems, TLAPS

\* live_clear() leaves the analysis in a state the invariant holds in.
LEMMA InitIInv == Init => IInv
<1> SUFFICES ASSUME Init PROVE IInv
  OBVIOUS
<1> USE NAssumption DEF Block
<1>1. TypeOK
  <2>1. 1 \in 1..(N + 1)
    OBVIOUS
  <2> QED
    BY <2>1 DEF Init, TypeOK
<1>2. QuietPass
  BY DEF Init, QuietPass
<1>3. DoneAtEnd
  BY DEF Init, DoneAtEnd
<1>4. Least
  BY DEF Init, Least
<1>5. Justified
  BY DEF Init, Justified
<1> QED
  BY <1>1, <1>2, <1>3, <1>4, <1>5 DEF IInv

\* One call of live_analyze_global() on block cur: what it leaves in the sets.
LEMMA VisitSets ==
  ASSUME TypeOK, Visit
  PROVE  /\ cur \in Block
         /\ in'[cur] = NewIn(cur)
         /\ out'[cur] = NewOut(cur)
         /\ \A b \in Block : b # cur => in'[b] = in[b] /\ out'[b] = out[b]
BY NAssumption DEF TypeOK, Visit, Block

\* A visit only adds to the sets of the block, because what they held was
\* justified by the sets of its successors, which have not shrunk since.
LEMMA VisitGrows ==
  ASSUME TypeOK, Justified, Visit
  PROVE  \A b \in Block : in[b] \subseteq in'[b] /\ out[b] \subseteq out'[b]
<1> TAKE b \in Block
<1>1. CASE b = cur
  <2>1. out[b] \subseteq NewOut(b)
    BY DEF Justified, NewOut
  <2>2. in[b] \subseteq NewIn(b)
    BY <2>1 DEF Justified, NewIn
  <2> QED
    BY <1>1, <2>1, <2>2, VisitSets
<1>2. CASE b # cur
  BY <1>2, VisitSets
<1> QED
  BY <1>1, <1>2

LEMMA VisitTypeOK ==
  ASSUME TypeOK, Visit
  PROVE  TypeOK'
<1> USE NAssumption DEF TypeOK, Block
<1>1. NewOut(cur) \in SUBSET Reg
  BY DEF Visit, NewOut
<1>2. NewIn(cur) \in SUBSET Reg
  BY <1>1, VisitSets DEF NewIn
<1>3. in' \in [Block -> SUBSET Reg] /\ out' \in [Block -> SUBSET Reg]
  BY <1>1, <1>2 DEF Visit
<1>4. cur' \in 1..(N + 1) /\ reiter' \in BOOLEAN /\ done' \in BOOLEAN
  BY DEF Visit, Changed
<1> QED
  BY <1>3, <1>4 DEF Visit, graph

\* A pass stays quiet only by not changing anything, so what held at the blocks
\* it has passed still holds, and holds at this one too.
LEMMA VisitQuiet ==
  ASSUME TypeOK, QuietPass, Visit
  PROVE  QuietPass'
<1> SUFFICES ASSUME ~reiter', NEW b \in Block, b < cur'
             PROVE  SolvedAt(b)'
  BY DEF QuietPass, Block, Visit, graph
<1>1. ~reiter /\ ~Changed(cur)
  BY DEF Visit
<1>2. in' = in /\ out' = out
  BY <1>1, VisitSets DEF Visit, Changed, TypeOK
<1>3. SolvedAt(b)
  <2>1. CASE b = cur
    BY <1>1, <2>1 DEF Changed, NewIn, NewOut, SolvedAt
  <2>2. CASE b # cur
    <3>1. b < cur
      BY <2>2, NAssumption DEF Visit, TypeOK, Block
    <3> QED
      BY <1>1, <3>1 DEF QuietPass
  <2> QED
    BY <2>1, <2>2
<1> QED
  BY <1>2, <1>3 DEF SolvedAt, Visit, graph

\* If L is closed and the LIVE IN sets are within L, so is what a visit computes.
LEMMA VisitLeast ==
  ASSUME TypeOK, Least, Visit
  PROVE  Least'
<1> SUFFICES ASSUME NEW L \in [Block -> SUBSET Reg], IsClosed(L)',
                    NEW b \in Block
             PROVE  in'[b] \subseteq L[b]
  BY DEF Least, Block
<1>1. IsClosed(L)
  BY DEF IsClosed, Visit, graph, Block
<1>2. \A c \in Block : in[c] \subseteq L[c]
  BY <1>1 DEF Least
<1>3. NewOut(cur) \subseteq UNION {L[s] : s \in succ[cur]}
  BY <1>2, VisitSets DEF NewOut, TypeOK
<1>4. NewIn(cur) \subseteq L[cur]
  BY <1>1, <1>3, VisitSets DEF NewIn, IsClosed
<1> QED
  BY <1>2, <1>4, VisitSets

LEMMA VisitJustified ==
  ASSUME TypeOK, Justified, Visit
  PROVE  Justified'
<1> SUFFICES ASSUME NEW b \in Block
             PROVE  /\ out'[b] \subseteq UNION {in'[s] : s \in succ[b]}
                    /\ in'[b] \subseteq (out'[b] \ def[b]) \cup use[b]
  BY DEF Justified, Visit, graph, Block
<1>1. UNION {in[s] : s \in succ[b]} \subseteq UNION {in'[s] : s \in succ[b]}
  BY VisitGrows DEF TypeOK
<1>2. CASE b = cur
  BY <1>1, <1>2, VisitSets DEF NewOut, NewIn
<1>3. CASE b # cur
  BY <1>1, <1>3, VisitSets DEF Justified
<1> QED
  BY <1>2, <1>3

\* Going around the list again, or returning, touches no set.
LEMMA EndPassIInv ==
  ASSUME IInv, EndPass
  PROVE  IInv'
<1> USE NAssumption DEF IInv, EndPass, graph, Block
<1>1. TypeOK'
  <2>1. cur' \in 1..(N + 1)
    BY DEF TypeOK
  <2>2. reiter' \in BOOLEAN /\ done' \in BOOLEAN
    BY Zenon DEF TypeOK
  <2> QED
    BY <2>1, <2>2 DEF TypeOK
<1>2. QuietPass'
  BY DEF QuietPass, SolvedAt
<1>3. DoneAtEnd'
  BY DEF DoneAtEnd
<1>4. Least'
  BY DEF Least, IsClosed
<1>5. Justified'
  BY DEF Justified
<1> QED
  BY <1>1, <1>2, <1>3, <1>4, <1>5

LEMMA NextIInv ==
  ASSUME IInv, [Next]_vars
  PROVE  IInv'
<1>1. CASE Visit
  <2>1. DoneAtEnd'
    BY <1>1 DEF Visit, DoneAtEnd
  <2> QED
    BY <1>1, <2>1, VisitTypeOK, VisitQuiet, VisitLeast, VisitJustified DEF IInv
<1>2. CASE EndPass
  BY <1>2, EndPassIInv
<1>3. CASE UNCHANGED vars
  BY <1>3 DEF vars, graph, IInv, TypeOK, QuietPass, SolvedAt, DoneAtEnd,
              Least, IsClosed, Justified, Block
<1> QED
  BY <1>1, <1>2, <1>3 DEF Next

\* live_analyze() keeps its data within its types and its sets justified.
THEOREM LiveInvariant == Spec => []IInv
BY InitIInv, NextIInv, PTL DEF Spec

LEMMA IInvSolved == IInv => Solved
<1> SUFFICES ASSUME IInv, done, NEW b \in Block
             PROVE  SolvedAt(b)
  BY DEF Solved
<1>1. cur = N + 1 /\ ~reiter
  BY DEF IInv, DoneAtEnd
<1>2. b < cur
  BY <1>1, NAssumption DEF Block
<1> QED
  BY <1>1, <1>2 DEF IInv, QuietPass

\* When live_analyze() is done, LIVE IN and LIVE OUT of every block satisfy the
\* data flow equations.
THEOREM LiveSolved == Spec => []Solved
BY LiveInvariant, IInvSolved, PTL

\* At no time does LIVE IN hold a register that some solution of the equations
\* leaves out.
THEOREM LiveLeast == Spec => []Least
<1>1. IInv => Least
  BY DEF IInv
<1> QED
  BY <1>1, LiveInvariant, PTL

\* A register for which there is a reason not to be live is not in LIVE IN: the
\* assignment that leaves it out of just those blocks is closed.
LEMMA NotNeededNotIn ==
  ASSUME IInv, NEW b \in Block, NEW r \in Reg, NotNeeded(b, r)
  PROVE  r \notin in[b]
<1>1. PICK S \in SUBSET Block :
        /\ b \in S
        /\ \A c \in S : r \notin use[c] /\ (r \in def[c] \/ succ[c] \subseteq S)
  BY DEF NotNeeded
<1> DEFINE L == [c \in Block |-> IF c \in S THEN Reg \ {r} ELSE Reg]
<1>2. L \in [Block -> SUBSET Reg]
  OBVIOUS
<1>3. IsClosed(L)
  <2> SUFFICES ASSUME NEW c \in Block
               PROVE  use[c] \cup ((UNION {L[s] : s \in succ[c]}) \ def[c])
                        \subseteq L[c]
    BY DEF IsClosed
  <2>1. succ[c] \subseteq Block /\ use[c] \subseteq Reg
    BY DEF IInv, TypeOK
  <2>2. UNION {L[s] : s \in succ[c]} \subseteq Reg
    BY <2>1
  <2>3. CASE c \notin S
    BY <2>1, <2>2, <2>3
  <2>4. CASE c \in S
    <3>1. r \notin use[c]
      BY <1>1, <2>4
    <3>2. r \in def[c] \/ r \notin UNION {L[s] : s \in succ[c]}
      BY <1>1, <2>1, <2>4
    <3> QED
      BY <2>1, <2>2, <2>4, <3>1, <3>2
  <2> QED
    BY <2>3, <2>4
<1>4. in[b] \subseteq L[b]
  BY <1>2, <1>3 DEF IInv, Least
<1> QED
  BY <1>1, <1>4

\* The blocks whose LIVE IN lacks a register are a reason why it is not live.
LEMMA NotInNotNeeded ==
  ASSUME IInv, done, NEW b \in Block, NEW r \in Reg, r \notin in[b]
  PROVE  NotNeeded(b, r)
<1> DEFINE S == {c \in Block : r \notin in[c]}
<1>1. ASSUME NEW c \in S
      PROVE  r \notin use[c] /\ (r \in def[c] \/ succ[c] \subseteq S)
  <2>1. SolvedAt(c)
    BY IInvSolved DEF Solved
  <2>2. succ[c] \subseteq Block
    BY DEF IInv, TypeOK
  <2> QED
    BY <2>1, <2>2 DEF SolvedAt
<1>2. b \in S /\ S \in SUBSET Block
  OBVIOUS
<1> HIDE DEF S
<1> QED
  BY <1>1, <1>2 DEF NotNeeded

\* When live_analyze() is done, the registers in LIVE IN are those that are
\* needed, neither more nor less.
THEOREM LiveExact == Spec => []Exact
<1>1. IInv => Exact
  BY NotNeededNotIn, NotInNotNeeded DEF Exact
<1> QED
  BY <1>1, LiveInvariant, PTL

\* The sets of a block never shrink while the analysis runs.
THEOREM LiveGrowing == Spec => Growing
<1>1. IInv /\ [Next]_vars
      => [\A b \in Block : in[b] \subseteq in'[b] /\ out[b] \subseteq out'[b]]_vars
  <2> SUFFICES ASSUME IInv, Next, NEW b \in Block
               PROVE  in[b] \subseteq in'[b] /\ out[b] \subseteq out'[b]
    OBVIOUS
  <2>1. CASE Visit
    BY <2>1, VisitGrows DEF IInv
  <2>2. CASE EndPass
    BY <2>2 DEF EndPass
  <2> QED
    BY <2>1, <2>2 DEF Next
<1> QED
  BY <1>1, LiveInvariant, PTL DEF Spec, Growing

-----------------------------------------------------------------------------
\* What the analysis computes is what liveness means, in terms of paths.

\* A set of numbers up to n has a least one.
LEMMA LeastOf ==
  ASSUME NEW n \in Nat, NEW S \in SUBSET (0..n), S # {}
  PROVE  \E x \in S : \A y \in S : x <= y
<1> DEFINE U == 0..n
           T == {0..k : k \in S}
<1>1. IsFiniteSet(U)
  BY FS_Interval
<1>2. IsWellFoundedOn(StrictSubsetOrdering(U), SUBSET U)
  BY <1>1, FS_StrictSubsetOrderingWellFounded, FS_FiniteSubsetsOfFinite, Zenon
<1>3. T \subseteq SUBSET U /\ T # {}
  <2>1. \A k \in S : 0..k \in T /\ 0..k \subseteq U
    OBVIOUS
  <2> QED
    BY <2>1
<1>4. PICK t \in T : \A s \in T : <<s, t>> \notin StrictSubsetOrdering(U)
  <2> HIDE DEF T, U
  <2> QED
    BY <1>2, <1>3, WFMin, Zenon
<1>5. PICK x \in S : t = 0..x
  OBVIOUS
<1>6. ASSUME NEW y \in S, y < x
      PROVE  FALSE
  <2>1. x \in 0..n /\ y \in 0..n /\ 0..y \in T
    OBVIOUS
  <2>2. 0..y \subseteq 0..x /\ x \in 0..x /\ x \notin 0..y
    BY <2>1, <1>6
  <2>3. 0..y # 0..x
    BY <2>2
  <2>4. 0..y \in SUBSET U /\ 0..x \in SUBSET U
    BY <2>1
  <2>5. <<0..y, 0..x>> \in StrictSubsetOrdering(U)
    BY <2>2, <2>3, <2>4 DEF StrictSubsetOrdering
  <2> QED
    BY <2>1, <2>5, <1>4, <1>5
<1>7. \A y \in S : x \in 0..n /\ y \in 0..n /\ ~(y < x)
  BY <1>6
<1> QED
  BY <1>7

\* A path does not leave a set that control leaves only after r is overwritten.
LEMMA PathStays ==
  ASSUME NEW S \in SUBSET Block, NEW r,
         \A c \in S : r \in def[c] \/ succ[c] \subseteq S,
         NEW n \in Nat \ {0}, NEW p \in [1..n -> Block],
         Abstract!Path(p, n, r), p[1] \in S
  PROVE  p[n] \in S
<1> DEFINE Out == {i \in 0..n : i # 0 /\ p[i] \notin S}
<1> SUFFICES ASSUME n \in Out PROVE FALSE
  OBVIOUS
<1>1. PICK i \in Out : \A j \in Out : i <= j
  <2> Out \in SUBSET (0..n) /\ Out # {}
    OBVIOUS
  <2> HIDE DEF Out
  <2> QED
    BY LeastOf
<1>2. i \in 1..n /\ i # 1 /\ p[i] \notin S
  BY <1>1
<1>3. i - 1 \in 1..(n - 1) /\ i - 1 \notin Out
  BY <1>1, <1>2
<1>4. p[i - 1] \in S
  BY <1>3
<1>5. (i - 1) + 1 = i
  BY <1>2
<1>6. p[i] \in succ[p[i - 1]] /\ r \notin def[p[i - 1]]
  BY <1>3, <1>5 DEF Abstract!Path
<1> QED
  BY <1>2, <1>4, <1>6

\* Liveness counts as this module does.
LEMMA SameCardinality ==
  ASSUME NEW S
  PROVE  Abstract!Cardinality(S) = Cardinality(S)
BY Zenon DEF Abstract!Cardinality, Cardinality

LEMMA HowManyBlocks ==
  /\ IsFiniteSet(Block) /\ Cardinality(Block) = N /\ N \in Nat \ {0}
  /\ Abstract!Cardinality(Block) = N
BY FS_Interval, SameCardinality, NAssumption DEF Block

\* Every register some path reads satisfies the equations: a path to a block that
\* uses r, with a transparent block put before it, is one again, or holds one.
LEMMA LiveClosed ==
  ASSUME TypeOK
  PROVE  IsClosed(Abstract!LiveIn)
<1>1. /\ IsFiniteSet(Block) /\ Cardinality(Block) = N /\ N \in Nat \ {0}
      /\ Abstract!Cardinality(Block) = N
  BY HowManyBlocks
<1>2. ASSUME NEW b \in Block, NEW r \in use[b]
      PROVE  Abstract!LiveAt(b, r)
  <2> DEFINE p == [i \in 1..1 |-> b]
  <2>1. p \in [1..1 -> Block] /\ p[1] = b /\ 1 \in 1..N
    BY <1>1
  <2>2. Abstract!Path(p, 1, r)
    BY DEF Abstract!Path
  <2> HIDE DEF p
  <2> QED
    BY <1>1, <2>1, <2>2 DEF Abstract!LiveAt
<1>3. ASSUME NEW b \in Block, NEW s \in succ[b], NEW r \in Reg \ def[b],
             Abstract!LiveAt(s, r)
      PROVE  Abstract!LiveAt(b, r)
  <2>1. PICK n \in 1..N : \E p \in [1..n -> Block] :
               p[1] = s /\ Abstract!Path(p, n, r) /\ r \in use[p[n]]
    BY <1>1, <1>3 DEF Abstract!LiveAt
  <2>2. PICK p \in [1..n -> Block] :
               p[1] = s /\ Abstract!Path(p, n, r) /\ r \in use[p[n]]
    BY <2>1
  <2>3. n \in 1..N
    OBVIOUS
  <2>4. CASE \E k \in 1..n : p[k] = b
    <3>1. PICK k \in 1..n : p[k] = b
      BY <2>4
    <3> DEFINE m == n - k + 1
               q == [i \in 1..m |-> p[i + k - 1]]
    <3>2. m \in 1..N /\ \A i \in 1..m : i + k - 1 \in 1..n
      BY <1>1, <2>3
    <3>3. q \in [1..m -> Block] /\ q[1] = b /\ q[m] = p[n]
      BY <2>3, <3>1, <3>2
    <3>4. ASSUME NEW i \in 1..m, NEW j \in 1..m, q[i] = q[j]
          PROVE  i = j
      <4>1. i + k - 1 = j + k - 1
        BY <3>2, <3>4, <2>2 DEF Abstract!Path
      <4> QED
        BY <4>1, <3>2, <2>3
    <3>5. ASSUME NEW i \in 1..(m - 1)
          PROVE  q[i + 1] \in succ[q[i]] /\ r \notin def[q[i]]
      <4>1. i \in 1..m /\ i + 1 \in 1..m /\ i + k - 1 \in 1..(n - 1)
            /\ (i + 1) + k - 1 = (i + k - 1) + 1
        BY <2>3, <3>2
      <4> QED
        BY <4>1, <2>2 DEF Abstract!Path
    <3>6. Abstract!Path(q, m, r)
      <4> HIDE DEF m, q
      <4> QED
        BY <3>4, <3>5 DEF Abstract!Path
    <3> HIDE DEF m, q
    <3> QED
      BY <1>1, <2>2, <3>2, <3>3, <3>6 DEF Abstract!LiveAt
  <2>5. CASE \A k \in 1..n : p[k] # b
    <3> DEFINE m == n + 1
               q == [i \in 1..m |-> IF i = 1 THEN b ELSE p[i - 1]]
    <3>1. m \in Nat /\ 1 \in 1..m /\ m \in 1..m /\ \A i \in 1..m : i # 1 => i - 1 \in 1..n
      BY <2>3
    <3>2. q \in [1..m -> Block] /\ q[1] = b /\ q[m] = p[n]
      BY <2>3, <3>1
    <3>3. ASSUME NEW i \in 1..m, NEW j \in 1..m, q[i] = q[j]
          PROVE  i = j
      <4>1. CASE i = 1 \/ j = 1
        BY <4>1, <3>1, <3>3, <2>5
      <4>2. CASE i # 1 /\ j # 1
        <5>1. i - 1 \in 1..n /\ j - 1 \in 1..n /\ p[i - 1] = p[j - 1]
          BY <4>2, <3>1, <3>3
        <5>2. i - 1 = j - 1
          BY <5>1, <2>2 DEF Abstract!Path
        <5> QED
          BY <5>2, <2>3
      <4> QED
        BY <4>1, <4>2
    <3>4. ASSUME NEW i \in 1..(m - 1)
          PROVE  q[i + 1] \in succ[q[i]] /\ r \notin def[q[i]]
      <4>1. i \in 1..n /\ i \in 1..m /\ i + 1 \in 1..m /\ i + 1 # 1 /\ (i + 1) - 1 = i
        BY <2>3
      <4>2. q[i + 1] = p[i]
        BY <4>1
      <4>3. CASE i = 1
        BY <4>2, <4>3, <2>2, <3>2
      <4>4. CASE i # 1
        <5>1. i - 1 \in 1..(n - 1) /\ (i - 1) + 1 = i /\ q[i] = p[i - 1]
          BY <4>1, <4>4, <2>3
        <5> QED
          BY <4>2, <5>1, <2>2 DEF Abstract!Path
      <4> QED
        BY <4>3, <4>4
    <3> HIDE DEF q
    <3>5. Abstract!Path(q, m, r)
      <4> HIDE DEF m
      <4> QED
        BY <3>3, <3>4 DEF Abstract!Path
    <3>6. m <= N
      <4>1. IsFiniteSet(1..m) /\ Cardinality(1..m) = m
        BY <3>1, FS_Interval
      <4>2. q \in Injection(1..m, Block)
        <5> HIDE DEF m
        <5> QED
          BY <3>2, <3>3 DEF Injection, IsInjective
      <4>3. Cardinality(1..m) <= Cardinality(Block)
        BY <4>2, <1>1, FS_Injection
      <4> QED
        BY <4>1, <4>3, <1>1
    <3>7. m \in 1..N
      BY <3>1, <3>6, <1>1, <2>3
    <3> HIDE DEF m
    <3> QED
      BY <1>1, <2>2, <3>2, <3>5, <3>7 DEF Abstract!LiveAt
  <2> QED
    BY <2>4, <2>5
<1> SUFFICES ASSUME NEW b \in Block
             PROVE  use[b] \cup ((UNION {Abstract!LiveIn[s] : s \in succ[b]}) \ def[b])
                      \subseteq Abstract!LiveIn[b]
  BY DEF IsClosed
<1>4. succ[b] \subseteq Block /\ use[b] \subseteq Reg
  BY DEF TypeOK
<1>5. \A c \in Block : Abstract!LiveIn[c] = {r \in Reg : Abstract!LiveAt(c, r)}
  BY DEF Abstract!LiveIn
<1> QED
  BY <1>2, <1>3, <1>4, <1>5

\* Nothing is in LIVE IN that no path needs.
LEMMA OnlyLive ==
  ASSUME IInv, NEW b \in Block
  PROVE  in[b] \subseteq Abstract!LiveIn[b]
<1>1. Abstract!LiveIn \in [Block -> SUBSET Reg]
  BY DEF Abstract!LiveIn
<1>2. IsClosed(Abstract!LiveIn)
  BY LiveClosed DEF IInv
<1> QED
  BY <1>1, <1>2 DEF IInv, Least

\* And nothing that a path needs is missing at the end.
LEMMA AllLive ==
  ASSUME IInv, done
  PROVE  in = Abstract!LiveIn
<1>1. ASSUME NEW b \in Block, NEW r \in Reg, r \notin in[b], Abstract!LiveAt(b, r)
      PROVE  FALSE
  <2>1. PICK S \in SUBSET Block :
          /\ b \in S
          /\ \A c \in S : r \notin use[c] /\ (r \in def[c] \/ succ[c] \subseteq S)
    BY <1>1, NotInNotNeeded DEF NotNeeded
  <2>2. PICK n \in 1..N : \E p \in [1..n -> Block] :
               p[1] = b /\ Abstract!Path(p, n, r) /\ r \in use[p[n]]
    BY <1>1, HowManyBlocks DEF Abstract!LiveAt
  <2>3. PICK p \in [1..n -> Block] :
               p[1] = b /\ Abstract!Path(p, n, r) /\ r \in use[p[n]]
    BY <2>2
  <2>4. n \in Nat \ {0}
    BY HowManyBlocks
  <2>5. p[n] \in S
    BY <2>1, <2>3, <2>4, PathStays
  <2> QED
    BY <2>1, <2>3, <2>5
<1>2. ASSUME NEW b \in Block
      PROVE  in[b] = Abstract!LiveIn[b]
  <2>1. in[b] \subseteq Abstract!LiveIn[b]
    BY OnlyLive
  <2>2. Abstract!LiveIn[b] = {r \in Reg : Abstract!LiveAt(b, r)}
    BY DEF Abstract!LiveIn
  <2> QED
    BY <1>1, <2>1, <2>2
<1>3. in \in [Block -> SUBSET Reg] /\ Abstract!LiveIn \in [Block -> SUBSET Reg]
  BY DEF IInv, TypeOK, Abstract!LiveIn
<1> QED
  BY <1>2, <1>3

LEMMA SameLive ==
  ASSUME UNCHANGED graph
  PROVE  Abstract!LiveIn' = Abstract!LiveIn
BY DEF graph, Abstract!LiveIn, Abstract!LiveAt, Abstract!Path

\* blocks_iter() with live_analyze_global() implements the module Liveness, step by
\* step: a visit discovers that some registers are live on entry to one block, or
\* nothing; the return finishes when all are found.  That it does return is left
\* to TLC.
THEOREM LiveImplements == Spec => ImplementsSafely
<1>1. Init => Abstract!Init
  BY DEF Init, Abstract!Init
<1>2. IInv => \A b \in Block : in[b] \subseteq Abstract!LiveIn[b]
  BY OnlyLive
<1>3. IInv /\ done => in = Abstract!LiveIn
  BY AllLive
<1>4. /\ IInv' => (\A b \in Block : in[b] \subseteq Abstract!LiveIn[b])'
      /\ IInv' /\ done' => (in = Abstract!LiveIn)'
  BY <1>2, <1>3, PTL
<1>5. IInv /\ IInv' /\ [Next]_vars => [Abstract!Next]_(Abstract!vars)
  <2> SUFFICES ASSUME IInv, IInv', [Next]_vars
               PROVE  Abstract!Next \/ UNCHANGED Abstract!vars
    OBVIOUS
  <2>1. CASE Visit
    <3>1. /\ cur \in Block
          /\ in' = [in EXCEPT ![cur] = NewIn(cur)]
          /\ UNCHANGED <<graph, done>> /\ ~done
      BY <2>1, VisitSets DEF IInv, Visit
    <3>2. in[cur] \subseteq in'[cur] /\ in'[cur] = NewIn(cur)
      BY <2>1, <3>1, VisitGrows, VisitSets DEF IInv
    <3>3. NewIn(cur) \subseteq Abstract!LiveIn[cur]
      <4>1. \A b \in Block : in'[b] \subseteq (Abstract!LiveIn')[b]
        BY <1>4
      <4> QED
        BY <3>1, <3>2, <4>1, SameLive
    <3> DEFINE more == NewIn(cur) \ in[cur]
    <3>4. NewIn(cur) = in[cur] \cup more /\ more \in SUBSET (Abstract!LiveIn[cur] \ in[cur])
      BY <3>2, <3>3
    <3> HIDE DEF more
    <3>5. CASE more = {}
      <4>1. in' = in
        BY <3>1, <3>4, <3>5 DEF IInv, TypeOK
      <4> QED
        BY <4>1, <3>1 DEF Abstract!vars, Abstract!graph, graph
    <3>6. CASE more # {}
      <4>1. in' = [in EXCEPT ![cur] = @ \cup more]
        BY <3>1, <3>4 DEF IInv, TypeOK
      <4>2. UNCHANGED <<Abstract!graph, done>>
        BY <3>1 DEF Abstract!graph, graph
      <4>3. Abstract!Discover(cur)
        BY <3>1, <3>4, <3>6, <4>1, <4>2 DEF Abstract!Discover
      <4> QED
        BY <3>1, <4>3 DEF Abstract!Next
    <3> QED
      BY <3>5, <3>6
  <2>2. CASE EndPass
    <3>1. UNCHANGED <<graph, in>> /\ ~done
      BY <2>2 DEF EndPass
    <3>2. CASE done'
      <4>1. in' = Abstract!LiveIn'
        BY <3>2, <1>4
      <4>2. in = Abstract!LiveIn
        BY <3>1, <4>1, SameLive
      <4>3. done' = TRUE
        BY <3>2 DEF IInv, TypeOK
      <4> QED
        BY <3>1, <4>2, <4>3 DEF Abstract!Next, Abstract!Finish, Abstract!graph, graph
    <3>3. CASE ~done'
      <4>1. done' = done
        BY <3>1, <3>3 DEF IInv, TypeOK
      <4> QED
        BY <3>1, <4>1 DEF Abstract!vars, Abstract!graph, graph
    <3> QED
      BY <3>2, <3>3
  <2>3. CASE UNCHANGED vars
    BY <2>3 DEF vars, Abstract!vars, Abstract!graph, graph
  <2> QED
    BY <2>1, <2>2, <2>3 DEF Next
<1> QED
  BY <1>1, <1>5, LiveInvariant, PTL DEF Spec, ImplementsSafely, Abstract!SafeSpec
=============================================================================

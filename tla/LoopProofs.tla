---------------------------- MODULE LoopProofs ----------------------------
(***************************************************************************)
(* What dom_analyze() and loop_analyze() compute, for every flow graph.    *)
(*                                                                         *)
(* Dominators: the invariant that carries the proof is Shrinking: every    *)
(* set contains the one a visit would replace it with.  Of two finite      *)
(* sets, one inside the other, "of the same size" does mean "equal", and   *)
(* so the comparison of counts in dom_analyze1() is as good as a           *)
(* comparison of sets.                                                     *)
(*                                                                         *)
(* Loops: the flood from the tail of a back edge collects the natural      *)
(* loop and nothing else (LoopsFound), and of two loops that share a       *)
(* block the inner one is deeper (LoopsNested).  The second rests on the   *)
(* first and on what dominance means (Exact): the argument is about sets   *)
(* of blocks that only lead to each other, which control does not reach.   *)
(***************************************************************************)
EXTENDS Loop, FiniteSetTheorems, FunctionTheorems, SequenceTheorems, TLAPS

-----------------------------------------------------------------------------
\* Dominators

LEMMA BlockFinite == IsFiniteSet(Block)
BY FS_Interval, NAssumption DEF Block

\* Comparing the sizes is comparing the sets.
LEMMA CountTells ==
  ASSUME TypeOK, Shrinking, NEW b \in Block
  PROVE  ~Changed(b) => NewDom(b) = dom[b]
<1>1. dom[b] \subseteq Block /\ NewDom(b) \subseteq dom[b]
  BY DEF TypeOK, Shrinking
<1>2. IsFiniteSet(dom[b])
  BY <1>1, BlockFinite, FS_Subset
<1> QED
  BY <1>1, <1>2, FS_Subset, Zenon DEF Changed

\* The graph stays what it was.
LEMMA CleanStays ==
  ASSUME Clean, UNCHANGED pred
  PROVE  Clean'
<1>1. Reachable' = Reachable
  BY DEF Reachable, Reached, Block, Entry
<1> QED
  BY <1>1 DEF Clean, Isolated, Block, Entry

LEMMA InitIInv == Init => IInv
<1> SUFFICES ASSUME Init PROVE IInv
  OBVIOUS
<1> USE NAssumption DEF Block, Entry
<1>1. TypeOK
  <2>1. 1 \in 1..(N + 1)
    OBVIOUS
  <2> QED
    BY <2>1 DEF Init, TypeOK
<1>2. Shrinking
  BY DEF Init, Shrinking, NewDom
<1>3. QuietPass
  BY DEF Init, QuietPass
<1>4. DoneAtEnd
  BY DEF Init, DoneAtEnd
<1>5. Greatest
  BY DEF Init, Greatest, Fence
<1>6. Clean
  BY DEF Init, Clean
<1> QED
  BY <1>1, <1>2, <1>3, <1>4, <1>5, <1>6 DEF IInv

\* A visit of cur leaves NewDom(cur) there, whether it noticed a change or not.
LEMMA VisitSets ==
  ASSUME TypeOK, Shrinking, Visit
  PROVE  /\ cur \in Block
         /\ pred' = pred
         /\ dom'[cur] = NewDom(cur)
         /\ \A b \in Block : b # cur => dom'[b] = dom[b]
         /\ \A b \in Block : dom'[b] \subseteq dom[b]
<1>1. cur \in Block
  BY NAssumption DEF Visit, TypeOK, Block
<1>2. dom'[cur] = NewDom(cur)
  BY <1>1, CountTells DEF Visit, TypeOK
<1>3. \A b \in Block : b # cur => dom'[b] = dom[b]
  BY DEF Visit, TypeOK
<1>4. \A b \in Block : dom'[b] \subseteq dom[b]
  BY <1>1, <1>2, <1>3 DEF Shrinking
<1>5. pred' = pred
  BY DEF Visit
<1> QED
  BY <1>1, <1>2, <1>3, <1>4, <1>5

LEMMA VisitTypeOK ==
  ASSUME TypeOK, Shrinking, Visit
  PROVE  TypeOK'
<1>1. dom' \in [Block -> SUBSET Block]
  <2>1. NewDom(cur) \in SUBSET Block
    BY VisitSets DEF NewDom
  <2> QED
    BY <2>1 DEF Visit, TypeOK
<1>2. cur' \in 1..(N + 1)
  BY NAssumption DEF Visit, TypeOK
<1>3. reiter' \in BOOLEAN /\ done' \in BOOLEAN /\ pred' = pred
  BY Zenon DEF Visit, Again, Changed, TypeOK
<1> QED
  BY <1>1, <1>2, <1>3 DEF TypeOK

\* The sets a visit reads have not grown since, so no visit adds an element.
LEMMA VisitShrinking ==
  ASSUME TypeOK, Shrinking, Visit
  PROVE  Shrinking'
<1> SUFFICES ASSUME NEW b \in Block
             PROVE  NewDom(b)' \subseteq dom'[b]
  BY DEF Shrinking, Block
<1>1. NewDom(b)' \subseteq NewDom(b)
  BY VisitSets DEF NewDom, TypeOK, Block
<1>2. CASE b = cur
  BY <1>1, <1>2, VisitSets
<1>3. CASE b # cur
  BY <1>1, <1>3, VisitSets DEF Shrinking
<1> QED
  BY <1>2, <1>3

LEMMA VisitQuiet ==
  ASSUME TypeOK, Shrinking, QuietPass, Visit
  PROVE  QuietPass'
<1> SUFFICES ASSUME ~reiter', NEW b \in Block, b < cur'
             PROVE  (dom[b] = NewDom(b))'
  BY DEF QuietPass, Block
<1>1. ~Changed(cur) /\ ~reiter /\ dom' = dom /\ pred' = pred
  BY DEF Visit, Again, TypeOK
<1>2. NewDom(cur) = dom[cur]
  BY <1>1, CountTells, VisitSets
<1>3. CASE b = cur
  BY <1>1, <1>2, <1>3 DEF NewDom
<1>4. CASE b # cur
  <2>1. b < cur
    BY <1>4, NAssumption DEF Visit, TypeOK, Block
  <2> QED
    BY <1>1, <2>1 DEF QuietPass, NewDom
<1> QED
  BY <1>3, <1>4

\* A block is always among its own dominators.
LEMMA OwnDominator ==
  ASSUME Shrinking, NEW a \in Block
  PROVE  a \in dom[a]
BY DEF Shrinking, NewDom

LEMMA VisitGreatest ==
  ASSUME TypeOK, Shrinking, Greatest, Visit
  PROVE  Greatest'
<1> SUFFICES ASSUME NEW a \in Block, NEW S \in SUBSET Block, Fence(a, S)',
                    NEW b \in S
             PROVE  a \in dom'[b]
  BY DEF Greatest, Block
<1>1. Fence(a, S)
  BY VisitSets DEF Fence
<1>2. \A c \in S : a \in dom[c]
  BY <1>1 DEF Greatest
<1>3. CASE b # cur
  BY <1>2, <1>3, VisitSets
<1>4. CASE b = cur
  <2>1. \A p \in pred[b] : p = a \/ p \in S
    BY <1>1 DEF Fence
  <2>2. \A p \in pred[b] : a \in dom[p]
    BY <1>2, <2>1, OwnDominator DEF TypeOK
  <2> QED
    BY <1>1, <1>4, <2>2, VisitSets DEF NewDom, Fence
<1> QED
  BY <1>3, <1>4

LEMMA EndPassIInv ==
  ASSUME IInv, EndPass
  PROVE  IInv'
<1>1. pred' = pred /\ dom' = dom
  BY DEF EndPass
<1>2. TypeOK'
  <2>1. cur' \in 1..(N + 1)
    BY NAssumption DEF IInv, TypeOK, EndPass
  <2>2. reiter' \in BOOLEAN /\ done' \in BOOLEAN
    BY Zenon DEF IInv, TypeOK, EndPass
  <2> QED
    BY <1>1, <2>1, <2>2 DEF IInv, TypeOK
<1>3. Shrinking' /\ Greatest'
  <2>1. Shrinking'
    BY <1>1 DEF IInv, Shrinking, NewDom, Block
  <2>2. \A a \in Block : \A S \in SUBSET Block : Fence(a, S)' = Fence(a, S)
    BY <1>1 DEF Fence
  <2>3. Greatest'
    BY <1>1, <2>2 DEF IInv, Greatest, Block
  <2> QED
    BY <2>1, <2>3
<1>4. QuietPass'
  BY <1>1, NAssumption DEF IInv, QuietPass, NewDom, EndPass, Block
<1>5. DoneAtEnd'
  BY DEF IInv, DoneAtEnd, EndPass
<1>6. Clean'
  BY <1>1, CleanStays DEF IInv
<1> QED
  BY <1>2, <1>3, <1>4, <1>5, <1>6 DEF IInv

LEMMA NextIInv ==
  ASSUME IInv, [Next]_vars
  PROVE  IInv'
<1>1. CASE Visit
  <2>1. DoneAtEnd'
    BY <1>1 DEF Visit, DoneAtEnd
  <2>2. Clean'
    BY <1>1, CleanStays DEF Visit, IInv
  <2> QED
    BY <1>1, <2>1, <2>2, VisitTypeOK, VisitShrinking, VisitQuiet, VisitGreatest
    DEF IInv
<1>2. CASE EndPass
  BY <1>2, EndPassIInv
<1>3. CASE UNCHANGED vars
  <2>1. TypeOK' /\ Shrinking' /\ QuietPass' /\ DoneAtEnd'
    BY <1>3 DEF vars, IInv, TypeOK, Shrinking, NewDom, QuietPass, DoneAtEnd,
                Block
  <2>2. \A a \in Block : \A S \in SUBSET Block : Fence(a, S)' = Fence(a, S)
    BY <1>3 DEF vars, Fence
  <2>3. Greatest'
    BY <1>3, <2>2 DEF vars, IInv, Greatest, Block
  <2>4. Clean'
    BY <1>3, CleanStays DEF vars, IInv
  <2> QED
    BY <2>1, <2>3, <2>4 DEF IInv
<1> QED
  BY <1>1, <1>2, <1>3 DEF Next

\* The invariant of the analysis.
THEOREM DomInvariant == Spec => []IInv
BY InitIInv, NextIInv, PTL DEF Spec

LEMMA IInvSolved == IInv => Solved
<1> SUFFICES ASSUME IInv, done, NEW b \in Block
             PROVE  dom[b] = NewDom(b)
  BY DEF Solved
<1>1. cur = N + 1 /\ ~reiter
  BY DEF IInv, DoneAtEnd
<1>2. b < cur
  BY <1>1, NAssumption DEF Block
<1> QED
  BY <1>1, <1>2 DEF IInv, QuietPass

\* When dom_analyze() returns, its equations hold at every block.
THEOREM DomSolved == Spec => []Solved
BY DomInvariant, IInvSolved, PTL

\* The blocks that have a among their dominators are behind a.
LEMMA SolvedIsFence ==
  ASSUME IInv, done, NEW a \in Block
  PROVE  Fence(a, {c \in Block : a \in dom[c] /\ c # a})
<1> DEFINE S == {c \in Block : a \in dom[c] /\ c # a}
<1> SUFFICES ASSUME NEW c \in S
             PROVE  /\ c # a /\ pred[c] # {}
                    /\ \A p \in pred[c] : p = a \/ p \in S
  BY DEF Fence
<1>1. a \in NewDom(c)
  BY IInvSolved DEF Solved
<1>2. pred[c] # {} /\ \A p \in pred[c] : a \in dom[p]
  BY <1>1 DEF NewDom
<1> QED
  BY <1>2 DEF IInv, TypeOK

LEMMA IInvExact == IInv => Exact
<1> SUFFICES ASSUME IInv, done, NEW a \in Block, NEW b \in Block
             PROVE  a \in dom[b] <=>
                      a = b \/ \E S \in SUBSET Block : b \in S /\ Fence(a, S)
  BY DEF Exact
<1>1. ASSUME a \in dom[b], a # b
      PROVE  \E S \in SUBSET Block : b \in S /\ Fence(a, S)
  <2>1. b \in {c \in Block : a \in dom[c] /\ c # a}
    BY <1>1
  <2> QED
    BY <2>1, SolvedIsFence
<1>2. ASSUME NEW S \in SUBSET Block, b \in S, Fence(a, S)
      PROVE  a \in dom[b]
  BY <1>2 DEF IInv, Greatest
<1>3. ASSUME a = b
      PROVE  a \in dom[b]
  BY <1>3, IInvSolved DEF Solved, NewDom
<1> QED
  BY <1>1, <1>2, <1>3

\* When dom_analyze() returns, a dominates b exactly when control cannot reach b
\* except through a.
THEOREM DomExact == Spec => []Exact
BY DomInvariant, IInvExact, PTL

-----------------------------------------------------------------------------

LEMMA EntryIsBlock == Entry \in Block
BY NAssumption DEF Entry, Block

\* Blocks that only lead to each other are not reached.
LEMMA Unreached ==
  ASSUME Clean, NEW F \in SUBSET Block,
         \A c \in F : pred[c] # {} /\ pred[c] \subseteq F
  PROVE  F \cap Reachable = {}
<1>1. Entry \in Block \ F
  BY EntryIsBlock DEF Clean
<1>2. \A c \in Block : pred[c] \cap (Block \ F) # {} => c \in Block \ F
  OBVIOUS
<1> QED
  BY <1>1, <1>2 DEF Reachable, Reached

\* What leads to a block that is reached is reached.
LEMMA ReachedFrom ==
  ASSUME TypeOK, Clean, NEW b \in Reachable
  PROVE  pred[b] \subseteq Reachable /\ (b # Entry => pred[b] # {})
<1>1. b \in Block
  BY DEF Reachable, Reached
<1>2. pred[b] \subseteq Reachable
  BY <1>1 DEF Clean, Isolated, TypeOK
<1>3. ASSUME b # Entry, pred[b] = {} PROVE FALSE
  <2>1. Entry \in Block \ {b}
    BY <1>3, EntryIsBlock
  <2>2. \A c \in Block : pred[c] \cap (Block \ {b}) # {} => c \in Block \ {b}
    BY <1>3
  <2>3. b \in Block \ {b}
    BY <2>1, <2>2 DEF Reachable, Reached
  <2> QED
    BY <2>3
<1> QED
  BY <1>2, <1>3

\* When dom_analyze() returns, the dominators of a block that can be reached are
\* the blocks it cannot be reached without.
THEOREM DomDominance == Spec => []Dominance
<1>1. IInv => Dominance
  <2> SUFFICES ASSUME IInv, done, NEW b \in Reachable, NEW a \in Block
               PROVE  a \in dom[b] <=> b \notin Reached({a})
    BY DEF Dominance, IInv, TypeOK, Reachable, Reached
  <2> USE DEF IInv
  <2>1. b \in Block
    BY DEF Reachable, Reached
  <2>2. ASSUME b \notin Reached({a}), a # b
        PROVE  a \in dom[b]
    <3>1. PICK S \in SUBSET Block :
             /\ Entry \in S \cup {a}
             /\ \A c \in Block \ {a} : pred[c] \cap S # {} => c \in S
             /\ b \notin S
      BY <2>1, <2>2 DEF Reached
    <3> DEFINE F == Reachable \ (S \cup {a})
    <3>2. F \in SUBSET Block /\ b \in F
      BY <2>1, <2>2, <3>1 DEF Reachable, Reached
    <3>3. ASSUME NEW c \in F
          PROVE  c # a /\ pred[c] # {} /\ \A p \in pred[c] : p = a \/ p \in F
      <4>1. c # Entry /\ c \in Reachable
        BY <3>1
      <4>2. pred[c] # {} /\ pred[c] \subseteq Reachable
        BY <4>1, ReachedFrom
      <4>3. pred[c] \cap S = {}
        BY <3>1, <3>2
      <4> QED
        BY <4>2, <4>3
    <3>4. Fence(a, F)
      BY <3>3 DEF Fence
    <3> HIDE DEF F
    <3> QED
      BY <2>1, <3>2, <3>4, IInvExact DEF Exact
  <2>3. ASSUME a \in dom[b], a # b
        PROVE  b \notin Reached({a})
    <3>1. PICK S \in SUBSET Block : b \in S /\ Fence(a, S)
      BY <2>1, <2>3, IInvExact DEF Exact
    <3>2. Entry \in (Block \ (S \cup {a})) \cup {a}
      BY <3>1, EntryIsBlock DEF Fence, Clean
    <3>3. \A c \in Block \ {a} :
             pred[c] \cap (Block \ (S \cup {a})) # {} => c \in Block \ (S \cup {a})
      BY <3>1 DEF Fence
    <3> QED
      BY <3>1, <3>2, <3>3 DEF Reached
  <2>4. a = b => a \in dom[b] /\ b \notin Reached({a})
    <3>1. \A c \in Block \ {a} : pred[c] \cap (Block \ {a}) # {} => c \in Block \ {a}
      OBVIOUS
    <3> QED
      BY <3>1, EntryIsBlock, OwnDominator DEF Reached
  <2> QED
    BY <2>2, <2>3, <2>4
<1> QED
  BY <1>1, DomInvariant, PTL

-----------------------------------------------------------------------------
\* Loops

\* SetToSeq() lists all of a finite set, and nothing else.
LEMMA SetToSeqLists ==
  ASSUME NEW S, IsFiniteSet(S)
  PROVE  /\ SetToSeq(S) \in Seq(S)
         /\ \A x \in S : \E i \in DOMAIN SetToSeq(S) : SetToSeq(S)[i] = x
<1> DEFINE n == Cardinality(S)
<1>1. n \in Nat /\ ExistsBijection(1..n, S)
  BY FS_CardinalityType
<1>2. PICK g \in Bijection(1..n, S) : TRUE
  BY <1>1 DEF ExistsBijection
<1>3. g \in [1..n -> S] /\ IsInjective(g)
  BY <1>2 DEF Bijection, Injection, IsInjective
<1>4. SetToSeq(S) \in [1..n -> S] /\ IsInjective(SetToSeq(S))
  BY <1>3 DEF SetToSeq
<1>5. IsFiniteSet(1..n) /\ Cardinality(1..n) = n
  BY <1>1, FS_Interval
<1>6. SetToSeq(S) \in Injection(1..n, S)
  BY <1>4 DEF Injection, IsInjective
<1>7. SetToSeq(S) \in Surjection(1..n, S)
  BY <1>5, <1>6, FS_Injection
<1> QED
  BY <1>1, <1>4, <1>7 DEF Surjection

\* A stack without its top.
LEMMA FrontOf ==
  ASSUME NEW S, NEW s \in Seq(S), s # <<>>
  PROVE  /\ Len(s) \in DOMAIN s /\ Last(s) = s[Len(s)]
         /\ Front(s) \in Seq(S) /\ Len(Front(s)) = Len(s) - 1
         /\ \A i \in 1..(Len(s) - 1) : Front(s)[i] = s[i]
<1>1. Len(s) \in Nat \ {0} /\ DOMAIN s = 1..Len(s)
  OBVIOUS
<1> DEFINE n == Len(s) - 1
<1>2. n \in 0..Len(s)
  BY <1>1
<1>3. /\ SubSeq(s, 1, n) \in Seq(S)
      /\ Len(SubSeq(s, 1, n)) = (IF 1 <= n THEN n - 1 + 1 ELSE 0)
      /\ \A i \in 1..(n - 1 + 1) : SubSeq(s, 1, n)[i] = s[1 + i - 1]
  BY <1>1, <1>2, SubSeqProperties
<1> QED
  BY <1>1, <1>2, <1>3 DEF Front, Last

\* Nothing an operator of Loop looks at changes with what Dom computed.
LEMMA LoopOfStays ==
  ASSUME pred' = pred, dom' = dom
  PROVE  /\ \A b \in Block : Succ(b)' = Succ(b)
         /\ \A t, h \in Block : Reaching(t, h)' = Reaching(t, h)
         /\ \A h \in Block : Tails(h)' = Tails(h)
         /\ \A h \in Block : NaturalLoop(h)' = NaturalLoop(h)
         /\ \A h \in Block, T \in SUBSET Block : LoopOf(h, T)' = LoopOf(h, T)
BY DEF Succ, Reaching, Tails, NaturalLoop, LoopOf, Block

LEMMA InitLoopIInv == LoopInit => LoopIInv
<1> SUFFICES ASSUME LoopInit PROVE LoopIInv
  OBVIOUS
<1>1. IInv
  BY InitIInv DEF LoopInit
<1>2. LoopTypeOK
  BY EntryIsBlock DEF LoopInit, LoopTypeOK, Succ, Entry
<1>3. InOrder /\ SoFar /\ Flooding
  BY DEF LoopInit, InOrder, SoFar, Flooding
<1>4. DepthCounts
  BY DEF LoopInit, DepthCounts
<1> QED
  BY <1>1, <1>2, <1>3, <1>4 DEF LoopIInv

-----------------------------------------------------------------------------
\* The steps, one by one.

LEMMA AnalyzeStep ==
  ASSUME LoopIInv, Analyze
  PROVE  LoopIInv'
<1>1. IInv'
  BY NextIInv DEF LoopIInv, Analyze
<1>2. pred' = pred
  BY DEF Analyze, Next, Visit, EndPass
<1>3. phase = "dom" /\ phase' \in {"dom", "edges"} /\ (phase' # "dom" => done')
  BY DEF Analyze
<1>4. Succ(1)' = Succ(1)
  BY <1>2 DEF Succ, Block
<1>5. LoopTypeOK'
  BY <1>3 DEF LoopTypeOK, LoopIInv, Analyze
<1>6. InOrder'
  BY <1>3, <1>4 DEF InOrder, LoopIInv, Analyze
<1>7. SoFar'
  <2>1. at' = 1 /\ todo' = Succ(1)' /\ \A b \in Block : blks'[b] = {}
    BY <1>3, <1>4 DEF InOrder, LoopIInv, Analyze
  <2>2. \A h \in Block : Flooded(h)' = {}
    BY <2>1, NAssumption, <1>1 DEF Flooded, Tails, Succ, Block, IInv, TypeOK
  <2> QED
    BY <2>1, <2>2, <1>3 DEF SoFar, LoopOf, Block
<1>8. Flooding' /\ DepthCounts'
  BY <1>3 DEF Flooding, DepthCounts, LoopIInv, Analyze, Block
<1> QED
  BY <1>1, <1>5, <1>6, <1>7, <1>8 DEF LoopIInv

\* What the other steps leave alone.
LEMMA AfterAnalyze ==
  ASSUME LoopIInv, UNCHANGED vars
  PROVE  IInv'
BY NextIInv DEF LoopIInv

LEMMA EdgeStep ==
  ASSUME LoopIInv, NEW s \in Block, Edge(s)
  PROVE  LoopIInv'
<1> USE DEF LoopIInv
<1>1. IInv' /\ pred' = pred /\ dom' = dom /\ done
  BY AfterAnalyze DEF Edge, vars, InOrder
<1>2. s \in Succ(at) /\ at \in pred[s] /\ at \in Block
  BY DEF Edge, SoFar, Succ, LoopTypeOK
<1>3. LoopTypeOK'
  <2>1. Start(at, s) \in Seq(Block)
    BY <1>2 DEF Start
  <2>2. CASE IsBackEdge(at, s)
    BY <1>2, <2>1, <2>2 DEF Edge, LoopTypeOK
  <2>3. CASE ~IsBackEdge(at, s)
    BY <1>2, <2>3 DEF Edge, LoopTypeOK
  <2> QED
    BY <2>2, <2>3
<1>4. InOrder' /\ DepthCounts'
  BY <1>1 DEF Edge, InOrder, DepthCounts, vars, Block
<1>5. phase' \in {"edges", "flood"} /\ (phase' = "flood" <=> IsBackEdge(at, s))
  BY DEF Edge
<1>6. SoFar'
  <2>1. todo' \subseteq Succ(at)'
    BY <1>1, LoopOfStays, <1>2 DEF Edge, SoFar
  <2>2. \A h \in Block : Flooded(h)' = Flooded(h)
    <3> SUFFICES ASSUME NEW h \in Block, NEW t \in Tails(h)
                 PROVE  t \in Flooded(h)' <=> t \in Flooded(h)
      BY <1>1, LoopOfStays DEF Flooded
    <3>1. t \in Tails(h)'
      BY <1>1, LoopOfStays
    <3>2. CASE t = at /\ h = s
      BY <3>1, <3>2, <1>5, NAssumption DEF Flooded, Edge, Tails, IsBackEdge, LoopTypeOK, Block
    <3>3. CASE ~(t = at /\ h = s)
      BY <3>1, <3>3 DEF Flooded, Edge
    <3> QED
      BY <3>2, <3>3
  <2>3. ASSUME NEW h \in Block
        PROVE  LoopOf(h, Flooded(h))' = LoopOf(h, Flooded(h))
    <3>1. Flooded(h) \in SUBSET Block
      BY DEF Flooded, Tails, IInv, TypeOK
    <3>2. Flooded(h)' = Flooded(h)
      BY <2>2
    <3> QED
      BY <3>1, <3>2, <1>1, LoopOfStays
  <2>4. phase = "edges" /\ blks' = blks
    BY DEF Edge
  <2> QED
    BY <2>1, <2>3, <2>4, <1>5, Zenon DEF SoFar
<1>7. Flooding'
  <2> SUFFICES ASSUME IsBackEdge(at, s)
               PROVE  Flooding'
    BY <1>5 DEF Flooding
  <2>1. head' = s /\ at' = at /\ body' = {s, at} /\ bstack' = Start(at, s) /\ todo' = todo \ {s}
    BY DEF Edge
  <2>2. at # s => at \in Reaching(at, s)
    BY <1>2 DEF Reaching
  <2>3. (body \subseteq {head} \cup Reaching(at, head))'
    BY <2>1, <2>2, <1>1, <1>2, LoopOfStays
  <2>4. \A i \in DOMAIN bstack' : bstack'[i] \in body' \ {head'}
    BY <2>1 DEF Start
  <2>5. \A c \in body' \ {head'} : \E i \in DOMAIN bstack' : bstack'[i] = c
    BY <2>1 DEF Start
  <2>6. (head \in Succ(at) \ todo /\ head \in dom[at])'
    BY <2>1, <1>1, <1>2, LoopOfStays DEF IsBackEdge
  <2> QED
    BY <2>1, <2>3, <2>4, <2>5, <2>6 DEF Flooding
<1> QED
  BY <1>1, <1>3, <1>4, <1>6, <1>7

LEMMA FloodStep ==
  ASSUME LoopIInv, Flood
  PROVE  LoopIInv'
<1> USE DEF LoopIInv
<1>1. IInv' /\ pred' = pred /\ dom' = dom
  BY AfterAnalyze DEF Flood, vars
<1> DEFINE b == Last(bstack)
           new == NewPreds(b)
<1>2. bstack \in Seq(Block) /\ bstack # <<>> /\ phase = "flood"
  BY DEF Flood, LoopTypeOK
<1>3. /\ Len(bstack) \in DOMAIN bstack /\ b = bstack[Len(bstack)]
      /\ Front(bstack) \in Seq(Block) /\ Len(Front(bstack)) = Len(bstack) - 1
      /\ \A i \in 1..(Len(bstack) - 1) : Front(bstack)[i] = bstack[i]
  BY <1>2, FrontOf
<1>4. b \in body \ {head} /\ b \in Block /\ b \in Reaching(at, head)
  BY <1>2, <1>3 DEF Flooding, LoopTypeOK
<1>5. new \subseteq Block /\ new \cap body = {} /\ pred[b] \subseteq body \cup new
  BY <1>4 DEF NewPreds, IInv, TypeOK
<1>6. IsFiniteSet(new)
  BY <1>5, BlockFinite, FS_Subset
<1>7. /\ SetToSeq(new) \in Seq(new)
      /\ \A x \in new : \E i \in DOMAIN SetToSeq(new) : SetToSeq(new)[i] = x
  BY <1>6, SetToSeqLists
<1>8. body' = body \cup new /\ bstack' = Front(bstack) \o SetToSeq(new)
  BY DEF Flood
<1> DEFINE F == Front(bstack)
           G == SetToSeq(new)
<1>9. F \in Seq(Block) /\ G \in Seq(Block) /\ Len(F) \in Nat /\ Len(G) \in Nat
  BY <1>3, <1>5, <1>7
<1>10. /\ \A i \in DOMAIN F : F[i] = bstack'[i] /\ i \in DOMAIN bstack'
       /\ \A i \in DOMAIN G : G[i] = bstack'[Len(F) + i] /\ Len(F) + i \in DOMAIN bstack'
       /\ \A i \in DOMAIN bstack' :
            (i \in DOMAIN F /\ bstack'[i] = F[i])
              \/ (i - Len(F) \in DOMAIN G /\ bstack'[i] = G[i - Len(F)])
  <2> HIDE DEF F, G
  <2>1. bstack' = F \o G
    BY <1>8 DEF F, G
  <2> QED
    BY <1>9, <2>1
<1>11. LoopTypeOK'
  <2>1. bstack' \in Seq(Block)
    BY <1>8, <1>9
  <2> QED
    BY <2>1, <1>5, <1>8 DEF Flood, LoopTypeOK
<1>12. InOrder' /\ DepthCounts'
  BY <1>1 DEF Flood, InOrder, DepthCounts, vars, Block
<1>13. SoFar'
  <2>1. \A h \in Block : Flooded(h)' = Flooded(h)
    BY <1>1, LoopOfStays DEF Flooded, Flood
  <2>2. ASSUME NEW h \in Block
        PROVE  LoopOf(h, Flooded(h))' = LoopOf(h, Flooded(h))
    <3>1. Flooded(h) \in SUBSET Block
      BY DEF Flooded, Tails, IInv, TypeOK
    <3> QED
      BY <3>1, <2>1, <1>1, LoopOfStays
  <2>3. (todo \subseteq Succ(at))'
    BY <1>1, LoopOfStays DEF Flood, SoFar, LoopTypeOK
  <2> QED
    BY <2>2, <2>3, Zenon DEF SoFar, Flood
<1>14. Flooding'
  <2>1. (head \in Succ(at) \ todo /\ head \in dom[at] /\ {head, at} \subseteq body)'
    BY <1>1, <1>2, <1>8, LoopOfStays DEF Flood, Flooding, LoopTypeOK
  <2>2. new \subseteq Reaching(at, head)
    <3> SUFFICES ASSUME NEW p \in new, NEW S \in SUBSET Block,
                        at \in S \cup {head},
                        \A c \in S : pred[c] \subseteq S \cup {head}
                 PROVE  p \in S
      BY <1>5 DEF Reaching
    <3>1. b \in S /\ p \in pred[b]
      BY <1>4 DEF Reaching, NewPreds
    <3>2. p # head
      BY <1>5, <1>2 DEF Flooding
    <3> QED
      BY <3>1, <3>2
  <2>3. (body \subseteq {head} \cup Reaching(at, head))'
    <3>1. Reaching(at, head)' = Reaching(at, head)
      BY <1>1, LoopOfStays DEF Flood, LoopTypeOK
    <3> QED
      BY <3>1, <2>2, <1>2, <1>8 DEF Flood, Flooding
  <2>4. \A i \in DOMAIN bstack' : bstack'[i] \in body' \ {head'}
    <3> SUFFICES ASSUME NEW i \in DOMAIN bstack'
                 PROVE  bstack'[i] \in body' \ {head'}
      OBVIOUS
    <3>1. head' = head /\ head \in body
      BY <1>2 DEF Flood, Flooding
    <3>2. CASE i \in DOMAIN F /\ bstack'[i] = F[i]
      <4>1. i \in DOMAIN bstack /\ F[i] = bstack[i]
        BY <3>2, <1>2, <1>3
      <4> QED
        BY <3>1, <3>2, <4>1, <1>2, <1>8 DEF Flooding
    <3>3. CASE i - Len(F) \in DOMAIN G /\ bstack'[i] = G[i - Len(F)]
      <4>1. bstack'[i] \in new
        BY <3>3, <1>7
      <4> QED
        BY <3>1, <4>1, <1>5, <1>8
    <3> QED
      BY <3>2, <3>3, <1>10
  <2>5. ASSUME NEW c \in body' \ {head'}
        PROVE  pred'[c] \subseteq body' \/ \E i \in DOMAIN bstack' : bstack'[i] = c
    <3>1. head' = head
      BY DEF Flood
    <3>2. CASE c \in new
      BY <3>2, <1>7, <1>10
    <3>3. CASE c \in body /\ pred[c] \subseteq body
      BY <3>3, <1>1, <1>8
    <3>4. CASE c \in body /\ \E i \in DOMAIN bstack : bstack[i] = c
      <4>1. PICK i \in DOMAIN bstack : bstack[i] = c
        BY <3>4
      <4>2. CASE i = Len(bstack)
        BY <4>1, <4>2, <1>1, <1>3, <1>5, <1>8
      <4>3. CASE i # Len(bstack)
        BY <4>1, <4>3, <1>2, <1>3, <1>10
      <4> QED
        BY <4>2, <4>3
    <3> QED
      BY <3>1, <3>2, <3>3, <3>4, <1>2, <1>8 DEF Flooding
  <2> QED
    BY <2>1, <2>3, <2>4, <2>5 DEF Flooding
<1> QED
  BY <1>1, <1>11, <1>12, <1>13, <1>14

\* When the stack is empty the set holds the whole loop.
LEMMA FloodIsLoop ==
  ASSUME LoopIInv, phase = "flood", bstack = <<>>
  PROVE  body = {head} \cup Reaching(at, head)
<1> USE DEF LoopIInv
<1>1. at \in (body \ {head}) \cup {head} /\ body \ {head} \in SUBSET Block
  BY DEF Flooding, LoopTypeOK
<1>2. \A c \in body \ {head} : pred[c] \subseteq (body \ {head}) \cup {head}
  BY DEF Flooding
<1>3. Reaching(at, head) \subseteq body \ {head}
  BY <1>1, <1>2 DEF Reaching
<1> QED
  BY <1>3 DEF Flooding

LEMMA EndFloodStep ==
  ASSUME LoopIInv, EndFlood
  PROVE  LoopIInv'
<1> USE DEF LoopIInv
<1>1. IInv' /\ pred' = pred /\ dom' = dom
  BY AfterAnalyze DEF EndFlood, vars
<1>2. LoopTypeOK' /\ InOrder' /\ Flooding' /\ DepthCounts'
  BY DEF EndFlood, LoopTypeOK, InOrder, Flooding, DepthCounts, vars, Block
<1>3. SoFar'
  <2>1. (todo \subseteq Succ(at))'
    BY <1>1, LoopOfStays DEF EndFlood, SoFar, LoopTypeOK
  <2>2. ASSUME NEW h \in Block
        PROVE  blks'[h] = LoopOf(h, Flooded(h))'
    <3>1. Flooded(h) \in SUBSET Block /\ Tails(h) \in SUBSET Block
      BY DEF Flooded, Tails, IInv, TypeOK
    <3>2. h # head => Flooded(h)' = Flooded(h)
      BY <1>1, LoopOfStays DEF Flooded, EndFlood
    <3>3. Flooded(head)' = Flooded(head) \cup {at}
      <4>1. at \in Tails(head) /\ head \notin todo /\ head \in Block
        BY DEF EndFlood, Flooding, Tails, Succ, LoopTypeOK
      <4>2. Tails(head)' = Tails(head)
        BY <1>1, LoopOfStays DEF EndFlood, LoopTypeOK
      <4>3. head' = head /\ at' = at /\ todo' = todo /\ phase = "flood" /\ phase' = "edges"
        BY DEF EndFlood
      <4>4. ASSUME NEW t \in Tails(head)
            PROVE  t \in Flooded(head)' <=> t \in Flooded(head) \cup {at}
        BY <4>1, <4>2, <4>3 DEF Flooded
      <4>5. Flooded(head)' \subseteq Tails(head) /\ Flooded(head) \subseteq Tails(head)
        BY <4>2 DEF Flooded
      <4> QED
        BY <4>1, <4>4, <4>5
    <3>4. CASE h # head
      <4>1. blks'[h] = blks[h] /\ blks[h] = LoopOf(h, Flooded(h))
        BY <3>4 DEF EndFlood, SoFar, LoopTypeOK
      <4> QED
        BY <4>1, <3>1, <3>2, <3>4, <1>1, LoopOfStays
    <3>5. CASE h = head
      <4>1. blks'[h] = LoopOf(h, Flooded(h)) \cup {h} \cup Reaching(at, h)
        BY <3>5, FloodIsLoop DEF EndFlood, SoFar, LoopTypeOK
      <4>2. at \in Block
        BY DEF LoopTypeOK
      <4>3. LoopOf(h, Flooded(h) \cup {at}) = LoopOf(h, Flooded(h)) \cup {h} \cup Reaching(at, h)
        BY DEF LoopOf
      <4>4. LoopOf(h, Flooded(h) \cup {at})' = LoopOf(h, Flooded(h) \cup {at})'
        OBVIOUS
      <4>5. LoopOf(h, Flooded(h))' = LoopOf(h, Flooded(h) \cup {at})
        <5> DEFINE T == Flooded(h) \cup {at}
        <5>1. T \in SUBSET Block
          BY <3>1, <4>2
        <5>2. Flooded(h)' = T
          <6>1. h = head /\ head' = head /\ at' = at /\ todo' = todo
            BY <3>5 DEF EndFlood
          <6>2. Flooded(h)' = Flooded(head)'
            BY <6>1 DEF Flooded, Tails
          <6> QED
            BY <6>1, <6>2, <3>3
        <5> HIDE DEF T
        <5>3. LoopOf(h, Flooded(h))' = LoopOf(h, T)
          BY <5>1, <5>2, <1>1, LoopOfStays
        <5> QED
          BY <5>3 DEF T
      <4> QED
        BY <4>1, <4>3, <4>5
    <3> QED
      BY <3>4, <3>5
  <2> QED
    BY <2>1, <2>2 DEF SoFar, EndFlood
<1> QED
  BY <1>1, <1>2, <1>3

LEMMA NextBlockStep ==
  ASSUME LoopIInv, NextBlock
  PROVE  LoopIInv'
<1> USE DEF LoopIInv
<1>1. IInv' /\ pred' = pred /\ dom' = dom
  BY AfterAnalyze DEF NextBlock, vars
<1>2. blks' = blks /\ depth' = depth /\ done' = done /\ phase = "edges" /\ todo = {}
  BY DEF NextBlock, vars
<1>3. IF at < N THEN at' = at + 1 /\ todo' = Succ(at + 1) /\ phase' = "edges"
      ELSE at' = 1 /\ phase' = "depth" /\ todo' = {}
  BY DEF NextBlock
<1>4. at \in 1..N /\ N \in Nat /\ 1 \in Block
  BY NAssumption DEF LoopTypeOK, Block
<1>5. at' \in Block /\ (at < N => at + 1 \in Block)
  BY <1>3, <1>4 DEF Block
<1>6. LoopTypeOK'
  BY <1>2, <1>3, <1>5 DEF LoopTypeOK, NextBlock, Succ
<1>7. InOrder' /\ Flooding'
  BY <1>2, <1>3 DEF InOrder, Flooding
<1>8. DepthCounts'
  <2>1. CASE at < N
    BY <2>1, <1>2, <1>3 DEF DepthCounts, Block
  <2>2. CASE ~(at < N)
    <3>1. phase' = "depth" /\ at' = 1
      BY <2>2, <1>3
    <3>2. \A b \in Block : depth'[b] = 0
      BY <1>2 DEF DepthCounts
    <3>3. \A b \in Block : LoopsAround(b, at)' = {}
      BY <3>1 DEF LoopsAround, Block
    <3> QED
      BY <3>1, <3>2, <3>3, FS_EmptySet DEF DepthCounts, Block
  <2> QED
    BY <2>1, <2>2
<1>9. SoFar'
  <2>1. \A h \in Block : \A t \in Tails(h) : t \in 1..N /\ h \in Succ(t)
    BY DEF Tails, Succ, Block, IInv, TypeOK
  <2>2. CASE at < N
    <3>1. at' = at + 1 /\ todo' = Succ(at + 1) /\ phase' = "edges"
      BY <2>2, <1>3
    <3>2. (todo \subseteq Succ(at))'
      BY <3>1, <1>1, <1>5, <2>2, LoopOfStays
    <3>3. ASSUME NEW h \in Block
          PROVE  Flooded(h)' = Flooded(h)
      <4>1. Tails(h)' = Tails(h)
        BY <1>1, LoopOfStays
      <4>2. \A t \in Tails(h) : (t < at + 1 \/ (t = at + 1 /\ h \notin Succ(at + 1)))
                                <=> (t < at \/ (t = at /\ h \notin {}))
        BY <2>1, <1>4
      <4> QED
        BY <4>1, <4>2, <3>1, <1>2 DEF Flooded
    <3>4. ASSUME NEW h \in Block
          PROVE  LoopOf(h, Flooded(h))' = LoopOf(h, Flooded(h))
      <4>1. Flooded(h) \in SUBSET Block
        BY DEF Flooded, Tails, IInv, TypeOK
      <4> QED
        BY <4>1, <3>3, <1>1, LoopOfStays
    <3> QED
      BY <3>1, <3>2, <3>4, <1>2, Zenon DEF SoFar
  <2>3. CASE ~(at < N)
    <3>1. phase' = "depth"
      BY <2>3, <1>3
    <3>2. ASSUME NEW h \in Block
          PROVE  Flooded(h) = Tails(h)
      BY <2>1, <2>3, <1>2, <1>4 DEF Flooded
    <3>3. \A h \in Block : blks'[h] = NaturalLoop(h)
      BY <3>2, <1>2 DEF SoFar, NaturalLoop
    <3> QED
      BY <3>1, <3>3, <1>1, LoopOfStays DEF SoFar, Block
  <2> QED
    BY <2>2, <2>3
<1> QED
  BY <1>1, <1>6, <1>7, <1>8, <1>9

\* One more head is one more level for the blocks of its loop.
LEMMA OneDeeper ==
  ASSUME LoopTypeOK, NEW b \in Block
  PROVE  /\ IsFiniteSet(LoopsAround(b, at))
         /\ Cardinality(LoopsAround(b, at)) \in Nat
         /\ Cardinality(LoopsAround(b, at + 1)) =
              Cardinality(LoopsAround(b, at)) + (IF b \in blks[at] THEN 1 ELSE 0)
<1> DEFINE L == LoopsAround(b, at)
           M == LoopsAround(b, at + 1)
<1>1. L \subseteq Block /\ at \notin L
  BY DEF LoopsAround, Block, LoopTypeOK
<1>2. IsFiniteSet(L) /\ Cardinality(L) \in Nat
  BY <1>1, BlockFinite, FS_Subset, FS_CardinalityType
<1>3. M = IF b \in blks[at] THEN L \cup {at} ELSE L
  BY NAssumption DEF LoopsAround, Block, LoopTypeOK
<1> HIDE DEF L, M
<1>4. Cardinality(L \cup {at}) = Cardinality(L) + 1
  BY <1>1, <1>2, FS_AddElement
<1> QED
  BY <1>2, <1>3, <1>4 DEF L, M

LEMMA DepthStep ==
  ASSUME LoopIInv, Depth
  PROVE  LoopIInv'
<1> USE DEF LoopIInv
<1>1. IInv' /\ pred' = pred /\ dom' = dom
  BY AfterAnalyze DEF Depth, vars
<1>2. blks' = blks /\ done' = done /\ todo' = todo /\ phase = "depth"
  BY DEF Depth, vars
<1>3. IF at < N THEN at' = at + 1 /\ phase' = "depth"
      ELSE at' = at /\ phase' = "done"
  BY DEF Depth
<1>4. at \in 1..N /\ N \in Nat
  BY NAssumption DEF LoopTypeOK, Block
<1>5. \A b \in Block :
        depth'[b] = Cardinality(LoopsAround(b, at)) + (IF b \in blks[at] THEN 1 ELSE 0)
  <2> SUFFICES ASSUME NEW b \in Block
               PROVE  depth'[b] = Cardinality(LoopsAround(b, at))
                                    + (IF b \in blks[at] THEN 1 ELSE 0)
    OBVIOUS
  <2>1. depth[b] = Cardinality(LoopsAround(b, at)) /\ depth[b] \in Nat
    BY <1>2 DEF DepthCounts, LoopTypeOK
  <2>2. depth'[b] = IF b \in blks[at] THEN depth[b] + 1 ELSE depth[b]
    BY DEF Depth, Deeper
  <2> QED
    BY <2>1, <2>2
<1>6. \A b \in Block : depth'[b] = Cardinality(LoopsAround(b, at + 1))
  BY <1>5, OneDeeper
<1>7. LoopTypeOK'
  <2>1. depth' \in [Block -> Nat]
    BY DEF Depth, Deeper, LoopTypeOK
  <2>2. at' \in Block
    BY <1>3, <1>4 DEF Block
  <2> QED
    BY <2>1, <2>2, <1>3 DEF LoopTypeOK, Depth
<1>8. InOrder' /\ Flooding'
  BY <1>2, <1>3 DEF InOrder, Flooding
<1>9. DepthCounts'
  <2>1. CASE at < N
    <3>1. \A b \in Block : LoopsAround(b, at)' = LoopsAround(b, at + 1)
      BY <2>1, <1>2, <1>3 DEF LoopsAround, Block
    <3> QED
      BY <2>1, <3>1, <1>3, <1>6 DEF DepthCounts, Block
  <2>2. CASE ~(at < N)
    <3>1. at = N
      BY <2>2, <1>4
    <3>2. \A b \in Block : LoopsAround(b, N + 1)' = LoopsAround(b, at + 1)
      BY <3>1, <1>2 DEF LoopsAround, Block
    <3> QED
      BY <2>2, <3>2, <1>3, <1>6 DEF DepthCounts, Block
  <2> QED
    BY <2>1, <2>2
<1>10. SoFar'
  <2>1. phase' \in {"depth", "done"}
    BY <1>3
  <2>2. \A h \in Block : blks'[h] = NaturalLoop(h)'
    BY <1>1, <1>2, LoopOfStays DEF SoFar
  <2> QED
    BY <2>1, <2>2 DEF SoFar, Block
<1> QED
  BY <1>1, <1>7, <1>8, <1>9, <1>10

LEMMA LoopStutter ==
  ASSUME LoopIInv, UNCHANGED allVars
  PROVE  LoopIInv'
<1> USE DEF LoopIInv
<1>1. UNCHANGED vars /\ UNCHANGED loopVars
  BY DEF allVars
<1>2. IInv' /\ pred' = pred /\ dom' = dom /\ done' = done
  BY <1>1, AfterAnalyze DEF vars
<1>3. /\ blks' = blks /\ depth' = depth /\ phase' = phase /\ at' = at
      /\ todo' = todo /\ head' = head /\ body' = body /\ bstack' = bstack
  BY <1>1 DEF loopVars
<1>4. LoopTypeOK' /\ InOrder' /\ DepthCounts'
  BY <1>2, <1>3 DEF LoopTypeOK, InOrder, DepthCounts, LoopsAround, Succ, Block
<1>5. \A h \in Block : LoopOf(h, Flooded(h))' = LoopOf(h, Flooded(h))
  <2> SUFFICES ASSUME NEW h \in Block
               PROVE  LoopOf(h, Flooded(h))' = LoopOf(h, Flooded(h))
    OBVIOUS
  <2>1. Flooded(h)' = Flooded(h) /\ Flooded(h) \in SUBSET Block
    BY <1>2, <1>3, LoopOfStays DEF Flooded, Tails, IInv, TypeOK
  <2> QED
    BY <2>1, <1>2, LoopOfStays
<1>6. Succ(at)' = Succ(at) /\ \A h \in Block : NaturalLoop(h)' = NaturalLoop(h)
  BY <1>2, <1>3, LoopOfStays DEF LoopTypeOK
<1>7. SoFar'
  BY <1>3, <1>5, <1>6, Zenon DEF SoFar
<1>8. Flooding'
  <2>1. Reaching(at, head)' = Reaching(at, head)
    BY <1>2, <1>3, LoopOfStays DEF LoopTypeOK
  <2> QED
    BY <2>1, <1>2, <1>3, <1>6 DEF Flooding
<1> QED
  BY <1>2, <1>4, <1>7, <1>8

\* The invariant of the whole pass.
THEOREM LoopInvariant == LoopSpec => []LoopIInv
<1>1. LoopIInv /\ [LoopNext]_allVars => LoopIInv'
  BY AnalyzeStep, EdgeStep, FloodStep, EndFloodStep, NextBlockStep, DepthStep,
     LoopStutter DEF LoopNext
<1> QED
  BY <1>1, InitLoopIInv, PTL DEF LoopSpec

\* When loop_analyze() is done, what a head has is the natural loop: every block
\* that comes to a tail without passing through the head, and no other.
THEOREM LoopsFound == LoopSpec => []LoopBodies
<1>1. LoopIInv => LoopBodies
  BY DEF LoopIInv, LoopTypeOK, SoFar, LoopBodies
<1> QED
  BY <1>1, LoopInvariant, PTL

-----------------------------------------------------------------------------
\* How loops lie in each other.

\* The blocks behind a, but a itself.
Behind(a) == {c \in Block : a \in dom[c] /\ c # a}

\* Control comes to a block behind a only from a and from other such blocks.
LEMMA ComesFromBehind ==
  ASSUME IInv, done, NEW a \in Block, NEW c \in Behind(a)
  PROVE  pred[c] # {} /\ \A p \in pred[c] : p = a \/ p \in Behind(a)
BY SolvedIsFence DEF Fence, Behind

\* Two blocks that can be reached do not dominate each other.
LEMMA Antisymmetric ==
  ASSUME IInv, done, NEW g \in Block, NEW h \in Reachable,
         h \in dom[g], g \in dom[h]
  PROVE  g = h
<1> SUFFICES ASSUME g # h PROVE FALSE
  OBVIOUS
<1> DEFINE F == Behind(g) \cup Behind(h)
<1>1. h \in Block /\ F \in SUBSET Block
  BY DEF Behind, Reachable, Reached
<1>2. h \in Behind(g) /\ g \in Behind(h)
  BY <1>1 DEF Behind
<1>3. ASSUME NEW c \in F
      PROVE  pred[c] # {} /\ pred[c] \subseteq F
  <2>1. CASE c \in Behind(g)
    BY <1>2, <2>1, ComesFromBehind
  <2>2. CASE c \in Behind(h)
    BY <1>1, <1>2, <2>2, ComesFromBehind
  <2> QED
    BY <2>1, <2>2
<1> HIDE DEF F
<1>4. F \cap Reachable = {}
  BY <1>1, <1>3, Unreached DEF IInv
<1> QED
  BY <1>2, <1>4 DEF F

\* Of two dominators of a block that can be reached one dominates the other.
LEMMA Linear ==
  ASSUME IInv, done, NEW x \in Reachable, NEW g \in dom[x], NEW h \in dom[x]
  PROVE  g \in dom[h] \/ h \in dom[g]
<1>1. x \in Block /\ g \in Block /\ h \in Block
  BY DEF Reachable, Reached, IInv, TypeOK
<1> SUFFICES ASSUME g \notin dom[h], h \notin dom[g] PROVE FALSE
  OBVIOUS
<1> DEFINE F == Behind(g) \cap Behind(h)
<1>2. F \in SUBSET Block /\ x \in F
  BY <1>1 DEF Behind
<1>3. g # h /\ g \notin Behind(h) /\ h \notin Behind(g)
  BY <1>1, OwnDominator DEF Behind, IInv
<1>4. ASSUME NEW c \in F
      PROVE  pred[c] # {} /\ pred[c] \subseteq F
  BY <1>1, <1>3, ComesFromBehind
<1> HIDE DEF F
<1>5. F \cap Reachable = {}
  BY <1>2, <1>4, Unreached DEF IInv
<1> QED
  BY <1>2, <1>5

\* What can be reached of a loop: its head and tails, and so all of it; and the
\* head dominates the whole loop.
LEMMA HeadDominates ==
  ASSUME IInv, done, NEW h \in Block, NEW t \in Tails(h)
  PROVE  /\ h \in Reachable
         /\ \A x \in Reaching(t, h) : x \in Behind(h) /\ x \in Reachable
<1>1. t \in Block /\ t \in pred[h] /\ h \in dom[t]
  BY DEF Tails, IInv, TypeOK
<1>2. h \in Reachable
  BY <1>1 DEF IInv, Clean, Isolated
<1>3. t \in Reachable
  BY <1>1, <1>2, ReachedFrom DEF IInv
<1>4. \A c \in Reachable : pred[c] \subseteq Reachable \cup {h}
  BY ReachedFrom DEF IInv
<1>5. Reachable \in SUBSET Block /\ Behind(h) \in SUBSET Block
  BY DEF Reachable, Reached, Behind
<1>6. \A c \in Behind(h) : pred[c] \subseteq Behind(h) \cup {h}
  BY ComesFromBehind
<1>7. t \in Behind(h) \cup {h}
  BY <1>1 DEF Behind
<1> QED
  BY <1>2, <1>3, <1>4, <1>5, <1>6, <1>7 DEF Reaching

\* If a loop holds a block behind g, and g is behind the loop's head, the loop
\* holds g: control comes to the block through g.
LEMMA HoldsTheInnerHead ==
  ASSUME IInv, done, NEW h \in Block, NEW t \in Tails(h), NEW g \in Block,
         g # h, h \in dom[g], NEW x \in Reaching(t, h), g \in dom[x]
  PROVE  g \in Reaching(t, h)
<1> SUFFICES ASSUME NEW S \in SUBSET Block, t \in S \cup {h},
                    \A c \in S : pred[c] \subseteq S \cup {h},
                    g \notin S
             PROVE  FALSE
  BY DEF Reaching
<1>1. x \in S /\ x \in Reachable /\ h \in Reachable
  BY HeadDominates DEF Reaching
<1>2. g \notin dom[h]
  BY <1>1, Antisymmetric
<1> DEFINE F == S \cap Behind(g)
<1>3. F \in SUBSET Block /\ x \in F
  BY <1>1 DEF Behind
<1>4. h \notin Behind(g)
  BY <1>2 DEF Behind
<1>5. ASSUME NEW c \in F
      PROVE  pred[c] # {} /\ pred[c] \subseteq F
  BY <1>4, ComesFromBehind
<1> HIDE DEF F
<1>6. F \cap Reachable = {}
  BY <1>3, <1>5, Unreached DEF IInv
<1> QED
  BY <1>1, <1>3, <1>6

\* And then it holds the loop of g.
LEMMA HoldsTheInnerLoop ==
  ASSUME IInv, done, NEW h \in Block, NEW t \in Tails(h), NEW g \in Block,
         g # h, h \in dom[g], g \in Reaching(t, h), NEW u \in Tails(g)
  PROVE  Reaching(u, g) \subseteq Reaching(t, h)
<1> SUFFICES ASSUME NEW y \in Reaching(u, g), NEW S \in SUBSET Block,
                    t \in S \cup {h},
                    \A c \in S : pred[c] \subseteq S \cup {h}
             PROVE  y \in S
  BY DEF Reaching
<1>1. h \in Reachable /\ g \in S
  BY HeadDominates DEF Reaching
<1>2. g \notin dom[h]
  BY <1>1, Antisymmetric
<1>3. h \notin Behind(g)
  BY <1>2 DEF Behind
<1> DEFINE C == S \cap Behind(g)
<1>4. u \in C \cup {g}
  <2>1. u \in pred[g] /\ g \in dom[u] /\ u \in Block
    BY DEF Tails, IInv, TypeOK
  <2>2. u \in S
    BY <1>1, <1>2, <2>1
  <2> QED
    BY <2>1, <2>2 DEF Behind
<1>5. \A c \in C : pred[c] \subseteq C \cup {g}
  BY <1>3, ComesFromBehind
<1>6. C \in SUBSET Block
  OBVIOUS
<1> HIDE DEF C
<1>7. y \in C
  BY <1>4, <1>5, <1>6 DEF Reaching
<1> QED
  BY <1>7 DEF C

\* A loop that shares a block with the loop of a head its own head is behind
\* lies inside that.
LEMMA Nested ==
  ASSUME IInv, done, NEW h \in Block, NEW g \in Block, g # h, h \in dom[g],
         NaturalLoop(h) \cap NaturalLoop(g) # {}
  PROVE  /\ g \in NaturalLoop(h) /\ g \in NaturalLoop(g)
         /\ NaturalLoop(g) \subseteq NaturalLoop(h)
         /\ h \notin NaturalLoop(g)
<1>1. Tails(h) # {} /\ Tails(g) # {}
  BY DEF NaturalLoop, LoopOf
<1>2. /\ NaturalLoop(h) = {h} \cup UNION {Reaching(t, h) : t \in Tails(h)}
      /\ NaturalLoop(g) = {g} \cup UNION {Reaching(t, g) : t \in Tails(g)}
  BY <1>1 DEF NaturalLoop, LoopOf
<1>3. h \in Reachable /\ g \notin dom[h]
  BY <1>1, HeadDominates, Antisymmetric
<1>4. \A x \in NaturalLoop(g) : g \in dom[x]
  BY <1>2, HeadDominates, OwnDominator DEF Behind, IInv
<1>5. PICK x \in NaturalLoop(h) : x \in NaturalLoop(g)
  OBVIOUS
<1>6. x # h
  BY <1>3, <1>4, <1>5
<1>7. PICK t \in Tails(h) : x \in Reaching(t, h)
  BY <1>2, <1>5, <1>6
<1>8. g \in Reaching(t, h)
  BY <1>4, <1>5, <1>7, HoldsTheInnerHead
<1>9. \A u \in Tails(g) : Reaching(u, g) \subseteq Reaching(t, h)
  BY <1>8, HoldsTheInnerLoop
<1>10. NaturalLoop(g) \subseteq Reaching(t, h)
  BY <1>2, <1>8, <1>9
<1>11. h \notin NaturalLoop(g)
  BY <1>3, <1>4
<1> QED
  BY <1>2, <1>8, <1>10, <1>11

\* All loops around the outer head are around the inner one, and its own is one
\* more.
LEMMA InnerCountsMore ==
  ASSUME LoopIInv, phase = "done", NEW h \in Block, NEW g \in Block,
         g # h, h \in dom[g], blks[h] \cap blks[g] # {}
  PROVE  g \in blks[h] /\ blks[g] \subseteq blks[h] /\ depth[g] > depth[h]
<1> USE DEF LoopIInv
<1>1. done /\ \A k \in Block : blks[k] = NaturalLoop(k)
  BY DEF InOrder, SoFar
<1>2. /\ g \in NaturalLoop(h) /\ g \in NaturalLoop(g)
      /\ NaturalLoop(g) \subseteq NaturalLoop(h) /\ h \notin NaturalLoop(g)
  BY <1>1, Nested
<1> DEFINE L(b) == LoopsAround(b, N + 1)
<1>3. \A b, k \in Block : k \in L(b) <=> b \in NaturalLoop(k)
  BY <1>1, NAssumption DEF LoopsAround, Block
<1>4. ASSUME NEW k \in Block, h \in NaturalLoop(k)
      PROVE  g \in NaturalLoop(k)
  <2>1. CASE k = h
    BY <2>1, <1>2
  <2>2. CASE k # h
    <3>1. k \in dom[h]
      BY <1>1, <1>4, <2>2, HeadDominates DEF NaturalLoop, LoopOf, Behind
    <3>2. h \in NaturalLoop(h)
      BY <1>2 DEF NaturalLoop, LoopOf
    <3>3. NaturalLoop(h) \subseteq NaturalLoop(k)
      BY <1>1, <1>4, <2>2, <3>1, <3>2, Nested
    <3> QED
      BY <1>2, <3>3
  <2> QED
    BY <2>1, <2>2
<1>5. L(g) \subseteq Block /\ L(h) \subseteq Block
  BY DEF LoopsAround
<1>6. L(h) \subseteq L(g) /\ g \in L(g) /\ g \notin L(h)
  BY <1>2, <1>3, <1>4, <1>5
<1> HIDE DEF L
<1>7. IsFiniteSet(L(g)) /\ IsFiniteSet(L(h))
  BY <1>5, BlockFinite, FS_Subset
<1>8. /\ Cardinality(L(h)) \in Nat /\ Cardinality(L(g)) \in Nat
      /\ Cardinality(L(h)) <= Cardinality(L(g))
      /\ Cardinality(L(h)) # Cardinality(L(g))
  BY <1>6, <1>7, FS_Subset, FS_CardinalityType
<1>9. depth[g] = Cardinality(L(g)) /\ depth[h] = Cardinality(L(h))
  BY DEF DepthCounts, L
<1> QED
  BY <1>1, <1>2, <1>8, <1>9

\* Two loops that share a block lie one in the other, and the inner one's head is
\* deeper, so the order by depth does the inner loops first.
THEOREM LoopsNested == LoopSpec => []InnerIsDeeper
<1>1. LoopIInv => InnerIsDeeper
  <2> SUFFICES ASSUME LoopIInv, phase = "done", NEW h \in Block, NEW g \in Block,
                      h # g, blks[h] \cap blks[g] # {}
               PROVE  \/ g \in blks[h] /\ blks[g] \subseteq blks[h] /\ depth[g] > depth[h]
                      \/ h \in blks[g] /\ blks[h] \subseteq blks[g] /\ depth[h] > depth[g]
    BY DEF InnerIsDeeper
  <2>1. IInv /\ done /\ \A k \in Block : blks[k] = NaturalLoop(k)
    BY DEF LoopIInv, InOrder, SoFar
  <2>2. \A k \in Block : \A x \in NaturalLoop(k) : x \in Reachable /\ k \in dom[x]
    BY <2>1, HeadDominates, OwnDominator DEF NaturalLoop, LoopOf, Behind, IInv
  <2>3. h \in dom[g] \/ g \in dom[h]
    BY <2>1, <2>2, Linear
  <2> QED
    BY <2>3, InnerCountsMore
<1> QED
  BY <1>1, LoopInvariant, PTL
=============================================================================

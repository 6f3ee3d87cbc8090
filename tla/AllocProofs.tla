----------------------------- MODULE AllocProofs -----------------------------
(***************************************************************************)
(* Proofs about Alloc and the Graph it hands over. First color(): for      *)
(* every interference graph, of any size, with any classes and any         *)
(* colours, it never gives one machine register to two registers that      *)
(* interfere, and its half edges always match. Then graph_alloc() before   *)
(* it: the list of nodes stays in order, the graph is that of the merged   *)
(* registers, a merge that passes the test of early0() keeps a graph       *)
(* simple, and color() begins in one of its initial states.                *)
(*                                                                         *)
(* The second part has the list and one half edge at a time, then what     *)
(* merging two registers makes of the interference, and at last one lemma  *)
(* per action.                                                             *)
(***************************************************************************)
EXTENDS Alloc, SequenceTheorems, FiniteSetTheorems, TLAPS

-----------------------------------------------------------------------------
\* The colouring.

\* None is not a register, so a node without a colour is a pseudo register.
LEMMA UncoloredIsPseudo ==
  ASSUME TypeOK, Placed, NEW n \in Uncolored
  PROVE  n \in Pseudo /\ n \in graph /\ n \in Node /\ ~OnStack(n) /\ color[n] = None
BY NodesAssumption DEF TypeOK, Placed, Uncolored, Node

\* The graph interf0() hands over, before anything is disconnected.
LEMMA InitIInv == Init => IInv
<1> SUFFICES ASSUME Init PROVE IInv
  OBVIOUS
<1>1. PICK S \in SUBSET Pairs :
        E = [n \in Node |-> {m \in Node \ {n} : {n, m} \in S}]
  BY DEF Init
<1>2. EdgesOK
  <2>1. ASSUME NEW n \in Node PROVE n \notin E[n]
    BY <1>1
  <2>2. ASSUME NEW n \in Node, NEW m \in Node, m \in E[n]
        PROVE  n \in E[m] /\ Class[m] = Class[n]
    <3>1. {n, m} \in S /\ m # n
      BY <1>1, <2>2
    <3>2. {m, n} \in S
      <4>1. {m, n} = {n, m}
        OBVIOUS
      <4> QED BY <3>1, <4>1
    <3>3. PICK p \in Node \X Node :
            p[1] # p[2] /\ Class[p[1]] = Class[p[2]] /\ {n, m} = {p[1], p[2]}
      BY <3>1 DEF Pairs
    <3>4. (p[1] = n /\ p[2] = m) \/ (p[1] = m /\ p[2] = n)
      BY <3>1, <3>3
    <3> QED
      BY <1>1, <3>1, <3>2, <3>3, <3>4
  <2> QED BY <2>1, <2>2 DEF EdgesOK
<1>3. TypeOK
  <2>1. E \in [Node -> SUBSET Node]
    BY <1>1
  <2>2. color \in [Node -> Phys \cup {None}]
    BY DEF Init, Node
  <2>3. stack \in Seq(Pseudo)
    BY DEF Init
  <2> QED BY <2>1, <2>2, <2>3 DEF Init, TypeOK
<1>4. Placed
  <2>1. \A n \in Node : E[n] # {} => n \in graph
    BY DEF Init
  <2>2. \A i \in 1..Len(stack) : FALSE
    BY DEF Init
  <2>3. \A p \in Phys : color[p] = p
    BY NodesAssumption DEF Init, Node
  <2> QED BY <2>1, <2>2, <2>3 DEF Placed, OnStack
<1>5. HalfEdges
  <2>1. ASSUME NEW n \in graph PROVE adj[n] = E[n] \cap graph
    <3>1. n \in Node /\ adj[n] = E[n] /\ E[n] \subseteq Node
      BY <1>3 DEF Init, TypeOK
    <3>2. \A m \in E[n] : E[m] # {}
      BY <1>2, <3>1 DEF EdgesOK
    <3>3. \A m \in Node : E[m] # {} => m \in graph
      BY DEF Init
    <3> QED BY <3>1, <3>2, <3>3
  <2>2. \A i \in 1..Len(stack) : FALSE
    BY DEF Init
  <2> QED BY <2>1, <2>2 DEF HalfEdges
<1>6. Proper
  BY <1>2, <1>3, NodesAssumption DEF Init, Proper, EdgesOK, TypeOK, Node
<1>7. Allowed
  BY NodesAssumption DEF Init, Allowed, Node
<1> QED
  BY <1>2, <1>3, <1>4, <1>5, <1>6, <1>7 DEF IInv

\* Disconnecting an uncoloured node: its neighbours lose their half edges to
\* it, and it keeps its own, which lead to what is left of the graph.
LEMMA DisconnectIInv ==
  ASSUME IInv, NEW n \in Uncolored, Disconnect(n), UNCHANGED <<E, cost, color, phase>>
  PROVE  IInv'
<1> USE DEF IInv
<1>1. n \in Pseudo /\ n \in graph /\ n \in Node /\ ~OnStack(n) /\ color[n] = None
  BY UncoloredIsPseudo
<1>2. /\ stack' \in Seq(Pseudo)
      /\ Len(stack') = Len(stack) + 1
      /\ Len(stack) \in Nat
      /\ \A i \in 1..Len(stack) : stack'[i] = stack[i]
      /\ stack'[Len(stack) + 1] = n
      /\ \A i \in 1..Len(stack) : stack[i] \in Pseudo
  BY <1>1, AppendProperties, LenProperties, ElementOfSeq DEF Disconnect, TypeOK
<1>3. TypeOK'
  BY <1>1, <1>2 DEF TypeOK, Disconnect
<1>4. EdgesOK'
  BY DEF EdgesOK
<1>5. OnStack(n)' /\ \A m \in Node \ {n} : OnStack(m)' <=> OnStack(m)
  BY <1>2 DEF OnStack
<1>6. Placed'
  <2>1. /\ \A m \in graph' : ~OnStack(m)'
        /\ \A m \in Node : E'[m] # {} => m \in graph' \/ OnStack(m)'
    BY <1>1, <1>5 DEF Placed, Disconnect, TypeOK
  <2>2. ASSUME NEW i \in 1..Len(stack'), NEW j \in 1..Len(stack'), stack'[i] = stack'[j]
        PROVE  i = j
    BY <1>1, <1>2, <2>2 DEF Placed, OnStack
  <2>3. ASSUME NEW i \in 1..Len(stack') PROVE color[stack'[i]] = None
    BY <1>1, <1>2 DEF Placed
  <2> QED
    BY <2>1, <2>2, <2>3 DEF Placed
<1>7. HalfEdges'
  <2>1. \A m \in Node : adj'[m] = IF m \in adj[n] THEN adj[m] \ {n} ELSE adj[m]
    BY DEF Disconnect
  <2>2. adj[n] = E[n] \cap graph /\ n \notin E[n]
    BY <1>1 DEF HalfEdges, EdgesOK
  <2>3. graph' = graph \ {n}
    BY DEF Disconnect
  <2>4. ASSUME NEW m \in graph' PROVE adj'[m] = E'[m] \cap graph'
    <3>1. m \in graph /\ m \in Node /\ m # n
      BY <2>3, <2>4 DEF TypeOK
    <3>2. adj[m] = E[m] \cap graph
      BY <3>1 DEF HalfEdges
    <3>3. m \notin adj[n] => n \notin E[m]
      BY <1>1, <2>2, <3>1 DEF EdgesOK
    <3> QED BY <2>1, <2>3, <3>1, <3>2, <3>3
  <2>5. ASSUME NEW i \in 1..Len(stack')
        PROVE  adj'[stack'[i]] =
                 {m \in E'[stack'[i]] :
                    m \in graph' \/ \E j \in (i+1)..Len(stack') : stack'[j] = m}
    <3>1. CASE i = Len(stack) + 1
      <4>1. stack'[i] = n /\ (i+1)..Len(stack') = {}
        BY <1>2, <3>1
      <4>2. adj'[n] = E[n] \cap graph'
        BY <1>1, <2>1, <2>2, <2>3
      <4> QED BY <4>1, <4>2
    <3>2. CASE i \in 1..Len(stack)
      <4> DEFINE x == stack[i]
      <4>1. x \in Node /\ x \notin graph /\ stack'[i] = x
        BY <1>2, <3>2 DEF Placed, OnStack, Node
      <4>2. adj'[x] = adj[x]
        BY <2>1, <2>2, <4>1
      <4>3. adj[x] = {m \in E[x] :
                        m \in graph \/ \E j \in (i+1)..Len(stack) : stack[j] = m}
        BY <3>2 DEF HalfEdges
      <4>4. ASSUME NEW m \in E[x]
            PROVE  (m \in graph \/ \E j \in (i+1)..Len(stack) : stack[j] = m) <=>
                   (m \in graph' \/ \E j \in (i+1)..Len(stack') : stack'[j] = m)
        <5>1. (\E j \in (i+1)..Len(stack') : stack'[j] = m) <=>
              (m = n \/ \E j \in (i+1)..Len(stack) : stack[j] = m)
          BY <1>2, <3>2
        <5> QED BY <1>1, <2>3, <5>1
      <4> QED BY <4>1, <4>2, <4>3, <4>4
    <3> QED BY <1>2, <3>1, <3>2
  <2> QED BY <2>4, <2>5 DEF HalfEdges
<1>8. Proper' /\ Allowed'
  BY DEF Proper, Allowed, ColorsOf
<1> QED
  BY <1>3, <1>4, <1>6, <1>7, <1>8

\* What the top of the stack looks like when it is popped: all its neighbours
\* that can have a colour are in the graph, and its half edges lead to them.
LEMMA TopFacts ==
  ASSUME IInv, stack # <<>>
  PROVE  /\ Len(stack) \in Nat \ {0}
         /\ Top \in Pseudo /\ Top \in Node /\ Top \notin graph
         /\ color[Top] = None
         /\ adj[Top] = E[Top] \cap graph
         /\ \A m \in Node \ graph : E[m] # {} => color[m] = None
<1> USE DEF IInv
<1>1. Len(stack) \in Nat \ {0} /\ Len(stack) \in 1..Len(stack)
  BY EmptySeq, LenProperties DEF TypeOK
<1>2. Top \in Pseudo /\ Top \in Node
  BY <1>1, ElementOfSeq DEF TypeOK, Top, Node
<1>3. Top \notin graph /\ color[Top] = None
  BY <1>1, <1>2 DEF Placed, OnStack, Top
<1>4. adj[Top] = E[Top] \cap graph
  <2>1. (Len(stack)+1)..Len(stack) = {}
    BY <1>1
  <2>2. adj[Top] = {m \in E[Top] :
           m \in graph \/ \E j \in (Len(stack)+1)..Len(stack) : stack[j] = m}
    BY <1>1 DEF HalfEdges, Top
  <2> QED BY <2>1, <2>2
<1>5. \A m \in Node \ graph : E[m] # {} => color[m] = None
  BY DEF Placed, OnStack
<1> QED BY <1>1, <1>2, <1>3, <1>4, <1>5

\* Popping a node: its neighbours get their half edges back, and its colour is
\* none of theirs.
LEMMA PopIInv == IInv /\ Pop => IInv'
<1> SUFFICES ASSUME IInv, Pop PROVE IInv'
  OBVIOUS
<1> USE DEF IInv
<1>0. PICK n : n = Top
  OBVIOUS
<1> DEFINE L == Len(stack) - 1
<1>1. stack # <<>> /\ UNCHANGED <<E, cost, phase>> /\ graph' = graph \cup {n}
  BY <1>0 DEF Pop
<1>2. /\ L \in Nat /\ Len(stack) = L + 1
      /\ n \in Pseudo /\ n \in Node /\ n \notin graph
      /\ color[n] = None
      /\ adj[n] = E[n] \cap graph
      /\ \A m \in Node \ graph : E[m] # {} => color[m] = None
      /\ stack[L + 1] = n
  BY <1>0, <1>1, TopFacts DEF Top
<1>3. /\ stack' \in Seq(Pseudo)
      /\ Len(stack') = L
      /\ \A i \in 1..L : stack'[i] = stack[i]
      /\ \A i \in 1..L : stack[i] \in Pseudo
  <2>1. stack' = SubSeq(stack, 1, L)
    BY DEF Pop
  <2>2. \A i \in 1..L : stack[i] \in Pseudo
    BY <1>2, ElementOfSeq DEF TypeOK
  <2>3. /\ SubSeq(stack, 1, L) \in Seq(Pseudo)
        /\ Len(SubSeq(stack, 1, L)) = IF 1 <= L THEN L - 1 + 1 ELSE 0
        /\ \A i \in 1..(L - 1 + 1) : SubSeq(stack, 1, L)[i] = stack[1 + i - 1]
    <3>1. 1 \in Int /\ L \in Int
      BY <1>2
    <3> HIDE DEF L
    <3> QED BY <2>2, <3>1, SubSeqProperties
  <2> HIDE DEF L
  <2> QED BY <1>2, <2>1, <2>2, <2>3
<1>4. \A m \in Node : adj'[m] = IF m \in adj[n] THEN adj[m] \cup {n} ELSE adj[m]
  BY <1>0 DEF Pop
<1>5. \/ color' = color
      \/ \E c \in ColorsOf(n) \ Used(n) : color' = [color EXCEPT ![n] = c]
  BY <1>0 DEF Pop
<1> HIDE DEF L
<1>6. TypeOK'
  <2>1. adj' \in [Node -> SUBSET Node]
    BY <1>0, <1>2 DEF Pop, TypeOK
  <2>2. color' \in [Node -> Phys \cup {None}]
    BY <1>2, <1>5, ColorsAssumption DEF TypeOK, ColorsOf
  <2> QED BY <1>1, <1>2, <1>3, <2>1, <2>2 DEF TypeOK
<1>7. EdgesOK'
  BY <1>1 DEF EdgesOK
<1>8. ~OnStack(n)' /\ \A m \in Node \ {n} : OnStack(m)' <=> OnStack(m)
  BY <1>2, <1>3 DEF OnStack, Placed
<1>9. \A m \in Node \ {n} : color'[m] = color[m]
  BY <1>5 DEF TypeOK
<1>10. Placed'
  <2>1. /\ \A m \in graph' : ~OnStack(m)'
        /\ \A m \in Node : E'[m] # {} => m \in graph' \/ OnStack(m)'
    BY <1>1, <1>2, <1>8 DEF Placed, TypeOK
  <2>2. ASSUME NEW i \in 1..Len(stack'), NEW j \in 1..Len(stack'), stack'[i] = stack'[j]
        PROVE  i = j
    BY <1>2, <1>3, <2>2 DEF Placed
  <2>3. ASSUME NEW i \in 1..Len(stack') PROVE color'[stack'[i]] = None
    <3>1. stack'[i] # n /\ stack'[i] = stack[i] /\ stack[i] \in Node
      BY <1>2, <1>3 DEF Placed, Node
    <3> QED BY <1>2, <1>3, <1>9, <3>1 DEF Placed
  <2>4. ASSUME NEW p \in Phys PROVE color'[p] = p
    BY <1>2, <1>9, NodesAssumption DEF Placed, Node
  <2> QED
    BY <2>1, <2>2, <2>3, <2>4 DEF Placed
<1>11. HalfEdges'
  <2>1. n \notin E[n]
    BY <1>2 DEF EdgesOK
  <2>2. ASSUME NEW m \in graph' PROVE adj'[m] = E'[m] \cap graph'
    <3>1. CASE m = n
      BY <1>1, <1>2, <1>4, <2>1, <3>1
    <3>2. CASE m # n
      <4>1. m \in graph /\ m \in Node
        BY <1>1, <2>2, <3>2 DEF TypeOK
      <4>2. adj[m] = E[m] \cap graph
        BY <4>1 DEF HalfEdges
      <4>3. m \in adj[n] <=> n \in E[m]
        BY <1>2, <4>1 DEF EdgesOK
      <4> QED BY <1>1, <1>4, <4>1, <4>2, <4>3
    <3> QED BY <3>1, <3>2
  <2>3. ASSUME NEW i \in 1..Len(stack')
        PROVE  adj'[stack'[i]] =
                 {m \in E'[stack'[i]] :
                    m \in graph' \/ \E j \in (i+1)..Len(stack') : stack'[j] = m}
    <3> DEFINE x == stack[i]
    <3>1. i \in 1..L /\ i \in 1..Len(stack) /\ stack'[i] = x
      BY <1>2, <1>3
    <3>2. x \in Node /\ x \notin graph
      BY <1>3, <3>1 DEF Placed, OnStack, Node
    <3>3. adj'[x] = adj[x]
      BY <1>2, <1>4, <3>2
    <3>4. adj[x] = {m \in E[x] :
                      m \in graph \/ \E j \in (i+1)..Len(stack) : stack[j] = m}
      BY <3>1 DEF HalfEdges
    <3>5. ASSUME NEW m \in E[x]
          PROVE  (m \in graph \/ \E j \in (i+1)..Len(stack) : stack[j] = m) <=>
                 (m \in graph' \/ \E j \in (i+1)..Len(stack') : stack'[j] = m)
      <4>1. (\E j \in (i+1)..Len(stack) : stack[j] = m) <=>
            (m = n \/ \E j \in (i+1)..Len(stack') : stack'[j] = m)
        BY <1>2, <1>3, <3>1
      <4> QED BY <1>1, <4>1
    <3> QED BY <1>1, <3>1, <3>3, <3>4, <3>5
  <2> QED BY <2>2, <2>3 DEF HalfEdges
<1>12. Proper'
  <2> SUFFICES ASSUME NEW x \in Node, NEW y \in E[x], color'[x] # None
               PROVE  color'[x] # color'[y]
    BY <1>1 DEF Proper
  <2>1. y \in Node /\ x \in E[y] /\ x # y
    BY DEF EdgesOK, TypeOK
  <2>2. CASE color' = color
    BY <2>2 DEF Proper
  <2>3. CASE \E c \in ColorsOf(n) \ Used(n) : color' = [color EXCEPT ![n] = c]
    <3>1. PICK c \in ColorsOf(n) \ Used(n) : color' = [color EXCEPT ![n] = c]
      BY <2>3
    <3>2. c # None /\ color'[n] = c
      BY <1>2, <3>1, ColorsAssumption, NodesAssumption DEF ColorsOf, TypeOK, Node
    <3>3. \A m \in E[n] : color[m] # c
      <4>1. ASSUME NEW m \in E[n], color[m] = c PROVE FALSE
        <5>1. m \in graph
          BY <1>2, <3>2, <4>1 DEF TypeOK, EdgesOK
        <5>2. m \in adj[n]
          BY <1>2, <5>1
        <5>3. c \in Used(n)
          BY <3>2, <4>1, <5>2 DEF Used
        <5> QED BY <3>1, <5>3
      <4> QED BY <4>1
    <3> QED
      BY <1>9, <2>1, <3>2, <3>3 DEF Proper
  <2> QED BY <1>5, <2>2, <2>3
<1>13. Allowed'
  <2> SUFFICES ASSUME NEW x \in Pseudo, color'[x] # None
               PROVE  color'[x] \in ColorsOf(x)
    BY DEF Allowed, ColorsOf
  <2>1. x \in Node
    BY DEF Node
  <2>2. CASE color' = color
    BY <2>2 DEF Allowed
  <2>3. CASE \E c \in ColorsOf(n) \ Used(n) : color' = [color EXCEPT ![n] = c]
    BY <2>1, <2>3 DEF Allowed, TypeOK
  <2> QED BY <1>5, <2>2, <2>3
<1> QED
  BY <1>6, <1>7, <1>10, <1>11, <1>12, <1>13

\* Moving on to another phase, or not moving at all, leaves it as it is.
LEMMA UnchangedIInv ==
  ASSUME IInv, UNCHANGED <<E, cost, graph, adj, stack, color>>,
         phase' \in {"pick", "pop", "done"}
  PROVE  IInv'
<1>1. TypeOK'
  BY DEF IInv, TypeOK
<1>2. EdgesOK'
  BY DEF IInv, EdgesOK
<1>3. Placed'
  <2>1. \A n : OnStack(n)' <=> OnStack(n)
    BY DEF OnStack
  <2> QED BY <2>1 DEF IInv, Placed
<1>4. HalfEdges'
  BY DEF IInv, HalfEdges
<1>5. Proper'
  BY DEF IInv, Proper
<1>6. Allowed'
  BY DEF IInv, Allowed, ColorsOf
<1> QED BY <1>1, <1>2, <1>3, <1>4, <1>5, <1>6 DEF IInv

\* Every step preserves the invariant.
LEMMA NextIInv == IInv /\ [Next]_vars => IInv'
<1> SUFFICES ASSUME IInv, [Next]_vars PROVE IInv'
  OBVIOUS
<1>1. CASE PickLow
  BY <1>1, DisconnectIInv DEF PickLow, Lowest
<1>2. CASE PickSpill
  BY <1>2, DisconnectIInv DEF PickSpill
<1>3. CASE EndPick \/ EndPop
  BY <1>3, UnchangedIInv DEF EndPick, EndPop
<1>4. CASE Pop
  BY <1>4, PopIInv
<1>5. CASE UNCHANGED vars
  BY <1>5, UnchangedIInv DEF vars, IInv, TypeOK
<1> QED
  BY <1>1, <1>2, <1>3, <1>4, <1>5 DEF Next

\* The inductive invariant of color(): the types, mutual interference, every
\* node in one place, exact half edges, and a proper colouring (graph.c:581).
THEOREM GraphInvariant == Spec => []IInv
<1>1. Init => IInv
  BY InitIInv
<1>2. IInv /\ [Next]_vars => IInv'
  BY NextIInv
<1> QED BY <1>1, <1>2, PTL DEF Spec

\* The allocator never puts two interfering registers in one machine register,
\* nor a register in one of the other class (graph.c:602-610).
THEOREM GraphProper == Spec => [](Proper /\ Allowed)
<1>1. IInv => Proper /\ Allowed
  BY DEF IInv
<1> QED BY <1>1, GraphInvariant, PTL

\* Every half edge that is removed exists, and none that is added does
\* (graph.c:142-151, 172-188).
THEOREM GraphHalfEdges == Spec => []HalfEdgesMatch
<1>1. IInv => HalfEdgesMatch
  <2> SUFFICES ASSUME IInv PROVE HalfEdgesMatch
    OBVIOUS
  <2>1. ASSUME NEW n \in graph, NEW m \in adj[n] PROVE n \in adj[m]
    BY DEF IInv, HalfEdges, EdgesOK, TypeOK
  <2>2. ASSUME stack # <<>>, NEW m \in adj[Top] PROVE m \in graph /\ Top \notin adj[m]
    BY <2>2, TopFacts DEF IInv, HalfEdges
  <2> QED BY <2>1, <2>2 DEF HalfEdgesMatch
<1> QED BY <1>1, GraphInvariant, PTL

-----------------------------------------------------------------------------
\* Why a register is spilled.

\* Sets of registers are finite, and have as many elements as a natural number says.
LEMMA Finite ==
  ASSUME NEW S \in SUBSET Node
  PROVE  IsFiniteSet(S) /\ Cardinality(S) \in Nat
BY NodesAssumption, FS_Subset, FS_CardinalityType

LEMMA ColorsCount ==
  ASSUME NEW n
  PROVE  ColorsOf(n) \in SUBSET Node /\ K(n) \in Nat /\ None \notin ColorsOf(n)
<1>1. ColorsOf(n) \in SUBSET Node /\ None \notin ColorsOf(n)
  BY ColorsAssumption, NodesAssumption DEF ColorsOf, Node
<1> QED
  BY <1>1, Finite DEF K

\* Fewer neighbours than colours leave one.
LEMMA ColorToSpare ==
  ASSUME TypeOK, NEW n \in Node, Degree(n) < K(n)
  PROVE  ColorsOf(n) \ Used(n) # {}
<1> SUFFICES ASSUME ColorsOf(n) \subseteq Used(n)
             PROVE  FALSE
  OBVIOUS
<1> DEFINE S == adj[n]
           T == {color[m] : m \in S}
<1>1. S \in SUBSET Node /\ IsFiniteSet(S) /\ Cardinality(S) \in Nat
  BY Finite DEF TypeOK
<1>2. IsFiniteSet(T) /\ Cardinality(T) <= Cardinality(S)
  <2> DEFINE f == [m \in S |-> color[m]]
  <2>1. f \in Surjection(S, T)
    BY DEF Surjection
  <2> HIDE DEF f
  <2> QED
    BY <1>1, <2>1, FS_Surjection
<1>3. Cardinality(T) \in Nat
  BY <1>2, FS_CardinalityType
<1>4. ColorsOf(n) \subseteq T
  BY DEF Used
<1>5. Cardinality(ColorsOf(n)) <= Cardinality(T)
  BY <1>2, <1>4, FS_Subset
<1> QED
  BY <1>1, <1>2, <1>3, <1>5, ColorsCount DEF Degree, K

\* When graph_pick() finds no node of low degree, no uncoloured register of a
\* class with the fewest colours could be simplified away: together they are in
\* the core.
LEMMA SpillsCore ==
  ASSUME IInv, Justified, phase = "pick",
         NEW l \in graph, Lowest(l), Degree(l) >= K(l),
         NEW n \in Uncolored, Fewest(n)
  PROVE  n \in Core
<1> USE DEF IInv
<1> DEFINE S == {m \in Uncolored : Fewest(m)}
<1>1. S \in SUBSET Pseudo /\ S \subseteq graph /\ l \in Pseudo
  BY UncoloredIsPseudo DEF Lowest
<1>2. ASSUME NEW m \in S
      PROVE  Cardinality(E[m] \cap (S \cup Phys)) >= K(m)
  <2> DEFINE T == E[m] \cap (S \cup Phys)
  <2>1. m \in Node /\ m \in graph /\ m \in Uncolored /\ Fewest(m)
    BY <1>1 DEF Node
  <2>2. T \in SUBSET Node /\ IsFiniteSet(T) /\ Cardinality(T) \in Nat
    BY <2>1, Finite DEF TypeOK
  <2>3. ASSUME NEW k \in adj[m]
        PROVE  k \in T
    <3>1. k \in E[m] /\ k \in graph /\ k \in Node /\ Class[k] = Class[m]
      BY <2>1, <2>3 DEF HalfEdges, EdgesOK, TypeOK
    <3>2. ASSUME k \in Pseudo
          PROVE  k \in S
      <4>1. color[k] = None
        BY <3>2 DEF Justified
      <4>2. K(k) = K(m)
        BY <3>1 DEF K, ColorsOf
      <4> QED
        BY <4>1, <4>2, <3>1, <2>1 DEF Uncolored, Fewest
    <3> QED
      BY <3>1, <3>2 DEF Node
  <2>4. adj[m] \subseteq T
    BY <2>3
  <2>5. Degree(m) \in Nat /\ Degree(m) <= Cardinality(T)
    BY <2>1, <2>2, <2>4, Finite, FS_Subset DEF Degree, TypeOK
  <2>6. Degree(l) <= Degree(m) /\ K(m) <= K(l)
    BY <2>1, <1>1 DEF Lowest, Fewest
  <2>7. Degree(l) \in Nat /\ K(l) \in Nat /\ K(m) \in Nat
    BY <1>1, Finite, ColorsCount DEF Degree, TypeOK, Node
  <2> HIDE DEF T, S
  <2>8. Cardinality(T) >= K(m)
    BY <2>2, <2>5, <2>6, <2>7
  <2> QED
    BY <2>8 DEF T
<1>3. Stubborn(S)
  BY <1>2 DEF Stubborn
<1> QED
  BY <1>1, <1>3 DEF Core

\* None of this depends on what changes.
LEMMA CoreStays ==
  ASSUME E' = E
  PROVE  /\ Core' = Core
         /\ \A m : Fewest(m)' = Fewest(m) /\ K(m)' = K(m) /\ ColorsOf(m)' = ColorsOf(m)
BY DEF Core, Stubborn, K, ColorsOf, Fewest

\* A disconnected node keeps its own half edges, and the others on the stack are
\* not touched.
LEMMA PushJustified ==
  ASSUME IInv, Justified, phase = "pick", NEW n \in Uncolored, Disconnect(n),
         UNCHANGED <<E, cost, color, phase>>,
         Fewest(n) => Degree(n) < K(n) \/ n \in Core
  PROVE  Justified'
<1> USE DEF IInv
<1>1. n \in Pseudo /\ n \in graph /\ n \in Node
  BY UncoloredIsPseudo
<1>2. /\ Len(stack') = Len(stack) + 1 /\ Len(stack) \in Nat
      /\ \A i \in 1..Len(stack) : stack'[i] = stack[i]
      /\ stack'[Len(stack) + 1] = n
      /\ \A i \in 1..Len(stack) : stack[i] \in Pseudo
  BY <1>1, AppendProperties, LenProperties, ElementOfSeq DEF Disconnect, TypeOK
<1>3. adj[n] = E[n] \cap graph /\ n \notin E[n]
  BY <1>1 DEF HalfEdges, EdgesOK
<1>4. \A m \in Node : m \notin graph \/ m = n => adj'[m] = adj[m]
  BY <1>3 DEF Disconnect
<1>5. /\ Core' = Core
      /\ \A m : Fewest(m)' = Fewest(m) /\ K(m)' = K(m) /\ ColorsOf(m)' = ColorsOf(m)
  BY CoreStays
<1>6. ASSUME NEW i \in 1..Len(stack'), Fewest(stack'[i])
      PROVE  Cardinality(adj'[stack'[i]]) < K(stack'[i]) \/ stack'[i] \in Core
  <2>1. CASE i = Len(stack) + 1
    BY <2>1, <1>1, <1>2, <1>4, <1>6 DEF Degree
  <2>2. CASE i \in 1..Len(stack)
    <3> DEFINE x == stack[i]
    <3>1. x \in Node /\ x \notin graph /\ stack'[i] = x
      BY <1>2, <2>2 DEF Placed, OnStack, Node
    <3> QED
      BY <3>1, <2>2, <1>4, <1>6 DEF Justified, Degree
  <2> QED
    BY <1>2, <2>1, <2>2
<1> QED
  BY <1>5, <1>6 DEF Justified, Degree

\* A node that finds no colour when it is popped was not of low degree when it was
\* pushed; the colours others have are not taken from them.
LEMMA PopJustified ==
  ASSUME IInv, Justified, Pop
  PROVE  Justified'
<1> USE DEF IInv
<1>0. PICK n : n = Top
  OBVIOUS
<1>1. /\ stack # <<>> /\ UNCHANGED <<E, cost, phase>> /\ graph' = graph \cup {n}
      /\ phase = "pop"
  BY <1>0 DEF Pop
<1>2. /\ Len(stack) \in Nat \ {0} /\ n = stack[Len(stack)]
      /\ n \in Pseudo /\ n \in Node /\ n \notin graph /\ color[n] = None
      /\ adj[n] = E[n] \cap graph
  BY <1>0, <1>1, TopFacts DEF Top
<1>3. \A m \in Node : m \notin graph => adj'[m] = adj[m]
  BY <1>0, <1>2 DEF Pop
<1>4. /\ Core' = Core
      /\ \A m : Fewest(m)' = Fewest(m) /\ K(m)' = K(m) /\ ColorsOf(m)' = ColorsOf(m)
  BY <1>1, CoreStays
<1>5. \/ ColorsOf(n) \subseteq Used(n) /\ color' = color
      \/ \E c \in ColorsOf(n) \ Used(n) : color' = [color EXCEPT ![n] = c]
  BY <1>0 DEF Pop
<1>6. /\ \A m \in Node : color[m] # None => color'[m] = color[m]
      /\ \A m \in Node : color'[m] = None => color[m] = None
      /\ color'[n] = None => ColorsOf(n) \subseteq Used(n) /\ color' = color
  <2>1. CASE color' = color
    <3>1. \A c \in ColorsOf(n) \ Used(n) : color' # [color EXCEPT ![n] = c]
      BY <2>1, <1>2, ColorsCount DEF TypeOK
    <3> QED
      BY <2>1, <3>1, <1>5
  <2>2. CASE \E c \in ColorsOf(n) \ Used(n) : color' = [color EXCEPT ![n] = c]
    BY <2>2, <1>2, ColorsCount DEF TypeOK
  <2> QED
    BY <1>5, <2>1, <2>2
<1>7. ASSUME NEW i \in 1..Len(stack'), Fewest(stack'[i])
      PROVE  Cardinality(adj'[stack'[i]]) < K(stack'[i]) \/ stack'[i] \in Core
  <2>1. i \in 1..Len(stack) /\ stack'[i] = stack[i]
    <3> DEFINE L == Len(stack) - 1
    <3>1. stack' = SubSeq(stack, 1, L) /\ L \in Nat /\ Len(stack) = L + 1
      BY <1>2 DEF Pop
    <3>2. \A j \in 1..L : stack[j] \in Pseudo
      BY <1>2, ElementOfSeq DEF TypeOK
    <3> HIDE DEF L
    <3>3. /\ Len(SubSeq(stack, 1, L)) = IF 1 <= L THEN L - 1 + 1 ELSE 0
          /\ \A j \in 1..(L - 1 + 1) : SubSeq(stack, 1, L)[j] = stack[1 + j - 1]
      <4>1. 1 \in Int /\ L \in Int
        BY <3>1
      <4> QED
        BY <3>2, <4>1, SubSeqProperties
    <3> QED
      BY <3>1, <3>3
  <2>2. stack[i] \in Node /\ stack[i] \notin graph
    <3>1. stack[i] \in Pseudo
      BY <2>1, ElementOfSeq DEF TypeOK
    <3> QED
      BY <2>1, <3>1 DEF Placed, OnStack, Node
  <2> QED
    BY <2>1, <2>2, <1>3, <1>7 DEF Justified, Degree
<1>8. ASSUME NEW m \in graph', color'[m] = None
      PROVE  /\ ColorsOf(m) \subseteq {color'[k] : k \in E[m]}
             /\ Fewest(m) => m \in Core
  <2>1. m \in Node /\ E[m] \in SUBSET Node
    BY <1>1, <1>2, <1>8 DEF TypeOK
  <2>2. CASE m = n
    <3>1. ColorsOf(n) \subseteq Used(n) /\ color' = color
      BY <2>2, <1>6, <1>8
    <3>2. ColorsOf(n) \subseteq {color'[k] : k \in E[n]}
      BY <3>1, <1>2 DEF Used
    <3>3. ~(Degree(n) < K(n))
      BY <3>1, <1>2, ColorToSpare
    <3>4. Fewest(n) => n \in Core
      BY <3>3, <1>2 DEF Justified
    <3> QED
      BY <2>2, <3>2, <3>4
  <2>3. CASE m # n
    <3>1. m \in Uncolored
      BY <2>1, <2>3, <1>1, <1>6, <1>8 DEF Uncolored
    <3>2. ColorsOf(m) \subseteq {color[k] : k \in E[m]} /\ (Fewest(m) => m \in Core)
      BY <3>1, <1>1 DEF Justified, Blocked
    <3>3. ASSUME NEW c \in ColorsOf(m)
          PROVE  \E k \in E[m] : color'[k] = c
      <4>1. PICK k \in E[m] : color[k] = c
        BY <3>2
      <4>2. c # None
        BY ColorsCount
      <4> QED
        BY <4>1, <4>2, <2>1, <1>6
    <3> QED
      BY <3>2, <3>3
  <2> QED
    BY <2>2, <2>3
<1> QED
  BY <1>1, <1>4, <1>7, <1>8 DEF Justified, Degree, Blocked, Uncolored

LEMMA InitJustified == Init => Justified
<1> SUFFICES ASSUME Init PROVE Justified
  OBVIOUS
<1>1. phase = "pick" /\ stack = <<>> /\ \A n \in Pseudo : color[n] = None
  BY NodesAssumption DEF Init, Node
<1> QED
  BY <1>1 DEF Justified

LEMMA NextJustified == IInv /\ Justified /\ [Next]_vars => Justified'
<1> SUFFICES ASSUME IInv, Justified, [Next]_vars PROVE Justified'
  OBVIOUS
<1>1. CASE PickLow
  BY <1>1, PushJustified DEF PickLow, Lowest
<1>2. CASE PickSpill
  <2>1. PICK l \in graph : Lowest(l) /\ Degree(l) >= K(l)
    BY <1>2 DEF PickSpill
  <2>2. PICK n \in Uncolored : Disconnect(n)
    BY <1>2 DEF PickSpill
  <2>3. Fewest(n) => n \in Core
    BY <1>2, <2>1, SpillsCore DEF PickSpill
  <2> QED
    BY <1>2, <2>2, <2>3, PushJustified DEF PickSpill
<1>3. CASE EndPick
  <2>1. Uncolored' = {} /\ UNCHANGED <<E, cost, graph, adj, stack, color>> /\ phase' = "pop"
    BY <1>3 DEF EndPick, Uncolored
  <2>2. Core' = Core /\ \A m : Fewest(m)' = Fewest(m) /\ K(m)' = K(m)
    BY <2>1, CoreStays
  <2> QED
    BY <1>3, <2>1, <2>2 DEF Justified, Degree, EndPick
<1>4. CASE Pop
  BY <1>4, PopJustified
<1>5. CASE EndPop \/ UNCHANGED vars
  <2>1. UNCHANGED <<E, cost, graph, adj, stack, color>>
        /\ ((phase' = "pick") = (phase = "pick"))
    BY <1>5 DEF EndPop, vars
  <2>2. Core' = Core /\ \A m : Fewest(m)' = Fewest(m) /\ K(m)' = K(m)
    BY <2>1, CoreStays
  <2>3. Uncolored' = Uncolored /\ \A m : Blocked(m)' = Blocked(m) /\ Degree(m)' = Degree(m)
    BY <2>1 DEF Uncolored, Blocked, Degree, ColorsOf
  <2> QED
    BY <2>1, <2>2, <2>3 DEF Justified
<1> QED
  BY <1>1, <1>2, <1>3, <1>4, <1>5 DEF Next

LEMMA GraphJustified == Spec => []Justified
<1>1. Init => Justified
  BY InitJustified
<1>2. IInv /\ Justified /\ [Next]_vars => Justified'
  BY NextJustified
<1> QED
  BY <1>1, <1>2, GraphInvariant, PTL DEF Spec

\* A register is spilled only when every colour it may have is that of one that
\* it interferes with (graph.c:602-610).
THEOREM SpillsBlocked == Spec => []SpilledIsBlocked
<1>1. Justified => SpilledIsBlocked
  BY DEF Justified, SpilledIsBlocked, Uncolored
<1> QED
  BY <1>1, GraphJustified, PTL

\* No register is spilled that could have been simplified away, although the
\* nodes are disconnected in the order of their degrees and costs: for the class
\* with the fewest colours, the integer registers (graph.c:551-577).
THEOREM SpillsNeeded == Spec => []NoNeedlessSpill
<1>1. Justified => NoNeedlessSpill
  BY DEF Justified, NoNeedlessSpill, Uncolored
<1> QED
  BY <1>1, GraphJustified, PTL

-----------------------------------------------------------------------------
\* Numbers and lists.

\* A set of numbers up to n has a greatest one.
LEMMA GreatestOf ==
  ASSUME NEW n \in Nat, NEW S \in SUBSET (0..n), S # {}
  PROVE  \E x \in S : \A y \in S : y <= x
<1> DEFINE U == 0..n
           T == {k..n : k \in S}
<1>1. IsFiniteSet(U)
  BY FS_Interval
<1>2. IsWellFoundedOn(StrictSubsetOrdering(U), SUBSET U)
  BY <1>1, FS_StrictSubsetOrderingWellFounded, FS_FiniteSubsetsOfFinite, Zenon
<1>3. T \subseteq SUBSET U /\ T # {}
  <2>1. ASSUME NEW k \in S PROVE k..n \in T /\ k..n \subseteq U
    <3>1. k \in 0..n
      OBVIOUS
    <3>2. k..n \in T
      OBVIOUS
    <3>3. k..n \subseteq U
      BY <3>1
    <3> QED BY <3>2, <3>3
  <2> QED
    BY <2>1
<1>4. PICK t \in T : \A s \in T : <<s, t>> \notin StrictSubsetOrdering(U)
  <2> HIDE DEF T, U
  <2> QED
    BY <1>2, <1>3, WFMin, Zenon
<1>5. PICK x \in S : t = x..n
  OBVIOUS
<1>6. ASSUME NEW y \in S, y > x
      PROVE  FALSE
  <2>1. x \in 0..n /\ y \in 0..n /\ y..n \in T
    OBVIOUS
  <2>2. y..n \subseteq x..n /\ x \in x..n /\ x \notin y..n
    BY <2>1, <1>6
  <2>3. y..n # x..n
    BY <2>2
  <2>4. y..n \in SUBSET U /\ x..n \in SUBSET U
    BY <2>1
  <2>5. <<y..n, x..n>> \in StrictSubsetOrdering(U)
    BY <2>2, <2>3, <2>4 DEF StrictSubsetOrdering
  <2> QED
    BY <2>1, <2>5, <1>4, <1>5
<1>7. \A y \in S : x \in 0..n /\ y \in 0..n /\ ~(y > x)
  BY <1>6
<1> QED
  BY <1>7

LEMMA LeastOf ==
  ASSUME NEW n \in Nat, NEW S \in SUBSET (0..n), S # {}
  PROVE  \E x \in S : \A y \in S : x <= y
<1> DEFINE T == {n - x : x \in S}
<1>1. T \in SUBSET (0..n) /\ T # {}
  <2>1. \A x \in S : n - x \in 0..n /\ n - x \in T
    OBVIOUS
  <2> QED
    BY <2>1
<1>2. PICK t \in T : \A s \in T : s <= t
  <2> HIDE DEF T
  <2> QED
    BY <1>1, GreatestOf
<1>3. PICK x \in S : t = n - x
  OBVIOUS
<1>4. \A y \in S : n - y <= n - x /\ x \in 0..n /\ y \in 0..n
  BY <1>2, <1>3
<1> QED
  BY <1>4

\* Where BUBBLE_UP stops: past the last position before p that is not lower.
LEMMA UpStops ==
  ASSUME NEW k \in Nat, NEW d \in [1..k -> Nat], NEW p \in 1..k
  PROVE  \E q \in 1..p : /\ \A i \in q..(p - 1) : d[i] < d[p]
                         /\ q # 1 => ~(d[q - 1] < d[p])
<1> DEFINE S == {q \in 0..k : q # 0 /\ q <= p /\ \A i \in q..(p - 1) : d[i] < d[p]}
<1>1. S \in SUBSET (0..k) /\ p \in S
  OBVIOUS
<1>2. PICK q \in S : \A y \in S : q <= y
  <2> HIDE DEF S
  <2> QED
    BY <1>1, LeastOf
<1>3. q \in 1..p /\ \A i \in q..(p - 1) : d[i] < d[p]
  BY <1>2
<1>4. ASSUME q # 1, d[q - 1] < d[p]
      PROVE  FALSE
  <2>1. q - 1 \in 1..p /\ \A i \in (q - 1)..(p - 1) : i = q - 1 \/ i \in q..(p - 1)
    BY <1>3, <1>4
  <2>2. q - 1 \in S
    BY <2>1, <1>3, <1>4
  <2>3. q <= q - 1
    BY <2>2, <1>2
  <2> QED
    BY <2>3, <1>3
<1> QED
  BY <1>3, <1>4

\* Where a node that lost an edge stops.
LEMMA DownStops ==
  ASSUME NEW k \in Nat, NEW d \in [1..k -> Nat], NEW p \in 1..k
  PROVE  \E q \in p..k : /\ \A i \in (p + 1)..q : d[i] > d[p]
                         /\ q # k => ~(d[q + 1] > d[p])
<1> DEFINE S == {q \in 0..k : p <= q /\ \A i \in (p + 1)..q : d[i] > d[p]}
<1>1. S \in SUBSET (0..k) /\ p \in S
  OBVIOUS
<1>2. PICK q \in S : \A y \in S : y <= q
  <2> HIDE DEF S
  <2> QED
    BY <1>1, GreatestOf
<1>3. q \in p..k /\ \A i \in (p + 1)..q : d[i] > d[p]
  BY <1>2
<1>4. ASSUME q # k, d[q + 1] > d[p]
      PROVE  FALSE
  <2>1. q + 1 \in p..k /\ \A i \in (p + 1)..(q + 1) : i = q + 1 \/ i \in (p + 1)..q
    BY <1>3, <1>4
  <2>2. q + 1 \in S
    BY <2>1, <1>3, <1>4
  <2>3. q + 1 <= q
    BY <2>2, <1>2
  <2> QED
    BY <2>3, <1>3
<1> QED
  BY <1>3, <1>4

\* Where the node at place i was before the one at p moved to q.
Was(p, q, i) ==
  IF i = q THEN p
  ELSE IF q < i /\ i <= p THEN i - 1
  ELSE IF p <= i /\ i < q THEN i + 1
  ELSE i

LEMMA WasIs ==
  ASSUME NEW k \in Nat, NEW p \in 1..k, NEW q \in 1..k, NEW i \in 1..k
  PROVE  Was(p, q, i) \in 1..k
BY DEF Was

LEMMA WasBack ==
  ASSUME NEW k \in Nat, NEW p \in 1..k, NEW q \in 1..k, NEW i \in 1..k
  PROVE  Was(p, q, Was(q, p, i)) = i
BY DEF Was

LEMMA WasInjective ==
  ASSUME NEW k \in Nat, NEW p \in 1..k, NEW q \in 1..k, NEW i \in 1..k, NEW j \in 1..k,
         Was(p, q, i) = Was(p, q, j)
  PROVE  i = j
BY DEF Was

LEMMA MoveIs ==
  ASSUME NEW k \in Nat, NEW l \in [1..k -> Reg], NEW p \in 1..k, NEW q \in 1..k
  PROVE  Move(l, p, q) = [i \in 1..k |-> l[Was(p, q, i)]]
BY DEF Was, Move

\* Degrees d that descend but for the one at p descend when it stands at q.
LEMMA MovedUp ==
  ASSUME NEW k \in Nat, NEW d \in [1..k -> Nat], NEW p \in 1..k, NEW q \in 1..p,
         \A i, j \in 1..k : i < j /\ i # p /\ j # p => d[j] <= d[i],
         \A j \in 1..k : p < j => d[j] <= d[p],
         \A i \in q..(p - 1) : d[i] < d[p],
         q # 1 => ~(d[q - 1] < d[p]),
         NEW i \in 1..k, NEW j \in 1..k, i < j
  PROVE  d[Was(p, q, j)] <= d[Was(p, q, i)]
<1>1. CASE i = q
  BY <1>1 DEF Was
<1>2. CASE j = q
  <2>1. Was(p, q, j) = p /\ Was(p, q, i) = i /\ i < p /\ q # 1 /\ q - 1 \in 1..k
    BY <1>2 DEF Was
  <2>2. d[p] <= d[q - 1]
    BY <2>1
  <2>3. i = q - 1 \/ d[q - 1] <= d[i]
    BY <2>1, <1>2
  <2> QED
    BY <2>1, <2>2, <2>3
<1>3. CASE i # q /\ j # q
  <2>1. /\ Was(p, q, i) \in 1..k /\ Was(p, q, j) \in 1..k
        /\ Was(p, q, i) # p /\ Was(p, q, j) # p
        /\ Was(p, q, i) < Was(p, q, j)
    BY <1>3 DEF Was
  <2> QED
    BY <2>1
<1> QED
  BY <1>1, <1>2, <1>3

LEMMA MovedDown ==
  ASSUME NEW k \in Nat, NEW d \in [1..k -> Nat], NEW p \in 1..k, NEW q \in p..k,
         \A i, j \in 1..k : i < j /\ i # p /\ j # p => d[j] <= d[i],
         \A i \in 1..k : i < p => d[p] <= d[i],
         \A i \in (p + 1)..q : d[i] > d[p],
         q # k => ~(d[q + 1] > d[p]),
         NEW i \in 1..k, NEW j \in 1..k, i < j
  PROVE  d[Was(p, q, j)] <= d[Was(p, q, i)]
<1>1. CASE j = q
  BY <1>1 DEF Was
<1>2. CASE i = q
  <2>1. Was(p, q, i) = p
    BY <1>2 DEF Was
  <2>2. p < j /\ q < j /\ j <= k
    BY <1>2
  <2>3. Was(p, q, j) = j
    BY <1>2, <2>2 DEF Was
  <2>4. q # k /\ q + 1 \in 1..k /\ q + 1 # p
    BY <2>2
  <2>5. d[q + 1] <= d[p]
    BY <2>4
  <2>6. j = q + 1 \/ d[j] <= d[q + 1]
    BY <2>2, <2>4
  <2> QED
    BY <2>1, <2>2, <2>3, <2>4, <2>5, <2>6
<1>3. CASE i # q /\ j # q
  <2>1. /\ Was(p, q, i) \in 1..k /\ Was(p, q, j) \in 1..k
        /\ Was(p, q, i) # p /\ Was(p, q, j) # p
        /\ Was(p, q, i) < Was(p, q, j)
    BY <1>3 DEF Was
  <2> QED
    BY <2>1
<1> QED
  BY <1>1, <1>2, <1>3

-----------------------------------------------------------------------------
\* The operations on the graph.

Graphs == [list : Seq(Reg), adj : [Reg -> SUBSET Reg]]

LEMMA RegIsNode ==
  /\ Reg \subseteq Node /\ Pseudo \subseteq Reg /\ Occurring \subseteq Reg
  /\ \A r \in Reg : r \in Phys \/ r \in Pseudo
  /\ None \notin Reg
BY AllocAssumption, NodesAssumption DEF Reg, Node

LEMMA ListIs ==
  ASSUME NEW g \in Graphs
  PROVE  /\ Len(g.list) \in Nat /\ DOMAIN g.list = 1..Len(g.list)
         /\ g.list \in [1..Len(g.list) -> Reg]
         /\ g.adj \in [Reg -> SUBSET Reg]
<1>1. g.list \in Seq(Reg) /\ g.adj \in [Reg -> SUBSET Reg]
  BY DEF Graphs
<1> QED
  BY <1>1, LenProperties

LEMMA ListMade ==
  ASSUME NEW S, NEW k \in Nat, NEW l \in [1..k -> S]
  PROVE  l \in Seq(S) /\ Len(l) = k /\ DOMAIN l = 1..k
<1>1. l \in Seq(S)
  BY SeqDef
<1>2. DOMAIN l = 1..k /\ DOMAIN l = 1..Len(l) /\ Len(l) \in Nat
  BY <1>1, LenProperties
<1> QED
  BY <1>1, <1>2

LEMMA DegreeIsNat ==
  ASSUME NEW g \in Graphs, NEW n \in Reg
  PROVE  DegreeIn(g, n) \in Nat /\ IsFiniteSet(g.adj[n])
<1>1. g.adj[n] \in SUBSET Node
  BY RegIsNode DEF Graphs
<1> QED
  BY <1>1, Finite DEF DegreeIn

LEMMA PlaceIs ==
  ASSUME NEW g \in Graphs, NEW n \in Nodes(g)
  PROVE  PlaceOf(g, n) \in 1..Len(g.list) /\ g.list[PlaceOf(g, n)] = n /\ n \in Reg
<1>1. \E i \in DOMAIN g.list : g.list[i] = n
  BY DEF Nodes
<1>2. PlaceOf(g, n) \in DOMAIN g.list /\ g.list[PlaceOf(g, n)] = n
  BY <1>1 DEF PlaceOf
<1> QED
  BY <1>2, ListIs

\* A list that is in order, in terms of its length.
LEMMA OrderIs ==
  ASSUME NEW g \in Graphs, InOrder(g), NEW i \in 1..Len(g.list), NEW j \in 1..Len(g.list), i < j
  PROVE  g.list[i] # g.list[j] /\ DegreeIn(g, g.list[j]) <= DegreeIn(g, g.list[i])
<1>1. i \in DOMAIN g.list /\ j \in DOMAIN g.list /\ g.list[i] \in Reg /\ g.list[j] \in Reg
  BY ListIs
<1>2. DegreeIn(g, g.list[j]) \in Nat /\ DegreeIn(g, g.list[i]) \in Nat
  BY <1>1, DegreeIsNat
<1> QED
  BY <1>1, <1>2 DEF InOrder

\* The list after one node moved to where its degree belongs.
LEMMA MovedList ==
  ASSUME NEW g \in Graphs, NEW p \in 1..Len(g.list), NEW q \in 1..Len(g.list),
         \A i, j \in 1..Len(g.list) : g.list[i] = g.list[j] => i = j,
         \A i, j \in 1..Len(g.list) :
           i < j => DegreeIn(g, g.list[Was(p, q, j)]) <= DegreeIn(g, g.list[Was(p, q, i)]),
         NEW h, h = [list |-> Move(g.list, p, q), adj |-> g.adj]
  PROVE  h \in Graphs /\ InOrder(h) /\ Nodes(h) = Nodes(g) /\ h.adj = g.adj
<1> DEFINE k == Len(g.list)
<1>1. k \in Nat /\ DOMAIN g.list = 1..k /\ g.list \in [1..k -> Reg] /\ g.adj \in [Reg -> SUBSET Reg]
  BY ListIs
<1>2. h.list = Move(g.list, p, q) /\ h.adj = g.adj
  OBVIOUS
<1> HIDE DEF k
<1>3. /\ h.list \in [1..k -> Reg]
      /\ \A i \in 1..k : Was(p, q, i) \in 1..k /\ h.list[i] = g.list[Was(p, q, i)]
      /\ \A i, j \in 1..k : Was(p, q, i) = Was(p, q, j) => i = j
      /\ \A i \in 1..k : Was(p, q, Was(q, p, i)) = i /\ Was(q, p, i) \in 1..k
  <2>1. p \in 1..k /\ q \in 1..k
    BY DEF k
  <2>2. h.list = [i \in 1..k |-> g.list[Was(p, q, i)]]
    <3>1. PICK l : l = g.list
      OBVIOUS
    <3>2. Move(l, p, q) = [i \in 1..k |-> l[Was(p, q, i)]]
      <4>1. l \in [1..k -> Reg] /\ k \in Nat
        BY <3>1, <1>1
      <4> QED
        BY <2>1, <4>1, MoveIs
    <3> QED
      BY <3>1, <3>2, <1>2
  <2>3. \A i \in 1..k : Was(p, q, i) \in 1..k /\ Was(q, p, i) \in 1..k
    BY <2>1, <1>1, WasIs
  <2>4. \A i \in 1..k : Was(p, q, Was(q, p, i)) = i
    BY <2>1, <1>1, WasBack
  <2>5. \A i, j \in 1..k : Was(p, q, i) = Was(p, q, j) => i = j
    BY <2>1, <1>1, WasInjective
  <2>6. \A i \in 1..k : g.list[Was(p, q, i)] \in Reg
    BY <2>3, <1>1
  <2>7. h.list \in [1..k -> Reg] /\ \A i \in 1..k : h.list[i] = g.list[Was(p, q, i)]
    BY <2>2, <2>6
  <2> QED
    BY <2>3, <2>4, <2>5, <2>7
<1>4. DOMAIN h.list = 1..k /\ h.list \in Seq(Reg)
  BY <1>1, <1>3, ListMade
<1>5. h \in Graphs
  BY <1>1, <1>2, <1>4 DEF Graphs
<1>6. \A n : DegreeIn(h, n) = DegreeIn(g, n)
  BY <1>2 DEF DegreeIn
<1>7. ASSUME NEW i \in 1..k, NEW j \in 1..k, i < j
      PROVE  h.list[i] # h.list[j] /\ DegreeIn(h, h.list[i]) >= DegreeIn(h, h.list[j])
  <2>1. /\ Was(p, q, i) \in 1..k /\ Was(p, q, j) \in 1..k /\ Was(p, q, i) # Was(p, q, j)
        /\ h.list[i] = g.list[Was(p, q, i)] /\ h.list[j] = g.list[Was(p, q, j)]
    BY <1>3, <1>7
  <2>2. h.list[i] # h.list[j]
    BY <2>1 DEF k
  <2>3. DegreeIn(g, g.list[Was(p, q, j)]) <= DegreeIn(g, g.list[Was(p, q, i)])
    BY <1>7 DEF k
  <2>4. DegreeIn(h, h.list[j]) <= DegreeIn(h, h.list[i])
    BY <2>1, <2>3, <1>6
  <2>5. DegreeIn(h, h.list[j]) \in Nat /\ DegreeIn(h, h.list[i]) \in Nat
    BY <1>3, <1>5, DegreeIsNat
  <2> QED
    BY <2>2, <2>4, <2>5
<1>8. InOrder(h)
  BY <1>4, <1>7 DEF InOrder
<1>9. Nodes(h) = Nodes(g)
  <2>1. ASSUME NEW i \in 1..k
        PROVE  h.list[i] \in Nodes(g)
    <3>1. Was(p, q, i) \in DOMAIN g.list /\ h.list[i] = g.list[Was(p, q, i)]
      BY <1>1, <1>3
    <3> QED
      BY <3>1 DEF Nodes
  <2>2. \A i \in 1..k : g.list[i] = h.list[Was(q, p, i)] /\ Was(q, p, i) \in DOMAIN h.list
    BY <1>3, <1>4
  <2>3. \A i \in 1..k : g.list[i] \in Nodes(h)
    BY <2>2 DEF Nodes
  <2>4. Nodes(h) = {h.list[i] : i \in 1..k} /\ Nodes(g) = {g.list[i] : i \in 1..k}
    BY <1>1, <1>4 DEF Nodes
  <2> QED
    BY <2>1, <2>3, <2>4
<1> QED
  BY <1>2, <1>5, <1>8, <1>9

\* A list in order but for one node that has more edges than it had.
LEMMA BubbleUpOK ==
  ASSUME NEW g \in Graphs, NEW n \in Nodes(g),
         \A i, j \in 1..Len(g.list) : i < j => g.list[i] # g.list[j],
         \A i, j \in 1..Len(g.list) :
           i < j /\ g.list[j] # n => DegreeIn(g, g.list[j]) <= DegreeIn(g, g.list[i])
  PROVE  /\ BubbleUp(g, n) \in Graphs /\ InOrder(BubbleUp(g, n))
         /\ Nodes(BubbleUp(g, n)) = Nodes(g) /\ BubbleUp(g, n).adj = g.adj
<1> DEFINE k == Len(g.list)
           d == [i \in 1..k |-> DegreeIn(g, g.list[i])]
           p == PlaceOf(g, n)
           q == UpTo(g, p)
<1>1. k \in Nat /\ g.list \in [1..k -> Reg]
  BY ListIs
<1>2. d \in [1..k -> Nat]
  BY <1>1, DegreeIsNat
<1>3. p \in 1..k /\ g.list[p] = n
  BY PlaceIs
<1>4. \A i, j \in 1..k : g.list[i] = g.list[j] => i = j
  <2>1. \A i, j \in 1..k : i < j \/ j < i \/ i = j
    BY <1>1
  <2> QED
    BY <2>1
<1>5. \A i \in 1..k : d[i] = DegreeIn(g, g.list[i])
  OBVIOUS
<1> HIDE DEF d, k
<1>6. /\ q \in 1..p
      /\ \A i \in q..(p - 1) : d[i] < d[p]
      /\ q # 1 => ~(d[q - 1] < d[p])
  <2>1. \E r \in 1..p : /\ \A i \in r..(p - 1) : d[i] < d[p]
                        /\ r # 1 => ~(d[r - 1] < d[p])
    <3> HIDE DEF p, q
    <3> QED
      BY <1>1, <1>2, <1>3, UpStops
  <2>2. \A r \in 1..p : /\ \A i \in r..(p - 1) : i \in 1..k
                        /\ r # 1 => r - 1 \in 1..k
    <3> HIDE DEF p, q
    <3> QED
      BY <1>1, <1>3
  <2>3. \E r \in 1..p :
          /\ \A i \in r..(p - 1) : DegreeIn(g, g.list[i]) < DegreeIn(g, g.list[p])
          /\ r # 1 => ~(DegreeIn(g, g.list[r - 1]) < DegreeIn(g, g.list[p]))
    <3> HIDE DEF p, q
    <3> QED
      BY <2>1, <2>2, <1>3, <1>5
  <2>4. /\ q \in 1..p
        /\ \A i \in q..(p - 1) : DegreeIn(g, g.list[i]) < DegreeIn(g, g.list[p])
        /\ q # 1 => ~(DegreeIn(g, g.list[q - 1]) < DegreeIn(g, g.list[p]))
    <3> HIDE DEF p
    <3> QED
      BY <2>3 DEF UpTo
  <2> HIDE DEF p, q
  <2> QED
    BY <2>2, <2>4, <1>3, <1>5
<1>7. \A i, j \in 1..k : i < j /\ j # p => d[j] <= d[i]
  <2>1. \A j \in 1..k : j # p => g.list[j] # n
    BY <1>3, <1>4
  <2> HIDE DEF p, q
  <2> QED
    BY <2>1, <1>5 DEF k
<1> HIDE DEF p, q
<1>8. ASSUME NEW i \in 1..k, NEW j \in 1..k, i < j
      PROVE  DegreeIn(g, g.list[Was(p, q, j)]) <= DegreeIn(g, g.list[Was(p, q, i)])
  <2>1. d[Was(p, q, j)] <= d[Was(p, q, i)]
    <3>1. \A x, y \in 1..k : x < y /\ x # p /\ y # p => d[y] <= d[x]
      BY <1>7
    <3>2. \A y \in 1..k : p < y => d[y] <= d[p]
      BY <1>3, <1>7
    <3> QED
      BY <1>1, <1>2, <1>3, <1>6, <1>8, <3>1, <3>2, MovedUp
  <2>2. q \in 1..k
    BY <1>1, <1>3, <1>6
  <2>3. Was(p, q, i) \in 1..k /\ Was(p, q, j) \in 1..k
    BY <1>1, <1>3, <2>2, WasIs
  <2> QED
    BY <2>1, <2>3, <1>5
<1>9. BubbleUp(g, n) = [list |-> Move(g.list, p, q), adj |-> g.adj]
  BY DEF BubbleUp, p, q
<1>10. q \in 1..k
  BY <1>1, <1>3, <1>6
<1> QED
  BY <1>3, <1>4, <1>8, <1>9, <1>10, MovedList DEF k

\* A list in order but for one node that has less edges than it had.
LEMMA SinkDownOK ==
  ASSUME NEW g \in Graphs, NEW n \in Nodes(g),
         \A i, j \in 1..Len(g.list) : i < j => g.list[i] # g.list[j],
         \A i, j \in 1..Len(g.list) :
           i < j /\ g.list[i] # n => DegreeIn(g, g.list[j]) <= DegreeIn(g, g.list[i])
  PROVE  /\ SinkDown(g, n) \in Graphs /\ InOrder(SinkDown(g, n))
         /\ Nodes(SinkDown(g, n)) = Nodes(g) /\ SinkDown(g, n).adj = g.adj
<1> DEFINE k == Len(g.list)
           d == [i \in 1..k |-> DegreeIn(g, g.list[i])]
           p == PlaceOf(g, n)
           q == DownTo(g, p)
<1>1. k \in Nat /\ g.list \in [1..k -> Reg]
  BY ListIs
<1>2. d \in [1..k -> Nat]
  BY <1>1, DegreeIsNat
<1>3. p \in 1..k /\ g.list[p] = n
  BY PlaceIs
<1>4. \A i, j \in 1..k : g.list[i] = g.list[j] => i = j
  <2>1. \A i, j \in 1..k : i < j \/ j < i \/ i = j
    BY <1>1
  <2> QED
    BY <2>1
<1>5. \A i \in 1..k : d[i] = DegreeIn(g, g.list[i])
  OBVIOUS
<1>6. q = CHOOSE r \in p..k :
            /\ \A i \in (p + 1)..r : DegreeIn(g, g.list[i]) > DegreeIn(g, g.list[p])
            /\ r # k => ~(DegreeIn(g, g.list[r + 1]) > DegreeIn(g, g.list[p]))
  BY DEF DownTo
<1> HIDE DEF d, k
<1>7. /\ q \in p..k
      /\ \A i \in (p + 1)..q : d[i] > d[p]
      /\ q # k => ~(d[q + 1] > d[p])
  <2>1. \E r \in p..k : /\ \A i \in (p + 1)..r : d[i] > d[p]
                        /\ r # k => ~(d[r + 1] > d[p])
    <3> HIDE DEF p, q
    <3> QED
      BY <1>1, <1>2, <1>3, DownStops
  <2>2. \A r \in p..k : /\ \A i \in (p + 1)..r : i \in 1..k
                        /\ r # k => r + 1 \in 1..k
    <3> HIDE DEF p, q
    <3> QED
      BY <1>1, <1>3
  <2>3. \E r \in p..k :
          /\ \A i \in (p + 1)..r : DegreeIn(g, g.list[i]) > DegreeIn(g, g.list[p])
          /\ r # k => ~(DegreeIn(g, g.list[r + 1]) > DegreeIn(g, g.list[p]))
    <3> HIDE DEF p, q
    <3> QED
      BY <2>1, <2>2, <1>3, <1>5
  <2> HIDE DEF p, q
  <2>4. /\ q \in p..k
        /\ \A i \in (p + 1)..q : DegreeIn(g, g.list[i]) > DegreeIn(g, g.list[p])
        /\ q # k => ~(DegreeIn(g, g.list[q + 1]) > DegreeIn(g, g.list[p]))
    BY <2>3, <1>6
  <2> QED
    BY <2>2, <2>4, <1>3, <1>5
<1>8. \A i, j \in 1..k : i < j /\ i # p => d[j] <= d[i]
  <2>1. \A i \in 1..k : i # p => g.list[i] # n
    BY <1>3, <1>4
  <2> HIDE DEF p, q
  <2> QED
    BY <2>1, <1>5 DEF k
<1> HIDE DEF p, q
<1>9. q \in 1..k
  BY <1>1, <1>3, <1>7
<1>10. ASSUME NEW i \in 1..k, NEW j \in 1..k, i < j
       PROVE  DegreeIn(g, g.list[Was(p, q, j)]) <= DegreeIn(g, g.list[Was(p, q, i)])
  <2>1. d[Was(p, q, j)] <= d[Was(p, q, i)]
    <3>1. \A x, y \in 1..k : x < y /\ x # p /\ y # p => d[y] <= d[x]
      BY <1>8
    <3>2. \A x \in 1..k : x < p => d[p] <= d[x]
      BY <1>3, <1>8
    <3> QED
      BY <1>1, <1>2, <1>3, <1>7, <1>10, <3>1, <3>2, MovedDown
  <2>2. Was(p, q, i) \in 1..k /\ Was(p, q, j) \in 1..k
    BY <1>1, <1>3, <1>9, WasIs
  <2> QED
    BY <2>1, <2>2, <1>5
<1>11. SinkDown(g, n) = [list |-> Move(g.list, p, q), adj |-> g.adj]
  BY DEF SinkDown, p, q
<1> QED
  BY <1>3, <1>4, <1>9, <1>10, <1>11, MovedList DEF k

\* One half edge more.
LEMMA AddHalfEdgeOK ==
  ASSUME NEW g \in Graphs, InOrder(g), NEW n \in Nodes(g), NEW m \in Reg
  PROVE  /\ AddHalfEdge(g, n, m) \in Graphs /\ InOrder(AddHalfEdge(g, n, m))
         /\ Nodes(AddHalfEdge(g, n, m)) = Nodes(g)
         /\ AddHalfEdge(g, n, m).adj = [g.adj EXCEPT ![n] = g.adj[n] \cup {m}]
<1> DEFINE h == [list |-> g.list, adj |-> [g.adj EXCEPT ![n] = @ \cup {m}]]
<1>1. n \in Reg
  BY PlaceIs
<1>2. g.list \in Seq(Reg) /\ g.adj \in [Reg -> SUBSET Reg]
  BY DEF Graphs
<1>3. h \in Graphs /\ Nodes(h) = Nodes(g)
  BY <1>1, <1>2 DEF Graphs, Nodes
<1>4. \A x \in Reg : x # n => DegreeIn(h, x) = DegreeIn(g, x)
  BY <1>2 DEF DegreeIn
<1>5. DegreeIn(g, n) <= DegreeIn(h, n)
  <2>1. h.adj[n] = g.adj[n] \cup {m}
    BY <1>1, <1>2
  <2>2. IsFiniteSet(h.adj[n])
    BY <1>1, <1>3, DegreeIsNat
  <2> HIDE DEF h
  <2> QED
    BY <2>1, <2>2, FS_Subset DEF DegreeIn
<1>6. h.list = g.list /\ AddHalfEdge(g, n, m) = BubbleUp(h, n)
      /\ h.adj = [g.adj EXCEPT ![n] = g.adj[n] \cup {m}]
  BY DEF AddHalfEdge
<1>7. /\ Len(g.list) \in Nat /\ g.list \in [1..Len(g.list) -> Reg]
  BY ListIs
<1> HIDE DEF h
<1>8. ASSUME NEW i \in 1..Len(h.list), NEW j \in 1..Len(h.list), i < j
      PROVE  /\ h.list[i] # h.list[j]
             /\ h.list[j] # n => DegreeIn(h, h.list[j]) <= DegreeIn(h, h.list[i])
  <2>1. /\ g.list[i] # g.list[j] /\ DegreeIn(g, g.list[j]) <= DegreeIn(g, g.list[i])
        /\ g.list[i] \in Reg /\ g.list[j] \in Reg
    BY <1>6, <1>7, <1>8, OrderIs
  <2>2. /\ DegreeIn(g, g.list[j]) \in Nat /\ DegreeIn(g, g.list[i]) \in Nat
        /\ DegreeIn(h, g.list[j]) \in Nat /\ DegreeIn(h, g.list[i]) \in Nat
    BY <2>1, <1>3, DegreeIsNat
  <2>3. DegreeIn(g, g.list[i]) <= DegreeIn(h, g.list[i])
    BY <2>1, <2>2, <1>4, <1>5
  <2> QED
    BY <2>1, <2>2, <2>3, <1>4, <1>6
<1>9. n \in Nodes(h)
  BY <1>3
<1> QED
  BY <1>3, <1>6, <1>8, <1>9, BubbleUpOK

\* One half edge less.
LEMMA RemoveHalfEdgeOK ==
  ASSUME NEW g \in Graphs, InOrder(g), NEW n \in Nodes(g), NEW m \in Reg
  PROVE  /\ RemoveHalfEdge(g, n, m) \in Graphs /\ InOrder(RemoveHalfEdge(g, n, m))
         /\ Nodes(RemoveHalfEdge(g, n, m)) = Nodes(g)
         /\ RemoveHalfEdge(g, n, m).adj = [g.adj EXCEPT ![n] = g.adj[n] \ {m}]
<1> DEFINE h == [list |-> g.list, adj |-> [g.adj EXCEPT ![n] = @ \ {m}]]
<1>1. n \in Reg
  BY PlaceIs
<1>2. g.list \in Seq(Reg) /\ g.adj \in [Reg -> SUBSET Reg]
  BY DEF Graphs
<1>3. h \in Graphs /\ Nodes(h) = Nodes(g)
  BY <1>1, <1>2 DEF Graphs, Nodes
<1>4. \A x \in Reg : x # n => DegreeIn(h, x) = DegreeIn(g, x)
  BY <1>2 DEF DegreeIn
<1>5. DegreeIn(h, n) <= DegreeIn(g, n)
  <2>1. h.adj[n] = g.adj[n] \ {m}
    BY <1>1, <1>2
  <2>2. IsFiniteSet(g.adj[n])
    BY <1>1, DegreeIsNat
  <2> HIDE DEF h
  <2> QED
    BY <2>1, <2>2, FS_Subset DEF DegreeIn
<1>6. h.list = g.list /\ RemoveHalfEdge(g, n, m) = SinkDown(h, n)
      /\ h.adj = [g.adj EXCEPT ![n] = g.adj[n] \ {m}]
  BY DEF RemoveHalfEdge
<1>7. /\ Len(g.list) \in Nat /\ g.list \in [1..Len(g.list) -> Reg]
  BY ListIs
<1> HIDE DEF h
<1>8. ASSUME NEW i \in 1..Len(h.list), NEW j \in 1..Len(h.list), i < j
      PROVE  /\ h.list[i] # h.list[j]
             /\ h.list[i] # n => DegreeIn(h, h.list[j]) <= DegreeIn(h, h.list[i])
  <2>1. /\ g.list[i] # g.list[j] /\ DegreeIn(g, g.list[j]) <= DegreeIn(g, g.list[i])
        /\ g.list[i] \in Reg /\ g.list[j] \in Reg
    BY <1>6, <1>7, <1>8, OrderIs
  <2>2. /\ DegreeIn(g, g.list[j]) \in Nat /\ DegreeIn(g, g.list[i]) \in Nat
        /\ DegreeIn(h, g.list[j]) \in Nat /\ DegreeIn(h, g.list[i]) \in Nat
    BY <2>1, <1>3, DegreeIsNat
  <2>3. DegreeIn(h, g.list[j]) <= DegreeIn(g, g.list[j])
    BY <2>1, <2>2, <1>4, <1>5
  <2> QED
    BY <2>1, <2>2, <2>3, <1>4, <1>6
<1>9. n \in Nodes(h)
  BY <1>3
<1> QED
  BY <1>3, <1>6, <1>8, <1>9, SinkDownOK

\* An edge more, or one less.
LEMMA AddEdgeOK ==
  ASSUME NEW g \in Graphs, InOrder(g), NEW n \in Nodes(g), NEW m \in Nodes(g), n # m,
         m \in g.adj[n] => n \in g.adj[m]
  PROVE  /\ AddEdge(g, n, m) \in Graphs /\ InOrder(AddEdge(g, n, m))
         /\ Nodes(AddEdge(g, n, m)) = Nodes(g)
         /\ AddEdge(g, n, m).adj[n] = g.adj[n] \cup {m}
         /\ AddEdge(g, n, m).adj[m] = g.adj[m] \cup {n}
         /\ \A x \in Reg : x # n /\ x # m => AddEdge(g, n, m).adj[x] = g.adj[x]
<1>1. n \in Reg /\ m \in Reg
  BY PlaceIs
<1>2. CASE m \in g.adj[n]
  BY <1>2 DEF AddEdge
<1>3. CASE m \notin g.adj[n]
  <2> DEFINE h == AddHalfEdge(g, n, m)
  <2>1. /\ h \in Graphs /\ InOrder(h) /\ Nodes(h) = Nodes(g)
        /\ h.adj = [g.adj EXCEPT ![n] = g.adj[n] \cup {m}]
    BY <1>1, AddHalfEdgeOK
  <2>2. AddEdge(g, n, m) = AddHalfEdge(h, m, n)
    BY <1>3 DEF AddEdge
  <2> HIDE DEF h
  <2>3. h \in Graphs /\ InOrder(h) /\ m \in Nodes(h)
    BY <2>1
  <2>4. /\ AddHalfEdge(h, m, n) \in Graphs /\ InOrder(AddHalfEdge(h, m, n))
        /\ Nodes(AddHalfEdge(h, m, n)) = Nodes(h)
        /\ AddHalfEdge(h, m, n).adj = [h.adj EXCEPT ![m] = h.adj[m] \cup {n}]
    BY <1>1, <2>3, AddHalfEdgeOK
  <2>5. g.adj \in [Reg -> SUBSET Reg] /\ h.adj \in [Reg -> SUBSET Reg]
    BY <2>1 DEF Graphs
  <2>6. /\ h.adj[n] = g.adj[n] \cup {m}
        /\ \A x \in Reg : x # n => h.adj[x] = g.adj[x]
    BY <1>1, <2>1, <2>5
  <2>7. /\ AddEdge(g, n, m).adj[m] = h.adj[m] \cup {n}
        /\ \A x \in Reg : x # m => AddEdge(g, n, m).adj[x] = h.adj[x]
    BY <1>1, <2>2, <2>4, <2>5
  <2>8. AddEdge(g, n, m).adj[n] = g.adj[n] \cup {m} /\ AddEdge(g, n, m).adj[m] = g.adj[m] \cup {n}
    BY <1>1, <2>6, <2>7
  <2> QED
    BY <1>1, <2>1, <2>2, <2>4, <2>6, <2>7, <2>8
<1> QED
  BY <1>2, <1>3

LEMMA RemoveEdgeOK ==
  ASSUME NEW g \in Graphs, InOrder(g), NEW n \in Nodes(g), NEW m \in Nodes(g), n # m
  PROVE  /\ RemoveEdge(g, n, m) \in Graphs /\ InOrder(RemoveEdge(g, n, m))
         /\ Nodes(RemoveEdge(g, n, m)) = Nodes(g)
         /\ RemoveEdge(g, n, m).adj[n] = g.adj[n] \ {m}
         /\ RemoveEdge(g, n, m).adj[m] = g.adj[m] \ {n}
         /\ \A x \in Reg : x # n /\ x # m => RemoveEdge(g, n, m).adj[x] = g.adj[x]
<1>1. n \in Reg /\ m \in Reg
  BY PlaceIs
<1> DEFINE h == RemoveHalfEdge(g, n, m)
<1>2. /\ h \in Graphs /\ InOrder(h) /\ Nodes(h) = Nodes(g)
      /\ h.adj = [g.adj EXCEPT ![n] = g.adj[n] \ {m}]
  BY <1>1, RemoveHalfEdgeOK
<1>3. RemoveEdge(g, n, m) = RemoveHalfEdge(h, m, n)
  BY DEF RemoveEdge
<1> HIDE DEF h
<1>4. h \in Graphs /\ InOrder(h) /\ m \in Nodes(h)
  BY <1>2
<1>5. /\ RemoveHalfEdge(h, m, n) \in Graphs /\ InOrder(RemoveHalfEdge(h, m, n))
      /\ Nodes(RemoveHalfEdge(h, m, n)) = Nodes(h)
      /\ RemoveHalfEdge(h, m, n).adj = [h.adj EXCEPT ![m] = h.adj[m] \ {n}]
  BY <1>1, <1>4, RemoveHalfEdgeOK
<1>6. g.adj \in [Reg -> SUBSET Reg] /\ h.adj \in [Reg -> SUBSET Reg]
  BY <1>2 DEF Graphs
<1>7. /\ h.adj[n] = g.adj[n] \ {m}
      /\ \A x \in Reg : x # n => h.adj[x] = g.adj[x]
  BY <1>1, <1>2, <1>6
<1>8. /\ RemoveEdge(g, n, m).adj[m] = h.adj[m] \ {n}
      /\ \A x \in Reg : x # m => RemoveEdge(g, n, m).adj[x] = h.adj[x]
  BY <1>1, <1>3, <1>5, <1>6
<1>9. RemoveEdge(g, n, m).adj[n] = g.adj[n] \ {m} /\ RemoveEdge(g, n, m).adj[m] = g.adj[m] \ {n}
  BY <1>1, <1>7, <1>8
<1> QED
  BY <1>1, <1>2, <1>3, <1>5, <1>7, <1>8, <1>9

\* A node less.
LEMMA UnlinkOK ==
  ASSUME NEW g \in Graphs, InOrder(g), NEW n \in Nodes(g)
  PROVE  /\ Unlink(g, n) \in Graphs /\ InOrder(Unlink(g, n))
         /\ Nodes(Unlink(g, n)) = Nodes(g) \ {n}
         /\ Unlink(g, n).adj = g.adj
<1> DEFINE k == Len(g.list)
           p == PlaceOf(g, n)
           h == Unlink(g, n)
           from(i) == IF i < p THEN i ELSE i + 1
<1>1. /\ k \in Nat /\ g.list \in [1..k -> Reg] /\ DOMAIN g.list = 1..k
      /\ g.adj \in [Reg -> SUBSET Reg]
  BY ListIs
<1>2. p \in 1..k /\ g.list[p] = n
  BY PlaceIs
<1>3. h.list = [i \in 1..(k - 1) |-> g.list[from(i)]] /\ h.adj = g.adj
      /\ h = [list |-> h.list, adj |-> h.adj]
  BY DEF Unlink
<1> HIDE DEF h, p, k
<1>4. /\ \A i \in 1..(k - 1) : from(i) \in 1..k /\ from(i) # p
      /\ \A i, j \in 1..(k - 1) : i < j => from(i) < from(j)
      /\ \A x \in 1..k : x # p => \E i \in 1..(k - 1) : from(i) = x
  <2>1. \A x \in 1..k : x # p => IF x < p THEN x \in 1..(k - 1) /\ from(x) = x
                                 ELSE x - 1 \in 1..(k - 1) /\ from(x - 1) = x
    BY <1>1, <1>2
  <2>2. /\ \A i \in 1..(k - 1) : from(i) \in 1..k /\ from(i) # p
        /\ \A i, j \in 1..(k - 1) : i < j => from(i) < from(j)
    BY <1>1, <1>2
  <2> HIDE DEF from
  <2> QED
    BY <2>1, <2>2
<1> HIDE DEF from
<1>5. \A i \in 1..(k - 1) : h.list[i] = g.list[from(i)] /\ h.list[i] \in Reg
  BY <1>1, <1>3, <1>4
<1>6. k - 1 \in Nat /\ h.list \in [1..(k - 1) -> Reg]
  <2>1. k - 1 \in Nat
    BY <1>1, <1>2
  <2> QED
    BY <2>1, <1>3, <1>5
<1>7. h.list \in Seq(Reg) /\ DOMAIN h.list = 1..(k - 1)
  BY <1>6, ListMade
<1>8. h \in Graphs
  BY <1>1, <1>3, <1>7 DEF Graphs
<1>9. ASSUME NEW i \in 1..(k - 1), NEW j \in 1..(k - 1), i < j
      PROVE  h.list[i] # h.list[j] /\ DegreeIn(h, h.list[i]) >= DegreeIn(h, h.list[j])
  <2>1. from(i) \in 1..k /\ from(j) \in 1..k /\ from(i) < from(j)
    BY <1>4, <1>9
  <2>2. /\ g.list[from(i)] # g.list[from(j)]
        /\ DegreeIn(g, g.list[from(j)]) <= DegreeIn(g, g.list[from(i)])
    BY <2>1, OrderIs DEF k
  <2>3. DegreeIn(h, h.list[j]) <= DegreeIn(h, h.list[i])
    BY <2>2, <1>3, <1>5 DEF DegreeIn
  <2>4. DegreeIn(h, h.list[j]) \in Nat /\ DegreeIn(h, h.list[i]) \in Nat
    BY <1>5, <1>8, DegreeIsNat
  <2> QED
    BY <2>2, <2>3, <2>4, <1>5
<1>10. InOrder(h)
  BY <1>7, <1>9 DEF InOrder
<1>11. \A x, y \in 1..k : g.list[x] = g.list[y] => x = y
  <2>1. \A x, y \in 1..k : x < y => g.list[x] # g.list[y]
    BY OrderIs DEF k
  <2>2. \A x, y \in 1..k : x < y \/ y < x \/ x = y
    BY <1>1
  <2> QED
    BY <2>1, <2>2
<1>12. Nodes(h) = Nodes(g) \ {n}
  <2>1. Nodes(h) = {h.list[i] : i \in 1..(k - 1)} /\ Nodes(g) = {g.list[i] : i \in 1..k}
    BY <1>1, <1>7 DEF Nodes
  <2>2. \A i \in 1..(k - 1) : h.list[i] \in Nodes(g) /\ h.list[i] # n
    BY <2>1, <1>2, <1>4, <1>5, <1>11
  <2>3. \A x \in 1..k : g.list[x] # n => g.list[x] \in Nodes(h)
    BY <2>1, <1>2, <1>4, <1>5
  <2> QED
    BY <2>1, <2>2, <2>3
<1> QED
  BY <1>3, <1>8, <1>10, <1>12 DEF h

\* A list of the nodes.
LEMMA UnconnectedOK ==
  ASSUME NEW S \in SUBSET Reg
  PROVE  /\ Unconnected(S) \in Graphs /\ InOrder(Unconnected(S))
         /\ Nodes(Unconnected(S)) = S
         /\ Unconnected(S).adj = [n \in Reg |-> {}]
<1> DEFINE k == Cardinality(S)
           l == Listing(S)
           g == Unconnected(S)
<1>1. IsFiniteSet(S) /\ k \in Nat /\ ExistsBijection(1..k, S)
  <2>1. IsFiniteSet(S)
    BY RegIsNode, Finite
  <2> QED
    BY <2>1, FS_CardinalityType
<1>2. IsFiniteSet(1..k) /\ Cardinality(1..k) = k
  <2>1. 1 \in Int /\ k \in Int
    BY <1>1
  <2>2. IsFiniteSet(1..k) /\ Cardinality(1..k) = IF 1 > k THEN 0 ELSE k - 1 + 1
    <3> HIDE DEF k
    <3> QED
      BY <2>1, FS_Interval
  <2> HIDE DEF k
  <2> QED
    BY <2>2, <1>1
<1> HIDE DEF k
<1>3. \E f \in [1..k -> S] : \A n \in S : \E i \in DOMAIN f : f[i] = n
  <2>1. PICK f : f \in Bijection(1..k, S)
    BY <1>1 DEF ExistsBijection
  <2>2. f \in [1..k -> S] /\ \A n \in S : \E i \in 1..k : f[i] = n
    BY <2>1 DEF Bijection, Surjection
  <2> QED
    BY <2>2
<1>4. l \in [1..k -> S] /\ \A n \in S : \E i \in 1..k : l[i] = n
  <2>1. l \in [1..k -> S] /\ \A n \in S : \E i \in DOMAIN l : l[i] = n
    BY <1>3, Zenon DEF Listing, k
  <2> QED
    BY <2>1
<1>5. \A i, j \in 1..k : i # j => l[i] # l[j]
  <2>1. l \in Surjection(1..k, S)
    BY <1>4 DEF Surjection
  <2>2. Cardinality(1..k) = Cardinality(S)
    BY <1>2 DEF k
  <2>3. l \in Injection(1..k, S)
    <3> HIDE DEF l
    <3> QED
      BY <2>1, <2>2, <1>2, FS_SurjSameCardinalityImpliesInj
  <2> QED
    BY <2>3, <1>4 DEF Injection, IsInjective
<1>6. g = [list |-> l, adj |-> [n \in Reg |-> {}]]
  BY DEF Unconnected
<1>7. l \in [1..k -> Reg]
  BY <1>4
<1> HIDE DEF l, g
<1>8. l \in Seq(Reg) /\ DOMAIN l = 1..k
  BY <1>1, <1>7, ListMade
<1>9. g \in Graphs
  BY <1>6, <1>8 DEF Graphs
<1>10. \A n \in Reg : DegreeIn(g, n) = 0
  BY <1>6, FS_EmptySet DEF DegreeIn
<1>11. InOrder(g)
  <2>1. ASSUME NEW i \in 1..k, NEW j \in 1..k, i < j
        PROVE  l[i] # l[j] /\ DegreeIn(g, l[i]) >= DegreeIn(g, l[j])
    <3>1. l[i] \in Reg /\ l[j] \in Reg
      BY <1>7
    <3> QED
      BY <3>1, <2>1, <1>1, <1>5, <1>10
  <2>2. g.list = l
    BY <1>6
  <2> QED
    BY <2>1, <2>2, <1>8 DEF InOrder
<1>12. Nodes(g) = S
  <2>1. Nodes(g) = {l[i] : i \in 1..k}
    BY <1>6, <1>8 DEF Nodes
  <2> QED
    BY <2>1, <1>4
<1> QED
  BY <1>6, <1>9, <1>11, <1>12 DEF g

-----------------------------------------------------------------------------
\* What the merged registers interfere with.

LEMMA InterferesIs ==
  ASSUME AllocTypeOK, NEW x, NEW y
  PROVE  /\ y \in Interferes(x) => \E a \in Reg : \E b \in found[a] : rep[a] = x /\ rep[b] = y
         /\ \A a \in Reg : \A b \in found[a] : rep[a] = x /\ rep[b] = y => y \in Interferes(x)
<1>1. found \in [Reg -> SUBSET Reg] /\ rep \in [Reg -> Reg]
  BY DEF AllocTypeOK
<1>2. ASSUME y \in Interferes(x)
      PROVE  \E a \in Reg : \E b \in found[a] : rep[a] = x /\ rep[b] = y
  <2>1. PICK b \in UNION {found[a] : a \in {z \in Reg : rep[z] = x}} : y = rep[b]
    BY <1>2 DEF Interferes
  <2>2. PICK a \in Reg : rep[a] = x /\ b \in found[a]
    BY <2>1
  <2> QED
    BY <2>1, <2>2
<1>3. ASSUME NEW a \in Reg, NEW b \in found[a], rep[a] = x, rep[b] = y
      PROVE  y \in Interferes(x)
  <2>1. b \in UNION {found[c] : c \in {z \in Reg : rep[z] = x}}
    BY <1>3
  <2> QED
    BY <2>1, <1>3 DEF Interferes
<1> QED
  BY <1>2, <1>3

LEMMA RemainingIs ==
  ASSUME AllocTypeOK, MergesOK
  PROVE  /\ \A r \in Remaining : r \in Reg /\ rep[r] = r
         /\ \A r \in Reg : rep[r] \in Remaining
         /\ \A r \in Reg : rep[r] = r => r \in Remaining
<1>1. rep \in [Reg -> Reg]
  BY DEF AllocTypeOK
<1> QED
  BY <1>1 DEF MergesOK, Remaining

\* Mutual, within a class, between nodes that are left.
LEMMA QuotientOK ==
  ASSUME AllocTypeOK, MergesOK, NEW x, NEW y \in Interferes(x)
  PROVE  /\ x \in Remaining /\ y \in Remaining /\ x \in Reg /\ y \in Reg
         /\ x \in Interferes(y) /\ x # y /\ Class[x] = Class[y]
<1>1. found \in [Reg -> SUBSET Reg] /\ rep \in [Reg -> Reg]
  BY DEF AllocTypeOK
<1>2. PICK a \in Reg : \E b \in found[a] : rep[a] = x /\ rep[b] = y
  BY InterferesIs
<1>3. PICK b \in found[a] : rep[a] = x /\ rep[b] = y
  BY <1>2
<1>4. b \in Reg /\ a \in found[b] /\ Class[a] = Class[b] /\ rep[a] # rep[b]
  BY <1>1 DEF MergesOK
<1>5. x \in Interferes(y)
  BY <1>3, <1>4, InterferesIs
<1>6. Class[x] = Class[a] /\ Class[y] = Class[b]
  BY <1>3, <1>4 DEF MergesOK
<1> QED
  BY <1>1, <1>3, <1>4, <1>5, <1>6, RemainingIs

LEMMA InterferesType ==
  ASSUME AllocTypeOK, MergesOK, NEW x
  PROVE  /\ Interferes(x) \in SUBSET Reg /\ IsFiniteSet(Interferes(x))
         /\ Cardinality(Interferes(x)) \in Nat
         /\ x \notin Remaining => Interferes(x) = {}
<1>1. Interferes(x) \in SUBSET Reg
  BY QuotientOK
<1>2. Interferes(x) \in SUBSET Node
  BY <1>1, RegIsNode
<1> QED
  BY <1>1, <1>2, Finite, QuotientOK

LEMMA SameQuotient ==
  ASSUME UNCHANGED <<found, rep>>
  PROVE  /\ \A x : Interferes(x)' = Interferes(x)
         /\ Remaining' = Remaining
         /\ SimpleOK => SimpleOK'
<1>1. /\ \A x : Interferes(x)' = Interferes(x)
      /\ Remaining' = Remaining
  BY DEF Interferes, Remaining
<1> QED
  BY <1>1 DEF SimpleOK, Simple, K, ColorsOf

\* Edges are added one by one.
LEMMA NextEdgeIs ==
  ASSUME AllocTypeOK, todo # {}
  PROVE  /\ NextEdge \in todo /\ NextEdge[1] \in Reg /\ NextEdge[2] \in Reg
         /\ NextEdge = <<NextEdge[1], NextEdge[2]>>
<1>1. NextEdge \in todo
  BY DEF NextEdge
<1>2. NextEdge \in Reg \X Reg
  BY <1>1 DEF AllocTypeOK
<1> QED
  BY <1>1, <1>2

LEMMA BuildAInv == AInv /\ Build => AInv'
<1> SUFFICES ASSUME AInv, Build PROVE AInv'
  OBVIOUS
<1> USE DEF AInv
<1>0. PICK n, m : n = NextEdge[1] /\ m = NextEdge[2]
  OBVIOUS
<1>1. /\ stage = "build" /\ todo # {}
      /\ nodes' = AddEdge(nodes, n, m) /\ todo' = todo \ {<<n, m>>}
      /\ UNCHANGED <<vars, found, code, pc, pair, rep, changed, stage>>
      /\ <<n, m>> \in todo /\ n \in Reg /\ m \in Reg
  <2>1. stage = "build" /\ todo # {}
    BY DEF Build
  <2>2. NextEdge = <<n, m>> /\ <<n, m>> \in todo /\ n \in Reg /\ m \in Reg
    BY <2>1, <1>0, NextEdgeIs
  <2> QED
    BY <2>1, <2>2, <1>0 DEF Build, Connect
<1>2. /\ todo \subseteq AllEdges(found)
      /\ Nodes(nodes) = Remaining
      /\ \A x \in Reg :
           /\ Interferes(x) = found[x]
           /\ nodes.adj[x] = {y \in found[x] : <<x, y>> \notin todo \/ <<y, x>> \notin todo}
  BY <1>1 DEF BuildOK
<1>3. m \in found[n] /\ n \in found[m] /\ n # m /\ n \in Nodes(nodes) /\ m \in Nodes(nodes)
  <2>1. m \in found[n]
    BY <1>1, <1>2 DEF AllEdges
  <2>2. m \in Interferes(n)
    BY <2>1, <1>1, <1>2
  <2>3. n \in Remaining /\ m \in Remaining /\ n \in Interferes(m) /\ n # m
    BY <2>2, QuotientOK
  <2> QED
    BY <2>1, <2>3, <1>1, <1>2
<1>4. nodes \in Graphs /\ InOrder(nodes)
  BY DEF AllocTypeOK, Graphs
<1>5. m \in nodes.adj[n] => n \in nodes.adj[m]
  BY <1>1, <1>2, <1>3
<1>6. /\ nodes' \in Graphs /\ InOrder(nodes') /\ Nodes(nodes') = Nodes(nodes)
      /\ nodes'.adj[n] = nodes.adj[n] \cup {m}
      /\ nodes'.adj[m] = nodes.adj[m] \cup {n}
      /\ \A x \in Reg : x # n /\ x # m => nodes'.adj[x] = nodes.adj[x]
  BY <1>1, <1>3, <1>4, <1>5, AddEdgeOK
<1>7. UNCHANGED <<found, rep, code, pc, stage>>
  BY <1>1
<1>8. (\A x : Interferes(x)' = Interferes(x)) /\ Remaining' = Remaining /\ SimpleOK'
  BY <1>7, SameQuotient
<1>9. AllocTypeOK'
  BY <1>1, <1>6 DEF AllocTypeOK, Graphs
<1>10. MergesOK'
  BY <1>7 DEF MergesOK
<1>11. BuildOK'
  <2>1. ASSUME NEW x \in Reg
        PROVE  nodes'.adj[x] = {y \in found[x] : <<x, y>> \notin todo' \/ <<y, x>> \notin todo'}
    <3>1. nodes.adj[x] = {y \in found[x] : <<x, y>> \notin todo \/ <<y, x>> \notin todo}
      BY <1>2
    <3>2. \A y : /\ <<x, y>> \notin todo' <=> <<x, y>> \notin todo \/ (x = n /\ y = m)
                 /\ <<y, x>> \notin todo' <=> <<y, x>> \notin todo \/ (y = n /\ x = m)
      BY <1>1
    <3>3. CASE x = n
      BY <3>1, <3>2, <3>3, <1>3, <1>6
    <3>4. CASE x = m
      BY <3>1, <3>2, <3>4, <1>3, <1>6
    <3>5. CASE x # n /\ x # m
      BY <3>1, <3>2, <3>5, <1>6
    <3> QED
      BY <3>3, <3>4, <3>5
  <2>2. todo' \subseteq AllEdges(found)
    BY <1>1, <1>2
  <2>3. AllEdges(found)' = AllEdges(found)
    BY <1>7 DEF AllEdges
  <2> QED
    BY <2>1, <2>2, <2>3, <1>2, <1>6, <1>7, <1>8 DEF BuildOK
<1>12. EarlyOK' /\ MergeOK' /\ RemoveOK'
  BY <1>1 DEF EarlyOK, MergeOK, RemoveOK
<1>13. Uncolorable'
  BY <1>1 DEF Uncolorable, vars
<1> QED
  BY <1>6, <1>8, <1>9, <1>10, <1>11, <1>12, <1>13

LEMMA BuiltAInv == AInv /\ Built => AInv'
<1> SUFFICES ASSUME AInv, Built PROVE AInv'
  OBVIOUS
<1> USE DEF AInv
<1>1. /\ stage = "build" /\ todo = {} /\ pc' = 1 /\ stage' = "early"
      /\ UNCHANGED <<vars, found, nodes, todo, pair, rep, changed>>
      /\ code' \in [1..NCopies -> Copies] \/ code' = code
  BY DEF Built
<1>2. /\ Nodes(nodes) = Remaining
      /\ \A x \in Reg : Interferes(x) = found[x] /\ nodes.adj[x] = found[x]
  BY <1>1 DEF BuildOK
<1>3. (\A x : Interferes(x)' = Interferes(x)) /\ Remaining' = Remaining /\ SimpleOK'
  BY <1>1, SameQuotient
<1>4. /\ code' \in Seq((Reg \X Reg) \cup {NoCopy})
      /\ \A i \in DOMAIN code' : code'[i] # NoCopy => Class[code'[i][1]] = Class[code'[i][2]]
  <2>1. CASE code' \in [1..NCopies -> Copies]
    <3>1. NCopies \in Nat
      BY AllocAssumption
    <3>2. Copies \subseteq (Reg \X Reg) \cup {NoCopy}
      BY DEF Copies
    <3>3. code' \in [1..NCopies -> (Reg \X Reg) \cup {NoCopy}]
      BY <2>1, <3>2
    <3>4. code' \in Seq((Reg \X Reg) \cup {NoCopy})
      BY <3>1, <3>3, ListMade
    <3>5. \A i \in DOMAIN code' : Class[code'[i][1]] = Class[code'[i][2]]
      BY <2>1 DEF Copies
    <3> QED
      BY <3>4, <3>5
  <2>2. CASE code' = code
    BY <2>2 DEF AllocTypeOK, MergesOK
  <2> QED
    BY <1>1, <2>1, <2>2
<1>5. AllocTypeOK'
  BY <1>1, <1>4 DEF AllocTypeOK
<1>6. MergesOK'
  BY <1>1, <1>4 DEF MergesOK
<1>7. InOrder(nodes')
  BY <1>1
<1>8. EarlyOK'
  BY <1>1, <1>2, <1>3 DEF EarlyOK
<1>9. BuildOK' /\ MergeOK' /\ RemoveOK'
  BY <1>1 DEF BuildOK, MergeOK, RemoveOK
<1>10. Uncolorable'
  BY <1>1 DEF Uncolorable, vars
<1> QED
  BY <1>3, <1>5, <1>6, <1>7, <1>8, <1>9, <1>10

LEMMA SkipAInv == AInv /\ Skip => AInv'
<1> SUFFICES ASSUME AInv, Skip PROVE AInv'
  OBVIOUS
<1> USE DEF AInv
<1>1. /\ stage = "early" /\ pc' = pc + 1
      /\ UNCHANGED <<vars, found, code, nodes, todo, pair, rep, changed, stage>>
  BY DEF Skip
<1>2. (\A x : Interferes(x)' = Interferes(x)) /\ Remaining' = Remaining /\ SimpleOK'
  BY <1>1, SameQuotient
<1>3. pc' \in Nat /\ pc' # 0
  BY <1>1 DEF AllocTypeOK
<1>4. AllocTypeOK'
  BY <1>1, <1>3 DEF AllocTypeOK
<1>5. MergesOK'
  BY <1>1 DEF MergesOK
<1>6. InOrder(nodes')
  BY <1>1
<1>7. EarlyOK'
  BY <1>1, <1>2, <1>3 DEF EarlyOK
<1>8. BuildOK' /\ MergeOK' /\ RemoveOK'
  BY <1>1 DEF BuildOK, MergeOK, RemoveOK
<1>9. Uncolorable'
  BY <1>1 DEF Uncolorable, vars
<1> QED
  BY <1>2, <1>4, <1>5, <1>6, <1>7, <1>8, <1>9

\* The two nodes of a merge: the one that goes is a pseudo register.
LEMMA MergeablePair ==
  ASSUME AInv, stage = "early", pc <= Len(code), Mergeable(code[pc]),
         NEW n, NEW m, n = Survivor(code[pc]),
         m = IF n = code[pc][1] THEN code[pc][2] ELSE code[pc][1]
  PROVE  /\ n \in Remaining /\ m \in Remaining /\ m \in Pseudo /\ n # m
         /\ Class[n] = Class[m] /\ m \notin Interferes(n)
         /\ Cardinality({x \in Interferes(n) \cup Interferes(m) :
                           Cardinality(Interferes(x)) >= K(n)}) < K(n)
<1> USE DEF AInv
<1>1. PICK a, b : a = code[pc][1] /\ b = code[pc][2]
  OBVIOUS
<1>2. /\ a # b /\ a \in Nodes(nodes) /\ b \in Nodes(nodes) /\ b \notin nodes.adj[a]
      /\ ~(a \in Phys /\ b \in Phys)
      /\ Cardinality({x \in nodes.adj[a] \cup nodes.adj[b] : DegreeIn(nodes, x) >= K(a)}) < K(a)
  BY <1>1 DEF Mergeable, Eligible, Conservative
<1>3. Nodes(nodes) = Remaining /\ \A x \in Reg : nodes.adj[x] = Interferes(x)
  BY DEF EarlyOK
<1>4. a \in Remaining /\ b \in Remaining /\ a \in Reg /\ b \in Reg
  BY <1>2, <1>3, RemainingIs
<1>5. Class[a] = Class[b]
  <2>1. pc \in Nat /\ pc # 0 /\ Len(code) \in Nat /\ DOMAIN code = 1..Len(code)
    BY LenProperties DEF AllocTypeOK, EarlyOK
  <2>2. pc \in DOMAIN code
    BY <2>1
  <2>3. code[pc] # NoCopy
    BY <1>1, <1>4, RegIsNode DEF NoCopy
  <2> QED
    BY <2>2, <2>3, <1>1 DEF MergesOK
<1>6. K(a) = K(b)
  BY <1>5 DEF K, ColorsOf
<1>7. /\ b \notin Interferes(a) /\ a \notin Interferes(b)
      /\ nodes.adj[a] = Interferes(a) /\ nodes.adj[b] = Interferes(b)
  <2>1. b \notin Interferes(a)
    BY <1>2, <1>3, <1>4
  <2>2. a \notin Interferes(b)
    BY <2>1, QuotientOK
  <2> QED
    BY <2>1, <2>2, <1>3, <1>4
<1>8. {x \in nodes.adj[a] \cup nodes.adj[b] : DegreeIn(nodes, x) >= K(a)} =
        {x \in Interferes(a) \cup Interferes(b) : Cardinality(Interferes(x)) >= K(a)}
  <2>1. \A x \in Interferes(a) \cup Interferes(b) : DegreeIn(nodes, x) = Cardinality(Interferes(x))
    <3>1. \A x \in Interferes(a) \cup Interferes(b) : x \in Reg
      BY InterferesType
    <3> QED
      BY <3>1, <1>3 DEF DegreeIn
  <2> QED
    BY <2>1, <1>7
<1>9. Cardinality({x \in Interferes(a) \cup Interferes(b) :
                     Cardinality(Interferes(x)) >= K(a)}) < K(a)
  BY <1>2, <1>8
<1>10. (n = a /\ m = b) \/ (n = b /\ m = a)
  BY <1>1, <1>2 DEF Survivor
<1>11. m \in Pseudo
  <2>1. a \in Phys \/ a \in Pseudo
    BY <1>4, RegIsNode
  <2>2. b \in Phys \/ b \in Pseudo
    BY <1>4, RegIsNode
  <2>3. n = IF b \in Phys \/ (a \in Pseudo /\ Size[b] > Size[a]) THEN b ELSE a
    BY <1>1 DEF Survivor
  <2> QED
    BY <2>1, <2>2, <2>3, <1>2, <1>10
<1>12. CASE n = a /\ m = b
  BY <1>12, <1>2, <1>4, <1>5, <1>7, <1>9, <1>11
<1>13. CASE n = b /\ m = a
  <2>1. Interferes(a) \cup Interferes(b) = Interferes(b) \cup Interferes(a)
    OBVIOUS
  <2>2. Cardinality({x \in Interferes(b) \cup Interferes(a) :
                       Cardinality(Interferes(x)) >= K(b)}) < K(b)
    BY <2>1, <1>6, <1>9
  <2> QED
    BY <2>2, <1>13, <1>2, <1>4, <1>5, <1>7, <1>11
<1> QED
  BY <1>10, <1>12, <1>13

LEMMA MergeAInv == AInv /\ Merge => AInv'
<1> SUFFICES ASSUME AInv, Merge PROVE AInv'
  OBVIOUS
<1> USE DEF AInv
<1>1. PICK n, m : n = Survivor(code[pc])
                  /\ m = IF n = code[pc][1] THEN code[pc][2] ELSE code[pc][1]
  OBVIOUS
<1>2. /\ stage = "early" /\ pc <= Len(code) /\ Mergeable(code[pc])
      /\ pair' = <<n, m>> /\ todo' = {n} \X nodes.adj[m] /\ changed' = TRUE /\ stage' = "merge"
      /\ UNCHANGED <<vars, found, code, pc, nodes, rep>>
  BY <1>1 DEF Merge
<1>3. /\ n \in Remaining /\ m \in Remaining /\ m \in Pseudo /\ n # m
      /\ Class[n] = Class[m] /\ m \notin Interferes(n)
      /\ Cardinality({x \in Interferes(n) \cup Interferes(m) :
                        Cardinality(Interferes(x)) >= K(n)}) < K(n)
  BY <1>1, <1>2, MergeablePair
<1>4. /\ pc # 0 /\ Nodes(nodes) = Remaining
      /\ \A x \in Reg : nodes.adj[x] = Interferes(x)
      /\ n \in Reg /\ m \in Reg
  BY <1>2, <1>3, RemainingIs DEF EarlyOK
<1>5. todo' = {n} \X Interferes(m) /\ todo' \subseteq Reg \X Reg
  BY <1>2, <1>4, InterferesType
<1>6. (\A x : Interferes(x)' = Interferes(x)) /\ Remaining' = Remaining /\ SimpleOK'
  BY <1>2, SameQuotient
<1>7. AllocTypeOK'
  BY <1>2, <1>4, <1>5 DEF AllocTypeOK
<1>8. MergesOK'
  BY <1>2 DEF MergesOK
<1>9. InOrder(nodes')
  BY <1>2
<1>10. MergeOK'
  <2>1. Taken(n, m)' = {}
    BY <1>5, <1>6 DEF Taken
  <2>2. {x \in Interferes(n)' \cup Interferes(m)' : Cardinality(Interferes(x)') >= K(n)} =
          {x \in Interferes(n) \cup Interferes(m) : Cardinality(Interferes(x)) >= K(n)}
    BY <1>6
  <2>3. \A x \in Reg :
           nodes'.adj[x] = IF x = n THEN Interferes(n)' \cup Taken(n, m)'
                          ELSE IF x \in Taken(n, m)' THEN Interferes(x)' \cup {n}
                          ELSE Interferes(x)'
    BY <2>1, <1>2, <1>4, <1>6
  <2>4. pc' # 0 /\ Nodes(nodes)' = Remaining' /\ n \in Remaining' /\ m \in Remaining' \cap Pseudo
    BY <1>2, <1>3, <1>4, <1>6
  <2>5. /\ pair' = <<n, m>> /\ n # m /\ Class[n] = Class[m] /\ m \notin Interferes(n)'
        /\ todo' \subseteq {n} \X Interferes(m)'
    BY <1>2, <1>3, <1>5, <1>6
  <2>6. Cardinality({x \in Interferes(n)' \cup Interferes(m)' :
                       Cardinality(Interferes(x)') >= K(n)}) < K(n)
    BY <2>2, <1>3
  <2> QED
    BY <2>3, <2>4, <2>5, <2>6 DEF MergeOK, K, ColorsOf
<1>11. BuildOK' /\ EarlyOK' /\ RemoveOK'
  BY <1>2 DEF BuildOK, EarlyOK, RemoveOK
<1>12. Uncolorable'
  BY <1>2 DEF Uncolorable, vars
<1> QED
  BY <1>6, <1>7, <1>8, <1>9, <1>10, <1>11, <1>12

LEMMA TakeOverAInv == AInv /\ TakeOver => AInv'
<1> SUFFICES ASSUME AInv, TakeOver PROVE AInv'
  OBVIOUS
<1> USE DEF AInv
<1>0. stage = "merge" /\ todo # {}
  BY DEF TakeOver
<1>1. PICK n \in Remaining, m \in Remaining \cap Pseudo :
        /\ pair = <<n, m>> /\ n # m /\ Class[n] = Class[m] /\ m \notin Interferes(n)
        /\ todo \subseteq {n} \X Interferes(m)
        /\ Cardinality({x \in Interferes(n) \cup Interferes(m) :
                          Cardinality(Interferes(x)) >= K(n)}) < K(n)
        /\ pc # 0
        /\ Nodes(nodes) = Remaining
        /\ \A x \in Reg :
             nodes.adj[x] = IF x = n THEN Interferes(n) \cup Taken(n, m)
                            ELSE IF x \in Taken(n, m) THEN Interferes(x) \cup {n}
                            ELSE Interferes(x)
  BY <1>0 DEF MergeOK
<1>2. PICK y : y = NextEdge[2]
  OBVIOUS
<1>3. /\ NextEdge = <<n, y>> /\ <<n, y>> \in todo /\ y \in Interferes(m)
  <2>1. NextEdge \in todo /\ NextEdge = <<NextEdge[1], NextEdge[2]>>
    BY <1>0, NextEdgeIs
  <2>2. NextEdge \in {n} \X Interferes(m)
    BY <2>1, <1>1
  <2> QED
    BY <2>1, <2>2, <1>2
<1>4. /\ nodes' = AddEdge(nodes, n, y) /\ todo' = todo \ {<<n, y>>}
      /\ UNCHANGED <<vars, found, code, pc, pair, rep, changed, stage>>
  BY <1>2, <1>3 DEF TakeOver, Connect
<1>5. n \in Reg /\ y \in Reg /\ y \in Remaining /\ y # m /\ y # n
  <2>1. y \in Reg /\ y \in Remaining /\ y # m
    BY <1>3, QuotientOK
  <2>2. ASSUME y = n
        PROVE  FALSE
    BY <2>2, <1>1, <1>3, QuotientOK
  <2> QED
    BY <2>1, <2>2, RemainingIs
<1>6. nodes \in Graphs /\ InOrder(nodes)
  BY DEF AllocTypeOK, Graphs
<1>7. y \in nodes.adj[n] => n \in nodes.adj[y]
  <2>1. y \in Interferes(n) => n \in Interferes(y)
    BY QuotientOK
  <2> QED
    BY <2>1, <1>1, <1>5
<1>8. n \in Nodes(nodes) /\ y \in Nodes(nodes)
  BY <1>1, <1>5
<1>9. /\ nodes' \in Graphs /\ InOrder(nodes') /\ Nodes(nodes') = Nodes(nodes)
      /\ nodes'.adj[n] = nodes.adj[n] \cup {y}
      /\ nodes'.adj[y] = nodes.adj[y] \cup {n}
      /\ \A x \in Reg : x # n /\ x # y => nodes'.adj[x] = nodes.adj[x]
  BY <1>4, <1>5, <1>6, <1>7, <1>8, AddEdgeOK
<1>10. (\A x : Interferes(x)' = Interferes(x)) /\ Remaining' = Remaining /\ SimpleOK'
  BY <1>4, SameQuotient
<1>11. Taken(n, m)' = Taken(n, m) \cup {y}
  <2>1. \A x : <<n, x>> \in todo' <=> <<n, x>> \in todo /\ x # y
    BY <1>4
  <2>2. Taken(n, m)' = {x \in Interferes(m) : <<n, x>> \notin todo'}
    BY <1>10 DEF Taken
  <2>3. Taken(n, m) = {x \in Interferes(m) : <<n, x>> \notin todo}
    BY DEF Taken
  <2> QED
    BY <2>1, <2>2, <2>3, <1>3
<1>12. AllocTypeOK'
  BY <1>4, <1>9 DEF AllocTypeOK, Graphs
<1>13. MergesOK'
  BY <1>4 DEF MergesOK
<1>14. MergeOK'
  <2>1. ASSUME NEW x \in Reg
        PROVE  nodes'.adj[x] = IF x = n THEN Interferes(n)' \cup Taken(n, m)'
                               ELSE IF x \in Taken(n, m)' THEN Interferes(x)' \cup {n}
                               ELSE Interferes(x)'
    <3>1. CASE x = n
      BY <3>1, <1>1, <1>5, <1>9, <1>10, <1>11
    <3>2. CASE x = y
      BY <3>2, <1>1, <1>5, <1>9, <1>10, <1>11
    <3>3. CASE x # n /\ x # y
      BY <3>3, <1>1, <1>9, <1>10, <1>11
    <3> QED
      BY <3>1, <3>2, <3>3
  <2>2. {x \in Interferes(n)' \cup Interferes(m)' : Cardinality(Interferes(x)') >= K(n)} =
          {x \in Interferes(n) \cup Interferes(m) : Cardinality(Interferes(x)) >= K(n)}
    BY <1>10
  <2>3. pc' # 0 /\ Nodes(nodes)' = Remaining' /\ n \in Remaining' /\ m \in Remaining' \cap Pseudo
    BY <1>1, <1>4, <1>9, <1>10
  <2>4. /\ pair' = <<n, m>> /\ n # m /\ Class[n] = Class[m] /\ m \notin Interferes(n)'
        /\ todo' \subseteq {n} \X Interferes(m)'
    BY <1>1, <1>4, <1>10
  <2>5. Cardinality({x \in Interferes(n)' \cup Interferes(m)' :
                       Cardinality(Interferes(x)') >= K(n)}) < K(n)
    BY <2>2, <1>1
  <2> QED
    BY <2>1, <2>3, <2>4, <2>5 DEF MergeOK, K, ColorsOf
<1>15. BuildOK' /\ EarlyOK' /\ RemoveOK'
  BY <1>0, <1>4 DEF BuildOK, EarlyOK, RemoveOK
<1>16. Uncolorable'
  BY <1>0, <1>4 DEF Uncolorable, vars
<1> QED
  BY <1>9, <1>10, <1>12, <1>13, <1>14, <1>15, <1>16

LEMMA DisownAInv == AInv /\ Disown => AInv'
<1> SUFFICES ASSUME AInv, Disown PROVE AInv'
  OBVIOUS
<1> USE DEF AInv
<1>1. stage = "remove"
  BY DEF Disown
<1>2. PICK m \in Pseudo \ Remaining :
        /\ pair[2] = m
        /\ pc # 0
        /\ Nodes(nodes) = Remaining \cup {m}
        /\ nodes.adj[m] \subseteq Remaining
        /\ \A x \in Reg \ {m} :
             nodes.adj[x] = IF x \in nodes.adj[m] THEN Interferes(x) \cup {m} ELSE Interferes(x)
  BY <1>1 DEF RemoveOK
<1>3. PICK y : y = CHOOSE x \in nodes.adj[m] : TRUE
  OBVIOUS
<1>4. /\ y \in nodes.adj[m] /\ nodes' = RemoveEdge(nodes, m, y)
      /\ UNCHANGED <<vars, found, code, pc, todo, pair, rep, changed, stage>>
  <2>1. nodes.adj[m] # {} /\ nodes' = RemoveEdge(nodes, m, y)
    BY <1>2, <1>3 DEF Disown
  <2>2. y \in nodes.adj[m]
    BY <2>1, <1>3
  <2> QED
    BY <2>1, <2>2 DEF Disown
<1>5. y \in Remaining /\ y # m /\ y \in Reg /\ m \in Reg /\ m \notin Interferes(y)
  <2>1. y \in Remaining /\ y # m
    BY <1>2, <1>4
  <2>2. m \notin Interferes(y)
    BY <1>2, QuotientOK
  <2> QED
    BY <2>1, <2>2, RemainingIs, RegIsNode
<1>6. nodes \in Graphs /\ InOrder(nodes) /\ m \in Nodes(nodes) /\ y \in Nodes(nodes)
  BY <1>2, <1>5 DEF AllocTypeOK, Graphs
<1>7. /\ nodes' \in Graphs /\ InOrder(nodes') /\ Nodes(nodes') = Nodes(nodes)
      /\ nodes'.adj[m] = nodes.adj[m] \ {y}
      /\ nodes'.adj[y] = nodes.adj[y] \ {m}
      /\ \A x \in Reg : x # m /\ x # y => nodes'.adj[x] = nodes.adj[x]
  BY <1>4, <1>5, <1>6, RemoveEdgeOK
<1>8. (\A x : Interferes(x)' = Interferes(x)) /\ Remaining' = Remaining /\ SimpleOK'
  BY <1>4, SameQuotient
<1>9. AllocTypeOK'
  BY <1>4, <1>7 DEF AllocTypeOK, Graphs
<1>10. MergesOK'
  BY <1>4 DEF MergesOK
<1>11. RemoveOK'
  <2>1. ASSUME NEW x \in Reg \ {m}
        PROVE  nodes'.adj[x] = IF x \in nodes'.adj[m] THEN Interferes(x)' \cup {m}
                               ELSE Interferes(x)'
    <3>1. CASE x = y
      <4>1. nodes.adj[y] = Interferes(y) \cup {m}
        BY <1>2, <1>4, <1>5
      <4>2. nodes'.adj[y] = Interferes(y) /\ y \notin nodes'.adj[m]
        BY <4>1, <1>5, <1>7
      <4> QED
        BY <3>1, <4>2, <1>8
    <3>2. CASE x # y
      BY <3>2, <1>2, <1>7, <1>8
    <3> QED
      BY <3>1, <3>2
  <2>2. /\ pair'[2] = m /\ pc' # 0 /\ Nodes(nodes)' = Remaining' \cup {m}
        /\ nodes'.adj[m] \subseteq Remaining' /\ m \in Pseudo \ Remaining'
    BY <1>2, <1>4, <1>7, <1>8
  <2> QED
    BY <2>1, <2>2 DEF RemoveOK
<1>12. BuildOK' /\ EarlyOK' /\ MergeOK'
  BY <1>1, <1>4 DEF BuildOK, EarlyOK, MergeOK
<1>13. Uncolorable'
  BY <1>1, <1>4 DEF Uncolorable, vars
<1> QED
  BY <1>7, <1>8, <1>9, <1>10, <1>11, <1>12, <1>13

LEMMA DiscardAInv == AInv /\ Discard => AInv'
<1> SUFFICES ASSUME AInv, Discard PROVE AInv'
  OBVIOUS
<1> USE DEF AInv
<1>1. stage = "remove"
  BY DEF Discard
<1>2. PICK m \in Pseudo \ Remaining :
        /\ pair[2] = m
        /\ pc # 0
        /\ Nodes(nodes) = Remaining \cup {m}
        /\ nodes.adj[m] \subseteq Remaining
        /\ \A x \in Reg \ {m} :
             nodes.adj[x] = IF x \in nodes.adj[m] THEN Interferes(x) \cup {m} ELSE Interferes(x)
  BY <1>1 DEF RemoveOK
<1>3. /\ nodes.adj[m] = {} /\ nodes' = Unlink(nodes, m) /\ pair' = NoCopy
      /\ pc' = pc + 1 /\ stage' = "early"
      /\ UNCHANGED <<vars, found, code, todo, rep, changed>>
  BY <1>2 DEF Discard
<1>4. nodes \in Graphs /\ InOrder(nodes) /\ m \in Nodes(nodes)
  BY <1>2 DEF AllocTypeOK, Graphs
<1>5. /\ nodes' \in Graphs /\ InOrder(nodes') /\ Nodes(nodes') = Nodes(nodes) \ {m}
      /\ nodes'.adj = nodes.adj
  BY <1>3, <1>4, UnlinkOK
<1>6. (\A x : Interferes(x)' = Interferes(x)) /\ Remaining' = Remaining /\ SimpleOK'
  BY <1>3, SameQuotient
<1>7. pc' \in Nat /\ pc' # 0
  BY <1>3 DEF AllocTypeOK
<1>8. AllocTypeOK'
  BY <1>3, <1>5, <1>7 DEF AllocTypeOK, Graphs
<1>9. MergesOK'
  BY <1>3 DEF MergesOK
<1>10. EarlyOK'
  <2>1. Interferes(m) = {}
    BY <1>2, InterferesType
  <2>2. \A x \in Reg : nodes'.adj[x] = Interferes(x)'
    BY <2>1, <1>2, <1>3, <1>5, <1>6
  <2> QED
    BY <2>2, <1>2, <1>5, <1>6, <1>7 DEF EarlyOK
<1>11. BuildOK' /\ MergeOK' /\ RemoveOK'
  BY <1>3 DEF BuildOK, MergeOK, RemoveOK
<1>12. Uncolorable'
  BY <1>1, <1>3 DEF Uncolorable, vars
<1> QED
  BY <1>5, <1>6, <1>8, <1>9, <1>10, <1>11, <1>12

\* The registers after m became n, in every formula that speaks of them.
LEMMA RenamedIs ==
  ASSUME AInv, NEW n \in Remaining, NEW m \in Remaining, n # m, pair = <<n, m>>,
         m \notin Interferes(n), found' = found, rep' = [r \in Reg |-> Renamed(rep[r])]
  PROVE  /\ Interferes(m)' = {}
         /\ Interferes(n)' = Interferes(n) \cup Interferes(m)
         /\ \A x : x # m /\ x # n => Interferes(x)' = {Renamed(y) : y \in Interferes(x)}
         /\ Remaining' = Remaining \ {m}
<1> USE DEF AInv
<1>1. found \in [Reg -> SUBSET Reg] /\ rep \in [Reg -> Reg] /\ n \in Reg /\ m \in Reg
  BY RemainingIs DEF AllocTypeOK
<1>2. \A r : Renamed(r) = IF r = m THEN n ELSE r
  BY DEF Renamed
<1>3. \A r \in Reg : rep'[r] = Renamed(rep[r])
  OBVIOUS
<1>4. ASSUME NEW x, NEW y
      PROVE  /\ y \in Interferes(x)' => \E a \in Reg : \E b \in found[a] : rep'[a] = x /\ rep'[b] = y
             /\ \A a \in Reg : \A b \in found[a] : rep'[a] = x /\ rep'[b] = y => y \in Interferes(x)'
  <2>1. ASSUME y \in Interferes(x)'
        PROVE  \E a \in Reg : \E b \in found[a] : rep'[a] = x /\ rep'[b] = y
    <3>1. PICK b \in UNION {found[a] : a \in {z \in Reg : rep'[z] = x}} : y = rep'[b]
      BY <2>1 DEF Interferes
    <3>2. PICK a \in Reg : rep'[a] = x /\ b \in found[a]
      BY <3>1
    <3> QED
      BY <3>1, <3>2
  <2>2. ASSUME NEW a \in Reg, NEW b \in found[a], rep'[a] = x, rep'[b] = y
        PROVE  y \in Interferes(x)'
    <3>1. b \in UNION {found[c] : c \in {z \in Reg : rep'[z] = x}}
      BY <2>2
    <3> QED
      BY <3>1, <2>2 DEF Interferes
  <2> QED
    BY <2>1, <2>2
\* Of the register a's neighbour b, before and after.
<1>5. ASSUME NEW x, NEW y \in Interferes(x)'
      PROVE  \E u, v : v \in Interferes(u) /\ x = Renamed(u) /\ y = Renamed(v)
  <2>1. PICK a \in Reg : \E b \in found[a] : rep'[a] = x /\ rep'[b] = y
    BY <1>4
  <2>2. PICK b \in found[a] : rep'[a] = x /\ rep'[b] = y
    BY <2>1
  <2>3. b \in Reg
    BY <1>1
  <2>4. rep[b] \in Interferes(rep[a])
    BY InterferesIs
  <2> QED
    BY <2>2, <2>3, <2>4, <1>3
<1>6. ASSUME NEW u, NEW v \in Interferes(u), NEW s, NEW t, s = Renamed(u), t = Renamed(v)
      PROVE  t \in Interferes(s)'
  <2>1. PICK a \in Reg : \E b \in found[a] : rep[a] = u /\ rep[b] = v
    BY InterferesIs
  <2>2. PICK b \in found[a] : rep[a] = u /\ rep[b] = v
    BY <2>1
  <2>3. b \in Reg
    BY <1>1
  <2>4. rep'[a] = s /\ rep'[b] = t
    BY <2>2, <2>3, <1>3, <1>6
  <2> QED
    BY <2>4, <1>4
<1>7. Interferes(m)' = {}
  BY <1>2, <1>5
<1>8. m \notin Interferes(m) /\ n \notin Interferes(n) /\ n \notin Interferes(m)
  BY QuotientOK
<1>9. Interferes(n)' = Interferes(n) \cup Interferes(m)
  <2>1. ASSUME NEW y \in Interferes(n)'
        PROVE  y \in Interferes(n) \cup Interferes(m)
    <3>1. PICK u, v : v \in Interferes(u) /\ n = Renamed(u) /\ y = Renamed(v)
      BY <1>5
    <3>2. u = n \/ u = m
      BY <3>1, <1>2
    <3>3. v # m
      BY <3>1, <3>2, <1>8
    <3> QED
      BY <3>1, <3>2, <3>3, <1>2
  <2>2. ASSUME NEW y \in Interferes(n) \cup Interferes(m)
        PROVE  y \in Interferes(n)'
    <3>1. PICK u : (u = n \/ u = m) /\ y \in Interferes(u)
      OBVIOUS
    <3>2. y # m
      BY <1>8
    <3>3. Renamed(u) = n /\ Renamed(y) = y
      BY <3>1, <3>2, <1>2
    <3> QED
      BY <3>1, <3>3, <1>6
  <2> QED
    BY <2>1, <2>2
<1>10. ASSUME NEW x, x # m, x # n
       PROVE  Interferes(x)' = {Renamed(y) : y \in Interferes(x)}
  <2>1. ASSUME NEW y \in Interferes(x)'
        PROVE  y \in {Renamed(z) : z \in Interferes(x)}
    <3>1. PICK u, v : v \in Interferes(u) /\ x = Renamed(u) /\ y = Renamed(v)
      BY <1>5
    <3>2. u = x
      BY <3>1, <1>2, <1>10
    <3> QED
      BY <3>1, <3>2
  <2>2. ASSUME NEW v \in Interferes(x), NEW t, t = Renamed(v)
        PROVE  t \in Interferes(x)'
    <3>1. x = Renamed(x)
      BY <1>2, <1>10
    <3> QED
      BY <3>1, <2>2, <1>6
  <2>3. \A v \in Interferes(x) : Renamed(v) \in Interferes(x)'
    BY <2>2
  <2> QED
    BY <2>1, <2>3
<1>11. Remaining' = Remaining \ {m}
  <2>1. Remaining' = {rep'[r] : r \in Reg} /\ Remaining = {rep[r] : r \in Reg}
    BY DEF Remaining
  <2>2. \A r \in Reg : rep'[r] \in Remaining \ {m}
    BY <2>1, <1>2, <1>3
  <2>3. \A r \in Remaining \ {m} : r \in Reg /\ rep'[r] = r
    BY RemainingIs, <1>2, <1>3
  <2>4. \A r \in Remaining \ {m} : r \in Remaining'
    BY <2>1, <2>3
  <2>5. \A r \in Remaining' : r \in Remaining \ {m}
    BY <2>1, <2>2
  <2> QED
    BY <2>4, <2>5
<1> QED
  BY <1>7, <1>9, <1>10, <1>11

\* Briggs: a set of registers that cannot be simplified away after the merge does
\* not contain the survivor, or each of its neighbours in the set had as many
\* neighbours as there are colours, of which the test found too few; without it,
\* it could not be simplified away before.
LEMMA MergeStaysSimple ==
  ASSUME AInv, NEW n \in Remaining, NEW m \in Remaining, n # m, pair = <<n, m>>,
         m \notin Interferes(n), Class[n] = Class[m], m \in Pseudo,
         Cardinality({x \in Interferes(n) \cup Interferes(m) :
                        Cardinality(Interferes(x)) >= K(n)}) < K(n),
         found' = found, rep' = [r \in Reg |-> Renamed(rep[r])]
  PROVE  SimpleOK'
<1> USE DEF AInv
<1>1. /\ Interferes(m)' = {}
      /\ Interferes(n)' = Interferes(n) \cup Interferes(m)
      /\ \A x : x # m /\ x # n => Interferes(x)' = {Renamed(y) : y \in Interferes(x)}
  BY RenamedIs
<1>2. \A r : Renamed(r) = IF r = m THEN n ELSE r
  BY DEF Renamed
<1>3. m \notin Interferes(m) /\ n \notin Interferes(n) /\ n \notin Interferes(m)
  BY QuotientOK
<1> SUFFICES ASSUME \A p \in Occurring : Interferes(p)' = {}, Simple(found),
                    NEW T \in SUBSET Pseudo,
                    \A x \in T : Cardinality(Interferes(x)' \cap T) >= K(x)
             PROVE  T = {}
  <2>1. ASSUME NEW T \in SUBSET Pseudo
        PROVE  \A x \in T : [y \in Reg |-> Interferes(y)'][x] = Interferes(x)'
    BY RegIsNode
  <2>2. SimpleOK' <=> ((\A p \in Occurring : Interferes(p)' = {}) /\ Simple(found)
                         => Simple([y \in Reg |-> Interferes(y)']))
    BY DEF SimpleOK, Simple, K, ColorsOf
  <2> QED
    BY <2>1, <2>2 DEF Simple
<1>4. Simple([x \in Reg |-> Interferes(x)])
  <2>1. ASSUME NEW p \in Occurring
        PROVE  Interferes(p) = {}
    <3>1. p # m
      BY AllocAssumption, NodesAssumption
    <3>2. p # n => \A y \in Interferes(p) : Renamed(y) \in Interferes(p)'
      BY <3>1, <1>1
    <3> QED
      BY <3>1, <3>2, <1>1
  <2> QED
    BY <2>1 DEF SimpleOK
<1>5. ASSUME NEW x
      PROVE  /\ Interferes(x) \in SUBSET Reg /\ IsFiniteSet(Interferes(x))
             /\ IsFiniteSet(Interferes(x) \cap T)
             /\ Cardinality(Interferes(x) \cap T) \in Nat /\ Cardinality(Interferes(x)) \in Nat
  <2>1. Interferes(x) \in SUBSET Reg /\ IsFiniteSet(Interferes(x)) /\ Cardinality(Interferes(x)) \in Nat
    BY InterferesType
  <2>2. IsFiniteSet(Interferes(x) \cap T)
    BY <2>1, FS_Subset
  <2> QED
    BY <2>1, <2>2, FS_CardinalityType
\* Renaming does not add neighbours.
<1>6. ASSUME NEW x, x # m, x # n
      PROVE  /\ Cardinality(Interferes(x)' \cap T) \in Nat
             /\ Cardinality(Interferes(x)' \cap T) <= Cardinality(Interferes(x))
  <2> DEFINE S == Interferes(x)
             U == {Renamed(y) : y \in S}
             f == [y \in S |-> Renamed(y)]
  <2>1. f \in Surjection(S, U)
    BY DEF Surjection
  <2>2. IsFiniteSet(S) /\ Cardinality(S) \in Nat
    BY <1>5
  <2>3. Interferes(x)' = U
    BY <1>1, <1>6
  <2> HIDE DEF S, U, f
  <2>4. IsFiniteSet(U) /\ Cardinality(U) <= Cardinality(S)
    BY <2>1, <2>2, FS_Surjection
  <2>5. IsFiniteSet(U \cap T) /\ Cardinality(U \cap T) <= Cardinality(U)
    BY <2>4, FS_Subset
  <2>6. Cardinality(U) \in Nat /\ Cardinality(U \cap T) \in Nat
    BY <2>4, <2>5, FS_CardinalityType
  <2> QED
    BY <2>2, <2>3, <2>4, <2>5, <2>6 DEF S
<1>7. n \notin T
  <2> SUFFICES ASSUME n \in T PROVE FALSE
    OBVIOUS
  <2> DEFINE S == Interferes(n) \cup Interferes(m)
             H == {x \in S : Cardinality(Interferes(x)) >= K(n)}
  <2>1. ASSUME NEW x \in S \cap T
        PROVE  x \in H
    <3>1. x # m /\ x # n
      BY <1>3
    <3>2. Class[x] = Class[n]
      BY QuotientOK
    <3>3. K(x) = K(n) /\ K(n) \in Nat
      BY <3>2, ColorsCount DEF K, ColorsOf
    <3>4. Cardinality(Interferes(x)' \cap T) >= K(n)
      BY <3>3
    <3>5. Cardinality(Interferes(x)' \cap T) \in Nat /\ Cardinality(Interferes(x)) \in Nat
          /\ Cardinality(Interferes(x)' \cap T) <= Cardinality(Interferes(x))
      BY <3>1, <1>5, <1>6
    <3>6. Cardinality(Interferes(x)) >= K(n)
      BY <3>3, <3>4, <3>5
    <3> QED
      BY <3>6
  <2>2. IsFiniteSet(S) /\ H \subseteq S
    BY <1>5, FS_Union
  <2>3. S \cap T \subseteq H
    BY <2>1
  <2>4. Cardinality(S \cap T) >= K(n)
    BY <1>1
  <2>5. Cardinality(H) < K(n)
    OBVIOUS
  <2> HIDE DEF S, H
  <2>6. IsFiniteSet(H) /\ Cardinality(H) \in Nat
    BY <2>2, FS_Subset, FS_CardinalityType
  <2>7. Cardinality(S \cap T) <= Cardinality(H) /\ Cardinality(S \cap T) \in Nat
    <3>1. IsFiniteSet(S \cap T)
      BY <2>3, <2>6, FS_Subset
    <3> QED
      BY <2>3, <2>6, <3>1, FS_Subset, FS_CardinalityType
  <2>8. K(n) \in Nat
    BY ColorsCount
  <2> QED
    BY <2>4, <2>5, <2>6, <2>7, <2>8
<1>8. ASSUME NEW x \in T
      PROVE  Cardinality(Interferes(x) \cap T) >= K(x)
  <2>1. Interferes(x)' \cap T \subseteq Interferes(x) \cap T
    <3>1. CASE x = m
      BY <3>1, <1>1
    <3>2. CASE x # m
      <4>1. x # n
        BY <1>7
      <4>2. Interferes(x)' = {Renamed(y) : y \in Interferes(x)}
        BY <3>2, <4>1, <1>1
      <4> QED
        BY <4>2, <1>2, <1>7
    <3> QED
      BY <3>1, <3>2
  <2>2. IsFiniteSet(Interferes(x) \cap T) /\ Cardinality(Interferes(x) \cap T) \in Nat
    BY <1>5
  <2>3. IsFiniteSet(Interferes(x)' \cap T)
        /\ Cardinality(Interferes(x)' \cap T) <= Cardinality(Interferes(x) \cap T)
    BY <2>1, <2>2, FS_Subset
  <2>4. Cardinality(Interferes(x)' \cap T) \in Nat
    BY <2>3, FS_CardinalityType
  <2>5. K(x) \in Nat /\ Cardinality(Interferes(x)' \cap T) >= K(x)
    BY ColorsCount
  <2> QED
    BY <2>2, <2>3, <2>4, <2>5
<1>9. \A x \in T : [y \in Reg |-> Interferes(y)][x] = Interferes(x)
  BY RegIsNode
<1> QED
  BY <1>4, <1>8, <1>9 DEF Simple

LEMMA RenameAInv == AInv /\ Rename => AInv'
<1> SUFFICES ASSUME AInv, Rename PROVE AInv'
  OBVIOUS
<1> USE DEF AInv
<1>0. /\ stage = "merge" /\ todo = {} /\ stage' = "remove"
      /\ code' = [i \in DOMAIN code |-> <<Renamed(code[i][1]), Renamed(code[i][2])>>]
      /\ rep' = [r \in Reg |-> Renamed(rep[r])]
      /\ UNCHANGED <<vars, found, pc, nodes, todo, pair, changed>>
  BY DEF Rename
<1>1. PICK n \in Remaining, m \in Remaining \cap Pseudo :
        /\ pair = <<n, m>> /\ n # m /\ Class[n] = Class[m] /\ m \notin Interferes(n)
        /\ Cardinality({x \in Interferes(n) \cup Interferes(m) :
                          Cardinality(Interferes(x)) >= K(n)}) < K(n)
        /\ pc # 0
        /\ Nodes(nodes) = Remaining
        /\ \A x \in Reg :
             nodes.adj[x] = IF x = n THEN Interferes(n) \cup Taken(n, m)
                            ELSE IF x \in Taken(n, m) THEN Interferes(x) \cup {n}
                            ELSE Interferes(x)
  BY <1>0 DEF MergeOK
<1>2. m \in Remaining /\ m \in Pseudo /\ m \in Reg /\ n \in Reg /\ found' = found
  BY <1>0, <1>1, RemainingIs
<1>3. \A r : Renamed(r) = IF r = m THEN n ELSE r
  BY <1>1 DEF Renamed
<1>4. /\ Interferes(m)' = {}
      /\ Interferes(n)' = Interferes(n) \cup Interferes(m)
      /\ \A x : x # m /\ x # n => Interferes(x)' = {Renamed(y) : y \in Interferes(x)}
      /\ Remaining' = Remaining \ {m}
  BY <1>0, <1>1, <1>2, RenamedIs
<1>5. SimpleOK'
  BY <1>0, <1>1, <1>2, MergeStaysSimple
<1>6. /\ code \in Seq((Reg \X Reg) \cup {NoCopy}) /\ rep \in [Reg -> Reg]
      /\ found \in [Reg -> SUBSET Reg]
  BY DEF AllocTypeOK
<1>7. /\ code' \in Seq((Reg \X Reg) \cup {NoCopy})
      /\ \A i \in DOMAIN code' : code'[i] # NoCopy => Class[code'[i][1]] = Class[code'[i][2]]
  <2>1. /\ Len(code) \in Nat /\ DOMAIN code = 1..Len(code)
        /\ code \in [1..Len(code) -> (Reg \X Reg) \cup {NoCopy}]
    BY <1>6, LenProperties
  <2>2. ASSUME NEW i \in 1..Len(code)
        PROVE  /\ code'[i] \in (Reg \X Reg) \cup {NoCopy}
               /\ code'[i] # NoCopy => Class[code'[i][1]] = Class[code'[i][2]]
    <3>1. code'[i] = <<Renamed(code[i][1]), Renamed(code[i][2])>>
      BY <2>1, <1>0
    <3>2. CASE code[i] = NoCopy
      <4>1. code[i][1] = None /\ code[i][2] = None /\ None # m
        BY <3>2, <1>2, RegIsNode DEF NoCopy
      <4>2. code'[i] = NoCopy
        BY <4>1, <3>1, <1>3 DEF NoCopy
      <4> QED
        BY <4>2
    <3>3. CASE code[i] # NoCopy
      <4>1. code[i][1] \in Reg /\ code[i][2] \in Reg
        BY <2>1, <3>3
      <4>2. Class[code[i][1]] = Class[code[i][2]]
        BY <2>1, <3>3 DEF MergesOK
      <4>3. \A r \in Reg : Renamed(r) \in Reg /\ Class[Renamed(r)] = Class[r]
        BY <1>1, <1>2, <1>3
      <4>4. code'[i][1] = Renamed(code[i][1]) /\ code'[i][2] = Renamed(code[i][2])
        BY <3>1
      <4>5. code'[i] \in Reg \X Reg
        BY <4>1, <4>3, <3>1
      <4> QED
        BY <4>1, <4>2, <4>3, <4>4, <4>5
    <3> QED
      BY <3>2, <3>3
  <2>3. code' \in [1..Len(code) -> (Reg \X Reg) \cup {NoCopy}] /\ DOMAIN code' = 1..Len(code)
    BY <2>1, <2>2, <1>0
  <2>4. code' \in Seq((Reg \X Reg) \cup {NoCopy})
    BY <2>1, <2>3, ListMade
  <2> QED
    BY <2>2, <2>3, <2>4
<1>8. rep' \in [Reg -> Reg] /\ \A r \in Reg : rep'[r] = IF rep[r] = m THEN n ELSE rep[r]
  BY <1>0, <1>2, <1>3, <1>6
<1>9. AllocTypeOK'
  BY <1>0, <1>7, <1>8 DEF AllocTypeOK
<1>10. MergesOK'
  <2>1. \A x \in Reg : rep'[rep'[x]] = rep'[x] /\ Class[rep'[x]] = Class[x]
    <3>1. \A x \in Reg : rep[rep[x]] = rep[x] /\ Class[rep[x]] = Class[x] /\ rep[x] \in Reg
      BY <1>6 DEF MergesOK
    <3>2. rep[n] = n
      BY RemainingIs
    <3> QED
      BY <3>1, <3>2, <1>1, <1>2, <1>8
  <2>2. ASSUME NEW x \in Reg, NEW y \in found[x]
        PROVE  x \in found[y] /\ Class[x] = Class[y] /\ rep'[x] # rep'[y]
    <3>1. y \in Reg /\ x \in found[y] /\ Class[x] = Class[y] /\ rep[x] # rep[y]
      BY <1>6 DEF MergesOK
    <3>2. rep[y] \in Interferes(rep[x]) /\ rep[x] \in Interferes(rep[y])
      BY <3>1, InterferesIs
    <3>3. ~(rep[x] = n /\ rep[y] = m) /\ ~(rep[y] = n /\ rep[x] = m)
      BY <3>2, <1>1
    <3> QED
      BY <3>1, <3>3, <1>8
  <2> QED
    BY <2>1, <2>2, <1>2, <1>7 DEF MergesOK
<1>11. InOrder(nodes')
  BY <1>0
<1>12. RemoveOK'
  <2>1. Taken(n, m) = Interferes(m)
    BY <1>0 DEF Taken
  <2>2. m \notin Interferes(m) /\ n \notin Interferes(n) /\ n \notin Interferes(m)
    BY <1>1, QuotientOK
  <2>3. nodes.adj[m] = Interferes(m)
    BY <2>1, <2>2, <1>1, <1>2
  <2>4. Interferes(m) \subseteq Remaining \ {m}
    BY <2>2, QuotientOK
  <2>5. ASSUME NEW x \in Reg \ {m}
        PROVE  nodes'.adj[x] = IF x \in nodes'.adj[m] THEN Interferes(x)' \cup {m}
                               ELSE Interferes(x)'
    <3>1. CASE x = n
      BY <3>1, <2>1, <2>2, <2>3, <1>0, <1>1, <1>4
    <3>2. CASE x # n /\ x \in Interferes(m)
      <4>1. nodes'.adj[x] = Interferes(x) \cup {n}
        BY <3>2, <2>1, <1>0, <1>1
      <4>2. m \in Interferes(x)
        BY <3>2, QuotientOK
      <4>3. Interferes(x)' = {Renamed(y) : y \in Interferes(x)}
        BY <3>2, <1>4
      <4>4. \A y \in Interferes(x) : y # m => y \in Interferes(x)'
        BY <4>3, <1>3
      <4>5. n \in Interferes(x)'
        BY <4>2, <4>3, <1>3
      <4>6. \A y \in Interferes(x)' : y = n \/ y \in Interferes(x)
        BY <4>3, <1>3
      <4>7. Interferes(x)' \cup {m} = Interferes(x) \cup {n}
        BY <4>2, <4>4, <4>5, <4>6
      <4> QED
        BY <4>1, <4>7, <3>2, <2>3, <1>0
    <3>3. CASE x # n /\ x \notin Interferes(m)
      <4>1. nodes'.adj[x] = Interferes(x)
        BY <3>3, <2>1, <1>0, <1>1
      <4>2. m \notin Interferes(x)
        BY <3>3, QuotientOK
      <4>3. Interferes(x)' = {Renamed(y) : y \in Interferes(x)}
        BY <3>3, <1>4
      <4>4. \A y \in Interferes(x) : Renamed(y) = y
        BY <4>2, <1>3
      <4>5. Interferes(x)' = Interferes(x)
        BY <4>3, <4>4
      <4> QED
        BY <4>1, <4>5, <3>3, <2>3, <1>0
    <3> QED
      BY <3>1, <3>2, <3>3
  <2>6. /\ pair'[2] = m /\ pc' # 0 /\ Nodes(nodes)' = Remaining' \cup {m}
        /\ nodes'.adj[m] \subseteq Remaining' /\ m \in Pseudo \ Remaining'
    BY <2>3, <2>4, <1>0, <1>1, <1>2, <1>4
  <2> QED
    BY <2>5, <2>6 DEF RemoveOK
<1>13. BuildOK' /\ EarlyOK' /\ MergeOK'
  BY <1>0 DEF BuildOK, EarlyOK, MergeOK
<1>14. Uncolorable'
  BY <1>0 DEF Uncolorable, vars
<1> QED
  BY <1>5, <1>9, <1>10, <1>11, <1>12, <1>13, <1>14

\* nop() only leaves copies out.
LEMMA NopOK ==
  ASSUME NEW s \in Seq((Reg \X Reg) \cup {NoCopy})
  PROVE  /\ Nop(s) \in Seq((Reg \X Reg) \cup {NoCopy})
         /\ DOMAIN Nop(s) = DOMAIN s
         /\ \A i \in DOMAIN s : Nop(s)[i] = NoCopy \/ Nop(s)[i] = s[i]
<1>1. PICK back : Nop(s) = [i \in DOMAIN s |-> IF back[i] THEN NoCopy ELSE s[i]]
  <2> DEFINE dropped(c, last) == c[1] = c[2] \/ last = <<c[2], c[1]>>
             kept == CHOOSE kept : kept = [i \in 0..Len(s) |->
                       IF i = 0 THEN NoCopy
                       ELSE IF dropped(s[i], kept[i - 1]) THEN kept[i - 1] ELSE s[i]]
             back == [i \in DOMAIN s |-> dropped(s[i], kept[i - 1])]
  <2>1. Nop(s) = [i \in DOMAIN s |-> IF dropped(s[i], kept[i - 1]) THEN NoCopy ELSE s[i]]
    BY DEF Nop
  <2> HIDE DEF kept
  <2>2. \A i \in DOMAIN s : back[i] = dropped(s[i], kept[i - 1])
    OBVIOUS
  <2> HIDE DEF dropped
  <2> WITNESS back
  <2> QED
    BY <2>1, <2>2
<1>2. /\ Len(s) \in Nat /\ DOMAIN s = 1..Len(s)
      /\ s \in [1..Len(s) -> (Reg \X Reg) \cup {NoCopy}]
  BY LenProperties
<1>3. DOMAIN Nop(s) = DOMAIN s /\ \A i \in DOMAIN s : Nop(s)[i] = NoCopy \/ Nop(s)[i] = s[i]
  BY <1>1
<1>4. Nop(s) \in [1..Len(s) -> (Reg \X Reg) \cup {NoCopy}]
  BY <1>1, <1>2
<1> QED
  BY <1>2, <1>3, <1>4, ListMade

LEMMA RebuildAInv == AInv /\ Rebuild => AInv'
<1> SUFFICES ASSUME AInv, Rebuild PROVE AInv'
  OBVIOUS
<1> USE DEF AInv
<1>1. PICK S : found' = [n \in Reg |-> {m \in nodes.adj[n] : {n, m} \in S}]
  BY DEF Rebuild
<1>2. /\ stage = "early" /\ stage' = "build"
      /\ nodes' = Unconnected(Nodes(nodes)) /\ todo' = AllEdges(found')
      /\ code' = Nop(code) /\ changed' = FALSE
      /\ UNCHANGED <<vars, pc, pair, rep>>
  BY DEF Rebuild, EndEarly
<1>3. Nodes(nodes) = Remaining /\ \A x \in Reg : nodes.adj[x] = Interferes(x)
  BY <1>2 DEF EarlyOK
<1>4. /\ found' \in [Reg -> SUBSET Reg]
      /\ \A x \in Reg : found'[x] = {y \in Interferes(x) : {x, y} \in S}
  BY <1>1, <1>3, InterferesType
<1>5. Remaining' = Remaining /\ Remaining \subseteq Reg
  BY <1>2, RemainingIs DEF Remaining
<1>6. ASSUME NEW x \in Reg, NEW y \in found'[x]
      PROVE  /\ x \in Remaining /\ y \in Remaining /\ y \in Reg /\ x \in found'[y]
             /\ x # y /\ Class[x] = Class[y] /\ rep[x] = x /\ rep[y] = y
  <2>1. y \in Interferes(x) /\ {x, y} \in S
    BY <1>4
  <2>2. /\ x \in Remaining /\ y \in Remaining /\ y \in Reg
        /\ x \in Interferes(y) /\ x # y /\ Class[x] = Class[y]
    BY <2>1, QuotientOK
  <2>3. {y, x} = {x, y}
    OBVIOUS
  <2>4. x \in found'[y]
    BY <2>1, <2>2, <2>3, <1>4
  <2> QED
    BY <2>2, <2>4, RemainingIs
<1>7. \A x \in Reg : Interferes(x)' = found'[x]
  <2>1. ASSUME NEW x \in Reg, NEW y \in Interferes(x)'
        PROVE  y \in found'[x]
    <3>1. PICK b \in UNION {found'[a] : a \in {z \in Reg : rep[z] = x}} : y = rep[b]
      BY <2>1, <1>2 DEF Interferes
    <3>2. PICK a \in Reg : rep[a] = x /\ b \in found'[a]
      BY <3>1
    <3> QED
      BY <3>1, <3>2, <1>6
  <2>2. ASSUME NEW x \in Reg, NEW y \in found'[x]
        PROVE  y \in Interferes(x)'
    <3>1. rep[x] = x /\ rep[y] = y
      BY <2>2, <1>6
    <3>2. y \in UNION {found'[c] : c \in {z \in Reg : rep[z] = x}}
      BY <2>2, <3>1
    <3> QED
      BY <3>1, <3>2, <1>2 DEF Interferes
  <2> QED
    BY <2>1, <2>2
<1>8. /\ nodes' \in Graphs /\ InOrder(nodes') /\ Nodes(nodes') = Remaining
      /\ nodes'.adj = [n \in Reg |-> {}]
  BY <1>2, <1>3, <1>5, UnconnectedOK
<1>9. /\ code' \in Seq((Reg \X Reg) \cup {NoCopy})
      /\ \A i \in DOMAIN code' : code'[i] # NoCopy => Class[code'[i][1]] = Class[code'[i][2]]
  <2>1. code \in Seq((Reg \X Reg) \cup {NoCopy})
    BY DEF AllocTypeOK
  <2> QED
    BY <2>1, <1>2, NopOK DEF MergesOK
<1>10. todo' \subseteq Reg \X Reg /\ \A x, y \in Reg : <<x, y>> \in todo' <=> y \in found'[x]
  BY <1>2 DEF AllEdges
<1>11. AllocTypeOK'
  BY <1>2, <1>4, <1>8, <1>9, <1>10 DEF AllocTypeOK, Graphs
<1>12. MergesOK'
  <2>1. \A x \in Reg : rep[rep[x]] = rep[x] /\ Class[rep[x]] = Class[x]
    BY DEF MergesOK
  <2> QED
    BY <2>1, <1>2, <1>6, <1>9 DEF MergesOK
<1>13. BuildOK'
  <2>1. ASSUME NEW x \in Reg
        PROVE  nodes'.adj[x] = {y \in found'[x] : <<x, y>> \notin todo' \/ <<y, x>> \notin todo'}
    <3>1. nodes'.adj[x] = {}
      BY <1>8
    <3>2. \A y \in found'[x] : <<x, y>> \in todo' /\ <<y, x>> \in todo'
      BY <1>6, <1>10
    <3> QED
      BY <3>1, <3>2
  <2>2. todo' \subseteq AllEdges(found')
    BY <1>2
  <2> QED
    BY <2>1, <2>2, <1>5, <1>7, <1>8 DEF BuildOK, AllEdges
<1>14. SimpleOK'
  <2>1. [x \in Reg |-> Interferes(x)'] = found'
    BY <1>4, <1>7
  <2> QED
    BY <2>1 DEF SimpleOK, Simple, K, ColorsOf
<1>15. EarlyOK' /\ MergeOK' /\ RemoveOK'
  BY <1>2 DEF EarlyOK, MergeOK, RemoveOK
<1>16. Uncolorable'
  BY <1>2 DEF Uncolorable, vars
<1> QED
  BY <1>8, <1>11, <1>12, <1>13, <1>14, <1>15, <1>16

LEMMA ColorAInv == AInv /\ Color => AInv'
<1> SUFFICES ASSUME AInv, Color PROVE AInv'
  OBVIOUS
<1> USE DEF AInv
<1>1. /\ stage' = "color" /\ code' = <<>> /\ pc' = 1
      /\ nodes' = [list |-> <<>>, adj |-> [n \in Reg |-> {}]]
      /\ found' = [n \in Reg |-> {}] /\ rep' = [n \in Reg |-> n]
      /\ UNCHANGED <<todo, pair, changed>>
  BY DEF Color
<1>2. <<>> \in Seq(Reg) /\ <<>> \in Seq((Reg \X Reg) \cup {NoCopy})
  OBVIOUS
<1>3. AllocTypeOK'
  BY <1>1, <1>2 DEF AllocTypeOK
<1>4. MergesOK'
  BY <1>1 DEF MergesOK
<1>5. InOrder(nodes')
  BY <1>1 DEF InOrder
<1>6. \A x : Interferes(x)' = {}
  BY <1>1 DEF Interferes
<1>7. SimpleOK'
  <2>1. [x \in Reg |-> Interferes(x)'] = found'
    BY <1>1, <1>6
  <2> QED
    BY <2>1 DEF SimpleOK, Simple, K, ColorsOf
<1>8. BuildOK' /\ EarlyOK' /\ MergeOK' /\ RemoveOK' /\ Uncolorable'
  BY <1>1 DEF BuildOK, EarlyOK, MergeOK, RemoveOK, Uncolorable
<1> QED
  BY <1>3, <1>4, <1>5, <1>7, <1>8

LEMMA InitAInv == AllocInit => AInv
<1> SUFFICES ASSUME AllocInit PROVE AInv
  OBVIOUS
<1>1. PICK S \in SUBSET {e \in Pairs : e \subseteq Reg} :
        found = [n \in Reg |-> {m \in Reg \ {n} : {n, m} \in S}]
  BY DEF AllocInit, Interferences
<1>2. /\ nodes = Unconnected(Reg) /\ todo = AllEdges(found) /\ code = <<>> /\ pc = 0
      /\ pair = NoCopy /\ rep = [n \in Reg |-> n] /\ changed = FALSE /\ stage = "build"
  BY DEF AllocInit
<1>3. ASSUME NEW x \in Reg, NEW y \in found[x]
      PROVE  y \in Reg /\ x \in found[y] /\ Class[x] = Class[y] /\ x # y
  <2>1. y \in Reg /\ y # x /\ {x, y} \in S
    BY <1>1
  <2>2. {y, x} = {x, y}
    OBVIOUS
  <2>3. x \in found[y]
    BY <2>1, <2>2, <1>1
  <2>4. PICK p \in Node \X Node : p[1] # p[2] /\ Class[p[1]] = Class[p[2]] /\ {x, y} = {p[1], p[2]}
    BY <2>1 DEF Pairs
  <2>5. (p[1] = x /\ p[2] = y) \/ (p[1] = y /\ p[2] = x)
    BY <2>1, <2>4
  <2> QED
    BY <2>1, <2>3, <2>4, <2>5
<1>4. /\ nodes \in Graphs /\ InOrder(nodes) /\ Nodes(nodes) = Reg
      /\ nodes.adj = [n \in Reg |-> {}]
  BY <1>2, UnconnectedOK
<1>5. found \in [Reg -> SUBSET Reg]
  BY <1>1
<1>6. todo \subseteq Reg \X Reg /\ \A x, y \in Reg : <<x, y>> \in todo <=> y \in found[x]
  BY <1>2 DEF AllEdges
<1>7. AllocTypeOK
  <2>1. code \in Seq((Reg \X Reg) \cup {NoCopy}) /\ pc \in Nat
    BY <1>2
  <2>2. rep \in [Reg -> Reg] /\ changed \in BOOLEAN
    BY <1>2
  <2>3. nodes \in [list : Seq(Reg), adj : [Reg -> SUBSET Reg]]
    BY <1>4 DEF Graphs
  <2>4. pair \in (Reg \X Reg) \cup {NoCopy}
    BY <1>2
  <2>5. stage \in {"build", "early", "merge", "remove", "color"}
    BY <1>2
  <2> QED
    BY <2>1, <2>2, <2>3, <2>4, <2>5, <1>5, <1>6 DEF AllocTypeOK
<1>8. MergesOK
  BY <1>2, <1>3 DEF MergesOK
<1>9. Remaining = Reg
  BY <1>2 DEF Remaining
<1>10. \A x \in Reg : Interferes(x) = found[x]
  <2>1. ASSUME NEW x \in Reg, NEW y \in Interferes(x)
        PROVE  y \in found[x]
    <3>1. PICK a \in Reg : \E b \in found[a] : rep[a] = x /\ rep[b] = y
      BY <1>7, InterferesIs
    <3>2. PICK b \in found[a] : rep[a] = x /\ rep[b] = y
      BY <3>1
    <3> QED
      BY <3>2, <1>2, <1>3
  <2>2. ASSUME NEW x \in Reg, NEW y \in found[x]
        PROVE  y \in Interferes(x)
    <3>1. rep[x] = x /\ rep[y] = y
      BY <1>2, <1>3
    <3> QED
      BY <3>1, <1>7, InterferesIs
  <2> QED
    BY <2>1, <2>2
<1>11. BuildOK
  <2>1. ASSUME NEW x \in Reg
        PROVE  nodes.adj[x] = {y \in found[x] : <<x, y>> \notin todo \/ <<y, x>> \notin todo}
    <3>1. nodes.adj[x] = {}
      BY <1>4
    <3>2. \A y \in found[x] : <<x, y>> \in todo /\ <<y, x>> \in todo
      BY <1>3, <1>6
    <3> QED
      BY <3>1, <3>2
  <2> QED
    BY <2>1, <1>2, <1>4, <1>9, <1>10 DEF BuildOK
<1>12. SimpleOK
  <2>1. [x \in Reg |-> Interferes(x)] = found
    BY <1>5, <1>10
  <2> QED
    BY <2>1 DEF SimpleOK
<1>13. EarlyOK /\ MergeOK /\ RemoveOK
  BY <1>2 DEF EarlyOK, MergeOK, RemoveOK
<1>14. Uncolorable
  BY DEF AllocInit, Uncolorable
<1> QED
  BY <1>4, <1>7, <1>8, <1>11, <1>12, <1>13, <1>14 DEF AInv

LEMMA UnchangedAInv ==
  ASSUME AInv, UNCHANGED <<buildVars, stage>>, stage = "color" \/ UNCHANGED vars
  PROVE  AInv'
<1>1. UNCHANGED <<found, code, pc, nodes, todo, pair, rep, changed, stage>>
  BY DEF buildVars
<1>2. (\A x : Interferes(x)' = Interferes(x)) /\ Remaining' = Remaining /\ SimpleOK'
  BY <1>1, SameQuotient DEF AInv
<1>3. AllocTypeOK' /\ MergesOK' /\ InOrder(nodes')
  BY <1>1 DEF AInv, AllocTypeOK, MergesOK
<1>4. Uncolorable'
  BY <1>1 DEF AInv, Uncolorable, vars
<1>5. CASE stage = "color"
  <2>1. BuildOK' /\ EarlyOK' /\ MergeOK' /\ RemoveOK'
    BY <1>1, <1>5 DEF BuildOK, EarlyOK, MergeOK, RemoveOK
  <2> QED
    BY <2>1, <1>1, <1>2, <1>3, <1>4 DEF AInv
<1>6. CASE stage # "color"
  <2>1. BuildOK' /\ EarlyOK'
    BY <1>1, <1>2 DEF AInv, BuildOK, EarlyOK, AllEdges
  <2>2. RemoveOK'
    BY <1>1, <1>2 DEF AInv, RemoveOK
  <2>3. ASSUME stage' = "merge"
        PROVE  MergeOK'
    <3>1. PICK n \in Remaining, m \in Remaining \cap Pseudo :
            /\ pair = <<n, m>> /\ n # m /\ Class[n] = Class[m] /\ m \notin Interferes(n)
            /\ todo \subseteq {n} \X Interferes(m)
            /\ Cardinality({x \in Interferes(n) \cup Interferes(m) :
                              Cardinality(Interferes(x)) >= K(n)}) < K(n)
            /\ pc # 0
            /\ Nodes(nodes) = Remaining
            /\ \A x \in Reg :
                 nodes.adj[x] = IF x = n THEN Interferes(n) \cup Taken(n, m)
                                ELSE IF x \in Taken(n, m) THEN Interferes(x) \cup {n}
                                ELSE Interferes(x)
      BY <1>1, <2>3 DEF AInv, MergeOK
    <3>2. Taken(n, m)' = Taken(n, m)
      BY <1>1, <1>2 DEF Taken
    <3>3. /\ Interferes(n)' = Interferes(n) /\ Interferes(m)' = Interferes(m)
          /\ {x \in Interferes(n)' \cup Interferes(m)' : Cardinality(Interferes(x)') >= K(n)}
               = {x \in Interferes(n) \cup Interferes(m) : Cardinality(Interferes(x)) >= K(n)}
      BY <1>2
    <3>4. \A x \in Reg :
            nodes'.adj[x] = IF x = n THEN Interferes(n)' \cup Taken(n, m)'
                            ELSE IF x \in Taken(n, m)' THEN Interferes(x)' \cup {n}
                            ELSE Interferes(x)'
      BY <1>1, <1>2, <3>1, <3>2
    <3> QED
      BY <1>1, <1>2, <3>1, <3>3, <3>4 DEF MergeOK
  <2>4. MergeOK'
    BY <2>3 DEF MergeOK
  <2> QED
    BY <2>1, <2>2, <2>4, <1>1, <1>2, <1>3, <1>4 DEF AInv
<1> QED
  BY <1>5, <1>6

LEMMA AllocNextAInv == AInv /\ [AllocNext]_allocVars => AInv'
<1> SUFFICES ASSUME AInv, [AllocNext]_allocVars PROVE AInv'
  OBVIOUS
<1>1. CASE Build \/ Built \/ Merge \/ Skip \/ TakeOver
  BY <1>1, BuildAInv, BuiltAInv, MergeAInv, SkipAInv, TakeOverAInv
<1>2. CASE Rename \/ Disown \/ Discard \/ Rebuild \/ Color
  BY <1>2, RenameAInv, DisownAInv, DiscardAInv, RebuildAInv, ColorAInv
<1>3. CASE stage = "color" /\ Next /\ UNCHANGED <<buildVars, stage>>
  BY <1>3, UnchangedAInv
<1>4. CASE UNCHANGED allocVars
  BY <1>4, UnchangedAInv DEF allocVars
<1> QED
  BY <1>1, <1>2, <1>3, <1>4 DEF AllocNext

\* The inductive invariant of the rounds of coalescing, for every interference
\* graph of any size, any classes, colours and copies: what the graph is after
\* each edge that is added or removed (graph.c:369-487).
THEOREM AllocInvariant == AllocSpec => []AInv
<1>1. AllocInit => AInv
  BY InitAInv
<1>2. AInv /\ [AllocNext]_allocVars => AInv'
  BY AllocNextAInv
<1> QED
  BY <1>1, <1>2, PTL DEF AllocSpec

\* A node interferes with exactly what the registers merged into it interfere
\* with, and the list of nodes is in order of degree after every edge that is
\* added or removed (graph.c:126-188, 259-274).
THEOREM AllocCoalesced == AllocSpec => []Coalesced
<1>1. AInv => Coalesced
  <2> SUFFICES ASSUME AInv, stage = "early"
               PROVE  /\ Nodes(nodes) = Remaining
                      /\ \A n \in Nodes(nodes) : nodes.adj[n] = Interferes(n) /\ n \notin nodes.adj[n]
    BY DEF AInv, Coalesced
  <2>1. Nodes(nodes) = Remaining /\ \A x \in Reg : nodes.adj[x] = Interferes(x)
    BY DEF AInv, EarlyOK
  <2>2. \A n \in Remaining : n \in Reg /\ n \notin Interferes(n)
    BY RemainingIs, QuotientOK DEF AInv
  <2> QED
    BY <2>1, <2>2
<1> QED
  BY <1>1, AllocInvariant, PTL

\* Merging leaves a graph that can be simplified away such a graph, as long as no
\* machine register has an edge: the test of early0() by degrees is enough
\* (graph.c:444-446, 463-480).
THEOREM AllocStaysSimple == AllocSpec => []StaysSimple
<1>1. AInv => StaysSimple
  <2> SUFFICES ASSUME AInv, stage = "early", \A p \in Occurring : nodes.adj[p] = {},
                      Simple(found)
               PROVE  Simple(nodes.adj)
    BY DEF StaysSimple
  <2>1. \A x \in Reg : nodes.adj[x] = Interferes(x)
    BY DEF AInv, EarlyOK
  <2>2. nodes.adj \in [Reg -> SUBSET Reg]
    BY DEF AInv, AllocTypeOK
  <2>3. nodes.adj = [x \in Reg |-> Interferes(x)]
    BY <2>1, <2>2
  <2>4. \A p \in Occurring : Interferes(p) = {}
    BY <2>1, RegIsNode
  <2> QED
    BY <2>3, <2>4 DEF AInv, SimpleOK
<1> QED
  BY <1>1, AllocInvariant, PTL

-----------------------------------------------------------------------------
\* The colouring of the graph that is left.

LEMMA ColorInit == AInv /\ IInv /\ Color => Init'
<1> SUFFICES ASSUME AInv, IInv, Color PROVE Init'
  OBVIOUS
<1> USE DEF AInv
<1>1. /\ stage = "early" /\ phase = "pick" /\ stack = <<>>
      /\ color = [n \in Node |-> IF n \in Phys THEN n ELSE None]
  BY DEF Color, EndEarly, Uncolorable
<1>2. /\ E' = [n \in Node |-> IF n \in Reg THEN nodes.adj[n] ELSE {}]
      /\ adj' = E' /\ graph' = Nodes(nodes)
      /\ UNCHANGED <<cost, stack, color, phase>>
  BY DEF Color
<1>3. Nodes(nodes) = Remaining /\ \A x \in Reg : nodes.adj[x] = Interferes(x)
  BY <1>1 DEF EarlyOK
<1>4. \A x \in Node : E'[x] = Interferes(x)
  <2>1. \A x : x \notin Reg => Interferes(x) = {}
    BY InterferesType, RemainingIs
  <2> QED
    BY <2>1, <1>2, <1>3
<1> DEFINE S == {e \in Pairs : \E x \in Node : \E y \in Interferes(x) : e = {x, y}}
<1>5. ASSUME NEW n \in Node
      PROVE  E'[n] = {m \in Node \ {n} : {n, m} \in S}
  <2>1. ASSUME NEW m \in Interferes(n)
        PROVE  m \in Node \ {n} /\ {n, m} \in S
    <3>1. m \in Node /\ m # n /\ Class[n] = Class[m]
      BY QuotientOK, RegIsNode
    <3>2. {n, m} \in Pairs
      <4>1. <<n, m>> \in {q \in Node \X Node : q[1] # q[2] /\ Class[q[1]] = Class[q[2]]}
        BY <3>1
      <4> QED
        BY <4>1 DEF Pairs
    <3> QED
      BY <3>1, <3>2
  <2>2. ASSUME NEW m \in Node \ {n}, {n, m} \in S
        PROVE  m \in Interferes(n)
    <3>1. PICK x \in Node : \E y \in Interferes(x) : {n, m} = {x, y}
      BY <2>2
    <3>2. PICK y \in Interferes(x) : {n, m} = {x, y}
      BY <3>1
    <3>3. (x = n /\ y = m) \/ (x = m /\ y = n)
      BY <3>2
    <3>4. x \in Interferes(y)
      BY QuotientOK
    <3> QED
      BY <3>2, <3>3, <3>4
  <2> QED
    BY <2>1, <2>2, <1>4
<1>6. E' = [n \in Node |-> {m \in Node \ {n} : {n, m} \in S}]
  <2> HIDE DEF S
  <2> QED
    BY <1>2, <1>5
<1>7. Remaining \in SUBSET Node /\ \A n \in Node : E'[n] # {} => n \in Remaining
  <2>1. \A n \in Node : Interferes(n) # {} => n \in Remaining
    BY InterferesType
  <2> QED
    BY <2>1, <1>4, RemainingIs, RegIsNode
<1>8. cost \in [Pseudo -> Costs]
  BY DEF IInv, TypeOK
<1>9. S \in SUBSET Pairs
  OBVIOUS
<1> HIDE DEF S
<1>10. \E U \in SUBSET Pairs : E' = [n \in Node |-> {m \in Node \ {n} : {n, m} \in U}]
  BY <1>6, <1>9
<1>11. graph' \in {N \in SUBSET Node : \A n \in Node : E'[n] # {} => n \in N}
  BY <1>2, <1>3, <1>7
<1>12. cost' \in [Pseudo -> Costs] /\ stack' = <<>> /\ phase' = "pick"
  BY <1>1, <1>2, <1>8
<1>13. color' = [n \in Node |-> IF n \in Phys THEN n ELSE None]
  BY <1>1, <1>2
<1>14. adj' = E'
  BY <1>2
<1> QED
  BY <1>10, <1>11, <1>12, <1>13, <1>14 DEF Init

LEMMA ColorStarts == Init' => IInv' /\ Justified'
BY InitIInv, InitJustified, PTL

\* Before it is coloured there is nothing that could go wrong with the colouring.
LEMMA UncolorableIInv ==
  ASSUME stage # "color", Uncolorable, cost \in [Pseudo -> Costs]
  PROVE  IInv /\ Justified
<1>1. /\ E = [n \in Node |-> {}] /\ adj = E
      /\ graph = {} /\ stack = <<>> /\ phase = "pick"
      /\ color = [n \in Node |-> IF n \in Phys THEN n ELSE None]
  BY DEF Uncolorable
<1>2. Init
  <2>1. E = [n \in Node |-> {m \in Node \ {n} : {n, m} \in {}}]
    BY <1>1
  <2>2. {} \in SUBSET Pairs
    OBVIOUS
  <2>3. graph \in {N \in SUBSET Node : \A n \in Node : E[n] # {} => n \in N}
    BY <1>1
  <2> QED
    BY <2>1, <2>2, <2>3, <1>1 DEF Init
<1> QED
  BY <1>2, InitIInv, InitJustified

\* The invariants of color() hold of the whole allocation: it begins with a graph
\* whose edges are mutual and within a class (graph.c:701-726).
THEOREM AllocGraph == AllocSpec => [](IInv /\ Justified)
<1>1. AllocInit => IInv /\ Justified
  <2>1. AllocInit => stage # "color" /\ Uncolorable /\ cost \in [Pseudo -> Costs]
    BY DEF AllocInit, Uncolorable
  <2> QED
    BY <2>1, UncolorableIInv
<1>2. AInv /\ IInv /\ Justified /\ [AllocNext]_allocVars => IInv' /\ Justified'
  <2> SUFFICES ASSUME AInv, IInv, Justified, [AllocNext]_allocVars
               PROVE  IInv' /\ Justified'
    OBVIOUS
  <2>1. CASE Color
    BY <2>1, ColorInit, ColorStarts
  <2>2. [Next]_vars => IInv' /\ Justified'
    BY NextIInv, NextJustified
  <2>3. CASE Build \/ Built \/ Merge \/ Skip \/ TakeOver
    <3>1. UNCHANGED vars
      BY <2>3 DEF Build, Built, Merge, Skip, TakeOver
    <3> QED
      BY <3>1, <2>2
  <2>4. CASE Rename \/ Disown \/ Discard \/ Rebuild
    <3>1. UNCHANGED vars
      BY <2>4 DEF Rename, Disown, Discard, Rebuild
    <3> QED
      BY <3>1, <2>2
  <2>5. CASE UNCHANGED allocVars
    <3>1. UNCHANGED vars
      BY <2>5 DEF allocVars
    <3> QED
      BY <3>1, <2>2
  <2> QED
    BY <2>1, <2>2, <2>3, <2>4, <2>5 DEF AllocNext
<1> QED
  BY <1>1, <1>2, AllocInvariant, PTL DEF AllocSpec

\* Whatever was merged before, a register is spilled only when its neighbours have
\* every colour it may have, and never when it could have been simplified away
\* (graph.c:551-577, 602-610, 709-726).
THEOREM AllocSpills == AllocSpec => [](SpilledIsBlocked /\ NoNeedlessSpill)
<1>1. Justified => SpilledIsBlocked /\ NoNeedlessSpill
  BY DEF Justified, SpilledIsBlocked, NoNeedlessSpill, Uncolored
<1> QED
  BY <1>1, AllocGraph, PTL
=============================================================================

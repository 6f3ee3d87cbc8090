-------------------------------- MODULE Graph --------------------------------
(***************************************************************************)
(* Colouring the interference graph: color() and graph_pick() of           *)
(* cc1/graph.c.  Nodes are disconnected from the graph one by one and      *)
(* pushed on a stack, nodes of low degree first; then they are popped and  *)
(* reconnected in the opposite order, and each takes a colour that none of *)
(* its neighbours in the graph has.  A node without a free colour keeps    *)
(* PSEUDO_REG_NONE and will be spilled.                                    *)
(*                                                                         *)
(* An edge is a pair of half edges, one at each end.  Disconnecting a node *)
(* removes the half edges that lead to it and keeps its own, so that it    *)
(* can be reconnected.                                                     *)
(***************************************************************************)
EXTENDS Naturals, Sequences, FiniteSets

CONSTANTS
  Pseudo,   \* the pseudo registers of the function
  Phys,     \* the physical registers that occur in it, or are colours
  Class,    \* Class[n]: the register class of n, integer or floating point
  Colors,   \* the physical registers the allocator may hand out
  None,     \* PSEUDO_REG_NONE
  Costs     \* the spill costs a register may have

Node == Pseudo \cup Phys

ASSUME NodesAssumption ==
  /\ IsFiniteSet(Node)
  /\ Pseudo \cap Phys = {}
  /\ None \notin Node
ASSUME ColorsAssumption == Colors \subseteq Phys
ASSUME CostsAssumption == Costs \subseteq Nat

VARIABLES
  E,        \* E[n]: what n interferes with; fixed
  cost,     \* cost[n]: its spill cost; fixed
  graph,    \* the nodes in the graph
  adj,      \* adj[n]: where the half edges of n lead
  stack,    \* node_stack
  color,    \* color[n]: a physical register or None
  phase     \* "pick", "pop" or "done"

vars == <<E, cost, graph, adj, stack, color, phase>>

-----------------------------------------------------------------------------

\* amd64_reg_colors() and amd64_reg_k().
ColorsOf(n) == {c \in Colors : Class[c] = Class[n]}
K(n) == Cardinality(ColorsOf(n))

Degree(n) == Cardinality(adj[n])

\* The nodes that are in the graph without a colour.
Uncolored == {n \in graph : color[n] = None}

\* interf0() adds an edge between registers of one class only, both ways.
\* live_interf() finds no register to interfere with itself.
Pairs == {{p[1], p[2]} : p \in {q \in Node \X Node : q[1] # q[2] /\ Class[q[1]] = Class[q[2]]}}

\* graph_lookup() makes a node for each register that the code mentions.
Init ==
  /\ \E S \in SUBSET Pairs :
       E = [n \in Node |-> {m \in Node \ {n} : {n, m} \in S}]
  /\ cost \in [Pseudo -> Costs]
  /\ graph \in {N \in SUBSET Node : \A n \in Node : E[n] # {} => n \in N}
  /\ adj = E
  /\ stack = <<>>
  /\ color = [n \in Node |-> IF n \in Phys THEN n ELSE None]
  /\ phase = "pick"

\* graph_disconnect() and the push.  (Fault: the node's own half edges dropped.)
Disconnect_Own(n) ==
  /\ adj' = [m \in Node |-> IF m \in adj[n] THEN adj[m] \ {n}
                            ELSE IF m = n THEN {} ELSE adj[m]]
  /\ graph' = graph \ {n}
  /\ stack' = Append(stack, n)

Disconnect(n) ==
  /\ adj' = [m \in Node |-> IF m \in adj[n] THEN adj[m] \ {n} ELSE adj[m]]
  /\ graph' = graph \ {n}
  /\ stack' = Append(stack, n)

\* n is a node of lowest degree among the uncoloured ones: the last of them in
\* the list, which is sorted by degree (Alloc!InOrder).
Lowest(n) == n \in Uncolored /\ \A m \in Uncolored : Degree(n) <= Degree(m)

\* The node of lowest degree has a colour to spare whatever its neighbours get.
PickLow ==
  /\ phase = "pick"
  /\ \E n \in graph : Lowest(n) /\ Degree(n) < K(n) /\ Disconnect(n)
  /\ UNCHANGED <<E, cost, color, phase>>

\* None has: the node that is cheapest to spill, for the edges it takes away.
\* later0() cannot merge anything here: every node in the graph that has a
\* colour is a physical register, and coal_eligible() rejects two of those.
PickSpill ==
  /\ phase = "pick"
  /\ \E n \in graph : Lowest(n) /\ Degree(n) >= K(n)
  /\ \E n \in Uncolored :
       /\ \A m \in Uncolored : cost[n] \div Degree(n) <= cost[m] \div Degree(m)
       /\ Disconnect(n)
  /\ UNCHANGED <<E, cost, color, phase>>

EndPick ==
  /\ phase = "pick"
  /\ Uncolored = {}
  /\ phase' = "pop"
  /\ UNCHANGED <<E, cost, graph, adj, stack, color>>

\* The colours of the neighbours that have one.
\* (Fault: those used for earlier nodes are not cleared.)
Used_All(n) == {color[m] : m \in graph} \ {None}

Used(n) == {color[m] : m \in adj[n]} \ {None}

Top == stack[Len(stack)]

\* The pop, graph_reconnect(), and the choice of a colour.  Which of the free
\* ones is the first is a matter of how registers are numbered.
Pop ==
  /\ phase = "pop" /\ stack # <<>>
  /\ LET n == Top
         free == ColorsOf(n) \ Used(n)
     IN  /\ adj' = [m \in Node |-> IF m \in adj[n] THEN adj[m] \cup {n}
                                   ELSE adj[m]]
         /\ graph' = graph \cup {n}
         /\ IF free = {} THEN UNCHANGED color
            ELSE \E c \in free : color' = [color EXCEPT ![n] = c]
  /\ stack' = SubSeq(stack, 1, Len(stack) - 1)
  /\ UNCHANGED <<E, cost, phase>>

EndPop ==
  /\ phase = "pop" /\ stack = <<>>
  /\ phase' = "done"
  /\ UNCHANGED <<E, cost, graph, adj, stack, color>>

Next == PickLow \/ PickSpill \/ EndPick \/ Pop \/ EndPop

Spec == Init /\ [][Next]_vars

-----------------------------------------------------------------------------

OnStack(n) == \E i \in 1..Len(stack) : stack[i] = n

TypeOK ==
  /\ E \in [Node -> SUBSET Node] /\ cost \in [Pseudo -> Costs]
  /\ graph \in SUBSET Node /\ adj \in [Node -> SUBSET Node]
  /\ stack \in Seq(Pseudo)
  /\ color \in [Node -> Phys \cup {None}]
  /\ phase \in {"pick", "pop", "done"}

\* Interference is mutual, and between registers of one class.
EdgesOK ==
  /\ \A n \in Node : n \notin E[n]
  /\ \A n, m \in Node : m \in E[n] => n \in E[m] /\ Class[m] = Class[n]

\* A node is in the graph or once on the stack, a register without one is in
\* neither and has no neighbours, and what is on the stack has no colour yet.
Placed ==
  /\ \A n \in graph : ~OnStack(n)
  /\ \A n \in Node : E[n] # {} => n \in graph \/ OnStack(n)
  /\ \A i, j \in 1..Len(stack) : stack[i] = stack[j] => i = j
  /\ \A i \in 1..Len(stack) : color[stack[i]] = None
  /\ \A p \in Phys : color[p] = p

\* The half edges, exactly: a node in the graph has those to its neighbours in
\* the graph; a node on the stack has, besides, those to its neighbours that
\* were pushed after it, which are back in the graph when its turn comes.
HalfEdges ==
  /\ \A n \in graph : adj[n] = E[n] \cap graph
  /\ \A i \in 1..Len(stack) :
       adj[stack[i]] = {m \in E[stack[i]] :
                          m \in graph \/ \E j \in (i+1)..Len(stack) : stack[j] = m}

\* No two registers that interfere are in one machine register.
Proper ==
  \A n \in Node : \A m \in E[n] : color[n] # None => color[n] # color[m]

\* A pseudo register only gets a register that its class may use.
Allowed == \A n \in Pseudo : color[n] # None => color[n] \in ColorsOf(n)

\* The inductive invariant the theorems on color() rest on.
IInv == TypeOK /\ EdgesOK /\ Placed /\ HalfEdges /\ Proper /\ Allowed

\* graph_remove_half_edge() follows the half edge it looks for without asking
\* whether it exists, and graph_add_half_edge() does not ask whether it does
\* already: disconnecting finds one at every neighbour, reconnecting finds none.
HalfEdgesMatch ==
  /\ phase = "pick" => \A n \in graph : \A m \in adj[n] : n \in adj[m]
  /\ stack # <<>> => \A m \in adj[Top] : m \in graph /\ Top \notin adj[m]

\* A register is only spilled when its neighbours occupy every colour it could
\* have been given.
Blocked(n) == ColorsOf(n) \subseteq {color[m] : m \in E[n]}

SpilledIsBlocked ==
  phase = "done" => \A n \in graph : color[n] = None => Blocked(n)

\* No register of S can ever be the node of low degree, in any order: it has as
\* many neighbours in S, or with a colour of their own, as there are colours.
Stubborn(S) == \A n \in S : Cardinality(E[n] \cap (S \cup Phys)) >= K(n)
Core == UNION {S \in SUBSET Pseudo : Stubborn(S)}

\* graph_pick() looks at the node of lowest degree only.  When there are classes
\* with more and with fewer colours, that speaks for those with the fewest.
Fewest(n) == \A m \in Pseudo : K(n) <= K(m)

\* A register that could have been simplified away is not spilled, whatever had
\* to be: a graph that can be taken apart by removing nodes of degree below k is
\* coloured without a spill.
NoNeedlessSpill ==
  phase = "done" => \A n \in graph : color[n] = None /\ Fewest(n) => n \in Core

\* What these two rest on: why a node was pushed, and why it has no colour.
Justified ==
  /\ phase = "pick" => \A n \in Pseudo : color[n] = None
  /\ phase # "pick" => \A n \in Uncolored : Blocked(n)
  /\ \A i \in 1..Len(stack) :
       Fewest(stack[i]) => Degree(stack[i]) < K(stack[i]) \/ stack[i] \in Core
  /\ phase # "pick" => \A n \in Uncolored : Fewest(n) => n \in Core
=============================================================================

-------------------------------- MODULE Alloc --------------------------------
(***************************************************************************)
(* Register allocation: graph_alloc() of cc1/graph.c.  The graph is built  *)
(* from the interference of the registers (interf0); copies between        *)
(* registers that do not interfere are made superfluous by merging their   *)
(* nodes (early0), and all of it again on the code that is left as long as *)
(* anything was merged; then the graph is coloured (Graph).                *)
(*                                                                         *)
(* The nodes are kept in a list sorted by degree, the highest first;       *)
(* graph_pick() looks for the lowest at its end.  Every change of a degree *)
(* moves the node to its place.                                            *)
(***************************************************************************)
EXTENDS Graph

CONSTANTS
  Occurring, \* the physical registers that the code mentions
  Size,      \* Size[n]: the size of the symbol the pseudo register n stands for
  NCopies    \* how many copies the code has

ASSUME AllocAssumption ==
  /\ Occurring \subseteq Phys
  /\ Size \in [Pseudo -> Nat]
  /\ NCopies \in Nat

Reg == Pseudo \cup Occurring

VARIABLES
  found,    \* the interference as live_interf() found it last
  code,     \* the copies, in order; code[i] = <<dst, src>>
  pc,       \* the copy early0() looks at; 0: nothing has been looked at yet
  nodes,    \* the graph: the list of its nodes, and their neighbours
  todo,     \* the edges that are still to be added, from node to node
  pair,     \* the node that survives a merge, and the one that does not
  rep,      \* rep[n]: the register that n became
  changed,
  stage     \* "build", "early", "merge", "remove" or "color"

buildVars == <<found, code, pc, nodes, todo, pair, rep, changed>>
allocVars == <<vars, buildVars, stage>>

-----------------------------------------------------------------------------
\* The graph.

Nodes(g) == {g.list[i] : i \in DOMAIN g.list}
DegreeIn(g, n) == Cardinality(g.adj[n])
PlaceOf(g, n) == CHOOSE i \in DOMAIN g.list : g.list[i] = n

\* The node at p is taken out and put in again at q.
Move(l, p, q) ==
  [i \in DOMAIN l |-> IF i = q THEN l[p]
                      ELSE IF q < i /\ i <= p THEN l[i - 1]
                      ELSE IF p <= i /\ i < q THEN l[i + 1]
                      ELSE l[i]]

\* BUBBLE_UP: n moves past every node right before it with a lower degree.
UpTo(g, p) ==
  CHOOSE q \in 1..p :
    /\ \A i \in q..(p - 1) : DegreeIn(g, g.list[i]) < DegreeIn(g, g.list[p])
    /\ q # 1 => ~(DegreeIn(g, g.list[q - 1]) < DegreeIn(g, g.list[p]))

BubbleUp(g, n) ==
  LET p == PlaceOf(g, n) IN [list |-> Move(g.list, p, UpTo(g, p)), adj |-> g.adj]

\* The loop of graph_remove_half_edge() that moves a node down again.
\* (Fault: the node stays where it is.)
SinkDown_Not(g, n) == g

DownTo(g, p) ==
  CHOOSE q \in p..Len(g.list) :
    /\ \A i \in (p + 1)..q : DegreeIn(g, g.list[i]) > DegreeIn(g, g.list[p])
    /\ q # Len(g.list) => ~(DegreeIn(g, g.list[q + 1]) > DegreeIn(g, g.list[p]))

SinkDown(g, n) ==
  LET p == PlaceOf(g, n) IN [list |-> Move(g.list, p, DownTo(g, p)), adj |-> g.adj]

AddHalfEdge(g, from, to) ==
  BubbleUp([list |-> g.list, adj |-> [g.adj EXCEPT ![from] = @ \cup {to}]], from)

\* graph_add_edge(): nothing happens if there is such an edge already.
AddEdge(g, n, m) ==
  IF m \in g.adj[n] THEN g ELSE AddHalfEdge(AddHalfEdge(g, n, m), m, n)

RemoveHalfEdge(g, from, to) ==
  SinkDown([list |-> g.list, adj |-> [g.adj EXCEPT ![from] = @ \ {to}]], from)

RemoveEdge(g, n, m) == RemoveHalfEdge(RemoveHalfEdge(g, n, m), m, n)

\* GRAPH_REMOVE.
Unlink(g, n) ==
  LET p == PlaceOf(g, n)
  IN  [list |-> [i \in 1..(Len(g.list) - 1) |-> IF i < p THEN g.list[i] ELSE g.list[i + 1]],
       adj  |-> g.adj]

-----------------------------------------------------------------------------
\* interf0().

\* graph_lookup() appends a node for each register that occurs.
Listing(S) == CHOOSE l \in [1..Cardinality(S) -> S] : \A n \in S : \E i \in DOMAIN l : l[i] = n
Unconnected(S) == [list |-> Listing(S), adj |-> [n \in Reg |-> {}]]

\* Each node is to be connected with all that interfere with it, and so each
\* edge is met from either end.
AllEdges(adj0) == {e \in Reg \X Reg : e[2] \in adj0[e[1]]}

\* Interference between the registers of a class, both ways; a register does
\* not interfere with itself.
Interferences ==
  {[n \in Reg |-> {m \in Reg \ {n} : {n, m} \in S}] :
     S \in SUBSET {e \in Pairs : e \subseteq Reg}}

\* A copy is between registers of one class, which an instruction names.
NoCopy == <<None, None>>
Copies == {c \in Reg \X Reg : c[1] # c[2] /\ Class[c[1]] = Class[c[2]]
                              /\ ~(c[1] \in Phys /\ c[2] \in Phys)}

AllocInit ==
  /\ found \in Interferences
  /\ nodes = Unconnected(Reg)
  /\ todo = AllEdges(found)
  /\ code = <<>> /\ pc = 0
  /\ pair = NoCopy
  /\ rep = [n \in Reg |-> n]
  /\ changed = FALSE
  /\ stage = "build"
  /\ E = [n \in Node |-> {}] /\ adj = E
  /\ cost \in [Pseudo -> Costs]
  /\ graph = {} /\ stack = <<>> /\ phase = "pick"
  /\ color = [n \in Node |-> IF n \in Phys THEN n ELSE None]

\* Which edge is the next is a matter of how registers are numbered.
NextEdge == CHOOSE e \in todo : TRUE

Connect ==
  /\ nodes' = AddEdge(nodes, NextEdge[1], NextEdge[2])
  /\ todo' = todo \ {NextEdge}

Build ==
  /\ stage = "build" /\ todo # {}
  /\ Connect
  /\ UNCHANGED <<vars, found, code, pc, pair, rep, changed, stage>>

\* The graph is there; the code is looked at, for the first time or again.
Built ==
  /\ stage = "build" /\ todo = {}
  /\ IF pc = 0 THEN code' \in [1..NCopies -> Copies] ELSE UNCHANGED code
  /\ pc' = 1
  /\ stage' = "early"
  /\ UNCHANGED <<vars, found, nodes, todo, pair, rep, changed>>

-----------------------------------------------------------------------------
\* early0().

\* coal_eligible(): two nodes of the graph without an edge.
\* (Fault: the interference is not looked at.)
Eligible_Any(c) ==
  c[1] # c[2] /\ {c[1], c[2]} \subseteq Nodes(nodes) /\ ~(c[1] \in Phys /\ c[2] \in Phys)

Eligible(c) ==
  /\ c[1] # c[2]
  /\ c[1] \in Nodes(nodes) /\ c[2] \in Nodes(nodes)
  /\ c[2] \notin nodes.adj[c[1]]
  /\ ~(c[1] \in Phys /\ c[2] \in Phys)

\* Which of the two survives a merge: the physical register, or the one with
\* the larger symbol.
Survivor(c) ==
  IF c[2] \in Phys \/ (c[1] \in Pseudo /\ Size[c[2]] > Size[c[1]])
  THEN c[2] ELSE c[1]

\* The test of early0(): the neighbours of high degree are few.
\* (Fault: one too many.)
Conservative_Loose(c) ==
  Cardinality({n \in nodes.adj[c[1]] \cup nodes.adj[c[2]] :
                 DegreeIn(nodes, n) >= K(c[1])}) <= K(c[1])

Conservative(c) ==
  Cardinality({n \in nodes.adj[c[1]] \cup nodes.adj[c[2]] :
                 DegreeIn(nodes, n) >= K(c[1])}) < K(c[1])

Mergeable(c) == Eligible(c) /\ Conservative(c)

\* graph_merge() begins: the survivor takes over the edges of the other.
Merge ==
  /\ stage = "early" /\ pc <= Len(code)
  /\ Mergeable(code[pc])
  /\ LET n == Survivor(code[pc])
         m == IF n = code[pc][1] THEN code[pc][2] ELSE code[pc][1]
     IN  pair' = <<n, m>> /\ todo' = {n} \X nodes.adj[m]
  /\ changed' = TRUE
  /\ stage' = "merge"
  /\ UNCHANGED <<vars, found, code, pc, nodes, rep>>

Skip ==
  /\ stage = "early" /\ pc <= Len(code)
  /\ ~Mergeable(code[pc])
  /\ pc' = pc + 1
  /\ UNCHANGED <<vars, found, code, nodes, todo, pair, rep, changed, stage>>

TakeOver ==
  /\ stage = "merge" /\ todo # {}
  /\ Connect
  /\ UNCHANGED <<vars, found, code, pc, pair, rep, changed, stage>>

\* blocks_substitute_reg() renames the register that is gone in all of the code.
Renamed(r) == IF r = pair[2] THEN pair[1] ELSE r

Rename ==
  /\ stage = "merge" /\ todo = {}
  /\ code' = [i \in DOMAIN code |-> <<Renamed(code[i][1]), Renamed(code[i][2])>>]
  /\ rep' = [r \in Reg |-> Renamed(rep[r])]
  /\ stage' = "remove"
  /\ UNCHANGED <<vars, found, pc, nodes, todo, pair, changed>>

\* graph_remove_node(): its edges, one by one, and the node itself.
Disown ==
  /\ stage = "remove" /\ nodes.adj[pair[2]] # {}
  /\ nodes' = RemoveEdge(nodes, pair[2], CHOOSE x \in nodes.adj[pair[2]] : TRUE)
  /\ UNCHANGED <<vars, found, code, pc, todo, pair, rep, changed, stage>>

Discard ==
  /\ stage = "remove" /\ nodes.adj[pair[2]] = {}
  /\ nodes' = Unlink(nodes, pair[2])
  /\ pair' = NoCopy
  /\ pc' = pc + 1
  /\ stage' = "early"
  /\ UNCHANGED <<vars, found, code, todo, rep, changed>>

-----------------------------------------------------------------------------
\* graph_alloc().

EndEarly == stage = "early" /\ pc > Len(code)

\* nop(): no copy of a register to itself, nor straight back again.
Nop(copies) ==
  LET back(c, last) == c[1] = c[2] \/ last = <<c[2], c[1]>>
      kept[i \in 0..Len(copies)] == \* the last copy that is left up to i
        IF i = 0 THEN NoCopy
        ELSE IF back(copies[i], kept[i - 1]) THEN kept[i - 1] ELSE copies[i]
  IN  [i \in DOMAIN copies |-> IF back(copies[i], kept[i - 1]) THEN NoCopy ELSE copies[i]]

\* "the interference graph is updated incrementally during early coalescing, but
\* too conservatively" (graph.c:705): without the copies that nop() drops,
\* live_interf() may find some of the edges gone.
Rebuild ==
  /\ EndEarly /\ changed
  /\ \E S \in SUBSET {{e[1], e[2]} : e \in AllEdges(nodes.adj)} :
       found' = [n \in Reg |-> {m \in nodes.adj[n] : {n, m} \in S}]
  /\ nodes' = Unconnected(Nodes(nodes))
  /\ todo' = AllEdges(found')
  /\ code' = Nop(code)
  /\ changed' = FALSE
  /\ stage' = "build"
  /\ UNCHANGED <<vars, pc, pair, rep>>

\* color() begins; what the code was is forgotten.
Color ==
  /\ EndEarly /\ ~changed
  /\ E' = [n \in Node |-> IF n \in Reg THEN nodes.adj[n] ELSE {}]
  /\ adj' = E'
  /\ graph' = Nodes(nodes)
  /\ nodes' = [list |-> <<>>, adj |-> [n \in Reg |-> {}]]
  /\ found' = nodes'.adj
  /\ code' = <<>> /\ pc' = 1
  /\ rep' = [n \in Reg |-> n]
  /\ stage' = "color"
  /\ UNCHANGED <<cost, stack, color, phase, todo, pair, changed>>

AllocNext ==
  \/ Build \/ Built
  \/ Merge \/ Skip \/ TakeOver \/ Rename \/ Disown \/ Discard
  \/ Rebuild \/ Color
  \/ stage = "color" /\ Next /\ UNCHANGED <<buildVars, stage>>

AllocSpec == AllocInit /\ [][AllocNext]_allocVars

-----------------------------------------------------------------------------
\* The properties of early0(), in every round.

\* The list has every node of the graph once, in descending order of degree.
InOrder(g) ==
  \A i, j \in DOMAIN g.list :
    i < j => /\ g.list[i] # g.list[j]
             /\ DegreeIn(g, g.list[i]) >= DegreeIn(g, g.list[j])

\* What n interferes with, if it stands for all the registers merged into it.
Interferes(n) == {rep[y] : y \in UNION {found[x] : x \in {z \in Reg : rep[z] = n}}}

Remaining == {rep[n] : n \in Reg}

\* A node stands for all the registers merged into it (graph.c:259-274): it has
\* edges to exactly what they interfere with, and none to itself.  The list
\* graph_pick() takes the last node of is in order after every step of a merge
\* (graph.c:135,184).
Coalesced ==
  /\ InOrder(nodes)
  /\ stage = "early" =>
       /\ Nodes(nodes) = Remaining
       /\ \A n \in Nodes(nodes) : nodes.adj[n] = Interferes(n) /\ n \notin nodes.adj[n]

\* What is left when the nodes with less neighbours among the rest than colours
\* are taken away as long as there are any is the largest set in which each has
\* as many; here there is none.
Simple(adj0) ==
  \A T \in SUBSET Pseudo :
    (\A n \in T : Cardinality(adj0[n] \cap T) >= K(n)) => T = {}

\* Merging leaves a graph that needs no spill such a graph (graph.c:444-446), as
\* long as no machine register is involved: the test by degrees is enough.
StaysSimple ==
  stage = "early" /\ (\A p \in Occurring : nodes.adj[p] = {}) /\ Simple(found)
    => Simple(nodes.adj)

-----------------------------------------------------------------------------
\* What these rest on.

AllocTypeOK ==
  /\ found \in [Reg -> SUBSET Reg] /\ rep \in [Reg -> Reg]
  /\ code \in Seq((Reg \X Reg) \cup {NoCopy}) /\ pc \in Nat
  /\ nodes \in [list : Seq(Reg), adj : [Reg -> SUBSET Reg]]
  /\ todo \in SUBSET (Reg \X Reg) /\ pair \in (Reg \X Reg) \cup {NoCopy}
  /\ changed \in BOOLEAN
  /\ stage \in {"build", "early", "merge", "remove", "color"}

\* Interference is mutual and within a class; registers that interfere are never
\* merged, nor such of different classes.
MergesOK ==
  /\ \A x \in Reg : rep[rep[x]] = rep[x] /\ Class[rep[x]] = Class[x]
  /\ \A x \in Reg : \A y \in found[x] :
       x \in found[y] /\ Class[x] = Class[y] /\ rep[x] # rep[y]
  /\ \A i \in DOMAIN code : code[i] # NoCopy => Class[code[i][1]] = Class[code[i][2]]

\* While the graph is built, an edge is there when it was met from either end.
BuildOK ==
  stage = "build" =>
    /\ todo \subseteq AllEdges(found)
    /\ Nodes(nodes) = Remaining
    /\ \A x \in Reg :
         /\ Interferes(x) = found[x]
         /\ nodes.adj[x] = {y \in found[x] : <<x, y>> \notin todo \/ <<y, x>> \notin todo}

EarlyOK ==
  stage = "early" =>
    /\ pc # 0
    /\ Nodes(nodes) = Remaining
    /\ \A x \in Reg : nodes.adj[x] = Interferes(x)

\* During a merge, n has the edges of m it took over so far, besides its own.
Taken(n, m) == {x \in Interferes(m) : <<n, x>> \notin todo}

MergeOK ==
  stage = "merge" =>
    \E n \in Remaining, m \in Remaining \cap Pseudo :
      /\ pair = <<n, m>> /\ n # m /\ Class[n] = Class[m] /\ m \notin Interferes(n)
      /\ todo \subseteq {n} \X Interferes(m)
      /\ Cardinality({x \in Interferes(n) \cup Interferes(m) :
                        Cardinality(Interferes(x)) >= K(n)}) < K(n)
      /\ pc # 0
      /\ Nodes(nodes) = Remaining
      /\ \A x \in Reg :
           nodes.adj[x] = IF x = n THEN Interferes(n) \cup Taken(n, m)
                          ELSE IF x \in Taken(n, m) THEN Interferes(x) \cup {n}
                          ELSE Interferes(x)

\* m is renamed already, but what it was is still a node with some of its edges.
RemoveOK ==
  stage = "remove" =>
    \E m \in Pseudo \ Remaining :
      /\ pair[2] = m
      /\ pc # 0
      /\ Nodes(nodes) = Remaining \cup {m}
      /\ nodes.adj[m] \subseteq Remaining
      /\ \A x \in Reg \ {m} :
           nodes.adj[x] = IF x \in nodes.adj[m] THEN Interferes(x) \cup {m} ELSE Interferes(x)

\* Simplicity, in terms of the registers as they are renamed.
SimpleOK ==
  (\A p \in Occurring : Interferes(p) = {}) /\ Simple(found)
    => Simple([x \in Reg |-> Interferes(x)])

\* color() has not begun.
Uncolorable ==
  stage # "color" =>
    /\ E = [n \in Node |-> {}] /\ adj = E
    /\ graph = {} /\ stack = <<>> /\ phase = "pick"
    /\ color = [n \in Node |-> IF n \in Phys THEN n ELSE None]

\* The inductive invariant the theorems of AllocProofs rest on.
AInv ==
  /\ AllocTypeOK /\ MergesOK /\ InOrder(nodes)
  /\ BuildOK /\ EarlyOK /\ MergeOK /\ RemoveOK
  /\ SimpleOK /\ Uncolorable
=============================================================================

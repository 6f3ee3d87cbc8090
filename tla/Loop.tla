-------------------------------- MODULE Loop --------------------------------
(***************************************************************************)
(* Natural loops: loop_analyze() of cc1/loop.c.  It runs dom_analyze()     *)
(* (the module Dom, whose steps come first), then looks at every edge from *)
(* a block to one of its dominators, floods backwards from the tail to     *)
(* collect the blocks of the loop in the head, and finally counts for      *)
(* every block the loops it is in.                                         *)
(***************************************************************************)
EXTENDS Dom, SequencesExt

VARIABLES
  blks,     \* b->loop.blks: the blocks of the loop b heads, {} if none
  depth,    \* b->loop.depth
  phase,    \* "dom", "edges", "flood", "depth", "done"
  at,       \* the block the pass is at
  todo,     \* the successors of it that loop1() has still to look at
  head,     \* the head loop_blocks() was called for
  body,     \* its local set of blocks
  bstack    \* its stack of blocks whose predecessors are to be added

loopVars == <<blks, depth, phase, at, todo, head, body, bstack>>
allVars == <<vars, loopVars>>

Succ(b) == {c \in Block : b \in pred[c]}

-----------------------------------------------------------------------------

LoopInit ==
  /\ Init
  /\ blks = [b \in Block |-> {}] /\ depth = [b \in Block |-> 0]    \* loop0()
  /\ phase = "dom" /\ at = 1 /\ todo = Succ(1)
  /\ head = Entry /\ body = {} /\ bstack = <<>>

Analyze ==
  /\ phase = "dom"
  /\ Next
  /\ phase' = (IF done' THEN "edges" ELSE "dom")
  /\ UNCHANGED <<blks, depth, at, todo, head, body, bstack>>

\* loop1(): an edge to a dominator is a back edge.
IsBackEdge(t, h) == h \in dom[t]

\* loop_blocks() starts from the tail, but a block that is its own successor is
\* a loop of one block.  (Fault: a self loop is flooded like the others.)
Start_Tail(t, h) == <<t>>

Start(t, h) == IF t = h THEN <<>> ELSE <<t>>

Edge(s) ==
  /\ phase = "edges" /\ s \in todo
  /\ todo' = todo \ {s}
  /\ IF IsBackEdge(at, s)
     THEN /\ phase' = "flood" /\ head' = s /\ body' = {s, at}
          /\ bstack' = Start(at, s)
     ELSE UNCHANGED <<phase, head, body, bstack>>
  /\ UNCHANGED <<vars, blks, depth, at>>

\* The predecessors of a popped block that are not in the set yet.
\* (Fault: those that are come back too, as long as the stack has room.)
NewPreds_All(b) == IF Len(bstack) > N THEN {b} ELSE pred[b] \ {head}

NewPreds(b) == pred[b] \ body

Flood ==
  /\ phase = "flood" /\ bstack # <<>>
  /\ LET new == NewPreds(Last(bstack))
     IN  /\ body' = body \cup new
         /\ bstack' = Front(bstack) \o SetToSeq(new)
  /\ UNCHANGED <<vars, blks, depth, phase, at, todo, head>>

\* The loops of one head are taken for one loop.
EndFlood ==
  /\ phase = "flood" /\ bstack = <<>>
  /\ blks' = [blks EXCEPT ![head] = @ \cup body]
  /\ phase' = "edges"
  /\ UNCHANGED <<vars, depth, at, todo, head, body, bstack>>

NextBlock ==
  /\ phase = "edges" /\ todo = {}
  /\ IF at < N
     THEN at' = at + 1 /\ todo' = Succ(at + 1) /\ UNCHANGED phase
     ELSE at' = 1 /\ phase' = "depth" /\ UNCHANGED todo
  /\ UNCHANGED <<vars, blks, depth, head, body, bstack>>

\* loop2(): every block of the loop is one level deeper.
\* (Fault: the depth set, not counted.)
Deeper_Set(b) == 1

Deeper(b) == depth[b] + 1

Depth ==
  /\ phase = "depth"
  /\ depth' = [b \in Block |-> IF b \in blks[at] THEN Deeper(b) ELSE depth[b]]
  /\ IF at < N THEN at' = at + 1 /\ UNCHANGED phase
     ELSE phase' = "done" /\ UNCHANGED at
  /\ UNCHANGED <<vars, blks, todo, head, body, bstack>>

LoopNext ==
  \/ Analyze \/ (\E s \in Block : Edge(s)) \/ Flood \/ EndFlood \/ NextBlock
  \/ Depth

LoopSpec == LoopInit /\ [][LoopNext]_allVars /\ WF_allVars(LoopNext)

-----------------------------------------------------------------------------

\* The blocks control can come from to t without passing through h: they are in
\* every set that is closed under that.
Reaching(t, h) ==
  {b \in Block : \A S \in SUBSET Block :
     /\ t \in S \cup {h}
     /\ \A c \in S : pred[c] \subseteq S \cup {h}
     => b \in S}

Tails(h) == {t \in pred[h] : h \in dom[t]}

\* The loops of head h with one of the tails T: h and all that reaches one of
\* these without passing through h.
LoopOf(h, T) ==
  IF T = {} THEN {} ELSE {h} \cup UNION {Reaching(t, h) : t \in T}

NaturalLoop(h) == LoopOf(h, Tails(h))

LoopTypeOK ==
  /\ blks \in [Block -> SUBSET Block]
  /\ depth \in [Block -> Nat]
  /\ phase \in {"dom", "edges", "flood", "depth", "done"}
  /\ at \in Block
  /\ todo \in SUBSET Block
  /\ head \in Block
  /\ body \in SUBSET Block
  /\ bstack \in Seq(Block)

\* Nothing is looked at before the dominators are known.
InOrder ==
  IF phase = "dom"
  THEN /\ \A b \in Block : blks[b] = {}
       /\ at = 1 /\ todo = Succ(1)
  ELSE done

\* The tails of h whose edge to it has been flooded.
Flooded(h) ==
  {t \in Tails(h) : /\ t < at \/ (t = at /\ h \notin todo)
                    /\ ~(phase = "flood" /\ t = at /\ h = head)}

\* What a head has so far are the loops of the edges flooded so far.
SoFar ==
  IF phase \in {"edges", "flood"}
  THEN todo \subseteq Succ(at) /\ \A h \in Block : blks[h] = LoopOf(h, Flooded(h))
  ELSE phase # "dom" => \A h \in Block : blks[h] = NaturalLoop(h)

\* The set holds nothing but the loop, and what it holds is on the stack or has
\* its predecessors in the set.
Flooding ==
  phase = "flood" =>
    /\ head \in Succ(at) \ todo /\ head \in dom[at]
    /\ {head, at} \subseteq body
    /\ body \subseteq {head} \cup Reaching(at, head)
    /\ \A i \in DOMAIN bstack : bstack[i] \in body \ {head}
    /\ \A c \in body \ {head} :
         pred[c] \subseteq body \/ \E i \in DOMAIN bstack : bstack[i] = c

\* The loops around b of the heads before n.
LoopsAround(b, n) == {h \in Block : h < n /\ b \in blks[h]}

DepthCounts ==
  \A b \in Block :
    depth[b] = CASE phase = "depth" -> Cardinality(LoopsAround(b, at))
                 [] phase = "done"  -> Cardinality(LoopsAround(b, N + 1))
                 [] OTHER           -> 0

\* The inductive invariant the theorems of LoopProofs rest on.
LoopIInv ==
  IInv /\ LoopTypeOK /\ InOrder /\ SoFar /\ Flooding /\ DepthCounts

\* The flood collects exactly the natural loop: it never runs past the head.
LoopBodies == phase = "done" => \A h \in Block : blks[h] = NaturalLoop(h)

\* Two loops are disjoint or one is inside the other, and then the inner one's
\* head is deeper: loop_invariants() picks heads by depth to do the inner
\* loops first (loop.c:194-205).
InnerIsDeeper ==
  phase = "done" =>
    \A h, g \in Block :
      h # g /\ blks[h] \cap blks[g] # {} =>
        \/ g \in blks[h] /\ blks[g] \subseteq blks[h] /\ depth[g] > depth[h]
        \/ h \in blks[g] /\ blks[h] \subseteq blks[g] /\ depth[h] > depth[g]

\* loop_analyze() returns.
LoopTerminates == <>(phase = "done")
=============================================================================

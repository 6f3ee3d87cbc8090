-------------------------------- MODULE Dom --------------------------------
(***************************************************************************)
(* Dominators: dom_analyze() of cc1/dom.c.  Every block but the entry is   *)
(* at first taken to be dominated by all blocks; the passes of             *)
(* blocks_iter() then cut the sets down, in place and in the order of the  *)
(* all-blocks list, until a whole pass changes none.  Whether a visit      *)
(* changed a set is decided by counting: the new set replaces the old one  *)
(* when their sizes differ.                                                *)
(***************************************************************************)
EXTENDS Naturals, FiniteSets

CONSTANT N      \* how many blocks the function has

ASSUME NAssumption == N \in Nat \ {0}

\* Blocks are named by their place in the all-blocks list; func_new() puts the
\* entry block at its head, and blocks_sequence() leaves it there.
Block == 1..N
Entry == 1

VARIABLES
  pred,     \* pred[b]: the predecessors of b; fixed during the analysis
  dom,      \* b->dominators
  cur,      \* the block blocks_iter() hands to the callback next
  reiter,   \* the callback asked for another pass
  done      \* dom_analyze() has returned

vars == <<pred, dom, cur, reiter, done>>

-----------------------------------------------------------------------------

\* The blocks control comes to if it starts at the entry and does not enter the
\* blocks of A: they are in every set that is closed under that.
Reached(A) ==
  {b \in Block : \A S \in SUBSET Block :
     /\ Entry \in S \cup A
     /\ \A c \in Block \ A : pred[c] \cap S # {} => c \in S
     => b \in S}

Reachable == Reached({})

\* No edge leads to, or comes from, what control does not reach.
Isolated ==
  \A b \in Block \ Reachable :
    pred[b] = {} /\ \A c \in Block : b \notin pred[c]

\* unreach() has removed what cannot be reached; it never removes the exit
\* block, which then has no predecessors (and never has successors).  Nothing
\* jumps to the entry block.
Init ==
  /\ pred \in [Block -> SUBSET Block]
  /\ pred[Entry] = {}
  /\ Isolated
  /\ dom = [b \in Block |-> IF b = Entry THEN {Entry} ELSE Block]
  /\ cur = 1 /\ reiter = FALSE /\ done = FALSE

\* The block itself and what dominates all its predecessors.
NewDom(b) ==
  {b} \cup {a \in Block : pred[b] # {} /\ \A p \in pred[b] : a \in dom[p]}

\* Did this visit change the set?  (Fault: a set that loses a single element is
\* taken to be unchanged.)
Changed_Loose(b) == Cardinality(NewDom(b)) + 1 < Cardinality(dom[b])

Changed(b) == Cardinality(NewDom(b)) # Cardinality(dom[b])

\* The callback asks for another pass; one block that does is enough.
\* (Fault: the last one has its way.)
Again_LastOnly == Changed(cur)

Again == reiter \/ Changed(cur)

\* One call of dom_analyze1() from the loop over the list.
Visit ==
  /\ ~done
  /\ cur <= N
  /\ dom' = (IF Changed(cur) THEN [dom EXCEPT ![cur] = NewDom(cur)] ELSE dom)
  /\ reiter' = Again
  /\ cur' = cur + 1
  /\ UNCHANGED <<pred, done>>

EndPass ==
  /\ ~done
  /\ cur = N + 1
  /\ IF reiter
     THEN /\ cur' = 1
          /\ reiter' = FALSE
          /\ UNCHANGED done
     ELSE /\ done' = TRUE
          /\ UNCHANGED <<cur, reiter>>
  /\ UNCHANGED <<pred, dom>>

Next == Visit \/ EndPass

Spec == Init /\ [][Next]_vars /\ WF_vars(Next)

-----------------------------------------------------------------------------

TypeOK ==
  /\ pred \in [Block -> SUBSET Block]
  /\ dom \in [Block -> SUBSET Block]
  /\ cur \in 1..(N + 1)
  /\ reiter \in BOOLEAN
  /\ done \in BOOLEAN

\* What is removed from a set stays removed: a visit never finds more
\* dominators than before.  This is what makes it enough to compare sizes.
Shrinking == \A b \in Block : NewDom(b) \subseteq dom[b]

\* No visit of this pass changed a set, and the sets of the blocks it has
\* visited satisfy their equations.
QuietPass == ~reiter => \A b \in Block : b < cur => dom[b] = NewDom(b)

DoneAtEnd == done => cur = N + 1 /\ ~reiter

\* A set of blocks that control can only enter through a.
Fence(a, S) ==
  \A c \in S : c # a /\ pred[c] # {} /\ \A p \in pred[c] : p = a \/ p \in S

\* No dominator is ever lost: every block behind a keeps it in its set.
Greatest ==
  \A a \in Block : \A S \in SUBSET Block :
    Fence(a, S) => \A b \in S : a \in dom[b]

\* The graph is as Init has it.
Clean == pred[Entry] = {} /\ Isolated

\* The inductive invariant the theorems of LoopProofs rest on.
IInv == TypeOK /\ Clean /\ Shrinking /\ QuietPass /\ DoneAtEnd /\ Greatest

\* When dom_analyze() returns, every block's set is the intersection of its
\* predecessors' sets and itself: not at the time of its last visit only, but
\* for all blocks together, though sizes were all that was compared.
Solved == done => \A b \in Block : dom[b] = NewDom(b)

\* When dom_analyze() returns, a is among the dominators of b exactly when it is
\* b or b lies behind a.
Exact ==
  done => \A a, b \in Block :
            a \in dom[b] <=> a = b \/ \E S \in SUBSET Block : b \in S /\ Fence(a, S)

\* What dominance means: every path from the entry to a block that can be
\* reached at all passes through its dominators.
Dominance ==
  done => \A b \in Reachable :
            dom[b] = {a \in Block : b \notin Reached({a})}
=============================================================================

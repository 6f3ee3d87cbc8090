------------------------------ MODULE Liveness ------------------------------
(***************************************************************************)
(* What "live variable analysis" promises, independently of how it is      *)
(* computed (cc1/live.c:256-260 speaks of "the global live variable        *)
(* analysis").  A register is live on entry to a block when some path that *)
(* starts at the block reads it before any block of the path redefines it. *)
(*                                                                         *)
(* The behaviour part says what a client of the analysis may rely on: the  *)
(* live-in sets only ever grow, they never hold a register that is not     *)
(* live, and the analysis finishes when they hold every one that is.       *)
(***************************************************************************)
EXTENDS Naturals, FiniteSets

CONSTANTS
  Block,    \* the blocks of the function
  Reg       \* the pseudo registers it uses

VARIABLES
  succ,     \* succ[b]: the successors of b in the control flow graph
  def,      \* def[b]: registers b defines before it uses them
  use,      \* use[b]: registers b uses before it defines them
  in,       \* in[b]: registers found to be live on entry to b
  done      \* the analysis has finished

graph == <<succ, def, use>>
vars == <<graph, in, done>>

-----------------------------------------------------------------------------

\* p is a path of n blocks, none of them twice, and none but the last redefines r.
Path(p, n, r) ==
  /\ \A i, j \in 1..n : p[i] = p[j] => i = j
  /\ \A i \in 1..(n - 1) : p[i + 1] \in succ[p[i]] /\ r \notin def[p[i]]

\* Some path from b ends in a block that uses r.
LiveAt(b, r) ==
  \E n \in 1..Cardinality(Block) : \E p \in [1..n -> Block] :
    p[1] = b /\ Path(p, n, r) /\ r \in use[p[n]]

LiveIn == [b \in Block |-> {r \in Reg : LiveAt(b, r)}]

-----------------------------------------------------------------------------

Init ==
  /\ succ \in [Block -> SUBSET Block]
  /\ def \in [Block -> SUBSET Reg]
  /\ use \in [Block -> SUBSET Reg]
  /\ \A b \in Block : def[b] \cap use[b] = {}
  /\ in = [b \in Block |-> {}]
  /\ done = FALSE

\* Some register is discovered to be live on entry to one block.
Discover(b) ==
  /\ ~done
  /\ \E more \in SUBSET (LiveIn[b] \ in[b]) :
       /\ more # {}
       /\ in' = [in EXCEPT ![b] = @ \cup more]
  /\ UNCHANGED <<graph, done>>

Finish ==
  /\ ~done
  /\ in = LiveIn
  /\ done' = TRUE
  /\ UNCHANGED <<graph, in>>

Next == (\E b \in Block : Discover(b)) \/ Finish

\* What is promised of each step, and that the last one is taken.
SafeSpec == Init /\ [][Next]_vars
Spec == SafeSpec /\ WF_vars(Next)
=============================================================================

-------------------------------- MODULE Live --------------------------------
(***************************************************************************)
(* Global live variable analysis: live_analyze_global() of cc1/live.c as   *)
(* blocks_iter() of cc1/block.c runs it.  Every pass visits the blocks in  *)
(* the order of the all-blocks list and recomputes LIVE OUT and LIVE IN of *)
(* the block in place; a visit that changes either asks for another pass   *)
(* (BLOCKS_ITER_REITER).  The DEF and USE sets are the result of the local *)
(* analysis, which the module LiveRanges models.                           *)
(***************************************************************************)
EXTENDS Naturals, FiniteSets

CONSTANTS
  N,        \* how many blocks the function has
  Reg       \* the pseudo registers

ASSUME NAssumption == N \in Nat \ {0}

\* Blocks are named by their place in the all-blocks list.
Block == 1..N

VARIABLES
  succ,     \* succ[b]: the successors of b; fixed during the analysis
  def, use, \* b->live.def and b->live.use; fixed likewise
  in, out,  \* b->live.in and b->live.out
  cur,      \* the block blocks_iter() hands to the callback next
  reiter,   \* blocks_iter()'s flag: the callback asked for another pass
  done      \* blocks_iter() has returned

graph == <<succ, def, use>>
vars == <<graph, in, out, cur, reiter, done>>

-----------------------------------------------------------------------------

\* live_analyze_local() puts a register in DEF or in USE, by its first range,
\* never in both; live_clear() has emptied LIVE IN and LIVE OUT.
Init ==
  /\ succ \in [Block -> SUBSET Block]
  /\ def \in [Block -> SUBSET Reg]
  /\ use \in [Block -> SUBSET Reg]
  /\ \A b \in Block : def[b] \cap use[b] = {}
  /\ in = [b \in Block |-> {}]
  /\ out = [b \in Block |-> {}]
  /\ cur = 1
  /\ reiter = FALSE
  /\ done = FALSE

\* The data flow equations, from the LIVE IN sets of the moment.  A block that
\* is its own successor contributes the LIVE IN of its previous visit.
\* (NewOut_FirstOnly is the fault of looking at one successor only, and
\* NewIn_Unfiltered that of leaving out the subtraction of DEF.)
NewOut_FirstOnly(b) ==
  UNION {in[s] : s \in {s \in succ[b] : \A t \in succ[b] : s <= t}}

NewOut(b) == UNION {in[s] : s \in succ[b]}

NewIn_Unfiltered(b) == NewOut(b) \cup use[b]

NewIn(b) == (NewOut(b) \ def[b]) \cup use[b]

\* Did this visit change either set?
Changed(b) == NewIn(b) # in[b] \/ NewOut(b) # out[b]

\* One call of live_analyze_global() from the loop over the list.
Visit ==
  /\ ~done
  /\ cur <= N
  /\ in' = [in EXCEPT ![cur] = NewIn(cur)]
  /\ out' = [out EXCEPT ![cur] = NewOut(cur)]
  /\ reiter' = (reiter \/ Changed(cur))
  /\ cur' = cur + 1
  /\ UNCHANGED <<graph, done>>

\* (Fault: each pass starts over from empty sets.)
EndPass_Clearing ==
  /\ ~done
  /\ cur = N + 1
  /\ IF reiter
     THEN /\ cur' = 1
          /\ reiter' = FALSE
          /\ in' = [b \in Block |-> {}]
          /\ UNCHANGED done
     ELSE /\ done' = TRUE
          /\ UNCHANGED <<cur, reiter, in>>
  /\ UNCHANGED <<graph, out>>

\* The end of the list: go around again, or return BLOCKS_ITER_OK.
EndPass ==
  /\ ~done
  /\ cur = N + 1
  /\ IF reiter
     THEN /\ cur' = 1
          /\ reiter' = FALSE
          /\ done' = FALSE
     ELSE /\ done' = TRUE
          /\ UNCHANGED <<cur, reiter>>
  /\ UNCHANGED <<graph, in, out>>

Next == Visit \/ EndPass

\* The analysis is sequential code: it does not stop while it has a step to take.
Spec == Init /\ [][Next]_vars /\ WF_vars(Next)

-----------------------------------------------------------------------------

TypeOK ==
  /\ succ \in [Block -> SUBSET Block]
  /\ def \in [Block -> SUBSET Reg]
  /\ use \in [Block -> SUBSET Reg]
  /\ in \in [Block -> SUBSET Reg]
  /\ out \in [Block -> SUBSET Reg]
  /\ cur \in 1..(N + 1)
  /\ reiter \in BOOLEAN
  /\ done \in BOOLEAN

\* b's sets satisfy the data flow equations.
SolvedAt(b) ==
  /\ out[b] = UNION {in[s] : s \in succ[b]}
  /\ in[b] = (out[b] \ def[b]) \cup use[b]

\* L is closed under the equations: everything they force into it is there.
IsClosed(L) ==
  \A b \in Block :
    use[b] \cup ((UNION {L[s] : s \in succ[b]}) \ def[b]) \subseteq L[b]

\* When the analysis returns, the equations hold at EVERY block at once, though
\* each visit established them at one block and later visits of the same pass
\* overwrote sets that earlier ones had read (live_analyze_global's
\* comparison with the previous sets is what must rule that out).
Solved == done => \A b \in Block : SolvedAt(b)

\* No register is ever in LIVE IN that a smaller answer could leave out: the
\* result is the least one, so that no dead store is kept alive by a loop.
Least ==
  \A L \in [Block -> SUBSET Reg] :
    IsClosed(L) => \A b \in Block : in[b] \subseteq L[b]

\* A reason why r is not live on entry to b: a set of blocks, b among them, none
\* of which reads r, and which control leaves only after r is overwritten.
NotNeeded(b, r) ==
  \E S \in SUBSET Block :
    /\ b \in S
    /\ \A c \in S : r \notin use[c] /\ (r \in def[c] \/ succ[c] \subseteq S)

\* When the analysis returns, LIVE IN lacks a register exactly when there is such
\* a reason: no value that is needed is missed, none is kept without need.
Exact ==
  done => \A b \in Block : \A r \in Reg : r \in in[b] <=> ~NotNeeded(b, r)

\* The equations hold at the blocks this pass has visited, as long as no visit
\* of the pass changed anything: why one quiet pass is enough to stop.
QuietPass ==
  ~reiter => \A b \in Block : b < cur => SolvedAt(b)

\* At the end of the list without a change, or back from blocks_iter().
DoneAtEnd == done => cur = N + 1 /\ ~reiter

\* What is in the sets can still be justified from the sets of the moment: the
\* next visit of b can only add to them.
Justified ==
  \A b \in Block :
    /\ out[b] \subseteq UNION {in[s] : s \in succ[b]}
    /\ in[b] \subseteq (out[b] \ def[b]) \cup use[b]

\* The inductive invariant the theorems of LiveProofs rest on.
IInv == TypeOK /\ QuietPass /\ DoneAtEnd /\ Least /\ Justified

\* The sets only grow while the analysis runs (live_analyze_global rebuilds
\* them from nothing at each visit, so this is not evident from the code): it
\* is why the analysis stops.
Growing ==
  [][\A b \in Block : in[b] \subseteq in'[b] /\ out[b] \subseteq out'[b]]_vars

\* The loop over the blocks computes what liveness means.
Abstract == INSTANCE Liveness
ImplementsLiveness == Abstract!Spec

\* The same without the promise that it ends.
ImplementsSafely == Abstract!SafeSpec
=============================================================================

------------------------------- MODULE Block -------------------------------
(* The basic blocks of cc1/block.c: the successors and predecessors of each  *)
(* block ("cessors"), the operations that edit them, and the order in which  *)
(* the blocks of a graph are visited.                                        *)
(*                                                                           *)
(* A graph is a record:                                                      *)
(*   list     the all-blocks list, in order                                  *)
(*   succ     the successor cessors of each block, in order                  *)
(*   pred     how many predecessor cessors block t holds for block p: the    *)
(*            order of that list is never observed                           *)
(*   control  the controlling operand of a switch (BLOCK_SWITCH), NoControl  *)
(*            for any other block                                            *)
(*   body     the insns of each block                                        *)
(*                                                                           *)
(* What an insn is, and what a graph means, is for the module Ir.            *)
EXTENDS Integers, Sequences, FiniteSets, SequencesExt

CONSTANTS BlockIds,     \* the blocks ever allocated
          Entry, Exit,  \* entry_block and exit_block
          NoControl     \* the control of a block that is not a switch

ASSUME BlockAssumption == /\ IsFiniteSet(BlockIds)
                          /\ {Entry, Exit} \subseteq BlockIds

(* What a comparison finds; each condition code accepts some of these. *)
Outcome == {"below", "equal", "above"}

Accepts == [ Z  |-> {"equal"},  NZ |-> {"below", "above"},
             B  |-> {"below"},  AE |-> {"equal", "above"},
             A  |-> {"above"},  BE |-> {"below", "equal"},
             L  |-> {"below"},  GE |-> {"equal", "above"},
             G  |-> {"above"},  LE |-> {"below", "equal"} ]

Conditional(cc) == cc \in DOMAIN Accepts

(* A new cessor: its memory is zeroed, so its range is 0 .. 0. *)
Cessor(cc, b)    == [cc |-> cc, b |-> b, min |-> 0, max |-> 0]
Case(lo, hi, b)  == [cc |-> "SWITCH", b |-> b, min |-> lo, max |-> hi]

Live(g)          == ToSet(g.list)
IsSwitch(g, b)   == g.control[b] # NoControl
EdgesTo(s, t)    == Cardinality({i \in DOMAIN s : s[i].b = t})

(* The members of s at the places D has, in the order of D: D[i] is the       *)
(* places that come no later than i.                                         *)
Arranged(s, D) ==
    [n \in 1 .. Cardinality(DOMAIN D) |-> s[CHOOSE i \in DOMAIN D : Cardinality(D[i]) = n]]

-----------------------------------------------------------------------------
(* Editing the graph *)

AddSuccessor(g, b, c) ==
    [g EXCEPT !.succ[b] = Append(@, c), !.pred[c.b][b] = @ + 1]

(* (Fault: a block that was a switch keeps its controlling operand.) *)
RemoveSuccessors_Fault(g, b) ==
    LET s == g.succ[b]
    IN [g EXCEPT !.succ[b] = <<>>,
                 !.pred = [t \in BlockIds |-> [g.pred[t] EXCEPT ![b] = @ - EdgesTo(s, t)]]]

(* block_remove_successor for each successor in turn. The predecessor cessor *)
(* is looked up in the target: when that block has been freed the look-up    *)
(* reads freed memory, which still holds the list that was there.            *)
RemoveSuccessors(g, b) ==
    LET s == g.succ[b]
    IN [g EXCEPT !.succ[b] = <<>>,
                 !.pred = [t \in BlockIds |-> [g.pred[t] EXCEPT ![b] = @ - EdgesTo(s, t)]],
                 !.control[b] = NoControl]

Without(list, b) ==
    LET at == CHOOSE i \in DOMAIN list : list[i] = b
    IN [i \in 1 .. Len(list) - 1 |-> IF i < at THEN list[i] ELSE list[i + 1]]

(* (Fault: the successors forget nothing of the block that is gone.) *)
Free_Fault(g, b) ==
    [g EXCEPT !.succ[b] = <<>>, !.control[b] = NoControl, !.body[b] = <<>>,
              !.list = Without(@, b)]

Free(g, b) ==
    LET h == RemoveSuccessors(g, b)
    IN [h EXCEPT !.body[b] = <<>>, !.list = Without(@, b)]

(* block_switch_sort: ascending by lower bound, the default stays first. Of  *)
(* two equal cases the first stays first.                                    *)
SwitchSort(s) ==
    Arranged(s, [i \in DOMAIN s |->
                    {j \in DOMAIN s : \/ j = 1
                                      \/ i # 1 /\ s[j].min < s[i].min
                                      \/ i # 1 /\ s[j].min = s[i].min /\ j =< i}])

(* Two neighbours that can be one range. *)
Adjoin(c, d) == /\ c.cc = "SWITCH"
                /\ d.cc = "SWITCH"
                /\ c.b = d.b
                /\ d.min = c.max + 1

(* The single pass over the sorted cases: a case swallows the one that       *)
(* follows it, and the pass goes on with the case after that.                *)
SwallowOne(e, c) ==
    LET n == Len(e.out)
    IN IF e.open /\ Adjoin(e.out[n], c)
       THEN [out |-> [e.out EXCEPT ![n].max = c.max], open |-> FALSE]
       ELSE [out |-> Append(e.out, c), open |-> TRUE]

Swallowing(s) ==
    LET to[i \in 0 .. Len(s)] ==
            IF i = 0 THEN [out |-> <<>>, open |-> FALSE] ELSE SwallowOne(to[i - 1], s[i])
    IN to

Swallow(s) == Swallowing(s)[Len(s)].out

SwitchCoalesce(g, b) ==
    LET old == g.succ[b]
        new == Swallow(SwitchSort(old))
    IN [g EXCEPT !.succ[b] = new,
                 !.pred = [t \in BlockIds |->
                             [g.pred[t] EXCEPT ![b] = @ - (EdgesTo(old, t) - EdgesTo(new, t))]]]

(* Successors that all go to one place become one unconditional successor. *)
CoalesceSuccessors(g, b) ==
    LET h == IF IsSwitch(g, b) THEN SwitchCoalesce(g, b) ELSE g
        s == h.succ[b]
    IN IF \/ s = <<>>
          \/ s[1].cc = "ALWAYS"
          \/ \E i \in DOMAIN s : s[i].b # s[1].b
       THEN h
       ELSE AddSuccessor(RemoveSuccessors(h, b), b, Cessor("ALWAYS", s[1].b))

(* Every successor of b that goes to from goes to to instead. *)
RedirectSuccessors(g, b, from, to) ==
    LET s == g.succ[b]
        n == EdgesTo(s, from)
        h == [g EXCEPT !.succ[b] = [i \in DOMAIN s |->
                                      IF s[i].b = from THEN [s[i] EXCEPT !.b = to] ELSE s[i]],
                       !.pred = [g.pred EXCEPT ![from][b] = @ - n, ![to][b] = @ + n]]
    IN CoalesceSuccessors(h, b)

(* block_dup_successors: dst gets the condition codes and targets of src, in *)
(* new cessors whose range is left as it was made.                           *)
DupSuccessors(g, dst, src) ==
    LET h == RemoveSuccessors(g, dst)
        s == g.succ[src]
    IN [h EXCEPT !.succ[dst] = [i \in DOMAIN s |-> Cessor(s[i].cc, s[i].b)],
                 !.pred = [t \in BlockIds |-> [h.pred[t] EXCEPT ![dst] = @ + EdgesTo(s, t)]],
                 !.control[dst] = IF IsSwitch(g, src) THEN g.control[src] ELSE @]

(* block_known_ccs: the last comparison of b is known to find o. *)
KnownCcs(g, b, o) ==
    LET s    == g.succ[b]
        P    == {i \in DOMAIN s : o \in Accepts[s[i].cc]}
        kept == Arranged(s, [i \in P |-> {j \in P : j =< i}])
    IN IF s = <<>> \/ ~Conditional(s[1].cc) THEN g
       ELSE [g EXCEPT !.succ[b] = [i \in DOMAIN kept |-> [kept[i] EXCEPT !.cc = "ALWAYS"]],
                      !.pred = [t \in BlockIds |->
                                  [g.pred[t] EXCEPT ![b] = @ - (EdgesTo(s, t) - EdgesTo(kept, t))]]]

(* A block that block_new may return: in no list, and known to no block. *)
Fresh(g) == CHOOSE b \in BlockIds \ Live(g) : g.pred[b] = [p \in BlockIds |-> 0]

(* What the blocks of P lead to instead of from is to.                       *)
Redirecting(g, P, from, to) ==
    LET after[i \in 0 .. Len(g.list)] ==
            IF i = 0 THEN g
            ELSE IF g.list[i] \in P THEN RedirectSuccessors(after[i - 1], g.list[i], from, to)
            ELSE after[i - 1]
    IN after

Redirected(g, P, from, to) == Redirecting(g, P, from, to)[Len(g.list)]

(* block_preheader: a new block that only the edges from outside the loop    *)
(* come to, and that leads to its head.                                      *)
Preheader(g, head, new, loop) ==
    Redirected(AddSuccessor([g EXCEPT !.list = Append(@, new)], new, Cessor("ALWAYS", head)),
               Live(g) \ loop, head, new)

-----------------------------------------------------------------------------
(* Asking about the graph *)

BlockEmpty(g, b)      == g.body[b] = <<>> /\ ~IsSwitch(g, b)
HasAlways(g, b)       == g.succ[b] # <<>> /\ g.succ[b][1].cc = "ALWAYS"
AlwaysSuccessor(g, b) == g.succ[b][1].b
Preds(g, b)           == {p \in BlockIds : g.pred[b][p] > 0}
OnePredecessor(g, b)  == \E p \in BlockIds : g.pred[b] = [q \in BlockIds |-> IF q = p THEN 1 ELSE 0]

(* block_switch_lookup: the first case that covers v, or the default. *)
SwitchLookup(s, v) ==
    LET hits == {i \in 2 .. Len(s) : s[i].min =< v /\ v =< s[i].max}
    IN IF hits = {} THEN s[1].b ELSE s[CHOOSE i \in hits : \A j \in hits : i =< j].b

Succs(g, b) == {g.succ[b][i].b : i \in DOMAIN g.succ[b]}

(* Where control goes from the end of b when the condition codes of C hold,  *)
(* and the controlling operand is v.                                         *)
Leads(g, b, C, v) ==
    LET s == g.succ[b]
    IN IF IsSwitch(g, b) THEN {SwitchLookup(s, v)}
       ELSE {s[i].b : i \in {j \in DOMAIN s : s[j].cc \in C \cup {"ALWAYS"}}}

(* block_sole_predecessor: one cessor, whatever it comes from. *)
SolePredecessors(g, b) == IF OnePredecessor(g, b) THEN Preds(g, b) ELSE {}

(* prune0: a block that does nothing and always leads to another one. *)
CanPrune(g, b) == /\ b # Entry
                  /\ BlockEmpty(g, b)
                  /\ HasAlways(g, b)
                  /\ AlwaysSuccessor(g, b) # b

(* coal0: a block whose one successor has no other predecessor. *)
CanCoal(g, b) == /\ b # Entry
                 /\ HasAlways(g, b)
                 /\ AlwaysSuccessor(g, b) \notin {b, Exit}
                 /\ OnePredecessor(g, AlwaysSuccessor(g, b))

(* prune0: what came to a block that does nothing goes where that block goes. *)
Bypass(g, b) == Free(Redirected(g, Preds(g, b), b, AlwaysSuccessor(g, b)), b)

(* coal0: a block takes in its successor.                                    *)
TakeIn(g, b, t) ==
    Free(DupSuccessors([g EXCEPT !.body[b] = @ \o g.body[t]], b, t), t)

-----------------------------------------------------------------------------
(* What a graph should be *)

(* Both ends of every edge are there.                                        *)
Linked(g) == \A t, p \in BlockIds : g.pred[t][p] = EdgesTo(g.succ[p], t)

(* A block that is not in the list leads nowhere.                            *)
Rested(g) == \A p \in BlockIds \ Live(g) : g.succ[p] = <<>> /\ ~IsSwitch(g, p)

(* No block leads to one that is not in the list.                            *)
Closed(g) == \A p \in BlockIds : Succs(g, p) \subseteq Live(g)

(* Every block but the exit has one successor for each outcome, or is a      *)
(* switch: a controlling operand, the default first, then disjoint cases in  *)
(* ascending order.                                                          *)
DecidedAt(g, b) ==
    LET s == g.succ[b]
    IN \/ s = <<>> /\ b = Exit /\ ~IsSwitch(g, b)
       \/ Len(s) = 1 /\ s[1].cc = "ALWAYS" /\ ~IsSwitch(g, b)
       \/ /\ ~IsSwitch(g, b)
          /\ \A i \in DOMAIN s : Conditional(s[i].cc)
          /\ \A o \in Outcome : Cardinality({i \in DOMAIN s : o \in Accepts[s[i].cc]}) = 1
       \/ /\ IsSwitch(g, b)
          /\ s # <<>> /\ s[1].cc = "DEFAULT"
          /\ \A i \in 2 .. Len(s) : s[i].cc = "SWITCH" /\ s[i].min =< s[i].max
          /\ \A i \in 2 .. Len(s) - 1 : s[i].max < s[i + 1].min
Decided(g) == \A b \in Live(g) : DecidedAt(g, b)
=============================================================================

-------------------------------- MODULE Opt --------------------------------
(* opt_early of cc1/opt.c: the passes it calls one after the other, those    *)
(* that these call in turn when they have changed something, and what the    *)
(* function being compiled does before and after each of them. First come    *)
(* those of the passes that no other module has. The tests of zero           *)
(* (testz_early, testz_middle) are the module Testz.                         *)
EXTENDS Copies

-----------------------------------------------------------------------------
(* Two passes that move insns: delayed scheduling (cc1/sched.c) and          *)
(* loop-invariant code motion (cc1/loop.c), which first splits the registers *)
(* into webs (cc1/webs.c).                                                   *)

-----------------------------------------------------------------------------
(* sched *)

Mem == -2
SchedDefs(i) == DefsOf(i) \cup IF DefsMem(i) THEN {Mem} ELSE {}
SchedUses(i) == UsesOf(i) \cup IF UsesMem(i) THEN {Mem} ELSE {}

(* (Fault: what the earlier insn defines is not compared with what the later *)
(* one uses.)                                                                *)
Depends_Fault(prev, i) == \/ SchedDefs(i) \cap (SchedUses(prev) \cup SchedDefs(prev)) # {}
                          \/ i.vol /\ prev.vol

(* analyze0: the later insn must stay behind the earlier one. *)
Depends(prev, i) == \/ SchedUses(i) \cap SchedDefs(prev) # {}
                    \/ SchedDefs(i) \cap (SchedUses(prev) \cup SchedDefs(prev)) # {}
                    \/ i.vol /\ prev.vol

(* delay0: the first addition or subtraction that can be swapped with the    *)
(* insn after it is, and the walk starts over.                               *)
CanDelay(body, n) == /\ body[n].op \in {"ADD", "SUB"}
                     /\ body[n + 1].op \in {"LOAD", "STORE", "CAST"}
                     /\ ~Depends(body[n], body[n + 1])
RECURSIVE Delayed(_)
Delayed(body) ==
    LET can == {n \in 1 .. Len(body) - 1 : CanDelay(body, n)}
    IN IF can = {} THEN body
       ELSE LET n == Min(can)
            IN Delayed([body EXCEPT ![n] = body[n + 1], ![n + 1] = body[n]])

DelayPass(g) == [g EXCEPT !.body = [b \in DOMAIN @ |-> Delayed(@[b])]]

-----------------------------------------------------------------------------
(* webs: the registers of an insn come to carry an index, so that two which  *)
(* differ never hold the same value.                                         *)

OfBase(rs, r)   == {q \in rs : Base(q) = Base(r)}           \* regs_select_base
Instead(rs, r)  == {q \in rs : Base(q) # Base(r)} \cup {r}  \* regs_replace_base

(* def0: every definition gets the next index of its register. *)
Index(count, i) ==
    IF Defs(i) = {} THEN [s |-> count, insn |-> i]
    ELSE LET r == i.dst.n
             n == IF r \in DOMAIN count THEN count[r] + 1 ELSE 1
         IN [s |-> (r :> n) @@ count, insn |-> SubstDefs(i, LAMBDA o : ToReg(o, r, r + n * Stride))]

Indexed(g) ==
    FoldLeft(LAMBDA acc, b : LET r == Through(Index, acc.s, acc.g.body[b])
                             IN [g |-> [acc.g EXCEPT !.body[b] = r.body], s |-> r.s],
             [g |-> g, s |-> <<>>], g.list).g

(* compute0: the definitions that reach the start of each block, from what   *)
(* reaches the end; h is the function with its definitions indexed.          *)
WebIn(g, live, out, b) ==
    {r \in UNION {out[p] : p \in Preds(g, b)} : Base(r) \in live[b]}
WebOut(g, h, live) ==
    Settle(LAMBDA out, b :
              LET gen == {r \in FoldLeft(LAMBDA rs, i : FoldSet(LAMBDA r, q : Instead(q, r), rs, Defs(i)),
                                         {}, h.body[b]) : Base(r) \in LiveOut(g, live, b)}
              IN [out EXCEPT ![b] = gen \cup {r \in WebIn(g, live, out, b) : Base(r) \notin Kill(g, b)}],
           g, [b \in BlockIds |-> {}])

(* The definitions that a use of r may see: at least a nameless one. *)
Candidates(current, r) == LET rs == OfBase(current, r) IN IF rs = {} THEN {Base(r)} ELSE rs

(* (Fault: the webs of the definitions that share a use stay apart.) *)
Merge_Fault(webs, rs) == webs \cup {{r} : r \in rs}

(* webs_merge: definitions that share a use are one web. *)
Merge(webs, rs) == LET touched == {w \in webs : w \cap rs # {}}
                   IN (webs \ touched) \cup {rs \cup UNION touched}

(* merge0 on one insn: acc has the definitions that reach it, and the webs.  *)
MergeInsn(acc, i) ==
    [current |-> FoldSet(LAMBDA r, rs : Instead(rs, r), acc.current, Defs(i)),
     webs    |-> FoldSet(LAMBDA r, ws : Merge(ws, Candidates(acc.current, r)),
                         Merge(acc.webs, Defs(i)) \ {{}}, Uses(i))]

(* rewrite0: the first register of a web names it. *)
NameOf(webs, r) == LET w == {x \in webs : r \in x} IN IF w = {} THEN r ELSE Min(UNION w)
Renamed(webs, current, i) ==
    [s    |-> FoldSet(LAMBDA r, rs : Instead(rs, r), current, Defs(i)),
     insn |-> SubstDefs(SubstUses(i, LAMBDA o : IF IsReg(o) THEN [o EXCEPT !.n =
                                         NameOf(webs, CHOOSE r \in Candidates(current, o.n) : TRUE)]
                                      ELSE o),
                        LAMBDA o : IF IsReg(o) THEN [o EXCEPT !.n = NameOf(webs, o.n)] ELSE o)]

Webs(g) ==
    LET h    == Indexed(g)
        live == LiveIn(g)
        out  == WebOut(g, h, live)
        webs == FoldLeft(LAMBDA ws, b :
                            FoldLeft(MergeInsn, [current |-> WebIn(g, live, out, b), webs |-> ws],
                                     h.body[b]).webs,
                         {}, g.list)
        Rename(c, i) == Renamed(webs, c, i)
    IN [h EXCEPT !.body = [b \in DOMAIN @ |->
            IF b \in Live(g) THEN Through(Rename, WebIn(g, live, out, b), @[b]).body ELSE @[b]]]

Strip(g) ==
    LET Bare(o)  == IF IsReg(o) THEN [o EXCEPT !.n = Base(@)] ELSE o
        Plain(i) == SubstDefs(SubstUses(i, Bare), Bare)
    IN MapInsns(g, Plain)

-----------------------------------------------------------------------------
(* loop: the natural loops, as the module Loop has them. *)

RECURSIVE Spread(_, _, _)
Spread(Next(_), found, avoid) ==
    LET more == (found \cup UNION {Next(b) : b \in found}) \ avoid
    IN IF more = found THEN found ELSE Spread(Next, more, avoid)

Dominates(g, d, b) == d = b \/ b \notin Spread(LAMBDA x : Succs(g, x), {Entry} \ {d}, {d})

LoopOf(g, head) ==
    LET tails == {t \in Live(g) : head \in Succs(g, t) /\ Dominates(g, head, t)}
    IN IF tails = {} THEN {}
       ELSE {head} \cup Spread(LAMBDA x : Preds(g, x), tails \ {head}, {head})

Depth(g, b) == Cardinality({h \in Live(g) : b \in LoopOf(g, h)})

(* nexthead0: the first of the deepest heads that have not been looked at.   *)
Heads(g, looped) == SelectSeq(g.list, LAMBDA b : b \notin looped /\ LoopOf(g, b) # {})
NextHead(g, heads) ==
    FoldLeft(LAMBDA best, b : IF Depth(g, b) > Depth(g, best) THEN b ELSE best,
             Head(heads), Tail(heads))

(* unique_def: exactly one definition in the block. Whether a use comes      *)
(* before it is asked of a set that is never filled.                         *)
DefsIn(g, b, r) == {n \in DOMAIN g.body[b] : r \in Defs(g.body[b][n])}

(* (Fault: loads are moved out of loops that store.) *)
MayMove_Fault(g, loop, i) == IsLicm(i) /\ ~i.vol /\ ~DefsMem(i)

MayMove(g, loop, i) ==
    /\ IsLicm(i) /\ ~i.vol /\ ~DefsMem(i)
    /\ UsesMem(i) => \A b \in loop : \A j \in ToSet(g.body[b]) : ~DefsMem(j)

(* loop_scan: the registers the loop reads and does not define, and those it *)
(* defines once, in a block that dominates every block they are read in.     *)
Invariants(g, loop) ==
    UNION {Reads(g, b) : b \in loop} \ UNION {Kill(g, b) : b \in loop}

MaybeInvariant(g, loop, r) ==
    LET ins == {b \in loop : r \in Kill(g, b)}
    IN /\ \E b \in loop : r \in Reads(g, b)
       /\ \A b \in Live(g) \ loop : r \notin Kill(g, b)
       /\ Cardinality(ins) = 1
       /\ \A d \in ins :
             /\ Cardinality(DefsIn(g, d, r)) = 1
             /\ \A b \in Live(g) : r \in Reads(g, b) => Dominates(g, d, b)
             /\ \A n \in DefsIn(g, d, r) : MayMove(g, loop, g.body[d][n])

MaybeInvs(g, loop) ==
    {r \in UNION {Kill(g, b) : b \in loop} : MaybeInvariant(g, loop, r)}

(* movable: sums of the size of a pointer or an int are left for addressing. *)
Movable(i, inv) == /\ i.op \in {"ADD", "SUB", "SHL"} => i.dst.ts \notin {"I", "U"}
                   /\ Uses(i) \subseteq inv

(* loop_motion on one register: when the insn that defines it is movable, it *)
(* goes to the end of the preheader, which is made when it is needed first.  *)
TryMove(m, r) ==
    LET d == CHOOSE b \in m.loop : r \in Kill(m.g, b)
        n == CHOOSE n \in DefsIn(m.g, d, r) : TRUE
        i == m.g.body[d][n]
        h == IF m.new \in Live(m.g) THEN m.g ELSE Preheader(m.g, m.head, m.new, m.loop)
    IN IF ~Movable(i, m.inv) THEN m
       ELSE [m EXCEPT !.g = [h EXCEPT !.body[m.new] = Append(@, i), !.body[d] = RemoveAt(@, n)],
                      !.inv = @ \cup {r},
                      !.maybe = @ \ {r}]

(* loop_motion: rinse and repeat. *)
RECURSIVE MoveAll(_)
MoveAll(m) ==
    LET next == FoldLeft(TryMove, m, InOrder(m.maybe))
    IN IF next = m THEN m.g ELSE MoveAll(next)

(* loop_invariants: the loops one by one, the deepest first; what is known   *)
(* of blocks and loops is found anew when a preheader has been made.         *)
RECURSIVE EachLoop(_, _)
EachLoop(g, looped) ==
    LET heads == Heads(g, looped)
        head  == NextHead(g, heads)
        loop  == LoopOf(g, head)
    IN IF heads = <<>> THEN g
       ELSE EachLoop(MoveAll([g |-> g, head |-> head, loop |-> loop, new |-> Fresh(g),
                              inv |-> Invariants(g, loop), maybe |-> MaybeInvs(g, loop)]),
                     looped \cup {head})

(* The dominators are only defined without unreachable blocks (dom_analyze). *)
LoopPass(g) == Strip(EachLoop(Unreach(Webs(g)), {}))

-----------------------------------------------------------------------------

CONSTANTS Programs,     \* the graphs opt_early may be called for
          Inputs,       \* [args, mem]: what a function may be called with
          MaxCalls      \* the passes a run of opt_early should come by with

VARIABLES graph,        \* all_blocks and what they hold
          todo,         \* the passes that are still to come, innermost first
          calls,        \* the passes that have been run
          changed,      \* prop.c's flag, which outlives a recursive call
          effect        \* what the function does, for each of the inputs

vars == <<graph, todo, calls, changed, effect>>

EffectOf(g) == [x \in Inputs |-> Behaviour(g, x.args, x.mem)]

Early == <<"unreach", "prune", "dead", "nop", "algebra", "copy", "fold", "prop",
           "slvn", "copy", "load", "slvn", "prop", "copy", "coal", "sched_delay",
           "copy", "loop_invariants">>

Init == /\ graph \in Programs
        /\ todo = Early
        /\ calls = 0
        /\ changed = FALSE
        /\ effect = EffectOf(graph)

(* The pass is next, it makes the function g and calls the others.           *)
Run(pass, g, others) ==
    /\ todo # <<>>
    /\ Head(todo) = pass
    /\ graph' = g
    /\ calls' = calls + 1
    /\ effect' = IF graph' = graph THEN effect ELSE EffectOf(graph')
    /\ todo' = others \o Tail(todo)

(* What a pass calls when it has changed something. (A copy pass that puts a *)
(* register back thinks it has.)                                             *)
IfChanged(others) == IF graph' = graph THEN <<>> ELSE others

unreach == Run("unreach", Unreach(graph), <<>>) /\ UNCHANGED changed
prune   == Run("prune", Prune(graph), <<>>) /\ UNCHANGED changed
coal    == Run("coal", Coal(graph), <<>>) /\ UNCHANGED changed
slvn    == Run("slvn", SlvnPass(graph), <<>>) /\ UNCHANGED changed
load    == Run("load", LoadPass(graph), <<>>) /\ UNCHANGED changed
dead    == Run("dead", DeadStores(graph), IfChanged(<<"nop">>)) /\ UNCHANGED changed
copy    == Run("copy", CopyPass(graph), IfChanged(<<"dead">>)) /\ UNCHANGED changed
algebra == Run("algebra", AlgebraPass(graph), IfChanged(<<"nop">>)) /\ UNCHANGED changed
fold    == /\ Run("fold", FoldPass(graph), IfChanged(<<"nop", "unreach", "prop">>))
           /\ UNCHANGED changed

sched_delay     == Run("sched_delay", DelayPass(graph), <<>>) /\ UNCHANGED changed
loop_invariants == Run("loop_invariants", LoopPass(graph), <<>>) /\ UNCHANGED changed

(* nop: an empty block is left to prune, whether or not nop emptied it. *)
nop == /\ Run("nop", RemoveNops(graph),
              IF \E b \in Live(graph') : BlockEmpty(graph', b) THEN <<"prune">> ELSE <<>>)
       /\ UNCHANGED changed

AfterRound == <<"fold", "algebra", "dead", "unreach", "while">>

(* (Fault: a round does not forget that the last one changed something.) *)
Round_Fault(pass) ==
    /\ Run(pass, PropPass(graph), IF changed \/ graph' # graph THEN AfterRound ELSE <<>>)
    /\ changed' = (changed \/ graph' # graph)

(* One round of prop. When it changed something, the others are called, and  *)
(* another round follows if the flag still says so: fold may have called     *)
(* prop itself, which leaves it clear.                                       *)
Round(pass) ==
    /\ Run(pass, PropPass(graph), IfChanged(AfterRound))
    /\ changed' = (graph' # graph)

prop  == Round("prop")
while == changed /\ Round("while")
leave == ~changed /\ Run("while", graph, <<>>) /\ UNCHANGED changed

Next == unreach \/ prune \/ coal \/ dead \/ copy \/ algebra \/ fold \/ slvn \/ load
        \/ sched_delay \/ loop_invariants \/ nop \/ prop \/ while \/ leave

Spec == Init /\ [][Next]_vars

-----------------------------------------------------------------------------
(* No pass changes what the function does: the calls it makes, the volatile  *)
(* accesses, what it returns and what it leaves in memory (opt.c:181-205).   *)
EffectKept == [][\A x \in Inputs : Same(effect[x], effect'[x])]_effect

(* The passes call each other, prop and fold even themselves through one     *)
(* another, but opt_early comes to an end (opt.c:181-205).                   *)
ComesToAnEnd == calls =< MaxCalls
=============================================================================

------------------------------- MODULE Copies -------------------------------
(* Passes that look for what is computed, or held, already: copy propagation *)
(* (cc1/copy.c, cc1/regmaps.c), value numbering (cc1/slvn.c), redundant load *)
(* elimination (cc1/load.c), and constant propagation and folding            *)
(* (cc1/prop.c).                                                             *)
EXTENDS Ir

(* What FoldLeft makes of a body when each insn turns a state s into another *)
(* and itself into an insn: a step returns [s, insn].                        *)
Through(Step(_, _), s, body) ==
    FoldLeft(LAMBDA acc, i : LET r == Step(acc.s, i)
                             IN [s |-> r.s, body |-> Append(acc.body, r.insn)],
             [s |-> s, body |-> <<>>], body)

(* Associations (cc1/assoc.h): a list of keys and values, the newest entry   *)
(* first. To insert a key that is there already is to change its value; a    *)
(* duplicate has the entries in the opposite order.                          *)
KeysOf(m)       == {m[n].key : n \in DOMAIN m}
ValueOf(m, k)   == m[CHOOSE n \in DOMAIN m : m[n].key = k].value
Insert(m, k, v) == IF k \in KeysOf(m)
                   THEN [n \in DOMAIN m |-> IF m[n].key = k THEN [key |-> k, value |-> v] ELSE m[n]]
                   ELSE <<[key |-> k, value |-> v]>> \o m
Unset(m, keys)  == SelectSeq(m, LAMBDA e : e.key \notin keys)
Dup(m)          == Reverse(m)

-----------------------------------------------------------------------------
(* copy: m associates the destination of each copy that holds and its source.*)

(* regmaps_invalidate *)
Invalidate(m, regs) == SelectSeq(m, LAMBDA e : e.key \notin regs /\ e.value \notin regs)

(* The entries are tried one by one, each on what the last has left. *)
Replaced(m, i) ==
    FoldLeft(LAMBDA j, e : SubstUses(j, LAMBDA o : ToReg(o, e.key, e.value)), i, m)

(* (Fault: the definitions of an insn invalidate nothing.) *)
Local_Fault(m, i) ==
    IF IsCopy(i) THEN [s |-> Insert(m, i.dst.n, i.src1.n), insn |-> i]
    ELSE [s |-> m, insn |-> Replaced(m, i)]

(* local: a copy is only entered; any other insn has its uses replaced, and  *)
(* invalidates what it defines.                                              *)
Local(m, i) ==
    IF IsCopy(i) THEN [s |-> Insert(m, i.dst.n, i.src1.n), insn |-> i]
    ELSE [s |-> Invalidate(m, Defs(i)), insn |-> Replaced(m, i)]

LocalCopies(g, b, m) == [g EXCEPT !.body[b] = Through(Local, m, @).body]

(* copies0: every copy of the function, in order. *)
CopiesOf(g) ==
    FoldLeft(LAMBDA s, b : s \o SelectSeq([n \in DOMAIN g.body[b] |->
                                             [b |-> b, n |-> n, i |-> g.body[b][n]]],
                                          LAMBDA c : IsCopy(c.i)),
             <<>>, g.list)

Untouched(cs, regs) == {c \in cs : c.i.dst.n \notin regs /\ c.i.src1.n \notin regs}

(* init0: GEN and PRSV *)
Gen(g, b, all) ==
    FoldLeft(LAMBDA cs, n : Untouched(cs, Defs(g.body[b][n]))
                              \cup {c \in all : c.b = b /\ c.n = n},
             {}, [n \in DOMAIN g.body[b] |-> n])
Prsv(g, b, all) == Untouched(all, UNION {Defs(i) : i \in ToSet(g.body[b])})

(* IN of b: all ones as long as no predecessor has been looked at. *)
CopyIn(g, out, b, all) ==
    IF Preds(g, b) # {} THEN {c \in all : \A p \in Preds(g, b) : c \in out[p]}
    ELSE IF b = Entry THEN {} ELSE all

CopyOut(g, all) ==
    Settle(LAMBDA out, b : [out EXCEPT ![b] = Gen(g, b, all)
                                                \cup (CopyIn(g, out, b, all) \cap Prsv(g, b, all))],
           g, [b \in BlockIds |-> {}])

(* rewrite0: the copies list was built by insertion at its head, so of two   *)
(* copies to one register the one that comes first in the function wins.     *)
Seed(copies, in) ==
    FoldRight(LAMBDA c, m : IF c \in in THEN Insert(m, c.i.dst.n, c.i.src1.n) ELSE m,
              copies, <<>>)

CopyPass(g) ==
    LET h      == FoldLeft(LAMBDA k, b : LocalCopies(k, b, <<>>), g, g.list)
        copies == CopiesOf(h)
        out    == CopyOut(h, ToSet(copies))
        seed   == [b \in Live(h) |-> Seed(copies, CopyIn(h, out, b, ToSet(copies)))]
    IN FoldLeft(LAMBDA k, b : IF seed[b] = <<>> THEN k ELSE LocalCopies(k, b, seed[b]), h, h.list)

-----------------------------------------------------------------------------
(* slvn: held associates a register and the insn whose value it holds: the   *)
(* op, the destination, the numbered operands and the number of that insn.   *)

Numbered(o, n) == IF IsReg(o) THEN [o EXCEPT !.n = n] ELSE o
Entry0(op, dst, a, b, num) == [op |-> op, dst |-> dst, a |-> a, b |-> b, num |-> num]

(* assign: a register with no number gets one. *)
Assign(s, o) ==
    IF ~IsReg(o) \/ o.n \in KeysOf(s.held) THEN s
    ELSE [held |-> Insert(s.held, o.n, Entry0("NUMBER", o, None, None, s.next)), next |-> s.next + 1]

NumberOf(s, o) == IF IsReg(o) THEN Numbered(o, ValueOf(s.held, o.n).num) ELSE o

(* match: the insns with the value of i that a register is known to hold.    *)
Matches(s, i) ==
    SelectSeq([n \in DOMAIN s.held |-> s.held[n].value],
              LAMBDA e : /\ e.op = i.op /\ e.dst.ts = i.dst.ts
                         /\ e.a = NumberOf(s, i.src1) /\ e.b = NumberOf(s, i.src2))

(* Found: the insn becomes a copy of the register the value was computed     *)
(* into, whatever that holds by now. Not found: it has a new number.         *)
Number(s, i) ==
    LET found == Matches(s, i)
    IN IF found # <<>>
       THEN [s    |-> [s EXCEPT !.held = Insert(@, i.dst.n, Head(found))],
             insn |-> Move(i.dst, Head(found).dst)]
       ELSE [s    |-> [held |-> Insert(s.held, i.dst.n,
                                       Entry0(i.op, i.dst, NumberOf(s, i.src1), NumberOf(s, i.src2), s.next)),
                       next |-> s.next + 1],
             insn |-> i]

(* (Fault: a write to memory leaves the loads alone.) *)
Unnumbered_Fault(s, i) == [s |-> [s EXCEPT !.held = Unset(@, Defs(i))], insn |-> i]

(* An insn that is not numbered: its register holds nothing known, and after *)
(* a write to memory no load does (lvns_invalidate_mem).                     *)
Unnumbered(s, i) ==
    LET kept == Unset(s.held, Defs(i))
    IN [s    |-> [s EXCEPT !.held = IF DefsMem(i) THEN SelectSeq(kept, LAMBDA e : e.value.op # "LOAD")
                                    ELSE kept],
        insn |-> i]

Slvn(s, i) ==
    IF IsSlvn(i) /\ ~i.vol THEN Number(Assign(Assign(s, i.src1), i.src2), i) ELSE Unnumbered(s, i)

(* A pass in preorder in which a block with one predecessor starts from what *)
(* that has left and hands on, and any other from s0.                        *)
Inheriting(g, Step(_, _), HandOn(_), s0) ==
    FoldLeft(LAMBDA acc, b :
                LET sole == SolePredecessors(acc.g, b)
                    r    == Through(Step, IF sole = {} THEN s0
                                          ELSE HandOn(acc.s[CHOOSE p \in sole : TRUE]), acc.g.body[b])
                IN [g |-> [acc.g EXCEPT !.body[b] = r.body], s |-> [acc.s EXCEPT ![b] = r.s]],
             [g |-> g, s |-> [b \in BlockIds |-> s0]], Preorder(g)).g

(* Numbers are only compared along one path, so they may start over on each. *)
SlvnPass(g) == Inheriting(g, Slvn, LAMBDA s : [s EXCEPT !.held = Dup(@)], [held |-> <<>>, next |-> 1])

-----------------------------------------------------------------------------
(* load: the last store, None when there is none to rely on. *)

(* load0: a load of what was stored last becomes a copy. That copy defines   *)
(* a register too, but the store is kept nevertheless.                       *)
Load(store, i) ==
    CASE /\ i.op = "LOAD" /\ store.op = "STORE"
         /\ i.src1 = store.dst /\ i.dst.ts = store.src1.ts
           -> [s |-> store, insn |-> Move(i.dst, store.src1)]
      [] i.op = "STORE" -> [s |-> i, insn |-> i]
      [] OTHER -> [s |-> IF DefsMem(i) \/ Defs(i) \cap Uses(store) # {} THEN Nop ELSE store,
                   insn |-> i]

LoadPass(g) == Inheriting(g, Load, LAMBDA store : store, Nop)

-----------------------------------------------------------------------------
(* Three passes that compute while compiling: constant propagation           *)
(* (cc1/prop.c, cc1/kill.c), constant folding (cc1/fold.c) and algebraic     *)
(* simplification (cc1/algebra.c). The passes each of them invokes when it   *)
(* has changed something are for the module Opt.                             *)

-----------------------------------------------------------------------------
(* prop: what is known of each register that is defined somewhere (all_defs):*)
(* nothing yet (CONP_STATE_DUNNO), a constant, or that it is none (NAC).     *)

Dunno == None
NAC   == [None EXCEPT !.k = "NAC"]

(* kill_analyze and kill_gather *)
Kill(g, b) == UNION {Defs(i) : i \in ToSet(g.body[b])}
Reads(g, b) == UNION {Uses(i) : i \in ToSet(g.body[b])}
AllDefs(g) == UNION {Kill(g, b) : b \in Live(g)}

(* (Fault: two different constants meet as the first of them.) *)
Meet_Fault(to, from) == IF to.k = "NAC" THEN to ELSE IF to.k = "NONE" THEN from
                        ELSE IF from.k = "NAC" THEN from ELSE to

(* conps_merge *)
Meet(to, from) == IF to.k = "NAC" \/ from.k = "NONE" THEN to
                  ELSE IF to.k = "NONE" \/ from.k = "NAC" \/ from = to THEN from
                  ELSE NAC

ConValue(c, r) == IF r \in DOMAIN c /\ IsCon(c[r]) THEN c[r] ELSE None

(* local: a constant loaded is known from here on; any other insn has the    *)
(* registers it uses replaced by what is known, and makes what it defines    *)
(* no constant.                                                              *)
Propagate(c, i) ==
    IF LoadsCon(i) THEN [s |-> [c EXCEPT ![i.dst.n] = i.src1], insn |-> i]
    ELSE [s    |-> [r \in DOMAIN c |-> IF r \in Defs(i) THEN NAC ELSE c[r]],
          insn |-> SubstUses(i, LAMBDA o : IF IsReg(o) /\ ConValue(c, o.n) # None
                                           THEN ConValue(c, o.n) ELSE o)]

(* conditional: p comes to b only when a register was found equal to a       *)
(* constant, with nothing after the comparison.                              *)
ZSuccessors(g, p) == {c \in ToSet(g.succ[p]) : c.cc = "Z"}
Conditionally(g, b, p, r) ==
    LET last == IF g.body[p] = <<>> THEN Nop ELSE Last(g.body[p])
    IN IF /\ \E c \in ZSuccessors(g, p) : c.b = b
          /\ last.op = "CMP"
       THEN IF IsCon(last.src2) /\ IsOf(last.src1, r) THEN last.src2
            ELSE IF IsCon(last.src1) /\ IsOf(last.src2, r) THEN last.src1 ELSE None
       ELSE None

(* What is known of r when control comes to b from p. *)
FromPred(g, out, b, p, r) ==
    LET con == Conditionally(g, b, p, r) IN IF con # None THEN con ELSE out[p][r]

ConIn(g, out, b) ==
    [r \in AllDefs(g) |->
        FoldSet(LAMBDA p, to : Meet(to, FromPred(g, out, b, p, r)), Dunno, Preds(g, b))]

(* prop0 on one block, until nothing changes. The entry is left poisoned. *)
ConOf(g, out, b, gen) ==
    LET in == ConIn(g, out, b)
    IN [r \in AllDefs(g) |-> IF IsCon(gen[r]) THEN gen[r] ELSE IF r \in Kill(g, b) THEN NAC ELSE in[r]]

ConOut(g, gen) ==
    Settle(LAMBDA out, b : IF b = Entry THEN out ELSE (b :> ConOf(g, out, b, gen[b])) @@ out,
           g, [b \in BlockIds |-> [r \in AllDefs(g) |-> IF b = Entry THEN NAC ELSE Dunno]])

(* (Fault: the successor may do something besides the comparison.) *)
Lookahead_Fault(g, b, out) ==
    LET t    == AlwaysSuccessor(g, b)
        test == Last(g.body[t])
    IN IF /\ HasAlways(g, b) /\ t # b
          /\ g.body[t] # <<>> /\ TestsCon(test)
          /\ IsPure(ConValue(out[b], TestedReg(test)))
       THEN DupSuccessors([g EXCEPT !.body[b] = Append(@, test)], b, t)
       ELSE g

(* lookahead0: b always goes on to a block that only compares a register b   *)
(* leaves constant: b makes the comparison and takes the branch itself.      *)
Lookahead(g, b, out) ==
    LET t    == AlwaysSuccessor(g, b)
        test == g.body[t][1]
        con  == ConValue(out[b], TestedReg(test))
    IN IF /\ HasAlways(g, b) /\ t # b
          /\ Len(g.body[t]) = 1 /\ TestsCon(test)
          /\ IsPure(con)
       THEN DupSuccessors([g EXCEPT !.body[b] = Append(@,
                              SubstUses(test, LAMBDA o : ToCon(o, TestedReg(test), con)))], b, t)
       ELSE g

(* switch0: a switch on what is known has one successor. *)
ResolveSwitch(g, b, out) ==
    LET con == IF ~IsSwitch(g, b) THEN None
               ELSE IF IsReg(g.control[b]) THEN ConValue(out[b], g.control[b].n) ELSE g.control[b]
    IN IF IsPure(con)
       THEN AddSuccessor(RemoveSuccessors(g, b), b,
                         Cessor("ALWAYS", SwitchLookup(g.succ[b], con.n % 2^Width)))
       ELSE g

(* The insns of b rewritten, when c is known of the registers before it. *)
Rewrite(g, b, c) == [g EXCEPT !.body[b] = Through(Propagate, c, g.body[b]).body]

(* One round of prop: gen0, prop0, rewrite0, lookahead0 and switch0. *)
PropPass(g0) ==
    LET start == [r \in AllDefs(g0) |-> Dunno]
        gen   == [b \in Live(g0) |-> Through(Propagate, start, g0.body[b]).s]
        g     == FoldLeft(LAMBDA k, b : Rewrite(k, b, start), g0, g0.list)
        out   == ConOut(g, gen)
        in    == [b \in Live(g) |-> IF b = Entry THEN start ELSE ConIn(g, out, b)]
        h     == FoldLeft(LAMBDA k, b : Rewrite(k, b, in[b]), g, g.list)
        ahead == FoldLeft(LAMBDA k, b : Lookahead(k, b, out), h, h.list)
    IN FoldLeft(LAMBDA k, b : ResolveSwitch(k, b, out), ahead, ahead.list)

-----------------------------------------------------------------------------
(* fold: through a block with what the last comparison found, if it was      *)
(* between constants.                                                        *)

Folded(i, n, sym) == Move(i.dst, [Con(i.dst.ts, n) EXCEPT !.sym = sym])

(* A constant less another of the same symbol is free of symbols. *)
Stripped(i) ==
    IF i.op = "SUB" /\ IsCon(i.src1) /\ IsCon(i.src2) /\ i.src1.sym = i.src2.sym
    THEN [i EXCEPT !.src1.sym = "", !.src2.sym = ""] ELSE i

(* Whether the insn can be computed now. *)
Foldable(i) ==
    \/ i.op \in {"NEG", "COM", "CAST"} /\ IsPure(i.src1)
    \/ i.op \in {"ADD", "SUB"} /\ IsCon(i.src1) /\ IsPure(i.src2)
    \/ /\ i.op \in Binary \ {"ADD", "SUB"} /\ IsPure(i.src1) /\ IsPure(i.src2)
       /\ i.op \in {"DIV", "MOD"} => ~IsZero(i.src2)

(* fold0 on one insn *)
FoldInsn(cc, i0) ==
    LET i == Stripped(Normalize(i0))
    IN CASE Foldable(i) ->
              [s |-> cc, insn |-> Folded(i, Compute(i.op, i.dst.ts, i.src1.n, i.src2.n), i.src1.sym)]
         [] i.op = "CMP" /\ IsPure(i.src1) /\ IsPure(i.src2) ->
              [s |-> Compare(i.src1.n, i.src2.n), insn |-> Nop]
         [] i.op = "SET" /\ cc # Unknown ->
              [s |-> cc, insn |-> Folded(i, IF cc \in Accepts[i.cc] THEN 1 ELSE 0, "")]
         [] OTHER -> [s |-> IF DefsCC(i) THEN Unknown ELSE cc, insn |-> i]

(* fold0: what is known at the end of the block decides its branch. *)
FoldBlock(g, b) ==
    LET r == Through(FoldInsn, Unknown, g.body[b])
        h == [g EXCEPT !.body[b] = r.body]
    IN IF r.s = Unknown THEN h ELSE KnownCcs(h, b, r.s)

FoldPass(g) == FoldLeft(FoldBlock, g, g.list)

-----------------------------------------------------------------------------
(* algebra *)

IsSame(a, b) == a = b /\ a.k # "NONE"

(* algebra0: identities. *)
SameAsSrc1(i) == \/ i.op \in {"ADD", "SUB", "OR", "XOR", "SHR", "SHL"} /\ IsZero(i.src2)
                 \/ i.op = "MUL" /\ IsOne(i.src2)
                 \/ i.op = "DIV" /\ IsOne(i.src2) /\ ~IsSame(i.src1, i.src2)
AlwaysZero(i) == \/ i.op \in {"AND", "MUL"} /\ IsZero(i.src2)
                 \/ i.op = "MOD" /\ (IsOne(i.src2) \/ IsSame(i.src1, i.src2))
AlwaysOne(i)  == i.op = "DIV" /\ IsSame(i.src1, i.src2)

Simplified(i0) ==
    LET i == Normalize(i0)
    IN IF SameAsSrc1(i) THEN Move(i.dst, i.src1)
       ELSE IF AlwaysZero(i) THEN Move(i.dst, Con(i.dst.ts, 0))
       ELSE IF AlwaysOne(i) THEN Move(i.dst, Con(i.dst.ts, 1))
       ELSE i

(* log_2, -1 for what is no power of two. Zero has the logarithm of one.     *)
Log2(o) ==
    LET fits == {k \in 0 .. Width : IsPure(o) /\ o.n \in {0, 2^k}}
    IN IF fits = {} THEN -1 ELSE CHOOSE k \in fits : \A l \in fits : k =< l

(* (Fault: a signed division is replaced as well.) *)
Reduced_Fault(i) ==
    LET k  == Log2(i.src2)
        By(op, n) == Insn(op, i.dst, i.src1, Con(i.dst.ts, n))
    IN CASE i.op = "ADD" /\ IsSame(i.src1, i.src2) -> By("SHL", 1)
         [] i.op = "MUL" /\ k # -1 -> By("SHL", k)
         [] i.op = "MOD" /\ i.src2.ts \in Unsigned /\ k # -1 -> By("AND", 2^k - 1)
         [] i.op = "DIV" /\ k # -1 -> By("SHR", k)
         [] OTHER -> i

(* algebra1: what shifts and masks can do. *)
Reduced(i) ==
    LET k  == Log2(i.src2)
        By(op, n) == Insn(op, i.dst, i.src1, Con(i.dst.ts, n))
    IN CASE i.op = "ADD" /\ IsSame(i.src1, i.src2) -> By("SHL", 1)
         [] i.op = "MUL" /\ k # -1 -> By("SHL", k)
         [] i.op = "MOD" /\ i.src2.ts \in Unsigned /\ k # -1 -> By("AND", 2^k - 1)
         [] i.op = "DIV" /\ i.src2.ts \in Unsigned /\ k # -1 -> By("SHR", k)
         [] OTHER -> i

AlgebraPass(g) == MapInsns(MapInsns(g, Simplified), Reduced)
=============================================================================

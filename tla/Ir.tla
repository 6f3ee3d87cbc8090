--------------------------------- MODULE Ir ---------------------------------
(* The intermediate representation of cc1/insn.h: operands and insns, what   *)
(* an insn defines and uses (cc1/insn.c), constant arithmetic (cc1/con.c),   *)
(* and what the program a graph of blocks stands for does when it is run.    *)
(*                                                                           *)
(* A type is a name for integers of so many bits, signed or not; a pointer   *)
(* is one of them, floating types are not modelled. An operand has a kind k  *)
(* and a type ts: a constant is n, plus the address of the symbol sym when   *)
(* it has one; a register is n.                                              *)
EXTENDS Block, Bitwise

CONSTANTS Bits,         \* the size of each type, in bits
          Unsigned,     \* the types that are unsigned
          Width,        \* the size of the widest
          Address,      \* where each symbol, and each slot of the frame, is
          Stride,       \* registers are below it: more is a web's index
          Global,       \* the symbols a call may change
          MaxBlocks     \* the blocks a run may go through

ASSUME IrAssumption == /\ Width \in 2 .. 8
                       /\ \A ts \in DOMAIN Bits : Bits[ts] \in 1 .. Width
                       /\ Unsigned \subseteq DOMAIN Bits
                       /\ Global \subseteq DOMAIN Address
                       /\ \A s \in DOMAIN Address : Address[s] \in 0 .. 2^Width - 1
                       /\ Stride \in Nat \ {0}
                       /\ MaxBlocks \in Nat

(* con_normalize: the value n keeps when it is cut to the size of ts. *)
Norm(ts, n) ==
    IF ts \in Unsigned THEN n % 2^Bits[ts]
    ELSE LET half == 2^(Bits[ts] - 1) IN ((n + half) % (2 * half)) - half

-----------------------------------------------------------------------------
(* Operands and insns *)

None             == [k |-> "NONE", ts |-> "", n |-> 0, sym |-> ""]
Reg(ts, r)       == [k |-> "REG", ts |-> ts, n |-> r, sym |-> ""]
Con(ts, n)       == [k |-> "CON", ts |-> ts, n |-> n, sym |-> ""]
SymCon(ts, s, n) == [k |-> "CON", ts |-> ts, n |-> n, sym |-> s]

IsUsed(o)    == o.k # "NONE"
IsReg(o)     == o.k = "REG"
IsCon(o)     == o.k = "CON"
IsPure(o)    == o.k = "CON" /\ o.sym = ""
IsZero(o)    == IsPure(o) /\ o.n = 0
IsOne(o)     == IsPure(o) /\ o.n = 1

Base(r) == r % Stride           \* PSEUDO_REG_BASE: the register of a web

Insn(op, d, a, b) == [op |-> op, cc |-> "", dst |-> d, src1 |-> a, src2 |-> b, vol |-> FALSE]
Nop         == Insn("NOP", None, None, None)
Move(d, a)  == Insn("MOVE", d, a, None)
Cmp(a, b)   == Insn("CMP", None, a, b)
Set(d, cc)  == [Insn("SET", d, None, None) EXCEPT !.cc = cc]
Volatile(i) == [i EXCEPT !.vol = TRUE]

(* The flags of each op *)
Binary      == {"ADD", "SUB", "MUL", "DIV", "MOD", "SHR", "SHL", "XOR", "OR", "AND"}
Swappable   == {"ADD", "MUL", "XOR", "OR", "AND"}
UsesDst(i)  == i.op \in {"STORE", "BLKCOPY", "BLKZERO"}
DefsMem(i)  == i.op \in {"STORE", "BLKCOPY", "BLKZERO", "CALL"}
UsesMem(i)  == i.op \in {"LOAD", "CALL", "BLKCOPY", "BLKARG"}
DefsCC(i)   == i.op \in {"CMP", "CALL", "TEST"}
SafeCC(i)   == i.op \in {"NOP", "FRAME", "LOAD", "STORE", "MOVE", "SET"}
IsSlvn(i)   == i.op \in Binary \cup {"FRAME", "LOAD", "MOVE", "CAST", "NEG", "COM"}
IsLicm(i)   == i.op \in Binary \cup {"LOAD", "MOVE", "CAST", "NEG", "COM"}

(* insn_side_effects *)
Side(i)     == i.vol \/ i.op \in {"CALL", "ARG", "VARG", "BLKARG", "RETURN"}

(* insn_defs_regs, insn_uses_regs *)
RegsOf(os)  == {o.n : o \in {p \in os : IsReg(p)}}
Defs(i)     == IF UsesDst(i) THEN {} ELSE RegsOf({i.dst})
Uses(i)     == RegsOf({i.src1, i.src2} \cup IF UsesDst(i) THEN {i.dst} ELSE {})

(* insn_copy *)
IsCopy(i)   == i.op = "MOVE" /\ IsReg(i.src1)
Copies(i, j) == IsCopy(i) /\ IsCopy(j) /\ i.dst.n = j.src1.n /\ i.src1.n = j.dst.n

(* insn_con: the insn merely loads a constant. *)
LoadsCon(i) == i.op = "MOVE" /\ IsCon(i.src1)

(* insn_test_con: a register is compared with a constant. *)
TestsCon(i) == /\ i.op = "CMP"
               /\ \/ IsPure(i.src1) /\ IsReg(i.src2)
                  \/ IsPure(i.src2) /\ IsReg(i.src1)
TestedReg(i) == IF IsReg(i.src1) THEN i.src1.n ELSE i.src2.n

(* insn_substitute_reg, insn_substitute_con on the operands that are used,   *)
(* and insn_substitute_reg on the one that is defined.                       *)
SubstUses(i, F(_)) == [i EXCEPT !.dst = IF UsesDst(i) THEN F(@) ELSE @,
                                !.src1 = F(@), !.src2 = F(@)]
SubstDefs(i, F(_)) == IF UsesDst(i) THEN i ELSE [i EXCEPT !.dst = F(@)]

IsOf(o, r)         == IsReg(o) /\ o.n = r
ToReg(o, r, to)    == IF IsOf(o, r) THEN [o EXCEPT !.n = to] ELSE o
ToCon(o, r, con)   == IF IsOf(o, r) THEN con ELSE o

(* insn_normalize: a constant goes to the right, what is also the            *)
(* destination to the left.                                                  *)
Normalize(i) ==
    IF i.op \in Swappable /\ (IsPure(i.src1) \/ i.dst = i.src2)
    THEN [i EXCEPT !.src1 = i.src2, !.src2 = i.src1]
    ELSE i

(* Sets of registers are lists in ascending order. *)
InOrder(S) == SelectSeq([n \in 1 .. Max(S \cup {0}) |-> n], LAMBDA n : n \in S)

MapBody(g, b, F(_)) == [g EXCEPT !.body[b] = [n \in DOMAIN @ |-> F(@[n])]]
MapInsns(g, F(_))   == [g EXCEPT !.body = [b \in DOMAIN @ |-> [n \in DOMAIN @[b] |-> F(@[b][n])]]]

-----------------------------------------------------------------------------
(* Arithmetic: CON_FOLD_UNARY and CON_FOLD_BINARY on pure constants. The     *)
(* machine computes the same.                                                *)

Abs(n)         == IF n < 0 THEN -n ELSE n
Quotient(a, b) == IF (a < 0) = (b < 0) THEN Abs(a) \div Abs(b) ELSE -(Abs(a) \div Abs(b))
Pattern(n)     == n % 2^Width
Count(n)       == IF n \in 0 .. Width THEN n ELSE Width

Compute(op, ts, a, b) ==
    Norm(ts, CASE op \in {"MOVE", "CAST"} -> a
               [] op = "NEG" -> -a
               [] op = "COM" -> (-a) - 1
               [] op = "ADD" -> a + b
               [] op = "SUB" -> a - b
               [] op = "MUL" -> a * b
               [] op = "DIV" -> Quotient(a, b)
               [] op = "MOD" -> a - b * Quotient(a, b)
               [] op = "SHL" -> a * 2^Count(b)
               [] op = "SHR" -> a \div 2^Count(b)
               [] op = "AND" -> Pattern(a) & Pattern(b)
               [] op = "OR"  -> Pattern(a) | Pattern(b)
               [] op = "XOR" -> Pattern(a) ^^ Pattern(b))

(* con_cmp *)
Compare(a, b) == IF a < b THEN "below" ELSE IF a = b THEN "equal" ELSE "above"

-----------------------------------------------------------------------------
(* Running a program. A state has the registers r that have been defined,    *)
(* memory, what the last comparison found (of the signed and the unsigned    *)
(* values), a log of what can be seen from outside, and whether the          *)
(* behaviour has become undefined.                                           *)

Undef   == -2^10        \* the value of what was never defined
Unknown == "unknown"    \* an outcome nobody can rely on
NoCodes == <<>>         \* the codes after it

Codes(ts, a, b) == <<Compare(a, b), Compare(a % 2^Bits[ts], b % 2^Bits[ts])>>
Holds(codes, cc) ==
    codes # NoCodes /\ codes[IF cc \in {"A", "AE", "B", "BE"} THEN 2 ELSE 1] \in Accepts[cc]

Cells == {Address[s] : s \in DOMAIN Address}

Read(st, o) ==
    LET raw == IF o.n \in DOMAIN st.r THEN st.r[o.n] ELSE Undef
    IN IF IsCon(o) THEN Norm(o.ts, o.n + IF o.sym = "" THEN 0 ELSE Address[o.sym])
       ELSE IF raw = Undef THEN Undef ELSE Norm(o.ts, raw)

Put(st, o, v) == IF IsReg(o) THEN [st EXCEPT !.r = (o.n :> v) @@ @] ELSE st
Lost(st)      == [st EXCEPT !.ub = TRUE]
Note(st, e)   == [st EXCEPT !.log = Append(@, e)]

(* A division that traps. *)
Traps(op, ts, a, b) == op \in {"DIV", "MOD"} /\ (b = 0 \/ (ts \notin Unsigned /\ b = -1 /\ Norm(ts, -a) # -a))

Arithmetic(st, i, a, b) ==
    IF i.op \in {"DIV", "MOD"} /\ (b = Undef \/ (a # Undef /\ Traps(i.op, i.dst.ts, a, b))) THEN Lost(st)
    ELSE Put(st, i.dst,
             IF a = Undef \/ (i.op \in Binary /\ b = Undef)
                \/ (i.op \in {"SHL", "SHR"} /\ b \notin 0 .. Bits[i.dst.ts] - 1)
             THEN Undef
             ELSE Compute(i.op, i.dst.ts, a, b))

(* A call may do anything to memory, and returns what nobody can foresee.    *)
Clobbered(mem, log) ==
    [c \in {Address[s] : s \in Global} |-> (Len(log) + c + 1) % 2^(Width - 1)] @@ mem
Called(st, i, a) ==
    LET s == [Note(st, <<"CALL", a>>) EXCEPT !.mem = Clobbered(@, st.log)]
    IN IF IsReg(i.dst) THEN Put(s, i.dst, Norm(i.dst.ts, Len(st.log) + 1)) ELSE s

Chunk(mem, a, n) == [k \in 1 .. n |-> IF a + k - 1 \in Cells THEN mem[a + k - 1] ELSE Undef]
Filled(mem, a, from) ==
    [c \in {a + k - 1 : k \in DOMAIN from} \cap DOMAIN mem |-> from[c - a + 1]] @@ mem

(* The insn i, where a, b and d are the values of its operands. *)
Effect(st, i, a, b, d) ==
    CASE i.op = "NOP" -> st
      [] i.op = "FRAME" -> Put(st, i.dst, a)
      [] i.op = "LOAD" ->
           IF a \notin Cells THEN Lost(st)
           ELSE Put(IF i.vol THEN Note(st, <<"load", a>>) ELSE st, i.dst,
                    IF st.mem[a] = Undef THEN Undef ELSE Norm(i.dst.ts, st.mem[a]))
      [] i.op = "STORE" ->
           IF d \notin Cells THEN Lost(st)
           ELSE [(IF i.vol THEN Note(st, <<"store", d, a>>) ELSE st) EXCEPT !.mem[d] = a]
      [] i.op = "CALL" -> Called(st, i, a)
      [] i.op \in {"ARG", "VARG"} -> IF a = Undef THEN Lost(st) ELSE Note(st, <<i.op, a>>)
      [] i.op = "BLKARG" -> Note(st, <<i.op, Chunk(st.mem, a, b)>>)
      [] i.op = "BLKCOPY" -> [st EXCEPT !.mem = Filled(@, d, Chunk(@, a, b))]
      [] i.op = "RETURN" ->
           IF IsUsed(i.src1) /\ a = Undef THEN Lost(st) ELSE Note(st, <<i.op, a>>)
      [] i.op = "CMP" ->
           [st EXCEPT !.cc = IF a = Undef \/ b = Undef THEN NoCodes ELSE Codes(i.src1.ts, a, b)]
      [] i.op = "SET" ->
           Put(st, i.dst, IF st.cc = NoCodes THEN Undef
                          ELSE IF Holds(st.cc, i.cc) THEN 1 ELSE 0)
      [] OTHER -> Arithmetic(st, i, a, b)

Flagged(i, st) == IF SafeCC(i) \/ i.op = "CMP" THEN st ELSE [st EXCEPT !.cc = NoCodes]
Execute(st, i) ==
    Flagged(i, Effect(st, i, Read(st, i.src1), Read(st, i.src2), Read(st, i.dst)))

(* The instructions of s from m to n, halved so that the recursion stays     *)
(* shallow.                                                                  *)
RECURSIVE Executed(_, _, _, _)
Executed(st, s, m, n) ==
    LET half == (m + n) \div 2
    IN CASE m > n \/ st.ub -> st
         [] m = n -> Execute(st, s[m])
         [] OTHER -> Executed(Executed(st, s, m, half), s, half + 1, n)

(* Where control goes from the end of b: nowhere when that is not defined.   *)
Branch(g, b, st) ==
    LET v == IF IsSwitch(g, b) THEN Read(st, g.control[b]) ELSE 0
    IN IF v = Undef THEN {}
       ELSE Leads(g, b, {cc \in DOMAIN Accepts : Holds(st.cc, cc)}, v % 2^Width)

(* From the start of the block x.b to the start of the next, if there is one.*)
Onward(g, x, after) ==
    LET to == Branch(g, x.b, after)
    IN CASE after.ub -> [x EXCEPT !.end = "undefined"]
         [] x.b = Exit -> [x EXCEPT !.end = "exit", !.st = after]
         [] Cardinality(to) # 1 -> [x EXCEPT !.end = "undefined"]
         [] OTHER -> [x EXCEPT !.b = CHOOSE t \in to : TRUE, !.st = after]

Hop(g, x) == Onward(g, x, Executed(x.st, g.body[x.b], 1, Len(g.body[x.b])))

(* n hops, halved so that the recursion stays shallow. *)
RECURSIVE Hops(_, _, _)
Hops(g, x, n) ==
    CASE n = 0 \/ x.end # "spins" -> x
      [] n = 1 -> Hop(g, x)
      [] OTHER -> Hops(g, Hops(g, x, n \div 2), n - n \div 2)

(* What the program does, given its arguments and the memory it starts with. *)
Told(x) ==
    CASE x.end = "undefined" -> [end |-> "undefined"]
      [] x.end = "exit" -> [end |-> "exit", log |-> x.st.log, mem |-> x.st.mem]
      [] x.end = "spins" -> [end |-> "spins", log |-> x.st.log]
Behaviour(g, args, mem) ==
    LET start == [r |-> args, mem |-> mem, cc |-> NoCodes, log |-> <<>>, ub |-> FALSE]
    IN Told(Hops(g, [b |-> Entry, st |-> start, end |-> "spins"], MaxBlocks))

(* The end of a run that is defined; what an undefined program does may be   *)
(* anything, and what it left undefined in memory may be anything too.       *)
SameMemory(m, n) == \A c \in Cells : m[c] \in {Undef, n[c]}
Same(old, new) ==
    \/ old.end = "undefined"
    \/ /\ old.end = "exit" /\ new.end = "exit"
       /\ old.log = new.log
       /\ SameMemory(old.mem, new.mem)
    \/ /\ old.end = "spins" /\ new.end = "spins"
       /\ IsPrefix(old.log, new.log) \/ IsPrefix(new.log, old.log)

-----------------------------------------------------------------------------
(* The clean-up passes of cc1/opt.c and dead() of cc1/dead.c as functions    *)
(* from graphs to graphs, for the compiler and the optimizer to call. The    *)
(* module Dead takes the latter step by step.                                *)

(* The order in which a walk (blocks_walk, walk1) comes to the blocks. *)
RECURSIVE Walk(_, _, _)
Walk(g, b, visited) ==
    IF b \in ToSet(visited) THEN visited
    ELSE FoldLeft(LAMBDA v, c : Walk(g, c.b, v), Append(visited, b), g.succ[b])

Preorder(g) == Walk(g, Entry, <<>>)

(* blocks_iter with a callback that asks for another iteration whenever it   *)
(* changes x, which must settle.                                             *)
RECURSIVE Settle(_, _, _)
Settle(F(_, _), g, x) ==
    LET y == FoldLeft(F, x, g.list) IN IF y = x THEN x ELSE Settle(F, g, y)

(* unreach: every block no walk comes to is freed, but the exit. *)
Unreach(g) ==
    LET seen == ToSet(Preorder(g)) \cup {Exit}
    IN FoldLeft(LAMBDA h, b : IF b \in seen THEN h ELSE Free(h, b), g, g.list)

(* prune: every block that does nothing, in the order of the list. *)
Prune(g) == FoldLeft(LAMBDA h, b : IF CanPrune(h, b) THEN Bypass(h, b) ELSE h, g, g.list)

(* nop0: an I_NOP, a copy of a register to itself, or one that undoes the    *)
(* copy before it.                                                           *)
Useless(before, i) ==
    \/ i.op = "NOP"
    \/ IsCopy(i) /\ i.dst.n = i.src1.n
    \/ before # <<>> /\ Copies(Last(before), i)

RemoveNops(g) ==
    [g EXCEPT !.body =
        [b \in DOMAIN @ |->
            FoldLeft(LAMBDA c, i : IF Useless(c, i) THEN c ELSE Append(c, i), <<>>, @[b])]]

(* coal: a block whose one successor has no other predecessor takes it in.   *)
RECURSIVE Coal(_)
Coal(g) ==
    LET can == SelectSeq(g.list, LAMBDA b : CanCoal(g, b))
    IN IF can = <<>> THEN g ELSE Coal(TakeIn(g, Head(can), AlwaysSuccessor(g, Head(can))))

-----------------------------------------------------------------------------
(* live_analyze, on sets of registers. The condition codes are live within a *)
(* block only.                                                               *)

CC == -1
DefsOf(i) == Defs(i) \cup IF DefsCC(i) THEN {CC} ELSE {}
UsesOf(i) == Uses(i) \cup IF i.op = "SET" THEN {CC} ELSE {}

(* What is live at the end of b, when the live registers after it are out.   *)
AtEnd(g, b, out) ==
    out \cup (IF IsSwitch(g, b) THEN RegsOf({g.control[b]}) ELSE {})
        \cup (IF g.succ[b] # <<>> /\ Conditional(g.succ[b][1].cc) THEN {CC} ELSE {})

Before(i, live) == (live \ DefsOf(i)) \cup UsesOf(i)

LiveIn(g) ==
    Settle(LAMBDA in, b :
              [in EXCEPT ![b] = FoldRight(Before, g.body[b],
                                          AtEnd(g, b, UNION {in[c] : c \in Succs(g, b)})) \ {CC}],
           g, [b \in BlockIds |-> {}])

LiveOut(g, in, b) == UNION {in[c] : c \in Succs(g, b)}

(* dead0: nothing the insn defines is used, and it does nothing else.        *)
Dies(i, live) == /\ i.op # "NOP"
                 /\ ~DefsMem(i)
                 /\ ~Side(i)
                 /\ DefsOf(i) \cap live = {}

(* One block from its end to its start, killing what dies.                   *)
Sweep(body, live) ==
    FoldRight(LAMBDA i, acc : IF Dies(i, acc.live) THEN [acc EXCEPT !.body = <<Nop>> \o @]
                              ELSE [body |-> <<i>> \o acc.body, live |-> Before(i, acc.live)],
              body, [body |-> <<>>, live |-> live]).body

RECURSIVE DeadStores(_)
DeadStores(g) ==
    LET in == LiveIn(g)
        h  == [g EXCEPT !.body = [b \in DOMAIN @ |-> Sweep(@[b], AtEnd(g, b, LiveOut(g, in, b)))]]
    IN IF h = g THEN g ELSE DeadStores(h)
=============================================================================

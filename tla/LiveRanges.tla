----------------------------- MODULE LiveRanges -----------------------------
(***************************************************************************)
(* Live variable analysis of one block, from its instructions to its live  *)
(* ranges: live_analyze_local() scans the block, live_analyze_global()     *)
(* brings the registers that are live out, live_analyze_final() completes  *)
(* the ranges with them.  live_analyze_ccs() is the first phase alone.     *)
(***************************************************************************)
EXTENDS Naturals, FiniteSets, FiniteSetsExt

-----------------------------------------------------------------------------
(***************************************************************************)
(* The live ranges of one basic block: the operations of cc1/live.c on     *)
(* them, and what a live range is meant to be.                             *)
(*                                                                         *)
(* An instruction is known by what it does to registers: the sets `use'    *)
(* and `def' (PSEUDO_REG_CC included), and whether it may not be removed   *)
(* (`side': it writes memory or has side effects).  Instructions are       *)
(* numbered from 1; the list of ranges, sorted by (reg, def) with one      *)
(* range for each, is a set.                                               *)
(***************************************************************************)

CONSTANTS
  Reg,      \* the registers, the condition code register among them
  CC,       \* PSEUDO_REG_CC
  Len       \* how many instructions the block has

ASSUME RegFinite == IsFiniteSet(Reg)
ASSUME CCIsReg == CC \in Reg
ASSUME LenAssumption == Len \in Nat

\* The places of a block, in order (INSN_INDEX_*).
BEFORE == 0
Index  == 1..Len
BRANCH == Len + 1
AFTER  == Len + 2

Insn == [use : SUBSET Reg, def : SUBSET Reg, side : BOOLEAN]

\* What dead0() leaves of an instruction it kills.
NOP == [use |-> {}, def |-> {}, side |-> FALSE]

-----------------------------------------------------------------------------
\* The operations

\* The range x, with its end and its number of uses replaced.
Ending(x, last, uses) == [reg |-> x.reg, def |-> x.def, last |-> last, uses |-> uses]

\* live_def(): a def starts a range that ends where it starts.
LiveDef(R, regs, i) ==
  R \cup {[reg |-> r, def |-> i, last |-> i, uses |-> 0] : r \in regs}

\* The last range of r that begins before u, if there is one.
\* (Fault: the first one.)
Match_First(R, r, u) ==
  {x \in R : /\ x.reg = r /\ x.def < u
             /\ \A y \in R : y.reg = r /\ y.def < u => y.def >= x.def}

Match(R, r, u) ==
  {x \in R : /\ x.reg = r /\ x.def < u
             /\ \A y \in R : y.reg = r /\ y.def < u => y.def <= x.def}

\* live_use(): the use extends that range, or shows that r is live in.
LiveUse(R, regs, u) ==
  LET old == UNION {Match(R, r, u) : r \in regs}
  IN  (R \ old)
        \cup {Ending(x, u, x.uses + 1) : x \in old}
        \cup {[reg |-> r, def |-> BEFORE, last |-> u, uses |-> 1] :
                r \in {r \in regs : Match(R, r, u) = {}}}

\* RANGE_DEAD(): a store nobody reads.
Dead(x) == x.uses = 0

\* range_by_def(), as a set of at most one range.
RangeByDef(R, r, d) == {x \in R : x.reg = r /\ x.def = d}

\* RANGE_OVERLAPS() and live_interf(): the registers that may not share a
\* register with r.  (Fault: ranges that only touch taken for overlapping.)
Overlaps_Touching(x, y) == x.last >= y.def /\ y.last >= x.def

Overlaps(x, y) == x.last > y.def /\ y.last > x.def

LiveInterf(R, r) ==
  {y.reg : y \in {y \in R : /\ y.reg \notin {r, CC}
                            /\ \E x \in R : x.reg = r /\ Overlaps(x, y)}}

\* The ranges are listed by register number, then by def.
order == CHOOSE f \in [Reg -> 1..Cardinality(Reg)] :
           \A r, q \in Reg : f[r] = f[q] => r = q

Before(x, y) == \/ order[x.reg] < order[y.reg]
                \/ x.reg = y.reg /\ x.def < y.def

\* live_kill_insn(): the first range that cannot be updated ends the visit, and
\* what was done to the ones before it is kept.
Blocked(x, i) ==
  \/ x.def = i /\ ~Dead(x)
  \/ x.def # i /\ x.last = i /\ (x.uses # 1 \/ x.def = BEFORE)

\* (Fault: one use of several taken for the only one.)
KillOne_AnyUse(x, i) ==
  CASE x.def = i -> {}
    [] x.def # i /\ x.def < i /\ i <= x.last ->
         {Ending(x, x.def, 0)}
    [] OTHER -> {x}

KillOne(x, i) ==
  CASE x.def = i -> {}
    [] x.def # i /\ x.last = i -> {Ending(x, x.def, 0)}
    [] OTHER -> {x}

LiveKillInsn(R, i) ==
  LET stop == {x \in R : Blocked(x, i)}
      seen == {x \in R : \A y \in stop : Before(x, y)}
  IN  [ranges |-> (R \ seen) \cup UNION {KillOne(x, i) : x \in seen},
       valid  |-> stop = {}]

-----------------------------------------------------------------------------
\* What the ranges mean, from the code itself

\* The places that read r: instructions, the branch, and whatever comes after.
Readers(code, branchUse, out, r) ==
  {i \in Index : r \in code[i].use}
    \cup (IF r \in branchUse THEN {BRANCH} ELSE {})
    \cup (IF r \in out THEN {AFTER} ELSE {})

Writers(code, r) == {i \in Index : r \in code[i].def}

\* The readers, of those in rs, that the value written at d (or present BEFORE)
\* reaches, when ws are the places that write the register.
Reach(rs, ws, d) == {u \in rs : d < u /\ ~\E k \in ws : d < k /\ k < u}

RangeOf(r, rs, ws, d) ==
  LET us == Reach(rs, ws, d)
  IN  [reg |-> r, def |-> d, uses |-> Cardinality(us), last |-> IF us = {} THEN d ELSE Max(us)]

\* One range for every write, and one for every register live on entry.
Begins(rs, ws) == ws \cup {d \in {BEFORE} : Reach(rs, ws, d) # {}}

RangesOf(rd, wr) ==
  UNION {{RangeOf(r, rd[r], wr[r], d) : d \in Begins(rd[r], wr[r])} : r \in Reg}

Reads(code, branchUse, out) == [r \in Reg |-> Readers(code, branchUse, out, r)]
Writes(code) == [r \in Reg |-> Writers(code, r)]

ReachedFrom(code, branchUse, out, r, d) ==
  Reach(Readers(code, branchUse, out, r), Writers(code, r), d)

ExactRanges(code, branchUse, out) == RangesOf(Reads(code, branchUse, out), Writes(code))

\* r's value of the moment is needed after place i.
LiveAfter(code, branchUse, out, r, i) ==
  ReachedFrom(code, branchUse, out, r, i) # {}

\* Writing r at place i destroys a value of q that is still needed, or both
\* arrive together (on entry, or written by one instruction) and are needed.
Clobbers(code, branchUse, out, r, q, i) ==
  /\ LiveAfter(code, branchUse, out, q, i)
  /\ IF i = BEFORE THEN LiveAfter(code, branchUse, out, r, BEFORE)
     ELSE /\ i \in Writers(code, r)
          /\ i \in Writers(code, q) => LiveAfter(code, branchUse, out, r, i)

Interfere(code, branchUse, out, r, q) ==
  \E i \in 0..Len : \/ Clobbers(code, branchUse, out, r, q, i)
                    \/ Clobbers(code, branchUse, out, q, r, i)

-----------------------------------------------------------------------------

CONSTANTS
  Insns     \* the instructions a block may be made of

ASSUME InsnsAssumption == Insns \subseteq Insn

VARIABLES
  code,         \* the instructions of the block
  branchUse,    \* what its end reads: CC if conditional, a register if a switch
  phase,        \* "local", "global", "final", "done"; "idle": no analysis
  next,         \* the instruction live_analyze_local() looks at next
  ranges, in, out, def, use   \* the fields of b->live

block == <<code, branchUse>>
analyzeVars == <<block, phase, next, ranges, in, out, def, use>>

-----------------------------------------------------------------------------

\* The condition codes never come from, or go to, another block.
CCIsLocal(c, bu) ==
  \A u \in Readers(c, bu, {}, CC) : \E i \in Writers(c, CC) : i < u

AnalyzeInit ==
  /\ code \in [Index -> Insns]
  /\ branchUse \in {{}} \cup {{r} : r \in Reg}    \* a switch, or a condition
  /\ CCIsLocal(code, branchUse)
  /\ phase = "local" /\ next = 1
  /\ ranges = {} /\ in = {} /\ out = {} /\ def = {} /\ use = {}

\* One turn of the loop over the instructions: the uses, then the defs.
Scan ==
  /\ phase = "local" /\ next <= Len
  /\ ranges' = LiveDef(LiveUse(ranges, code[next].use, next), code[next].def, next)
  /\ next' = next + 1
  /\ UNCHANGED <<block, phase, in, out, def, use>>

\* The branch, then DEF and USE from the first range of each register.
First(R) == {x \in R : \A y \in R : y.reg = x.reg => x.def <= y.def}

EndLocal ==
  /\ phase = "local" /\ next = Len + 1
  /\ LET R == LiveUse(ranges, branchUse, BRANCH)
     IN  /\ ranges' = R
         /\ use' = {x.reg : x \in {x \in First(R) : x.def = BEFORE}}
         /\ def' = {x.reg : x \in {x \in First(R) : x.def # BEFORE}}
  /\ phase' = "global"
  /\ UNCHANGED <<block, next, in, out>>

\* What the other blocks make of this one's LIVE OUT: any set of registers.
Global ==
  /\ phase = "global"
  /\ out' \in SUBSET (Reg \ {CC})
  /\ in' = (out' \ def) \cup use
  /\ phase' = "final"
  /\ UNCHANGED <<block, next, ranges, def, use>>

\* The registers that are live out: those that only cross the block included.
LiveOut == out

Final ==
  /\ phase = "final"
  /\ ranges' = LiveUse(ranges, LiveOut, AFTER)
  /\ in' = in \ {CC} /\ out' = out \ {CC}
  /\ def' = def \ {CC} /\ use' = use \ {CC}
  /\ phase' = "done"
  /\ UNCHANGED <<block, next>>

AnalyzeNext == Scan \/ EndLocal \/ Global \/ Final

-----------------------------------------------------------------------------

\* When the analysis is complete there is exactly one range for every write and
\* every register live on entry, and its end and its number of uses are those
\* of the code (live.h:37-50), though the ranges were extended in three phases.
RangesExact ==
  phase = "done" => ranges = ExactRanges(code, branchUse, out)

\* live_interf() tells the register allocator of exactly the registers whose
\* values would destroy one another: none missed, none invented.
InterfExact ==
  phase = "done" =>
    \A r \in Reg \ {CC} :
      LiveInterf(ranges, r) =
        {q \in Reg \ {r, CC} : Interfere(code, branchUse, out, r, q)}

-----------------------------------------------------------------------------
\* What the theorems of DeadProofs rest on: the ranges are those of the part of
\* the block that has been looked at.

ReadBefore(n)    == [r \in Reg |-> {i \in Index : i < n /\ r \in code[i].use}]
WrittenBefore(n) == [r \in Reg |-> {i \in Index : i < n /\ r \in code[i].def}]

RangesTypeOK ==
  /\ code \in [Index -> Insn]
  /\ branchUse \in SUBSET Reg
  /\ out \in SUBSET (Reg \ {CC})
  /\ phase \in {"local", "global", "final", "done", "idle"}
  /\ phase = "local" => next \in 1..(Len + 1)

RangesIInv ==
  /\ RangesTypeOK
  /\ phase = "local" => ranges = RangesOf(ReadBefore(next), WrittenBefore(next))
  /\ phase \in {"global", "final"} => ranges = ExactRanges(code, branchUse, {})
  /\ phase = "done" => ranges = ExactRanges(code, branchUse, out)
=============================================================================

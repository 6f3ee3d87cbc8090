-------------------------------- MODULE Dead --------------------------------
(***************************************************************************)
(* Dead store elimination: dead() and dead0() of cc1/dead.c on one block,  *)
(* with the incremental update of its live ranges by live_kill_insn().     *)
(* dead() starts with the analysis (the module LiveRanges) and returns to  *)
(* it when the ranges have become too vague.  The rest of the function     *)
(* appears as LIVE OUT, which may shrink from one analysis to the next, as *)
(* stores die in the other blocks.  The I_NOPs that replace the dead       *)
(* instructions keep every index in place; nop() removes them at the end.  *)
(***************************************************************************)
EXTENDS LiveRanges

VARIABLES
  code0,        \* the block as it was given
  wide,         \* what LIVE OUT can be at most
  stage,        \* "analyze", "scan" (inside dead0), "returned"
  changes,      \* dead0()'s counter: did this scan kill anything?
  changed, invalidated      \* the flags dead0() leaves for dead()

deadVars == <<code0, wide, stage, changes, changed, invalidated>>
vars == <<analyzeVars, deadVars>>

-----------------------------------------------------------------------------

Init ==
  /\ AnalyzeInit
  /\ code0 = code
  /\ wide = Reg \ {CC}
  /\ stage = "analyze"
  /\ changes = FALSE /\ changed = FALSE /\ invalidated = TRUE

Analyze ==
  /\ stage = "analyze" /\ phase # "done"
  /\ AnalyzeNext
  /\ out' \subseteq wide
  /\ UNCHANGED deadVars

Start ==
  /\ stage = "analyze" /\ phase = "done"
  /\ stage' = "scan" /\ phase' = "idle" /\ next' = 1
  /\ wide' = out
  /\ changes' = FALSE /\ changed' = FALSE /\ invalidated' = FALSE
  /\ UNCHANGED <<block, ranges, in, out, def, use, code0>>

\* Nothing it computes is used, and it does nothing else.  (Faults: an I_NOP
\* killed over and over; side effects overlooked.)
Killable_Nops(i) ==
  /\ ~code[i].side
  /\ \A r \in code[i].def : \A x \in RangeByDef(ranges, r, i) : Dead(x)

Killable_Side(i) ==
  /\ code[i] # NOP
  /\ \A r \in code[i].def : \A x \in RangeByDef(ranges, r, i) : Dead(x)

Killable(i) ==
  /\ code[i] # NOP
  /\ ~code[i].side
  /\ \A r \in code[i].def : \A x \in RangeByDef(ranges, r, i) : Dead(x)

Skip ==
  /\ stage = "scan" /\ next <= Len
  /\ ~Killable(next)
  /\ next' = next + 1
  /\ UNCHANGED <<block, phase, ranges, in, out, def, use, deadVars>>

Kill ==
  /\ stage = "scan" /\ next <= Len
  /\ Killable(next)
  /\ code' = [code EXCEPT ![next] = NOP]
  /\ LET k == LiveKillInsn(ranges, next)
     IN  /\ ranges' = k.ranges
         /\ invalidated' = (invalidated \/ ~k.valid)
  /\ next' = next + 1
  /\ changes' = TRUE /\ changed' = TRUE
  /\ UNCHANGED <<branchUse, phase, in, out, def, use, code0, wide, stage>>

\* The end of the list: another scan if this one killed something.
\* (Fault: a single scan, as the instructions are scanned forwards.)
ScanAgain_Never == FALSE

ScanAgain == changes

Rescan ==
  /\ stage = "scan" /\ next = Len + 1 /\ ScanAgain
  /\ next' = 1 /\ changes' = FALSE
  /\ UNCHANGED <<block, phase, ranges, in, out, def, use,
                 code0, wide, stage, changed, invalidated>>

\* Back to dead(), which goes around only if something was killed and better
\* data can be had.
Return ==
  /\ stage = "scan" /\ next = Len + 1 /\ ~ScanAgain
  /\ IF changed /\ invalidated
     THEN /\ stage' = "analyze" /\ phase' = "local" /\ next' = 1
          /\ ranges' = {} /\ in' = {} /\ out' = {} /\ def' = {} /\ use' = {}
     ELSE /\ stage' = "returned"
          /\ UNCHANGED <<phase, next, ranges, in, out, def, use>>
  /\ UNCHANGED <<block, code0, wide, changes, changed, invalidated>>

Next == Analyze \/ Start \/ Skip \/ Kill \/ Rescan \/ Return

Spec == Init /\ [][Next]_vars /\ WF_vars(Next)

-----------------------------------------------------------------------------

Killed == {i \in Index : code[i] = NOP}

\* A set of instructions of the block as it was given is useless if none has side
\* effects and what they write is read by none but themselves, when the registers
\* in o are live at the end.
Useless(U, o) ==
  \A i \in U :
    /\ ~code0[i].side
    /\ \A r \in code0[i].def : ReachedFrom(code0, branchUse, o, r, i) \subseteq U

\* No instruction is killed whose effect could be seen: however stale the
\* ranges become between two analyses, they never make a used store look dead.
KillsOnlyUseless == Useless(Killed, out)

\* dead() does not return while useless instructions remain, although it recomputes
\* the ranges only when live_kill_insn() admits that it has lost track.
KillsAllUseless ==
  stage = "returned" => \A U \in SUBSET Index : Useless(U, out) => U \subseteq Killed

\* "in the latter case, the data is still usable, it's just overly pessimistic"
\* (live.c:356-357): every true range is covered by one of the list, so that
\* no register looks free while its value is needed.
Pessimistic ==
  stage = "scan" =>
    \A e \in ExactRanges(code, branchUse, out) :
      \E x \in RangeByDef(ranges, e.reg, e.def) :
        x.last >= e.last /\ x.uses >= e.uses

\* dead() returns.
Terminates == <>(stage = "returned")

-----------------------------------------------------------------------------
\* What the theorems of DeadProofs rest on.

DeadTypeOK ==
  /\ code0 \in [Index -> Insn]
  /\ wide \in SUBSET (Reg \ {CC})
  /\ stage \in {"analyze", "scan", "returned"}
  /\ out \subseteq wide
  /\ stage = "scan" => next \in 1..(Len + 1) /\ phase = "idle"
  /\ stage = "returned" => phase = "idle"
  /\ changes \in BOOLEAN /\ changed \in BOOLEAN /\ invalidated \in BOOLEAN

\* Only what was killed differs from the block as it was given.
Remains == \A i \in Index : code[i] = NOP \/ code[i] = code0[i]

Places == 0..AFTER

\* A range with one use has it at its end; it covers the true range x stands for.
Covers(x) ==
  LET us == ReachedFrom(code, branchUse, out, x.reg, x.def)
  IN  /\ x.last \in Places /\ x.uses \in Nat /\ ~(x.last < x.def)
      /\ \A u \in us : ~(x.last < u)
      /\ Cardinality(us) <= x.uses
      /\ x.uses = 1 => us \subseteq {x.last}
      /\ x.uses = 0 => us = {}

\* Until live_kill_insn() loses track, a range that has uses ends at one.
Tight(x) ==
  x.uses # 0 => x.last \in ReachedFrom(code, branchUse, out, x.reg, x.def)

Stale ==
  stage # "analyze" =>
    /\ wide = out /\ (invalidated => changed)
    /\ \A r \in Reg : \A d \in Places :
         d \in Begins(Readers(code, branchUse, out, r), Writers(code, r))
           => RangeByDef(ranges, r, d) # {}
    /\ \A x \in ranges : x.reg \in Reg /\ x.def \in Places /\ Covers(x)
    /\ ~invalidated => \A x \in ranges : Tight(x)

\* In a scan that has killed nothing so far, nothing it has seen is killable.
Scanned == stage = "scan" /\ ~changes => \A i \in Index : i < next => ~Killable(i)

DeadIInv ==
  /\ RangesIInv /\ DeadTypeOK /\ Remains /\ Useless(Killed, wide) /\ Stale /\ Scanned
  /\ stage = "returned" => ~invalidated /\ \A i \in Index : ~Killable(i)
=============================================================================

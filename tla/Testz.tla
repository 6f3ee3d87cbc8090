-------------------------------- MODULE Testz --------------------------------
(* The three passes of cc1/testz.c over one block, an insn at a time: early  *)
(* (SETcc followed by a test of its result), middle (AND and a test of its   *)
(* result become TEST) and late (a test of what the insn before has tested). *)
EXTENDS Integers, Sequences, FiniteSets, SequencesExt

-----------------------------------------------------------------------------
(* One basic block of cc1, executed: a few of the insns of cc1/insn.h and of *)
(* cc1/amd64/insn.h, on registers of Width bits and on the two facts about   *)
(* the condition codes that the passes distinguish, whether the last result  *)
(* was zero (Z) and whether it was (signed) greater (G).                     *)

CONSTANTS Reg,          \* the registers
          Width         \* of a register, in bits

ASSUME StraightAssumption == Width \in Nat /\ Width >= 2

Val       == 0 .. 2^Width - 1
Sign(v)   == IF v >= 2^(Width - 1) THEN 1 ELSE 0
Signed(v) == v - Sign(v) * 2^Width
Bit(p)    == IF p THEN 1 ELSE 0

(* Unknown: an insn may have changed the condition codes, or may not.        *)
Unknown == 2
Junk == [z |-> Unknown, g |-> Unknown]

(* Insns. CMP0 is a comparison of a with zero (insn_test_z), CMP one of a    *)
(* with b. ADDL, SHLI (by one) and SHLR (by register b) are the target's;    *)
(* ADD and AND are the intermediate ones, whose lowering is not yet known.   *)
Insn(op, d, a, b, cc) == [op |-> op, d |-> d, a |-> a, b |-> b, cc |-> cc]
CMP0(a)    == Insn("CMP0", 0, a, 0, "")
CMP(a, b)  == Insn("CMP", 0, a, b, "")
TEST(a, b) == Insn("TEST", 0, a, b, "")
SET(d, cc) == Insn("SET", d, 0, 0, cc)
MOVE(d, a) == Insn("MOVE", d, a, 0, "")
LOAD(d)    == Insn("LOAD", d, 0, 0, "")
Binary(op, d, a, b) == Insn(op, d, a, b, "")
NOP        == Insn("NOP", 0, 0, 0, "")

Defines(insn)  == IF insn.d = 0 THEN {} ELSE {insn.d}

(* I_SAFE_CC: guaranteed to preserve the condition codes. *)
SafeOps == {"NOP", "LOAD", "MOVE", "SET"}

(* (Fault: arithmetic is trusted with the condition codes as well.) *)
Safe_Fault(insn) == insn.op \notin {"CMP0", "CMP", "TEST"}

Safe(insn) == insn.op \in SafeOps

(* insn_defs_cc *)
DefsCC(insn) == insn.op \in {"CMP0", "CMP", "TEST", "ADDL", "SHLI", "SHLR"}

-----------------------------------------------------------------------------
(* Execution *)

Compare(x, y) == [z |-> Bit(x = y), g |-> Bit(x > y)]

(* The flags of a result: zero, and neither negative nor zero as the sign    *)
(* and overflow flags tell it.                                               *)
Flags(res, overflow) ==
    [z |-> Bit(res = 0), g |-> Bit(res # 0 /\ Sign(res) = overflow)]

Wrap(n) == n % 2^Width

ShiftedOnce(v) == LET res == Wrap(2 * v)
                  IN [res |-> res, cc |-> Flags(res, (Sign(res) + Sign(v)) % 2)]

(* A shift by more than one is taken to leave the flags its last step leaves;*)
(* a shift by zero leaves all flags alone.                                   *)
Shifted(v, n, cc) ==
    IF n = 0 THEN [res |-> v, cc |-> cc] ELSE ShiftedOnce(Wrap(v * 2^(n - 1)))

Sum(x, y) == LET res == Wrap(x + y)
                 s   == Signed(x) + Signed(y)
             IN [res |-> res, cc |-> Flags(res, Bit(s # Signed(res)))]

Conj(x, y) == CHOOSE v \in Val : \A i \in 0 .. Width - 1 :
                 (v \div 2^i) % 2 = ((x \div 2^i) % 2) * ((y \div 2^i) % 2)

(* The value of a condition: one, zero or unknown. *)
Holds(cc, f) == CASE cc = "Z"  -> f.z
                  [] cc = "NZ" -> IF f.z = Unknown THEN Unknown ELSE 1 - f.z
                  [] cc = "G"  -> f.g
                  [] cc = "LE" -> IF f.g = Unknown THEN Unknown ELSE 1 - f.g

Invert == [Z |-> "NZ", NZ |-> "Z", G |-> "LE", LE |-> "G"]

(* One insn, on registers r and condition codes cc. A loaded value is 2.     *)
Execute(insn, st) ==
    LET r   == st.r
        set(v) == [st.r EXCEPT ![insn.d] = v]
        with(out) == [r |-> set(out.res), cc |-> out.cc]
    IN CASE insn.op = "NOP"  -> st
         [] insn.op = "CMP0" -> [st EXCEPT !.cc = Compare(Signed(r[insn.a]), 0)]
         [] insn.op = "CMP"  -> [st EXCEPT !.cc = Compare(Signed(r[insn.a]), Signed(r[insn.b]))]
         [] insn.op = "TEST" -> [st EXCEPT !.cc = Flags(Conj(r[insn.a], r[insn.b]), 0)]
         [] insn.op = "SET"  -> [st EXCEPT !.r = set(Holds(insn.cc, st.cc))]
         [] insn.op = "MOVE" -> [st EXCEPT !.r = set(r[insn.a])]
         [] insn.op = "LOAD" -> [st EXCEPT !.r = set(2)]
         [] insn.op = "ADD"  -> [r |-> set(Wrap(r[insn.a] + r[insn.b])), cc |-> Junk]
         [] insn.op = "AND"  -> [r |-> set(Conj(r[insn.a], r[insn.b])), cc |-> Junk]
         [] insn.op = "ADDL" -> with(Sum(r[insn.d], r[insn.a]))
         [] insn.op = "SHLI" -> with(ShiftedOnce(r[insn.d]))
         [] insn.op = "SHLR" -> with(Shifted(r[insn.d], r[insn.a], st.cc))

(* A block is its insns and the condition of its branch, or "" for none.     *)
Run(code, r) == FoldLeft(LAMBDA st, insn : Execute(insn, st), [r |-> r, cc |-> Junk], code)

(* What a block does: for every content of the registers, what it leaves in  *)
(* those that are live out and which way its branch goes.                    *)
Effect(code, br, liveOut) ==
    [r \in [Reg -> Val] |->
       LET st == Run(code, r)
       IN [out |-> [x \in liveOut |-> st.r[x]],
           taken |-> IF br = "" THEN 0 ELSE Holds(br, st.cc)]]

(* The uses of the condition codes that insn i defines; the branch is at     *)
(* Len(code) + 1.                                                            *)
UsesOfCC(code, br, i) ==
    LET later == {j \in i + 1 .. Len(code) : DefsCC(code[j])} \cup {Len(code) + 2}
    IN {j \in i + 1 .. Len(code) : code[j].op = "SET" /\ j < Min(later)}
          \cup {j \in {Len(code) + 1} : br # "" /\ j < Min(later)}

-----------------------------------------------------------------------------

CONSTANTS Passes,       \* some or all of the three
          Alphabet,     \* for each pass, the insns the block may hold,
          Branches,     \* the conditions its branch may have, or "",
          LiveOut,      \* and the registers that are live out of it
          MaxCode       \* bounds the insns of the block

ASSUME TestzAssumption == /\ Passes \subseteq {"early", "middle", "late"}
                          /\ LiveOut \in [Passes -> SUBSET Reg]
                          /\ MaxCode \in Nat

VARIABLES pass,         \* the pass
          code, br,     \* the block: its insns, and its branch
          i,            \* the insn at hand
          setcc,        \* early: the condition each register holds, or ""
          zReg,         \* late: the register Z tells of, or 0
          changed,      \* early: this round has changed something
          stage         \* "grow", then the pass, then "done"

vars == <<pass, code, br, i, setcc, zReg, changed, stage>>

NoSetcc == [r \in Reg |-> ""]

(* Code as gen emits it: every use of the condition codes follows its        *)
(* comparison or, late, an insn that defines them, with nothing between that *)
(* may disturb them; a comparison serves one use.                            *)
Reaches(c, j, n) == DefsCC(c[j]) /\ \A k \in j + 1 .. n - 1 : Safe(c[k])
WellFormed(c, b) ==
    /\ \A n \in DOMAIN c : c[n].op = "SET" => \E j \in 1 .. n - 1 : Reaches(c, j, n)
    /\ b # "" => \E j \in DOMAIN c : Reaches(c, j, Len(c) + 1)
    /\ \A n \in DOMAIN c : Cardinality(UsesOfCC(c, b, n)) =< 1

Init ==
    /\ pass \in Passes
    /\ code = <<>>
    /\ br = ""
    /\ i = 1
    /\ setcc = NoSetcc
    /\ zReg = 0
    /\ changed = FALSE
    /\ stage = "grow"

(* The block before the pass: any code, then its branch. *)
Grow ==
    /\ stage = "grow"
    /\ Len(code) < MaxCode
    /\ \E insn \in Alphabet[pass] :
          /\ WellFormed(Append(code, insn), "")
          /\ code' = Append(code, insn)
    /\ UNCHANGED <<pass, br, i, setcc, zReg, changed, stage>>

Begin ==
    /\ stage = "grow"
    /\ \E b \in Branches[pass] :
          /\ WellFormed(code, b)
          /\ br' = b
    /\ stage' = pass
    /\ UNCHANGED <<pass, code, i, setcc, zReg, changed>>

At(p) == stage = p /\ i =< Len(code)
Here == code[i]
TestsZ(insn) == insn.op = "CMP0"

Finish == /\ stage' = "done"
          /\ UNCHANGED <<pass, code, br, i, setcc, zReg, changed>>

-----------------------------------------------------------------------------
(* early0 *)

(* What is known of the registers after the insn at hand, as far as its      *)
(* definitions tell: a SETcc makes one known, a copy of a known one too.     *)
Noted ==
    LET cut == [r \in Reg |-> IF r \in Defines(Here) THEN "" ELSE setcc[r]]
    IN CASE Here.op = "SET" -> [cut EXCEPT ![Here.d] = Here.cc]
         [] Here.op = "MOVE" -> [cut EXCEPT ![Here.d] = cut[Here.a]]
         [] OTHER -> cut

KnownTest == TestsZ(Here) /\ Noted[Here.a] # ""

(* The test is followed by a SETcc of its outcome: that is the known         *)
(* condition or its inverse, and needs no test. The walk starts over.        *)
NextIsSetZ == i < Len(code) /\ code[i + 1].op = "SET" /\ code[i + 1].cc \in {"Z", "NZ"}

(* (Fault: the insns keep their places.) *)
Swapped_Fault(c) == c

Swapped(c) == [c EXCEPT ![i] = c[i + 1], ![i + 1] = c[i]]

EarlySet ==
    /\ At("early") /\ KnownTest /\ NextIsSetZ
    /\ LET known == Noted[Here.a]
           cc    == IF code[i + 1].cc = "NZ" THEN known ELSE Invert[known]
       IN code' = Swapped([code EXCEPT ![i + 1].cc = cc])
    /\ i' = 1
    /\ setcc' = NoSetcc
    /\ changed' = TRUE
    /\ UNCHANGED <<pass, br, zReg, stage>>

(* The test ends the block and the branch is on its outcome. *)
LastBeforeBranch == i = Len(code) /\ br \in {"Z", "NZ"}

EarlyBranch ==
    /\ At("early") /\ KnownTest /\ LastBeforeBranch
    /\ LET known == Noted[Here.a]
       IN br' = IF br = "NZ" THEN known ELSE Invert[known]
    /\ code' = Front(code)
    /\ changed' = TRUE
    /\ UNCHANGED <<pass, i, setcc, zReg, stage>>

EarlySkip ==
    /\ At("early")
    /\ ~(KnownTest /\ (NextIsSetZ \/ LastBeforeBranch))
    /\ setcc' = IF Safe(Here) THEN Noted ELSE NoSetcc
    /\ i' = i + 1
    /\ UNCHANGED <<pass, code, br, zReg, changed, stage>>

(* After a round that changed something dead() removes the tests that nothing*)
(* uses any more, and there is another round.                                *)
Used(n) == DefsCC(code[n]) => UsesOfCC(code, br, n) # {}

EarlyAgain ==
    /\ stage = "early" /\ i > Len(code) /\ changed
    /\ LET kept == SelectSeq([n \in DOMAIN code |-> n], Used)
       IN code' = [n \in DOMAIN kept |-> code[kept[n]]]
    /\ i' = 1
    /\ setcc' = NoSetcc
    /\ changed' = FALSE
    /\ UNCHANGED <<pass, br, zReg, stage>>

EarlyEnd == stage = "early" /\ i > Len(code) /\ ~changed /\ Finish

-----------------------------------------------------------------------------
(* middle0 and late0 *)

(* live_ccs: the conditions that the uses of what insn n defines ask for. It *)
(* looks for them in n itself, unless the one use is the branch.             *)
LiveCCs(n) ==
    LET uses == UsesOfCC(code, br, n)
    IN CASE uses = {} -> {}
         [] Cardinality(uses) > 1 -> DOMAIN Invert
         [] uses = {Len(code) + 1} -> {br, Invert[br]}
         [] OTHER -> IF Here.op = "SET" THEN {Here.cc} ELSE {}

OnlyZs(n) == LiveCCs(n) \subseteq {"Z", "NZ"}

(* The last insn of the block that uses the register as insn n leaves it.    *)
Uses(insn, r) == r \in {insn.a, insn.b}
LastUse(r, n) ==
    LET redefs == {k \in n + 1 .. Len(code) : r \in Defines(code[k])} \cup {Len(code) + 1}
        uses   == {k \in n + 1 .. Len(code) : Uses(code[k], r) /\ k =< Min(redefs)}
    IN IF uses = {} THEN n ELSE Max(uses)

(* The AND is followed by a test of what it defined, the last use of that    *)
(* within the block.                                                         *)
MiddleFits ==
    /\ Here.op = "AND"
    /\ i < Len(code)
    /\ TestsZ(code[i + 1]) /\ code[i + 1].a = Here.d
    /\ LastUse(Here.d, i) = i + 1
    /\ OnlyZs(i + 1)

Middle ==
    /\ At("middle")
    /\ code' = IF MiddleFits
               THEN [code EXCEPT ![i] = TEST(Here.a, Here.b), ![i + 1] = NOP]
               ELSE code
    /\ i' = i + 1
    /\ UNCHANGED <<pass, br, setcc, zReg, changed, stage>>

(* insn_defs_z: Z is set by what the insn leaves in its register. *)
DefsZ(insn) == insn.op \in {"ADDL", "SHLI", "SHLR"}

ZRegAfter == IF DefsZ(Here) THEN Here.d
             ELSE IF TestsZ(Here) /\ Here.a = zReg THEN zReg
             ELSE IF DefsCC(Here) THEN 0 ELSE zReg

Late ==
    /\ At("late")
    /\ code' = IF TestsZ(Here) /\ Here.a = zReg /\ OnlyZs(i)
               THEN [code EXCEPT ![i] = NOP] ELSE code
    /\ zReg' = ZRegAfter
    /\ i' = i + 1
    /\ UNCHANGED <<pass, br, setcc, changed, stage>>

OncePassed == stage \in {"middle", "late"} /\ i > Len(code) /\ Finish

Next == \/ Grow \/ Begin
        \/ EarlySet \/ EarlyBranch \/ EarlySkip \/ EarlyAgain \/ EarlyEnd
        \/ Middle \/ Late \/ OncePassed

Spec == Init /\ [][Next]_vars /\ WF_vars(Next)

-----------------------------------------------------------------------------
(* No step of a pass changes what the block leaves in the registers that are *)
(* live out, or which way it branches (early0, middle0, late0).              *)
SameEffect ==
    [][(stage \in {"early", "middle", "late"})
          => Effect(code', br', LiveOut[pass]) = Effect(code, br, LiveOut[pass])]_vars

(* The rounds of testz_early come to an end.                                 *)
EndsEventually == (stage = "early") ~> (stage = "done")
=============================================================================

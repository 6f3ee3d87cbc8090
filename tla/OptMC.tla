------------------------------- MODULE OptMC -------------------------------
(* The functions of a few shapes - straight, an if, a loop, a loop in a      *)
(* loop, a switch - with holes for statements, as cc1's gen.c emits them: an *)
(* expression is computed into temporaries, each of them assigned once.      *)
EXTENDS Opt

OptBlocks  == 1 .. 11
OptBits    == [I |-> 3, U |-> 3, C |-> 2]
OptAddress == [k |-> 5, m |-> 6, v |-> 7]
OptInputs  == {[args |-> (1 :> ab[1]) @@ (2 :> ab[2]), mem |-> (5 :> 3) @@ (6 :> -4) @@ (7 :> 2)]
                 : ab \in {<<0, 1>>, <<3, 1>>, <<-3, 3>>}}

(* The arguments are the registers 1 and 2, the variables 3 and 4; each hole *)
(* h has temporaries of its own. v is volatile, and never written here.      *)
R(n)            == Reg("I", n)
K(n)            == Con("I", n)
Temp(ts, h)     == Reg(ts, 10 * h)
Temp2(ts, h)    == Reg(ts, 10 * h + 1)
At(s)           == SymCon("U", s, 0)
LoadOf(d, s)    == Insn("LOAD", d, At(s), None)
StoreTo(s, a)   == Insn("STORE", At(s), a, None)
Cast(d, a)      == Insn("CAST", d, a, None)

(* r = a op b *)
Compute2(h, r, op, a, b) == <<Insn(op, Temp("I", h), a, b), Move(R(r), Temp("I", h))>>
(* r op= a *)
Update(h, r, op, a) == <<Move(Temp("I", h), R(r)), Insn(op, R(r), R(r), a)>>
(* r = (unsigned) a op k *)
Divide(h, r, op, a, n) == <<Cast(Temp("U", h), a), Insn(op, Temp2("U", h), Temp("U", h), Con("U", n)),
                              Cast(Reg("I", 10 * h + 2), Temp2("U", h)), Move(R(r), Reg("I", 10 * h + 2))>>
(* r = (char) a *)
Narrow(h, r, a)  == <<Cast(Temp("C", h), a), Cast(Temp2("I", h), Temp("C", h)), Move(R(r), Temp2("I", h))>>
Copy0(r, a)      == <<Move(R(r), a)>>
Fetch(h, r, s)   == <<LoadOf(Temp("I", h), s), Move(R(r), Temp("I", h))>>
Watch(h, r)      == <<Volatile(LoadOf(Temp("I", h), "v")), Move(R(r), Temp("I", h))>>
Keep(s, a)       == <<StoreTo(s, a)>>
CallIt(h, r)     == <<Insn("CALL", Temp("I", h), None, None), Move(R(r), Temp("I", h))>>
Less(h, r, a, b) == <<Cmp(a, b), Set(Temp("I", h), "L"), Move(R(r), Temp("I", h))>>

(* What goes into the holes of straight code, and of code that branches.     *)
InStraight(h) ==
    { Copy0(3, R(1)), Copy0(4, R(2)), Copy0(3, K(3)), Compute2(h, 4, "ADD", R(1), R(2)),
      Update(h, 4, "ADD", R(1)), Compute2(h, 3, "DIV", R(1), K(2)), Divide(h, 3, "DIV", R(1), 2),
      Narrow(h, 4, R(3)), Fetch(h, 3, "m"), Fetch(h, 4, "m"), Keep("m", R(1)), Keep("m", R(4)),
      Watch(h, 3), CallIt(h, 4), Less(h, 3, R(3), K(3)) }
InBranch(h) ==
    { Copy0(3, R(1)), Copy0(4, R(3)), Copy0(3, K(3)), Update(h, 3, "SUB", R(1)),
      Compute2(h, 3, "MUL", R(1), K(2)), Narrow(h, 4, R(3)), Fetch(h, 3, "m"), Keep("m", R(4)),
      CallIt(h, 4) }

-----------------------------------------------------------------------------
(* Shapes: the entry goes to block 3, the exit is block 2. *)
Always(b)  == <<Cessor("ALWAYS", b)>>
IfZ(t, f)  == <<Cessor("Z", t), Cessor("NZ", f)>>

Function(body, succ, control) ==
    LET to == [b \in OptBlocks |-> IF b = Entry THEN Always(3)
                                   ELSE IF b - 2 \in DOMAIN succ THEN succ[b - 2] ELSE <<>>]
    IN [list    |-> [n \in 1 .. Len(succ) + 2 |-> n],
        succ    |-> to,
        pred    |-> [t \in OptBlocks |-> [p \in OptBlocks |-> EdgesTo(to[p], t)]],
        control |-> [b \in OptBlocks |-> IF b - 2 \in DOMAIN control THEN control[b - 2] ELSE NoControl],
        body    |-> [b \in OptBlocks |-> IF b - 2 \in DOMAIN body THEN body[b - 2] ELSE <<>>]]

Start  == <<LoadOf(Reg("I", 90), "k"), Move(R(3), Reg("I", 90)), Move(R(4), K(1))>>
Finish == <<StoreTo("k", R(4)), Insn("RETURN", None, R(3), None)>>

Straight0(s, t, u) == Function(<<Start \o s \o t \o u \o Finish>>, <<Always(2)>>, <<>>)

(* s; if (r1 == 0) t; else u; *)
If0(s, t, u) == Function(<<Start \o s \o <<Cmp(R(1), K(0))>>, t, u, Finish>>,
                         <<IfZ(4, 5), Always(6), Always(6), Always(2)>>, <<>>)

(* s; r5 = 0; while (t, r5 < 2) { u; ++r5 }; *)
While0(s, t, u) ==
    Function(<<Start \o s \o Copy0(5, K(0)), t \o <<Cmp(R(5), K(2))>>,
               u \o Update(4, 5, "ADD", K(1)), Finish>>,
             <<Always(4), <<Cessor("L", 5), Cessor("GE", 6)>>, Always(4), Always(2)>>, <<>>)

(* while (r2 < 3) { s; for (r5 = 0; r5 < 2; ++r5) t; ++r2; } *)
Nested0(s, t) ==
    Function(<<Start, <<Cmp(R(2), K(3))>>, s \o <<Move(R(5), K(0))>>, <<Cmp(R(5), K(2))>>,
               t \o Update(4, 5, "ADD", K(1)), Update(5, 2, "ADD", K(1)), Finish>>,
             <<Always(4), <<Cessor("L", 5), Cessor("GE", 9)>>, Always(6),
               <<Cessor("L", 7), Cessor("GE", 8)>>, Always(6), Always(4), Always(2)>>, <<>>)

(* s; switch (r3) { case 0: t; default: u; case 3: case -4: ; } *)
Switch0(s, t, u) ==
    Function(<<Start \o s, t, u, Finish>>,
             << <<Cessor("DEFAULT", 5), Case(0, 0, 4), Case(3, 4, 6)>>,
                Always(5), Always(6), Always(2)>>, <<R(3)>>)

OptPrograms ==
    {Straight0(s, t, u) : s \in InStraight(1), t \in InStraight(2), u \in InStraight(3)}
    \cup {If0(s, t, u) : s \in InBranch(1), t \in InBranch(2), u \in InBranch(3)}
    \cup {While0(s, t, u) : s \in InBranch(1), t \in InBranch(2), u \in InBranch(3)}
    \cup {Nested0(s, t) : s \in InBranch(1), t \in InBranch(2)}
    \cup {Switch0(s, t, u) : s \in InBranch(1), t \in InBranch(2), u \in InBranch(3)}

(* r4 = r3; r3 = r1; as in: t = a; a = b; return t - a; *)
CopyPrograms == {Straight0(Copy0(4, R(3)), Copy0(3, R(1)), u) : u \in InStraight(3)}
=============================================================================

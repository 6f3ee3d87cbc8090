-------------------------------- MODULE Gen --------------------------------
(* From trees to insns (cc1/gen.c), the variables that live in memory        *)
(* (cc1/dealias.c), and switches as compares (cc1/switch.c). Code is made in *)
(* a function: the graph g, the current block cur, the last temporary temp,  *)
(* and the locals in auto whose address has been taken.                      *)
EXTENDS Expr

-----------------------------------------------------------------------------
(* What is done to a tree before code is made of it: accesses to volatiles   *)
(* are made explicit (tree_rewrite_volatile) and tree_opt() improves casts,  *)
(* bit-fields, unsigned comparisons and sums of constants (cc1/cast.c,       *)
(* field.c, sign.c, algebra.c).                                              *)

RECURSIVE RewriteVolatile(_)
RewriteVolatile(t) ==
    CASE t.op = "ADDROF" -> t
      [] t.op = "SYM" /\ "volatile" \in t.ty[1].q -> ForcedFetch(Simplify(Addrof(t)))
      [] OTHER -> Descend(RewriteVolatile, t)

-----------------------------------------------------------------------------
(* cast.c *)

SameClass(t)  == Scalar(t.ty) /\ Scalar(Child(t).ty)
IsCast(t)     == t.op = "CAST"
Growth(t)     == TypeSizeof(t.ty) - TypeSizeof(Child(t).ty)

CastUseless(t)     == IsCast(t) /\ TypeBase(t.ty) = TypeBase(Child(t).ty)
CastReinterpret(t) == IsCast(t) /\ SameClass(t) /\ Growth(t) = 0
CastWiden(t)       == IsCast(t) /\ SameClass(t) /\ Growth(t) > 0
CastNarrow(t)      == IsCast(t) /\ SameClass(t) /\ Growth(t) < 0
CastReclass(t)     == IsCast(t) /\ ~SameClass(t)

(* (Fault: a wide value that was narrowed keeps what the cast took away.) *)
CastSkips_Fault(t) ==
    \/ CastUseless(t)
    \/ CastReinterpret(t) /\ ~FieldFetch(Child(t))
    \/ CastWiden(t) /\ (CastWiden(Child(t)) \/ CastNarrow(Child(t)))
    \/ CastNarrow(t) /\ (CastWiden(Child(t)) \/ CastNarrow(Child(t)))
    \/ CastReclass(t) /\ CastWiden(Child(t))

(* The cast need not be made, or its child need not. *)
CastSkips(t) ==
    \/ CastUseless(t)
    \/ CastReinterpret(t) /\ ~FieldFetch(Child(t))
    \/ CastWiden(t) /\ CastWiden(Child(t))
    \/ CastNarrow(t) /\ (CastWiden(Child(t)) \/ CastNarrow(Child(t)))
    \/ CastReclass(t) /\ CastWiden(Child(t))

Resized(t) == CastNarrow(t) \/ CastWiden(t)

(* A narrowing cast goes from the result of an operator to its operands,     *)
(* when that does not make more casts (cast_opt_unary, cast_opt_binary).     *)
RECURSIVE CastTreeOpt(_)
CastTreeOpt(t) ==
    LET c == Chop(t)
        inward == /\ CastNarrow(t)
                  /\ Arith(t.ty)
                  /\ Child(t).op \in TwosComp
                  /\ IsBinary(Child(t)) => Resized(Child(Child(t))) \/ Resized(Right(Child(t)))
    IN IF CastSkips(t)
       THEN CastTreeOpt(IF TreeCon(c) THEN [c EXCEPT !.n = Norm(Machine(TypeBase(c.ty)), @)] ELSE c)
       ELSE IF inward
       THEN [c EXCEPT !.kids = [i \in DOMAIN @ |-> CastTreeOpt(TreeCast(@[i], t.ty))]]
       ELSE t

-----------------------------------------------------------------------------
(* field.c *)

FieldMask(f)    == (2^f[1] - 1) * 2^f[2]
FieldOf(t)      == Child(t).ty[2].f
FetchUnfield(t) == [t EXCEPT !.kids[1].ty = PtrTo(Unfield(Tail(@)))]

(* A field is compared with zero in its place; to assign all zeros or all    *)
(* ones to it is to AND or to OR its word.                                   *)
FieldTreeOpt(tree) ==
    LET t    == TreeNormalize(tree)
        mask == FieldMask(FieldOf(Child(t)))
        host == FetchUnfield(Child(t))
        n    == Pattern(Right(t).n * 2^FieldOf(Child(t))[2]) & mask
        whole(op, k) == [t EXCEPT !.op = op, !.kids = <<host, [@[2] EXCEPT !.n = k]>>]
    IN IF ~IsBinary(t) \/ ~FieldFetch(Child(t)) THEN t
       ELSE CASE t.op \in {"EQ", "NEQ"} /\ TreeZero(Right(t)) ->
                   [t EXCEPT !.kids[1] = TreeBinary("AND", host.ty, host, TreeI(TypeBase(host.ty), mask))]
              [] t.op = "ASG" /\ PureCon(Right(t)) /\ n = 0 -> whole("ANDASG", (-mask) - 1)
              [] t.op = "ASG" /\ PureCon(Right(t)) /\ n = mask -> whole("ORASG", mask)
              [] OTHER -> t

-----------------------------------------------------------------------------
(* sign.c *)

Mirrored == ("GT" :> "LT") @@ ("GTEQ" :> "LTEQ") @@ ("LT" :> "GT") @@ ("LTEQ" :> "GTEQ")

(* Unsigned values compared with zero, which goes to the right. *)
SignTreeOpt(tree) ==
    LET t == IF TreeZero(Child(tree)) THEN [Commute(tree) EXCEPT !.op = Mirrored[@]] ELSE tree
    IN IF \/ tree.op \notin DOMAIN Mirrored
          \/ ~Scalar(Child(tree).ty) \/ IsIn(Child(tree).ty, Signed) THEN tree
       ELSE IF ~TreeZero(Right(t)) THEN t
       ELSE CASE t.op = "GT" -> [t EXCEPT !.op = "NEQ"]
              [] t.op = "LT" -> Truth(FALSE)
              [] t.op = "GTEQ" -> Truth(TRUE)
              [] t.op = "LTEQ" -> [t EXCEPT !.op = "EQ"]

-----------------------------------------------------------------------------
(* algebra.c, on trees *)

(* find_constant: the operand of the constant found in t, when it is a chain *)
(* of op, and t with the constant k in that operand's place.                 *)
RECURSIVE Exchange(_, _, _)
Exchange(t, op, k) ==
    LET n == TreeNormalize(t)
        r == Exchange(Right(n), op, k)
        m == [n EXCEPT !.kids[2] = r.t]
        l == Exchange(Child(n), op, k)
    IN IF t.op # op THEN [found |-> FALSE, t |-> t, other |-> t]
       ELSE IF PureCon(Right(n)) THEN [found |-> TRUE, t |-> [n EXCEPT !.kids[1] = k], other |-> Child(n)]
       ELSE IF r.found THEN [r EXCEPT !.t = m]
       ELSE [l EXCEPT !.t = [m EXCEPT !.kids[1] = l.t]]

(* Constants of a sum, and of any chain of one associative op, come together.*)
RECURSIVE AlgebraTreeOpt(_)
AlgebraTreeOpt(tree) ==
    LET t == TreeNormalize(tree)
        x == Exchange(Child(t), t.op, Right(t))
    IN IF tree.op \notin Assoc THEN tree
       ELSE IF ~Scalar(t.ty) \/ ~PureCon(Right(t)) THEN t
       ELSE IF ~x.found THEN [t EXCEPT !.kids[1] = x.t]
       ELSE AlgebraTreeOpt(Simplify([t EXCEPT !.kids = <<x.t, x.other>>]))

RECURSIVE TreeOpt(_)
TreeOpt(t) ==
    LET d == Descend(TreeOpt, t)
        c == IF IsCast(d) THEN CastTreeOpt(d) ELSE d
    IN AlgebraTreeOpt(SignTreeOpt(FieldTreeOpt(c)))

-----------------------------------------------------------------------------

RECURSIVE Gen(_, _)

StrunTemp == "temp"     \* the frame's room for what a call returns

Newest(g)      == Max(Live(g)) + 1
NewBlock(f)    == [f EXCEPT !.g.list = Append(@, Newest(f.g))]
NewTemp(f)     == [f EXCEPT !.temp = @ + 1]
Emit(f, i)     == [f EXCEPT !.g.body[f.cur] = Append(@, i)]
At(f, b)       == [f EXCEPT !.cur = b]
Goto(f, b)     == [f EXCEPT !.g = AddSuccessor(@, f.cur, Cessor("ALWAYS", b))]
BranchTo(f, cc1, b1, cc2, b2) ==
    [f EXCEPT !.g = AddSuccessor(AddSuccessor(@, f.cur, Cessor(cc1, b1)), f.cur, Cessor(cc2, b2))]

(* operand_leaf *)
Leaf(t) ==
    LET ts == Machine(TypeBase(t.ty))
    IN IF TreeCon(t) THEN (IF t.sym = "" THEN Con(ts, t.n) ELSE SymCon(ts, t.sym, t.n))
       ELSE Reg(ts, IF t.sym = "" THEN t.n ELSE Scope[t.sym].reg)

(* What gen returns: a leaf, and the function with the code for it. *)
Made(t, f) == [t |-> t, f |-> f]

(* An insn into the temporary that NewTemp(f) would have. *)
TempOf(ty, f)       == TreeTemp(ty, f.temp + 1)
Into(f, ty, op, a, b) == Made(TempOf(ty, f), Emit(NewTemp(f), Insn(op, Leaf(TempOf(ty, f)), a, b)))

(* gen_branch *)
GenBranch(f, leaf, true, false) ==
    BranchTo(Emit(f, Cmp(Leaf(leaf), Con("INT", 0))), "Z", false, "NZ", true)

GenLoad(f, dst, ptr) ==
    LET i == Insn("LOAD", Leaf(dst), Leaf(ptr), None)
    IN Emit(f, IF "volatile" \in ptr.ty[2].q THEN Volatile(i) ELSE i)
GenStore(f, ptr, src) ==
    LET i == Insn("STORE", Leaf(ptr), Leaf(src), None)
    IN Emit(f, IF "volatile" \in ptr.ty[2].q THEN Volatile(i) ELSE i)

HostBits(ty) == TypeSizeof(ty) * ByteBits

(* extract: the bit-field f of the word in the temporary t, in its place. *)
Extract(fn, t, f) ==
    LET o == Leaf(t)
    IN Emit(Emit(fn, Insn("SHL", o, o, Con("INT", HostBits(t.ty) - (f[1] + f[2])))),
            Insn("SHR", o, o, Con("INT", HostBits(t.ty) - f[1])))

(* insert: the word at ptr with value in the bit-field f. *)
Merge(fn, ptr, value, f, shifted, new) ==
    LET ts == TypeBase(value.ty)
        f1 == Emit(Emit(fn, Insn("SHL", shifted, Leaf(value), Con("INT", f[2]))),
                   Insn("AND", shifted, shifted, Con(ts, FieldMask(f))))
        f2 == Emit(GenLoad(f1, new, ptr), Insn("AND", Leaf(new), Leaf(new), Con(ts, (-FieldMask(f)) - 1)))
    IN Made(new, Emit(f2, Insn("OR", Leaf(new), Leaf(new), shifted)))
Insert(fn, ptr, value, f) ==
    Merge(NewTemp(NewTemp(fn)), ptr, value, f, Leaf(TempOf(value.ty, fn)), TempOf(value.ty, NewTemp(fn)))

-----------------------------------------------------------------------------
(* gen *)

(* A stack variable that has its address taken is no longer a local. *)
GenAddrof(t, f) ==
    LET c == Gen(Child(t), f)
    IN Into([c.f EXCEPT !.auto = @ \cup {c.t.sym}], t.ty, "FRAME", SymCon("ULONG", c.t.sym, 0), None)

GenBlkasg(t, f) ==
    LET l == Gen(Child(t), f)
        r == Gen(Right(t), l.f)
    IN Made([l.t EXCEPT !.ty = t.ty],
            Emit(r.f, Insn("BLKCOPY", Leaf(l.t), Leaf(r.t), Con("ULONG", TargetSize(t.ty)))))

(* What ptr, a leaf, leads to: gen_fetch without the evaluation of it. *)
FetchInto(temp, ptr, f) ==
    Made(temp, IF FieldPtr(ptr.ty) THEN Extract(GenLoad(f, temp, ptr), temp, ptr.ty[2].f)
               ELSE GenLoad(f, temp, ptr))
FetchLeaf(ty, ptr, f) ==
    IF IsStrun(ty) THEN Made(TreeV, f) ELSE FetchInto(TempOf(ty, f), ptr, NewTemp(f))

GenFetch(t, f) ==
    LET c == Gen(Child(t), f) IN FetchLeaf(t.ty, c.t, c.f)

(* The leaf right goes to *ptr; the value is what a fetch would find. *)
Extracted(x, f)           == Made(x.t, Extract(x.f, x.t, f))
StoreWord(ptr, word, f)   ==
    Extracted(Into(GenStore(word.f, ptr, word.t), word.t.ty, "MOVE", Leaf(word.t), None), f)
StoreLeaf(ptr, right, f)  ==
    IF FieldPtr(ptr.ty) THEN StoreWord(ptr, Insert(f, ptr, right, ptr.ty[2].f), ptr.ty[2].f)
    ELSE Made(right, GenStore(f, ptr, right))

(* gen_asg: the right side comes first. *)
AsgOf(t, r, ptr) == IF Child(t).op = "FETCH" THEN StoreLeaf(ptr.t, r.t, ptr.f)
                    ELSE Made(r.t, Emit(r.f, Move(Leaf(Child(t)), Leaf(r.t))))
AsgFrom(t, r)        == [AsgOf(t, r, Gen(Child(Child(t)), r.f)) EXCEPT !.t.ty = t.ty]
GenAsg(t, f)     == AsgFrom(t, Gen(Right(t), f))

(* gen_cast: a narrowing cast is a move. *)
CastOf(t, c) ==
    IF IsIn(t.ty, {"VOID"}) THEN Made(TreeV, c.f)
    ELSE IF CastNarrow([t EXCEPT !.kids = <<c.t>>])
    THEN Into(c.f, t.ty, "MOVE", [Leaf(c.t) EXCEPT !.ts = Machine(TypeBase(t.ty))], None)
    ELSE Into(c.f, t.ty, "CAST", Leaf(c.t), None)
GenCast(t, f) == CastOf(t, Gen(Child(t), f))

UnaryOf(t, c)  == Into(c.f, t.ty, t.op, Leaf(c.t), None)
GenUnary(t, f) == UnaryOf(t, Gen(Child(t), f))

BinaryOf(t, l, r) == Into(r.f, t.ty, t.op, Leaf(l.t), Leaf(r.t))
GenBinary(t, f) ==
    LET l == Gen(Child(t), f) IN BinaryOf(t, l, Gen(Right(t), l.f))

Compounds == ("MULASG" :> "MUL") @@ ("DIVASG" :> "DIV") @@ ("MODASG" :> "MOD") @@ ("ADDASG" :> "ADD")
          @@ ("SUBASG" :> "SUB") @@ ("SHLASG" :> "SHL") @@ ("SHRASG" :> "SHR") @@ ("ANDASG" :> "AND")
          @@ ("ORASG" :> "OR") @@ ("XORASG" :> "XOR") @@ ("POST" :> "ADD")

(* gen_compound: the left side is evaluated once. Its value is saved in orig *)
(* before the new one is made of it, and POST yields what was saved.         *)
Operated(t, f, orig, old, right) ==
    Emit(Emit(f, Move(Leaf(orig), Leaf(old))), Insn(Compounds[t.op], Leaf(old), Leaf(old), Leaf(right)))
OperatedAt(t, orig, ptr, old, right) == StoreLeaf(ptr, old.t, Operated(t, old.f, orig, old.t, right))
Compound(t, orig, r, ptr) ==
    IF Child(t).op = "SYM" THEN Made(Child(t), Operated(t, r.f, orig, Child(t), r.t))
    ELSE OperatedAt(t, orig, ptr.t, FetchLeaf(Child(t).ty, ptr.t, ptr.f), r.t)
Valued(t, orig, new) == IF t.op = "POST" THEN Made(orig, new.f) ELSE [new EXCEPT !.t.ty = t.ty]
GenCompound(t, f) ==
    LET orig == TempOf(t.ty, f)
        r    == Gen(Right(t), NewTemp(f))
    IN Valued(t, orig, Compound(t, orig, r, Gen(Child(Child(t)), r.f)))

SignedCC   == ("EQ" :> "Z") @@ ("NEQ" :> "NZ") @@ ("GT" :> "G") @@ ("LT" :> "L")
           @@ ("GTEQ" :> "GE") @@ ("LTEQ" :> "LE")
UnsignedCC == ("EQ" :> "Z") @@ ("NEQ" :> "NZ") @@ ("GT" :> "A") @@ ("LT" :> "B")
           @@ ("GTEQ" :> "AE") @@ ("LTEQ" :> "BE")

RelOf(l, r, d, cc) == Made(d, Emit(Emit(NewTemp(r.f), Cmp(Leaf(l.t), Leaf(r.t))), Set(Leaf(d), cc)))
Rel(t, l, r) ==
    RelOf(l, r, TempOf(t.ty, r.f), (IF IsIn(l.t.ty, Signed) THEN SignedCC ELSE UnsignedCC)[t.op])
GenRel(t, f) == LET l == Gen(Child(t), f) IN Rel(t, l, Gen(Right(t), l.f))

(* && and ||: blocks for the right side, for true and false, and their join. *)
Answer(f, d, b, n, join) == Goto(Emit(At(f, b), Move(Leaf(d), Con("INT", n))), join)
LogRight(x, b) == GenBranch(x.f, x.t, b + 1, b + 2)
LogLeft(t, x, b) ==
    IF t.op = "LOR" THEN GenBranch(x.f, x.t, b + 1, b) ELSE GenBranch(x.f, x.t, b, b + 2)
Log(t, f, b, d) ==
    LET f1 == Answer(Answer(f, d, b + 1, 1, b + 3), d, b + 2, 0, b + 3)
        f2 == LogLeft(t, Gen(Child(t), At(f1, f.cur)), b)
    IN Made(d, At(LogRight(Gen(Right(t), At(f2, b)), b), b + 3))
GenLog(t, f) ==
    Log(t, NewBlock(NewBlock(NewBlock(NewBlock(NewTemp(f))))), Newest(f.g), TempOf(t.ty, f))

(* ?: with a block for each branch and one for their join. *)
Branched(v, d, join) ==
    Goto(IF IsIn(d.ty, {"VOID"}) THEN v.f ELSE Emit(v.f, Move(Leaf(d), Leaf(v.t))), join)
Quest(t, d, l, b) ==
    LET f1 == GenBranch(l.f, l.t, b, b + 1)
        f2 == Branched(Gen(Child(Right(t)), At(f1, b)), d, b + 2)
    IN Made(IF IsIn(t.ty, {"VOID"}) THEN TreeV ELSE d,
            At(Branched(Gen(Right(Right(t)), At(f2, b + 1)), d, b + 2), b + 2))
GenQuest(t, f) ==
    Quest(t, TempOf(t.ty, f), Gen(Child(t), NewBlock(NewBlock(NewBlock(NewTemp(f))))), Newest(f.g))

GenComma(t, f) ==
    LET r == Gen(Right(t), Gen(Child(t), f).f) IN [r EXCEPT !.t.ty = t.ty]

(* The arguments are evaluated from the last to the first; the insns that    *)
(* pass them come together, right before the call.                           *)
Passing(a, v, op) == IF IsStrun(a.ty) THEN Insn("BLKARG", None, Leaf(v.t), Con("ULONG", TypeSizeof(a.ty)))
                     ELSE Insn(op, None, Leaf(v.t), None)
PassOne(op, a, v, acc) == [f |-> v.f, insns |-> <<Passing(a, v, op)>> \o acc.insns]
PassAll(t, op, c, args) ==
    FoldRight(LAMBDA a, acc : PassOne(op, a, Gen(IF IsStrun(a.ty) THEN Addrof(a) ELSE a, acc.f), acc), args,
              [f |-> IF IsIn(t.ty, {"VOID"}) \/ IsStrun(t.ty) THEN c.f ELSE NewTemp(c.f), insns |-> <<>>])
CodeOf(value, dst, c, all) ==
    Made(value, FoldLeft(Emit, all.f, Append(all.insns, Insn("CALL", dst, Leaf(c.t), None))))
CallFrom(t, c) ==
    LET op   == IF Protos[c.t.ty[2].tag].variadic THEN "VARG" ELSE "ARG"
        room == [TreeNew("SYM", t.ty, <<>>) EXCEPT !.sym = StrunTemp]
        d    == TempOf(t.ty, c.f)
    IN IF IsStrun(t.ty) THEN CodeOf(room, None, c, PassAll(t, op, c, <<Addrof(room)>> \o t.args))
       ELSE IF IsIn(t.ty, {"VOID"}) THEN CodeOf(TreeV, None, c, PassAll(t, op, c, t.args))
       ELSE CodeOf(d, Leaf(d), c, PassAll(t, op, c, t.args))
GenCall(t, f) == CallFrom(t, Gen(Child(t), f))

Gen(t, f) ==
    CASE t.op \in {"CON", "NONE", "SYM"} -> Made(t, f)
      [] t.op = "ADDROF" -> GenAddrof(t, f)
      [] t.op = "BLKASG" -> GenBlkasg(t, f)
      [] t.op = "CAST" -> GenCast(t, f)
      [] t.op = "FETCH" -> GenFetch(t, f)
      [] t.op = "QUEST" -> GenQuest(t, f)
      [] t.op = "COMMA" -> GenComma(t, f)
      [] t.op = "CALL" -> GenCall(t, f)
      [] t.op \in {"NEG", "COM"} -> GenUnary(t, f)
      [] t.op \in Computing -> GenBinary(t, f)
      [] t.op = "ASG" -> GenAsg(t, f)
      [] t.op \in DOMAIN Compounds -> GenCompound(t, f)
      [] t.op \in Relations -> GenRel(t, f)
      [] t.op \in Logical -> GenLog(t, f)

(* GEN_FLAG_ROOT *)
GenRoot(t, f) == LET root == Simplify(TreeOpt(RewriteVolatile(t))) IN Gen(root, f)

-----------------------------------------------------------------------------
(* dealias: what lives in memory is loaded before each use and stored after  *)
(* each definition. It looks at insns only, not at what controls a switch.   *)

Aliased(f) == {s \in DOMAIN Scope : Scope[s].ss \notin {"LOCAL", "REGISTER"} \/ s \in f.auto}

Argument(i) == i.op \in {"ARG", "VARG", "BLKARG"}

(* first_arg: how many of the insns before i come before its arguments too. *)
FirstArg(body, i) ==
    IF ~Argument(i) THEN Len(body)
    ELSE Max({0} \cup {n \in DOMAIN body : ~Argument(body[n])})

(* dealias1, on the variable s of the insn x.i; x.pre are the insns before.  *)
(* The address is a constant, or a temporary that FRAME puts it in.          *)
Renamed(i, r, temp)    == SubstDefs(SubstUses(i, LAMBDA o : ToReg(o, r, temp)), LAMBDA o : ToReg(o, r, temp))
Inserted(body, i, new) ==
    SubSeq(body, 1, FirstArg(body, i)) \o new \o SubSeq(body, FirstArg(body, i) + 1, Len(body))
Accessed(x, r, temp, at, frame) ==
    LET used == r \in Uses(x.i)
        keep == (IF used THEN <<>> ELSE frame) \o <<Insn("STORE", at, temp, None)>>
    IN [pre |-> Inserted(x.pre, x.i, IF used THEN Append(frame, Insn("LOAD", temp, at, None)) ELSE <<>>),
        i |-> Renamed(x.i, r, temp.n),
        post |-> IF r \in Defs(x.i) THEN keep \o x.post ELSE x.post,
        temp |-> x.temp + 2]
AccessedIn(x, s, at) ==
    Accessed(x, Scope[s].reg, Leaf(TreeTemp(Scope[s].ty, x.temp + 1)), at,
             IF Known(TreeSym(s)) THEN <<>> ELSE <<Insn("FRAME", at, SymCon("ULONG", s, 0), None)>>)
Dealias1(x, s) ==
    AccessedIn(x, s, IF Known(TreeSym(s)) THEN Leaf(Addrof(TreeSym(s))) ELSE Reg("ULONG", x.temp + 2))

AliasedIn(f, i) ==
    SortSeq(SetToSeq({s \in Aliased(f) : Scope[s].reg \in Uses(i) \cup Defs(i)}),
            LAMBDA p, q : Scope[p].reg < Scope[q].reg)
Around(x) == [body |-> x.pre \o <<x.i>> \o x.post, temp |-> x.temp]
DealiasInsn(f, acc, i) ==
    Around(FoldLeft(Dealias1, [pre |-> acc.body, i |-> i, post |-> <<>>, temp |-> acc.temp], AliasedIn(f, i)))
DealiasBlock(f, b) ==
    LET done == FoldLeft(LAMBDA acc, i : DealiasInsn(f, acc, i), [body |-> <<>>, temp |-> f.temp], f.g.body[b])
    IN [f EXCEPT !.g.body[b] = done.body, !.temp = done.temp]

Dealias(f) == FoldLeft(DealiasBlock, f, f.g.list)

-----------------------------------------------------------------------------
(* switch.c: f.cur is where the search goes on, control what is compared.    *)

Against(f, control, n) == Emit(f, Cmp(control, Con(control.ts, n)))

(* (Fault: the greatest value of the range is left out of it.) *)
TestRange_Fault(f, control, c, lower, higher) ==
    LET t == Newest(f.g)
        k == BranchTo(Against(NewBlock(f), control, c.min), "AE", t, "B", lower)
    IN BranchTo(Against(At(k, t), control, c.max), "B", c.b, "AE", higher)

(* The test of a range: below its least value to lower, above its greatest to*)
(* higher, and between to the case.                                          *)
TestRange(f, control, c, lower, higher) ==
    LET t == Newest(f.g)
        k == BranchTo(Against(NewBlock(f), control, c.min), "AE", t, "B", lower)
    IN BranchTo(Against(At(k, t), control, c.max), "BE", c.b, "A", higher)

(* switch1 *)
Linear(f, control, s) ==
    LET try(k, c) ==
          LET no == Newest(k.g)
              n  == NewBlock(k)
          IN At(IF c.min = c.max THEN BranchTo(Against(n, control, c.min), "Z", c.b, "NZ", no)
                ELSE TestRange(n, control, c, no, no),
                no)
    IN Goto(FoldLeft(try, f, Tail(s)), s[1].b)

(* switch2 on the n cases from s[first]. *)
RECURSIVE BinarySearch(_, _, _, _, _)
BinarySearch(f, control, s, first, n) ==
    LET lower  == n \div 2
        higher == n - 1 - lower
        c  == s[first + lower]
        lb == Newest(f.g)
        f1 == BinarySearch(At(NewBlock(f), lb), control, s, first, lower)
        hb == Newest(f1.g)
        f2 == At(BinarySearch(At(NewBlock(f1), hb), control, s, first + lower + 1, higher), f.cur)
        f3 == Against(f2, control, c.min)
    IN IF n = 0 THEN Goto(f, s[1].b)
       ELSE IF c.min < c.max THEN TestRange(f2, control, c, lb, hb)
       ELSE IF lower = 0 /\ higher = 0 THEN BranchTo(f3, "Z", c.b, "NZ", s[1].b)
       ELSE [f3 EXCEPT !.g = AddSuccessor(AddSuccessor(AddSuccessor(@, f.cur, Cessor("Z", c.b)),
                                                       f.cur, Cessor("B", lb)),
                                          f.cur, Cessor("A", hb))]

(* switch0: fewer than small (SWITCH_SMALL) cases are searched in turn.      *)
SwitchBlock(f, b, small) ==
    LET s   == f.g.succ[b]
        new == Newest(f.g)
        k   == At(NewBlock(f), new)
        h   == IF Len(s) - 1 < small THEN Linear(k, f.g.control[b], s)
               ELSE BinarySearch(k, f.g.control[b], s, 2, Len(s) - 1)
    IN IF ~IsSwitch(f.g, b) THEN f
       ELSE Goto(At([h EXCEPT !.g = RemoveSuccessors(@, b)], b), new)
SwitchGen(f, small) ==
    [FoldLeft(LAMBDA h, b : SwitchBlock(h, b, small), f, f.g.list) EXCEPT !.g = Prune(@)]
=============================================================================

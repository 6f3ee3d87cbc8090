-------------------------------- MODULE Expr --------------------------------
(* The expression parser of cc1/expr.c: from tokens to trees, with the       *)
(* conversions of C made explicit. A parser takes the tokens that are left   *)
(* and returns the tree it read and the tokens after it; a type name is one  *)
(* token. Strings, enumeration constants, implicit functions and statement   *)
(* expressions are not modelled.                                             *)
EXTENDS Tree

(* Operators that use each other, and those between them. *)
RECURSIVE MapBinary(_, _, _), Comma(_), Assignment(_), Ternary(_), BinaryFrom(_, _), BinaryAt(_, _),
          CastExpression(_), UnaryExpression(_), PostfixOf(_), Arguments(_, _, _)

Parsed(t, r) == IF Failed(t) THEN [t |-> Fatal, r |-> <<>>] ELSE [t |-> t, r |-> r]
Fail         == Parsed(Fatal, <<>>)
Look(r)      == IF r = <<>> THEN "" ELSE Head(r)

Arith(ty)  == IsIn(ty, Integral)
Scalar(ty) == IsIn(ty, Discrete)
Const(ty)  == "const" \in ty[1].q

-----------------------------------------------------------------------------
(* Conversions *)

Promote(t) ==
    CASE IsIn(t.ty, {"FUNC"}) -> Addrof(t)
      [] IsIn(t.ty, Chars \cup Shorts) -> CastBits(t, "INT")
      [] t.ty[1].q # {} /\ Scalar(t.ty) -> TreeCast(t, Unqual(t.ty))
      [] IsIn(t.ty, {"ARRAY"}) -> [Addrof(t) EXCEPT !.ty = FixArray(@)]
      [] OTHER -> t

(* (Fault: long goes before unsigned long.) *)
Wider_Fault(a, b) == CASE "LONG" \in {a, b} -> "LONG"
                       [] "ULONG" \in {a, b} -> "ULONG"
                       [] "UINT" \in {a, b} -> "UINT"
                       [] OTHER -> "INT"

(* The first of the arithmetic types, from the widest, that either has. *)
Wider(a, b) == CASE "ULONG" \in {a, b} -> "ULONG"
                 [] "LONG" \in {a, b} -> "LONG"
                 [] "UINT" \in {a, b} -> "UINT"
                 [] OTHER -> "INT"

Usuals(t) ==
    LET l  == Child(t)
        r  == Right(t)
        ts == Wider(TypeBase(l.ty), TypeBase(r.ty))
        l2 == IF IsIn(l.ty, {ts}) THEN l ELSE TreeCast(l, r.ty)
        r2 == IF IsIn(r.ty, {ts}) THEN r ELSE TreeCast(r, l2.ty)
    IN IF Arith(l.ty) /\ Arith(r.ty) THEN [t EXCEPT !.kids = <<l2, r2>>] ELSE t

PointerLeft(t) == IF t.op \in Commutes /\ IsPtr(Right(t).ty) THEN Commute(t) ELSE t

NullConstant(t) ==
    LET r == Simplify(Right(t))
    IN IF ~IsPtr(Child(t).ty) \/ ~Arith(Right(t).ty) THEN t
       ELSE [t EXCEPT !.kids[2] = IF NullCon(r) THEN TreeCast(r, Child(t).ty) ELSE r]

(* permute0 *)
Permuted(t, ty) == TreeCast(t, TypeRequalify(ty, t.ty))

(* permute_voids: PERMUTE_VOIDS_VOID for the branches of ?:. *)
PermuteVoids(t, both) ==
    LET l == Child(t)
        r == Right(t)
        void == PtrTo(Type("VOID"))
    IN IF ~(IsPtr(l.ty) /\ IsPtr(r.ty)) \/ ~(PtrIs(l.ty, "VOID") \/ PtrIs(r.ty, "VOID")) THEN t
       ELSE [t EXCEPT !.kids = IF both THEN <<Permuted(l, void), Permuted(r, void)>>
                               ELSE <<l, Permuted(r, l.ty)>>]

(* The element size of void, of a function, of an unknown struct is an error.*)
Scale(t) ==
    LET l == Child(t)
        r == Right(t)
        size == TreeI("LONG", TargetSize(l.ty))
    IN IF t.op \notin Scales \/ ~IsPtr(l.ty) THEN [t EXCEPT !.ty = l.ty]
       ELSE IF size.n = 0 THEN Fatal
       ELSE IF IsPtr(r.ty) THEN TreeBinary("DIV", Type("LONG"), [t EXCEPT !.ty = Type("LONG")], size)
       ELSE [t EXCEPT !.kids[2] = TreeBinary("MUL", Type("LONG"), CastBits(r, "LONG"), size),
                      !.ty = l.ty]

(* (l = r) of structs becomes *(&l [BLKASG] &r). *)
FixStructAssign(t) ==
    LET l == Addrof(Child(t))
    IN IF Failed(t) \/ ~IsStrun(t.ty) THEN t
       ELSE TreeRvalue(Fetch(TreeBinary("BLKASG", l.ty, l, Addrof(Right(t)))))

-----------------------------------------------------------------------------
(* Operators *)

(* map: the op of each token, and the operands it takes. *)
Map == ("=" :> <<"ASG", {2, 3, 4}>>)    @@ ("*=" :> <<"MULASG", {2}>>)
    @@ ("/=" :> <<"DIVASG", {2}>>)      @@ ("%=" :> <<"MODASG", {0}>>)
    @@ ("+=" :> <<"ADDASG", {1, 2}>>)   @@ ("-=" :> <<"SUBASG", {1, 2}>>)
    @@ ("<<=" :> <<"SHLASG", {0}>>)     @@ (">>=" :> <<"SHRASG", {0}>>)
    @@ ("&=" :> <<"ANDASG", {0}>>)      @@ ("|=" :> <<"ORASG", {0}>>)
    @@ ("^=" :> <<"XORASG", {0}>>)      @@ ("^" :> <<"XOR", {0}>>)
    @@ ("/" :> <<"DIV", {2}>>)          @@ ("*" :> <<"MUL", {2}>>)
    @@ ("+" :> <<"ADD", {1, 2}>>)       @@ ("-" :> <<"SUB", {1, 2, 3}>>)
    @@ (">" :> <<"GT", {2, 3}>>)        @@ (">>" :> <<"SHR", {0}>>)
    @@ (">=" :> <<"GTEQ", {2, 3}>>)     @@ ("<" :> <<"LT", {2, 3}>>)
    @@ ("<<" :> <<"SHL", {0}>>)         @@ ("<=" :> <<"LTEQ", {2, 3}>>)
    @@ ("&" :> <<"AND", {0}>>)          @@ ("&&" :> <<"LAND", {6}>>)
    @@ ("==" :> <<"EQ", {2, 3}>>)       @@ ("!=" :> <<"NEQ", {2, 3}>>)
    @@ ("|" :> <<"OR", {0}>>)           @@ ("||" :> <<"LOR", {6}>>)
    @@ ("%" :> <<"MOD", {0}>>)          @@ (":" :> <<"COLON", {2, 3, 4, 5}>>)

Assigns == {"=", "*=", "/=", "%=", "+=", "-=", "<<=", ">>=", "&=", "|=", "^="}

Operands == (0 :> <<Integral, Integral>>)   @@ (1 :> <<{"PTR"}, Integral>>)
         @@ (2 :> <<Integral, Integral>>)   @@ (3 :> <<{"PTR"}, {"PTR"}>>)
         @@ (4 :> <<{"STRUN"}, {"STRUN"}>>) @@ (5 :> <<{"VOID"}, {"VOID"}>>)
         @@ (6 :> <<Discrete, Discrete>>)

(* check_operands; the branches of ?: may differ in qualifiers, which are    *)
(* merged, and an assignment may add them to what is pointed to.             *)
OperandsFit(l, r, k) ==
    /\ \E i \in Map[k][2] : IsIn(l, Operands[i][1]) /\ IsIn(r, Operands[i][2])
    /\ (IsPtr(l) /\ IsPtr(r)) \/ (IsStrun(l) /\ IsStrun(r)) =>
          TypeCompat(l, r, IF k = "=" THEN {"MOREQUALS", "SKIP"} ELSE {}) = "OK"

Merged(t, k) ==
    IF k = ":" /\ (IsPtr(Child(t).ty) \/ IsStrun(Child(t).ty))
    THEN [t EXCEPT !.kids[1].ty = MergeQuals(@, Right(t).ty)] ELSE t

(* test_expression: k is == or !=. *)
TestExpression(t, k) ==
    LET p == Promote(t)
    IN IF Scalar(p.ty) THEN MapBinary(p, TreeI("INT", 0), k) ELSE Fatal

Converted(t, k) ==
    CASE k \in {"&&", "||"} -> [t EXCEPT !.kids = [i \in {1, 2} |-> TestExpression(t.kids[i], "!=")]]
      [] k \in Assigns /\ Arith(Child(t).ty) ->
            [t EXCEPT !.kids[2] = CastBits(@, TypeBase(Child(t).ty))]
      [] t.op \notin Unusual -> Usuals(t)
      [] OTHER -> t

Computed(t) == IF t.op \in Relations \cup Logical THEN [t EXCEPT !.ty = Type("INT")] ELSE Scale(t)
Checked(t, k) ==
    IF OperandsFit(Child(t).ty, Right(t).ty, k) THEN Computed(Converted(Merged(t, k), k)) ELSE Fatal
Nulls(t, k) == IF t.op \in Nullable THEN PermuteVoids(NullConstant(t), k = ":") ELSE t
MapBinary(left, right, k) ==
    Checked(Nulls(PointerLeft(TreeBinary(Map[k][1], Type("VOID"), left, Promote(right))), k), k)

Modifiable(t) == Lvalue(t) /\ ~Const(t.ty)

(* ++ and --: op is ADDASG before the operand, POST after it. *)
Crement(t, op, k) ==
    LET ts == IF IsPtr(t.ty) THEN "LONG" ELSE TypeBase(t.ty)
    IN IF ~Modifiable(t) \/ ~Scalar(t.ty) THEN Fatal
       ELSE Scale(TreeBinary(op, Type("VOID"), t, TreeI(ts, IF k = "++" THEN 1 ELSE -1)))

(* fake_assign: the conversions of an assignment to an object of type dst.   *)
Assigned(t)          == IF Failed(t) THEN t ELSE Simplify(Chop(Commute(t)))
FakeAssign(dst, src) == Assigned(MapBinary(TreeNew("SYM", dst, <<>>), src, "="))

-----------------------------------------------------------------------------
(* Grammar *)

Parenthesized(p) == IF Look(p.r) = ")" THEN Parsed(p.t, Tail(p.r)) ELSE Fail
Primary(r) ==
    LET k == Look(r)
    IN CASE k \in DOMAIN Literals -> Parsed(TreeI(Literals[k].ts, Literals[k].n), Tail(r))
         [] k \in DOMAIN Scope -> Parsed(TreeSym(k), Tail(r))
         [] k = "(" -> Parenthesized(Comma(Tail(r)))
         [] OTHER -> Fail

(* access: a member has the qualifiers of its struct too. *)
MemberAt(t, m) ==
    Fetch(TreeBinary("ADD", PtrTo(TypeQualify(m.ty, t.ty[2].q)), t, TreeI("LONG", m.offset)))
ValueIf(value, t) == IF value THEN TreeRvalue(t) ELSE t
AccessFrom(t, value, r) ==
    IF \/ ~PtrIs(t.ty, "STRUN")
       \/ t.ty[2].tag \notin DOMAIN Tags
       \/ ~HasMember(t.ty[2].tag, Look(r)) THEN Fail
    ELSE Parsed(ValueIf(value, MemberAt(t, MemberLookup(t.ty[2].tag, Look(r)))), Tail(r))
AccessOf(p, r)  == AccessFrom(IF Head(r) = "." THEN Addrof(p) ELSE p, Head(r) = "." /\ ~Lvalue(p), Tail(r))
Access(tree, r) == AccessOf(Promote(tree), r)

Element(sum, r) ==
    LET s == Scale(sum)
    IN IF \/ Look(r) # "]"
          \/ ~IsPtr(Child(sum).ty)
          \/ ~Arith(Right(sum).ty)
          \/ Failed(s) THEN Fail
       ELSE Parsed(Fetch(s), Tail(r))
ArrayAt(tree, p) == Element(PointerLeft(TreeBinary("ADD", Type("VOID"), Promote(tree), p.t)), p.r)
Array(tree, r)   == ArrayAt(tree, Comma(Tail(r)))

(* The arguments up to the right parenthesis, formals those they go to. *)
Given(call, formals, arg, r) ==
    LET new  == [call EXCEPT !.args = Append(@, arg)]
        left == IF formals = <<>> THEN <<>> ELSE Tail(formals)
    IN CASE Failed(arg) -> Fail
         [] Look(r) = ")" -> IF left = <<>> THEN Parsed(new, Tail(r)) ELSE Fail
         [] Look(r) = "," -> Arguments(new, left, Tail(r))
         [] OTHER -> Fail
ArgumentOf(proto, formals, t) ==
    IF formals # <<>> THEN FakeAssign(Head(formals), t)
    ELSE IF proto.old \/ proto.variadic THEN Promote(t) ELSE Fatal
ArgumentAt(call, formals, p) ==
    Given(call, formals, ArgumentOf(Protos[Child(call).ty[2].tag], formals, p.t), p.r)
Arguments(call, formals, r) == ArgumentAt(call, formals, Assignment(r))

Call(tree, r) ==
    LET t == Promote(tree)
    IN IF ~PtrIs(t.ty, "FUNC") THEN Fail
       ELSE LET new == TreeUnary("CALL", Tail(Tail(t.ty)), t)
                formals == Protos[t.ty[2].tag].args
            IN IF Look(Tail(r)) # ")" THEN Arguments(new, formals, Tail(r))
               ELSE IF formals = <<>> THEN Parsed(new, Tail(Tail(r))) ELSE Fail

PostfixOf(p) ==
    CASE Look(p.r) \in {"++", "--"} -> PostfixOf(Parsed(Crement(p.t, "POST", Head(p.r)), Tail(p.r)))
      [] Look(p.r) \in {".", "->"} -> PostfixOf(Access(p.t, p.r))
      [] Look(p.r) = "[" -> PostfixOf(Array(p.t, p.r))
      [] Look(p.r) = "(" -> PostfixOf(Call(p.t, p.r))
      [] OTHER -> p
Postfix(r) == PostfixOf(Primary(r))

(* -, + and ~ *)
Signs == ("-" :> "NEG") @@ ("+" :> "RVALUE") @@ ("~" :> "COM")

Applied(k, p) ==
    LET t == Promote(p.t)
    IN CASE k \in DOMAIN Signs ->
              IF Arith(t.ty) THEN Parsed(TreeUnary(Signs[k], t.ty, t), p.r) ELSE Fail
         [] k = "*" ->
              IF IsPtr(t.ty) /\ ~PtrIs(t.ty, "VOID") THEN Parsed(Fetch(t), p.r) ELSE Fail
         [] k = "!" -> Parsed(TestExpression(p.t, "=="), p.r)
         [] k = "&" ->
              IF \/ ~Lvalue(p.t)
                 \/ p.t.op = "SYM" /\ Scope[p.t.sym].ss = "REGISTER"
                 \/ FieldFetch(p.t) THEN Fail
              ELSE Parsed(Addrof(p.t), p.r)
         [] OTHER -> Parsed(Crement(p.t, "ADDASG", k), p.r)

SizeOf(size, r)  == IF size = 0 THEN Fail ELSE Parsed(TreeI("ULONG", size), r)
SizeOfTree(p)    == SizeOf(TypeSizeof(p.t.ty), p.r)

UnaryExpression(r) ==
    LET k == Look(r)
    IN CASE k \in DOMAIN Signs \cup {"*", "!", "&"} -> Applied(k, CastExpression(Tail(r)))
         [] k \in {"++", "--"} -> Applied(k, UnaryExpression(Tail(r)))
         [] k = "sizeof" /\ Look(Tail(r)) # "(" -> Parsed(TreeI("ULONG", TypeSizeof(<<>>)), Tail(r))
         [] k = "sizeof" /\ r[3] \in DOMAIN TypeNames ->
              IF Len(r) > 3 /\ r[4] = ")"
              THEN SizeOf(TypeSizeof(TypeNames[r[3]]), SubSeq(r, 5, Len(r))) ELSE Fail
         [] k = "sizeof" -> SizeOfTree(UnaryExpression(Tail(r)))
         [] OTHER -> Postfix(r)

CastTo(ty, p) ==
    LET t == Promote(p.t)
    IN IF Failed(t) \/ ~(IsIn(ty, {"VOID"}) \/ (Scalar(t.ty) /\ Scalar(ty))) THEN Fail
       ELSE Parsed(TreeCast(t, ty), p.r)

CastExpression(r) ==
    IF Len(r) < 3 \/ r[1] # "(" \/ r[2] \notin DOMAIN TypeNames THEN UnaryExpression(r)
    ELSE IF r[3] # ")" THEN Fail
    ELSE CastTo(TypeNames[r[2]], CastExpression(SubSeq(r, 4, Len(r))))

(* K_PREC_LOR to K_PREC_MUL *)
Levels == <<{"||"}, {"&&"}, {"|"}, {"^"}, {"&"}, {"==", "!="}, {"<", "<=", ">", ">="},
            {"<<", ">>"}, {"+", "-"}, {"*", "/", "%"}>>

OpLevel(k) == IF \E n \in DOMAIN Levels : k \in Levels[n]
              THEN CHOOSE n \in DOMAIN Levels : k \in Levels[n] ELSE 0

(* binary: operators of prec and the levels that bind more tightly, those of *)
(* one level from left to right. The source goes down to the operands one    *)
(* level at a time.                                                          *)
BinaryAt(r, prec) == BinaryFrom(CastExpression(r), prec)
BinaryWith(left, k, right) == Parsed(MapBinary(Promote(left), right.t, k), right.r)
BinaryFrom(left, prec) ==
    LET k == Look(left.r)
    IN IF OpLevel(k) < prec THEN left
       ELSE BinaryFrom(BinaryWith(left.t, k, BinaryAt(Tail(left.r), OpLevel(k) + 1)), prec)

(* Structs are chosen by their addresses: (a ? b : c) is *(a ? &b : &c). *)
Chosen(cond, colon, r) ==
    LET both == <<Addrof(Child(colon)), Addrof(Right(colon))>>
    IN CASE Failed(colon) -> Fail
         [] IsStrun(Child(colon).ty) ->
              Parsed(TreeRvalue(Fetch(TreeBinary("QUEST", both[1].ty, cond,
                         [colon EXCEPT !.kids = both, !.ty = both[1].ty]))), r)
         [] OTHER -> Parsed(TreeBinary("QUEST", colon.ty, cond, colon), r)
ElseWith(cond, left, right) == Chosen(cond, MapBinary(Promote(left), right.t, ":"), right.r)
ThenWith(cond, left) ==
    IF Failed(cond) \/ Look(left.r) # ":" THEN Fail ELSE ElseWith(cond, left.t, Ternary(Tail(left.r)))
TernaryOf(test) ==
    IF Look(test.r) # "?" THEN test
    ELSE ThenWith(TestExpression(test.t, "!="), Comma(Tail(test.r)))
Ternary(r) == TernaryOf(BinaryAt(r, 1))

AssignTo(left, k, right) == Parsed(FixStructAssign(MapBinary(left, right.t, k)), right.r)
AssignmentOf(left) ==
    IF Look(left.r) \notin Assigns THEN left
    ELSE IF ~Modifiable(left.t) THEN Fail
    ELSE AssignTo(left.t, Head(left.r), Assignment(Tail(left.r)))
Assignment(r) == AssignmentOf(Ternary(r))

(* A struct after a comma is fetched last: (a, b) is *(a, &b). *)
CommaWith(left, right) ==
    LET addr == Addrof(right.t)
    IN CASE Failed(right.t) -> Fail
         [] IsStrun(right.t.ty) -> Parsed(Fetch(TreeBinary("COMMA", addr.ty, left, addr)), right.r)
         [] OTHER -> Parsed(TreeBinary("COMMA", right.t.ty, left, right.t), right.r)
CommaOf(left) == IF Look(left.r) # "," THEN left ELSE CommaWith(left.t, Comma(Tail(left.r)))
Comma(r)      == CommaOf(Assignment(r))

Expression(r) == LET p == Comma(r) IN Parsed(Simplify(p.t), p.r)

(* static_expression, int_expression: an integral constant. *)
Constant(p)         == IF TreeCon(p.t) THEN p ELSE Fail
Integer(p)          == IF PureCon(p.t) /\ Arith(p.t.ty) THEN p ELSE Fail
StaticExpression(p) == Constant(Parsed(Simplify(Promote(p.t)), p.r))
IntExpression(r)    == Integer(StaticExpression(Ternary(r)))
=============================================================================

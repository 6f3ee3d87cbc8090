----------------------------- MODULE Reference -----------------------------
(* What C says of the programs the compiler is given: the type of an         *)
(* expression, its value, and what the statements do. A program here is not  *)
(* tokens but its syntax, tuples that start with the name of the construct;  *)
(* all variables are in memory. Arithmetic wraps around. Where C leaves the  *)
(* order of evaluation open this is one of the orders; a program whose       *)
(* meaning depends on it is undefined.                                       *)
EXTENDS Tree

CONSTANTS Rounds        \* the turns of loops and gotos a run may take

(* The type of an expression, its value, and where the object is it stands   *)
(* for.                                                                      *)
RECURSIVE TypeOf(_), Eval(_, _), Place(_, _)

Bad == Type("ERROR")
IntType == Type("INT")
IsBad(ty) == TypeBase(ty) = "ERROR"

(* The integers of each type; a bit-field is a type of its own.              *)
Size(ty)     == IF ty[1].f # <<>> THEN ty[1].f[1] ELSE Bits[TypeBase(ty)]
IsSigned(ty) == TypeBase(ty) \notin Unsigned
Least(ty)    == IF IsSigned(ty) THEN -(2^(Size(ty) - 1)) ELSE 0
Greatest(ty) == IF IsSigned(ty) THEN 2^(Size(ty) - 1) - 1 ELSE 2^Size(ty) - 1
Holding(ty, by) == Least(by) =< Least(ty) /\ Greatest(ty) =< Greatest(by)
Wrap(ty, n)  == Norm(Machine(TypeBase(ty)), n)

IsInt(ty)     == IsIn(ty, Integral)
IsScalar(ty)  == IsIn(ty, Discrete)
Rank(ty)      == CASE IsIn(ty, {"LONG", "ULONG"}) -> 2 [] IsIn(ty, {"INT", "UINT"}) -> 1 [] OTHER -> 0

(* The value of an object, of an array, of a function has another type.      *)
Decayed(ty) == CASE IsIn(ty, {"ARRAY"}) -> PtrTo(Tail(ty))
                 [] IsIn(ty, {"FUNC"}) -> PtrTo(ty)
                 [] IsScalar(ty) -> Unqual(ty)
                 [] OTHER -> ty

(* The integral promotions and the usual arithmetic conversions.             *)
Promoted(ty) ==
    IF ~IsInt(ty) \/ Rank(ty) > 1 \/ (Rank(ty) = 1 /\ ty[1].f = <<>>) THEN Decayed(ty)
    ELSE IF Holding(ty, IntType) THEN IntType ELSE Type("UINT")

Usual(s, t) ==
    LET a == Promoted(s)
        b == Promoted(t)
        hi == IF Rank(a) >= Rank(b) THEN a ELSE b
        lo == IF Rank(a) >= Rank(b) THEN b ELSE a
    IN CASE IsSigned(a) = IsSigned(b) \/ ~IsSigned(hi) -> hi
         [] Rank(hi) = Rank(lo) -> lo
         [] Holding(lo, hi) -> hi
         [] OTHER -> Type("ULONG")

(* Pointers to the same type, but for the qualifiers of what they point to.  *)
Alike(s, t) == /\ IsPtr(s)
               /\ IsPtr(t)
               /\ Unqual(Tail(s)) = Unqual(Tail(t))
VoidPtr(ty) == PtrIs(ty, "VOID")
ObjectPtr(ty) == IsPtr(ty) /\ TargetSize(ty) > 0

IsNull(e) == e[1] = "num" /\ Literals[e[2]].n = 0

(* May e, whose value has type src, be assigned to an object of type dst?    *)
Assignable(dst, src, e) ==
    \/ IsInt(dst) /\ IsInt(src)
    \/ IsStrun(dst) /\ IsStrun(src) /\ dst[1].tag = src[1].tag
    \/ IsPtr(dst) /\ IsNull(e)
    \/ /\ IsPtr(dst)
       /\ IsPtr(src)
       /\ Alike(dst, src) \/ VoidPtr(dst) \/ VoidPtr(src)
       /\ src[2].q \subseteq dst[2].q

Compare2(s, t, a, b) ==
    \/ IsInt(s) /\ IsInt(t)
    \/ Alike(s, t)
    \/ IsPtr(s) /\ IsNull(b)
    \/ IsPtr(t) /\ IsNull(a)
    \/ IsPtr(s) /\ IsPtr(t) /\ (VoidPtr(s) \/ VoidPtr(t))

-----------------------------------------------------------------------------
(* Types of expressions *)

ValueType(e) == Decayed(TypeOf(e))
OnlyIf(p, ty) == IF p THEN ty ELSE Bad

MemberType(ty, id) ==
    IF ~IsStrun(ty) \/ ty[1].tag \notin DOMAIN Tags THEN Bad
    ELSE IF ~HasMember(ty[1].tag, id) THEN Bad
    ELSE TypeQualify(MemberLookup(ty[1].tag, id).ty, ty[1].q)

(* Is e an object: can its address be taken, may it be assigned to?          *)
RECURSIVE IsObject(_)
IsObject(e) == \/ e[1] \in {"var", "arrow", "index"}
               \/ e[1] = "un" /\ e[2] = "*"
               \/ e[1] = "dot" /\ IsObject(e[2])
Changeable(e) ==
    IsObject(e) /\ ~IsIn(TypeOf(e), {"FUNC", "ARRAY", "ERROR"}) /\ "const" \notin TypeOf(e)[1].q

TypeOfUnary(op, e) ==
    LET ty == TypeOf(e)
        v  == Decayed(ty)
    IN CASE op \in {"-", "+", "~"} -> OnlyIf(IsInt(v), Promoted(ty))
         [] op = "!" -> OnlyIf(IsScalar(v), IntType)
         [] op = "*" -> OnlyIf(IsPtr(v) /\ ~VoidPtr(v), Tail(v))
         [] op = "&" ->
              OnlyIf(/\ IsObject(e)
                     /\ ~IsBad(ty)
                     /\ ty[1].f = <<>>
                     /\ e[1] = "var" => Scope[e[2]].ss # "REGISTER",
                     PtrTo(ty))
         [] op \in {"++", "--"} ->
              OnlyIf(Changeable(e) /\ (IsInt(v) \/ ObjectPtr(v)), v)

TypeOfBinary(op, a, b) ==
    LET s == ValueType(a)
        t == ValueType(b)
        u == Usual(TypeOf(a), TypeOf(b))
        ints == IsInt(s) /\ IsInt(t)
    IN CASE op \in {"*", "/", "%", "&", "|", "^"} -> OnlyIf(ints, u)
         [] op \in {"<<", ">>"} -> OnlyIf(ints, Promoted(TypeOf(a)))
         [] op = "+" -> CASE ints -> u
                          [] ObjectPtr(s) /\ IsInt(t) -> s
                          [] IsInt(s) /\ ObjectPtr(t) -> t
                          [] OTHER -> Bad
         [] op = "-" -> CASE ints -> u
                          [] ObjectPtr(s) /\ IsInt(t) -> s
                          [] ObjectPtr(s) /\ Alike(s, t) -> Type("LONG")
                          [] OTHER -> Bad
         [] op \in {"<", "<=", ">", ">="} -> OnlyIf(ints \/ Alike(s, t), IntType)
         [] op \in {"==", "!="} -> OnlyIf(Compare2(s, t, a, b), IntType)
         [] op \in {"&&", "||"} -> OnlyIf(IsScalar(s) /\ IsScalar(t), IntType)

TypeOfAssign(op, a, b) ==
    LET s == TypeOf(a)
        t == ValueType(b)
    IN IF ~Changeable(a) THEN Bad
       ELSE CASE op = "=" -> OnlyIf(Assignable(s, t, b), Unqual(s))
              [] op \in {"+=", "-="} -> OnlyIf(IsInt(t) /\ (IsInt(s) \/ ObjectPtr(s)), Unqual(s))
              [] OTHER -> OnlyIf(IsInt(s) /\ IsInt(t), Unqual(s))

(* The type of c ? a : b, from the values of a and b.                        *)
TypeOfEither(a, b) ==
    LET s == ValueType(a)
        t == ValueType(b)
        quals(ty) == TypeQualify(Tail(ty), s[2].q \cup t[2].q)
    IN CASE IsInt(s) /\ IsInt(t) -> Usual(TypeOf(a), TypeOf(b))
         [] IsStrun(s) /\ IsStrun(t) -> OnlyIf(s[1].tag = t[1].tag, s)
         [] IsIn(s, {"VOID"}) /\ IsIn(t, {"VOID"}) -> s
         [] Alike(s, t) -> PtrTo(quals(s))
         [] IsPtr(s) /\ IsNull(b) -> s
         [] IsPtr(t) /\ IsNull(a) -> t
         [] IsPtr(s) /\ VoidPtr(t) -> PtrTo(quals(t))
         [] IsPtr(t) /\ VoidPtr(s) -> PtrTo(quals(s))
         [] OTHER -> Bad

TypeOfCall(f, args) ==
    LET ty    == ValueType(f)
        proto == Protos[ty[2].tag]
        named == Len(proto.args)
    IN IF ~PtrIs(ty, "FUNC") THEN Bad
       ELSE OnlyIf(/\ Len(args) = named \/ (proto.variadic /\ Len(args) > named) \/ proto.old
                   /\ \A i \in DOMAIN args :
                         IF i > named THEN ~IsBad(TypeOf(args[i]))
                         ELSE Assignable(proto.args[i], ValueType(args[i]), args[i]),
                   Tail(Tail(ty)))

TypeOf(e) ==
    LET k == e[1]
    IN CASE k = "num" -> Type(Literals[e[2]].ts)
         [] k = "var" -> IF e[2] \in DOMAIN Scope THEN Scope[e[2]].ty ELSE Bad
         [] k = "un" -> TypeOfUnary(e[2], e[3])
         [] k = "post" -> TypeOfUnary(e[2], e[3])
         [] k = "bin" -> TypeOfBinary(e[2], e[3], e[4])
         [] k = "asg" -> TypeOfAssign(e[2], e[3], e[4])
         [] k = "cond" -> OnlyIf(IsScalar(ValueType(e[2])), TypeOfEither(e[3], e[4]))
         [] k = "comma" -> OnlyIf(~IsBad(TypeOf(e[2])), TypeOf(e[3]))
         [] k = "cast" ->
           LET to == TypeNames[e[2]]
               v  == ValueType(e[3])
           IN OnlyIf((IsIn(to, {"VOID"}) /\ ~IsBad(v)) \/ (IsScalar(v) /\ IsScalar(to)), to)
         [] k = "sizeof" ->
           OnlyIf(TypeOf(e[2])[1].f = <<>> /\ TypeSizeof(TypeOf(e[2])) > 0, Type("ULONG"))
         [] k = "sizetype" -> OnlyIf(TypeSizeof(TypeNames[e[2]]) > 0, Type("ULONG"))
         [] k = "index" ->
           LET ty == TypeOfBinary("+", e[2], e[3]) IN IF IsPtr(ty) THEN Tail(ty) ELSE Bad
         [] k = "dot" -> MemberType(TypeOf(e[2]), e[3])
         [] k = "arrow" ->
           LET ty == ValueType(e[2]) IN IF IsPtr(ty) THEN MemberType(Tail(ty), e[3]) ELSE Bad
         [] k = "call" -> TypeOfCall(e[2], e[3])

-----------------------------------------------------------------------------
(* Values. A state st has memory, a log of what is seen from outside, and    *)
(* whether it has become undefined; the outcome of an expression has the     *)
(* value (the address, of an object, an array, a function or a struct) and   *)
(* the cells that were read and written on the way.                          *)

Outcome1(v, st) == [v |-> v, st |-> st, rd |-> {}, wr |-> {}]
Ruined(st)      == [st EXCEPT !.ub = TRUE]
See(st, e)      == [st EXCEPT !.log = Append(@, e)]
CellsAt(a, ty)  == a .. a + (IF IsScalar(ty) THEN 0 ELSE TypeSizeof(ty) - 1)

FieldValue(word, ty) ==
    LET f == ty[1].f
        n == (word \div 2^f[2]) % 2^f[1]
    IN IF IsSigned(ty) /\ n >= 2^(f[1] - 1) THEN n - 2^f[1] ELSE n
FieldPut(word, v, ty) ==
    LET f == ty[1].f
    IN Wrap(ty, word - ((word \div 2^f[2]) % 2^f[1]) * 2^f[2] + (v % 2^f[1]) * 2^f[2])

(* Reading and writing the object of type ty whose address is x.v.           *)
LoadOf(x, ty) ==
    LET ok == x.v \in DOMAIN x.st.mem
        w  == IF ok THEN Wrap(ty, x.st.mem[x.v]) ELSE 0
        st == IF "volatile" \in ty[1].q THEN See(x.st, <<"load", x.v>>) ELSE x.st
    IN [x EXCEPT !.v = IF ty[1].f = <<>> THEN w ELSE FieldValue(w, ty),
                 !.st = IF ok THEN st ELSE Ruined(st),
                 !.rd = @ \cup {x.v}]
StoreTo(x, a, ty, v) ==
    LET ok  == a \in DOMAIN x.st.mem
        new == IF ty[1].f = <<>> THEN Wrap(ty, v) ELSE FieldPut(x.st.mem[a], v, ty)
        st  == IF "volatile" \in ty[1].q THEN See(x.st, <<"store", a, new>>) ELSE x.st
    IN IF ~ok THEN [x EXCEPT !.st = Ruined(@)]
       ELSE [x EXCEPT !.v = IF ty[1].f = <<>> THEN new ELSE FieldValue(new, ty),
                      !.st = [st EXCEPT !.mem[a] = new],
                      !.wr = @ \cup {a}]

(* x and then y, in no order that C fixes: y.v is kept.                      *)
Clash(x, y) == x.wr \cap (y.rd \cup y.wr) # {} \/ y.wr \cap x.rd # {}
Unordered(x, y) ==
    [y EXCEPT !.rd = @ \cup x.rd, !.wr = @ \cup x.wr,
              !.st = IF Clash(x, y) THEN Ruined(@) ELSE @]
Ordered(x, y) == [y EXCEPT !.rd = @ \cup x.rd, !.wr = @ \cup x.wr]

(* The value n of type ty, of op on converted operands; r is of type rty.    *)
Shifts == {"<<", ">>"}
Sorts == ("+" :> "ADD") @@ ("-" :> "SUB") @@ ("*" :> "MUL") @@ ("/" :> "DIV") @@ ("%" :> "MOD")
      @@ ("<<" :> "SHL") @@ (">>" :> "SHR") @@ ("&" :> "AND") @@ ("|" :> "OR") @@ ("^" :> "XOR")
Calculate(x, op, ty, l, r) ==
    LET ts == Machine(TypeBase(ty))
        a  == Norm(ts, l)
        b  == IF op \in Shifts THEN r ELSE Norm(ts, r)
    IN IF \/ op \in Shifts /\ b \notin 0 .. Bits[ts] - 1
          \/ Traps(Sorts[op], ts, a, b)
       THEN [x EXCEPT !.st = Ruined(@)]
       ELSE [x EXCEPT !.v = Compute(Sorts[op], ts, a, b)]

Related2(op, a, b) == CASE op = "==" -> a = b [] op = "!=" -> a # b [] op = "<" -> a < b
                        [] op = "<=" -> a =< b [] op = ">" -> a > b [] op = ">=" -> a >= b
Bool(p) == IF p THEN 1 ELSE 0

(* The sum of a pointer of type ty and n times the size of what it points to.*)
Moved(ty, p, n) == Norm("ULONG", p + n * TargetSize(ty))

EvalBinary(op, a, b, st) ==
    LET s == ValueType(a)
        t == ValueType(b)
        u == Machine(TypeBase(Usual(TypeOf(a), TypeOf(b))))
        x == Eval(a, st)
        y == Eval(b, x.st)
        both == Unordered(x, y)
        swap == Unordered(Eval(b, st), Eval(a, Eval(b, st).st))
    IN CASE op = "&&" /\ x.v = 0 -> x
         [] op = "||" /\ x.v # 0 -> [x EXCEPT !.v = 1]
         [] op \in {"&&", "||"} -> [Ordered(x, y) EXCEPT !.v = Bool(@ # 0)]
         [] op \in {"==", "!=", "<", "<=", ">", ">="} ->
              [both EXCEPT !.v = IF IsPtr(s) \/ IsPtr(t) THEN Bool(Related2(op, x.v, y.v))
                                 ELSE Bool(Related2(op, Norm(u, x.v), Norm(u, y.v)))]
         [] op = "+" /\ IsPtr(s) -> [both EXCEPT !.v = Moved(s, x.v, y.v)]
         [] op = "+" /\ IsPtr(t) -> [swap EXCEPT !.v = Moved(t, Eval(b, st).v, @)]
         [] op = "-" /\ IsPtr(t) -> [both EXCEPT !.v = Quotient(Norm("LONG", x.v - y.v), TargetSize(s))]
         [] op = "-" /\ IsPtr(s) -> [both EXCEPT !.v = Moved(s, x.v, -y.v)]
         [] OTHER -> Calculate(both, op, TypeOfBinary(op, a, b), x.v, y.v)

(* Assignment: the value to assign is found before the object.               *)
EvalAssign(op, a, b, st) ==
    LET ty  == TypeOf(a)
        y   == Eval(b, st)
        x   == Place(a, y.st)
        to  == x.v
        old == LoadOf(Unordered(y, x), ty)
        bop == CASE op = "+=" -> "+" [] op = "-=" -> "-" [] op = "*=" -> "*" [] op = "/=" -> "/"
                 [] op = "%=" -> "%" [] op = "<<=" -> "<<" [] op = ">>=" -> ">>" [] op = "&=" -> "&"
                 [] op = "|=" -> "|" [] op = "^=" -> "^"
        new == IF IsPtr(ty) THEN [old EXCEPT !.v = Moved(ty, @, IF op = "+=" THEN y.v ELSE -y.v)]
               ELSE Calculate(old, bop, IF bop \in Shifts THEN Promoted(ty) ELSE Usual(ty, TypeOf(b)),
                              old.v, y.v)
        from == CellsAt(y.v, ty)
        both == Unordered(y, x)
    IN IF op # "=" THEN StoreTo(new, to, ty, new.v)
       ELSE IF ~IsStrun(ty) THEN StoreTo(both, to, ty, y.v)
       ELSE [both EXCEPT !.st.mem = Filled(@, to, Chunk(@, y.v, TypeSizeof(ty))),
                         !.rd = @ \cup from, !.wr = @ \cup CellsAt(to, ty)]

(* ++ and --: the value is the old one when post holds.                      *)
EvalCrement(op, e, post, st) ==
    LET ty  == TypeOf(e)
        x   == Place(e, st)
        old == LoadOf(x, ty)
        n   == IF op = "++" THEN 1 ELSE -1
        new == StoreTo(old, x.v, ty, IF IsPtr(ty) THEN Moved(ty, old.v, n) ELSE old.v + n)
    IN IF post THEN [new EXCEPT !.v = old.v] ELSE new

(* A call: the arguments from the last to the first, and what is done with   *)
(* them nobody knows.                                                        *)
EvalCall(f, args, st) ==
    LET fn    == Eval(f, st)
        fty   == ValueType(f)
        proto == Protos[fty[2].tag]
        ty    == Tail(Tail(fty))
        strun == IsStrun(ty)
        each(i, acc) ==
            LET a  == args[i]
                x  == Eval(a, acc.x.st)
                to == IF i > Len(proto.args) THEN Promoted(TypeOf(a)) ELSE Unqual(proto.args[i])
            IN [x |-> Unordered(acc.x, x),
                notes |-> <<IF IsStrun(to) THEN <<"BLKARG", x.v, TypeSizeof(to)>>
                            ELSE <<IF proto.variadic THEN "VARG" ELSE "ARG", Wrap(to, x.v)>> >>
                          \o acc.notes]
        all   == FoldRight(each, [i \in DOMAIN args |-> i], [x |-> fn, notes |-> <<>>])
        here  == all.x.st
        noted == (IF strun THEN <<<<"ARG", Address["temp"]>>>> ELSE <<>>)
                 \o [i \in DOMAIN all.notes |->
                       IF all.notes[i][1] # "BLKARG" THEN all.notes[i]
                       ELSE <<"BLKARG", Chunk(here.mem, all.notes[i][2], all.notes[i][3])>>]
        log   == here.log \o noted
    IN [all.x EXCEPT !.v = IF strun THEN Address["temp"]
                           ELSE IF IsIn(ty, {"VOID"}) THEN 0 ELSE Wrap(ty, Len(log) + 1),
                     !.st = [here EXCEPT !.log = Append(log, <<"CALL", fn.v>>),
                                         !.mem = Clobbered(@, log)],
                     !.wr = @ \cup {Address[s] : s \in Global}]

(* Where an object is. *)
Place(e, st) ==
    CASE e[1] = "var" -> Outcome1(Address[e[2]], st)
      [] e[1] = "un" -> Eval(e[3], st)
      [] e[1] = "index" -> EvalBinary("+", e[2], e[3], st)
      [] e[1] = "arrow" ->
           LET x == Eval(e[2], st)
           IN [x EXCEPT !.v = @ + MemberLookup(ValueType(e[2])[2].tag, e[3]).offset]
      [] e[1] = "dot" ->
           LET x == IF IsObject(e[2]) THEN Place(e[2], st) ELSE Eval(e[2], st)
           IN [x EXCEPT !.v = @ + MemberLookup(TypeOf(e[2])[1].tag, e[3]).offset]

EvalUnary(op, e, st) ==
    LET ty == Promoted(TypeOf(e))
        x  == Eval(e, st)
        n  == Wrap(ty, x.v)
    IN CASE op = "-" -> [x EXCEPT !.v = Wrap(ty, -n)]
         [] op = "+" -> [x EXCEPT !.v = n]
         [] op = "~" -> [x EXCEPT !.v = Wrap(ty, (-n) - 1)]
         [] op = "!" -> [x EXCEPT !.v = Bool(@ = 0)]
         [] op = "&" -> Place(e, st)
         [] op \in {"++", "--"} -> EvalCrement(op, e, FALSE, st)

Eval(e, st) ==
    LET ty == TypeOf(e)
        to == Decayed(ty)
    IN CASE IsObject(e) \/ e[1] = "dot" ->
              (IF IsScalar(ty) THEN LoadOf(Place(e, st), ty) ELSE Place(e, st))
         [] e[1] = "num" -> Outcome1(Wrap(ty, Literals[e[2]].n), st)
         [] e[1] = "un" -> EvalUnary(e[2], e[3], st)
         [] e[1] = "post" -> EvalCrement(e[2], e[3], TRUE, st)
         [] e[1] = "bin" -> EvalBinary(e[2], e[3], e[4], st)
         [] e[1] = "asg" -> EvalAssign(e[2], e[3], e[4], st)
         [] e[1] = "cond" ->
              LET c == Eval(e[2], st)
                  x == Ordered(c, Eval(IF c.v # 0 THEN e[3] ELSE e[4], c.st))
              IN IF IsInt(to) THEN [x EXCEPT !.v = Wrap(to, @)] ELSE x
         [] e[1] = "comma" -> LET x == Eval(e[2], st) IN Ordered(x, Eval(e[3], x.st))
         [] e[1] = "cast" ->
              LET x == Eval(e[3], st) IN IF IsScalar(to) THEN [x EXCEPT !.v = Wrap(to, @)] ELSE x
         [] e[1] = "sizeof" -> Outcome1(TypeSizeof(TypeOf(e[2])), st)
         [] e[1] = "sizetype" -> Outcome1(TypeSizeof(TypeNames[e[2]]), st)
         [] e[1] = "call" -> EvalCall(e[2], e[3], st)

-----------------------------------------------------------------------------
(* Statements. Running one starts at its beginning, or at a label inside it, *)
(* and ends in a state whose how says where control goes: on, out of a loop  *)
(* or a switch, back to the loop, to a label, out of the function.           *)

Start == <<"start">>
On    == <<"on">>

(* The label k is in s: cases and default belong to the innermost switch.    *)
RECURSIVE Has(_, _)
Has(s, k) ==
    CASE s[1] = "label"   -> k = <<"label", s[2]>> \/ Has(s[3], k)
      [] s[1] = "case"    -> k = <<"case", s[2]>> \/ Has(s[3], k)
      [] s[1] = "default" -> k = <<"default">> \/ Has(s[2], k)
      [] s[1] = "block"   -> \E i \in DOMAIN s[2] : Has(s[2][i], k)
      [] s[1] = "if"      -> Has(s[3], k) \/ Has(s[4], k)
      [] s[1] = "while"   -> Has(s[3], k)
      [] s[1] = "do"      -> Has(s[2], k)
      [] s[1] = "for"     -> Has(s[5], k)
      [] s[1] = "switch"  -> k[1] = "label" /\ Has(s[3], k)
      [] OTHER -> FALSE

(* s and the statements in it, in order; deep: those of inner switches too.  *)
RECURSIVE Inside(_, _)
Each(ss, deep) == FoldLeft(LAMBDA seq, s : seq \o Inside(s, deep), <<>>, ss)
Inside(s, deep) ==
    <<s>> \o CASE s[1] \in {"label", "case"} -> Inside(s[3], deep)
               [] s[1] = "default" -> Inside(s[2], deep)
               [] s[1] = "block" -> Each(s[2], deep)
               [] s[1] = "if" -> Each(<<s[3], s[4]>>, deep)
               [] s[1] = "while" -> Inside(s[3], deep)
               [] s[1] = "do" -> Inside(s[2], deep)
               [] s[1] = "for" -> Inside(s[5], deep)
               [] s[1] = "switch" /\ deep -> Inside(s[3], deep)
               [] OTHER -> <<>>
Those(kind, ss)  == SelectSeq(ss, LAMBDA s : s[1] = kind)
Differ(ss, v(_)) == \A m, n \in DOMAIN ss : v(ss[m]) = v(ss[n]) => m = n
CasesIn(s)       == {c[2] : c \in ToSet(Those("case", Inside(s, FALSE)))}

(* The constraints on statements; where is the loops and switches around.    *)
Testable(e) == e = <<>> \/ IsScalar(ValueType(e))
Typed(e)    == e = <<>> \/ ~IsBad(TypeOf(e))
RECURSIVE Formed(_, _, _)
Formed(s, where, ret) ==
    CASE s[1] = "expr" -> Typed(s[2])
      [] s[1] = "if" -> Testable(s[2]) /\ Formed(s[3], where, ret) /\ Formed(s[4], where, ret)
      [] s[1] = "while" -> Testable(s[2]) /\ Formed(s[3], where \cup {"loop"}, ret)
      [] s[1] = "do" -> Testable(s[3]) /\ Formed(s[2], where \cup {"loop"}, ret)
      [] s[1] = "for" -> /\ Typed(s[2]) /\ Testable(s[3]) /\ Typed(s[4])
                         /\ Formed(s[5], where \cup {"loop"}, ret)
      [] s[1] = "block" -> \A i \in DOMAIN s[2] : Formed(s[2][i], where, ret)
      [] s[1] = "return" -> s[2] = <<>> \/ Assignable(ret, ValueType(s[2]), s[2])
      [] s[1] = "break" -> where # {}
      [] s[1] = "continue" -> "loop" \in where
      [] s[1] = "label" -> Formed(s[3], where, ret)
      [] s[1] = "case" -> "switch" \in where /\ Formed(s[3], where, ret)
      [] s[1] = "default" -> "switch" \in where /\ Formed(s[2], where, ret)
      [] s[1] = "switch" ->
           LET own == Inside(s[3], FALSE)
               ty  == Promoted(TypeOf(s[2]))
           IN /\ IsInt(ty)
              /\ Differ(Those("case", own), LAMBDA c : Wrap(ty, Literals[c[2]].n))
              /\ Len(Those("default", own)) =< 1
              /\ Formed(s[3], where \cup {"switch"}, ret)
      [] OTHER -> TRUE

(* Is s the body of a function that returns ret? *)
WellFormed(s, ret) ==
    LET all    == Inside(s, TRUE)
        labels == Those("label", all)
    IN /\ Formed(s, {}, ret)
       /\ Differ(labels, LAMBDA l : l[2])
       /\ \A go \in ToSet(Those("goto", all)) : \E l \in ToSet(labels) : l[2] = go[2]

Going(st, how) == [st EXCEPT !.how = how]
Stopped(st)    == st.ub \/ st.how # On
After(x)       == x.st
Turn(st)       == IF st.left = 0 THEN Going(st, <<"spins">>) ELSE [st EXCEPT !.left = @ - 1]

RECURSIVE Exec(_, _, _), Loop(_, _, _, _, _)

(* A loop: s its body, entered at k when seek holds, else tested first; step *)
(* comes after the body, and the test is left out of a for without one.      *)
Loop(test, step, s, st, k) ==
    LET c    == IF test = <<>> THEN Outcome1(1, st) ELSE Eval(test, st)
        in   == IF k = Start THEN Turn(c.st) ELSE st
        out  == Exec(s, in, k)
        next == IF out.how \in {On, <<"continue">>} THEN Going(out, On) ELSE out
        end  == IF step = <<>> THEN next ELSE Eval(step, next).st
    IN CASE k = Start /\ (c.st.ub \/ c.v = 0) -> c.st
         [] out.how = <<"break">> -> Going(out, On)
         [] Stopped(next) -> next
         [] OTHER -> Loop(test, step, s, end, Start)

(* The case of a switch that n selects, when v is its type.                  *)
Selected(s, v, n) ==
    LET hits == {c \in CasesIn(s) : Wrap(v, Literals[c].n) = n}
    IN IF hits # {} THEN <<"case", CHOOSE c \in hits : TRUE>> ELSE <<"default">>

Exec(s, st, k) ==
    CASE st.ub \/ (k = Start /\ st.how # On) -> st
      [] s[1] = "label" -> Exec(s[3], st, IF k = <<"label", s[2]>> THEN Start ELSE k)
      [] s[1] = "case" -> Exec(s[3], st, IF k = <<"case", s[2]>> THEN Start ELSE k)
      [] s[1] = "default" -> Exec(s[2], st, IF k = <<"default">> THEN Start ELSE k)
      [] s[1] = "block" ->
           LET first == IF k = Start THEN 1 ELSE CHOOSE i \in DOMAIN s[2] : Has(s[2][i], k)
           IN FoldLeft(LAMBDA x, i : IF Stopped(x) /\ i > first THEN x
                                     ELSE Exec(s[2][i], x, IF i = first THEN k ELSE Start),
                       st, [i \in 1 .. Len(s[2]) - first + 1 |-> first + i - 1])
      [] s[1] = "expr" -> Eval(s[2], st).st
      [] s[1] = "if" ->
           LET c == Eval(s[2], st)
           IN IF k # Start THEN Exec(IF Has(s[3], k) THEN s[3] ELSE s[4], st, k)
              ELSE Exec(IF c.v # 0 THEN s[3] ELSE s[4], c.st, Start)
      [] s[1] = "while" -> Loop(s[2], <<>>, s[3], st, k)
      [] s[1] = "do" ->
           LET out  == Exec(s[2], st, k)
               next == IF out.how \in {On, <<"continue">>} THEN Going(out, On) ELSE out
           IN CASE out.how = <<"break">> -> Going(out, On)
                [] Stopped(next) -> next
                [] OTHER -> Loop(s[3], <<>>, s[2], next, Start)
      [] s[1] = "for" ->
           LET begun == IF k # Start \/ s[2] = <<>> THEN st ELSE Eval(s[2], st).st
           IN Loop(s[3], s[4], s[5], begun, k)
      [] s[1] = "switch" ->
           LET c    == Eval(s[2], st)
               ty   == Promoted(TypeOf(s[2]))
               to   == Selected(s[3], ty, Wrap(ty, c.v))
               out  == IF k # Start THEN Exec(s[3], st, k) ELSE Exec(s[3], c.st, to)
           IN IF k = Start /\ (c.st.ub \/ ~(to[1] = "case" \/ Has(s[3], to))) THEN c.st
              ELSE IF out.how = <<"break">> THEN Going(out, On) ELSE out
      [] s[1] \in {"break", "continue"} -> Going(st, <<s[1]>>)
      [] s[1] = "goto" -> Going(Turn(st), IF st.left = 0 THEN <<"spins">> ELSE <<"label", s[2]>>)
      [] s[1] = "return" ->
           LET x == Eval(s[2], st)
           IN IF s[2] = <<>> THEN Going(See(st, <<"RETURN", Undef>>), <<"return">>)
              ELSE IF IsStrun(st.ret)
              THEN Going([x.st EXCEPT !.mem = Filled(@, @[Address["result"]],
                                                     Chunk(@, x.v, TypeSizeof(st.ret)))], <<"return">>)
              ELSE Going(See(x.st, <<"RETURN", Wrap(st.ret, x.v)>>), <<"return">>)
      [] OTHER -> st

RECURSIVE Perform(_, _, _)
Perform(s, st, k) ==
    LET end == Exec(s, Going(st, On), k)
    IN CASE end.ub -> [end |-> "undefined"]
         [] end.how[1] = "spins" -> [end |-> "spins", log |-> end.log]
         [] end.how[1] = "label" -> Perform(s, end, end.how)
         [] OTHER -> [end |-> "exit", log |-> end.log, mem |-> end.mem]

(* What the body s of a function that returns ret does to mem.               *)
Meant(s, ret, mem) ==
    LET start == [mem |-> mem, log |-> <<>>, ub |-> FALSE, how |-> On, left |-> Rounds, ret |-> ret]
    IN Perform(s, start, Start)
=============================================================================

------------------------------- MODULE Format -------------------------------
(* Formatted output and input: libc/vfprintf.c and vfscanf.c, on a stream    *)
(* that is a string (sprintf and sscanf). A format is a sequence of          *)
(* directives: [conv |-> "lit", c] is a character, [conv |-> "space"] is     *)
(* white space in an input format, and the others are conversions            *)
(*   output: [conv, flags, width, prec, size]   input: [conv, mute, width,   *)
(* size], and [set] for %[ . A width or a precision that is not there is -1; *)
(* Star stands for "*", which takes an argument. Of numbers with a point,    *)
(* only what is read of them is modelled. A size is "", h, l or, in output,  *)
(* z, which vfprintf() does not set itself.                                  *)
EXTENDS Text

CONSTANTS LongMax, IntMax, ShortMax,  \* the largest values of the types
          Pprec                       \* the digits of a pointer

Star == -2
Wrap(v, max)     == ((v + max + 1) % (2 * max + 2)) - max - 1
Unsigned(v, max) == v % (2 * max + 2)
Repeat(c, n)     == [i \in 1 .. n |-> c]
AtLeast0(n)      == IF n < 0 THEN 0 ELSE n
PrintNull        == <<"{", "N", "U", "L", "L", "}">>

(* convert: n in base b; only %x has small letters.                          *)
RECURSIVE Convert(_, _, _)
Convert(n, b, c) ==
    LET d == IF c = "x" THEN DigitList[1 + (n % b)] ELSE UpperList[1 + (n % b)]
    IN IF n < b THEN <<d>> ELSE Append(Convert(n \div b, b, c), d)

Base(c) == CASE c = "o" -> 8 [] c \in {"x", "X", "p"} -> 16 [] OTHER -> 10
Signed(c)  == c \in {"d", "i"}
Numeric(c) == c \in {"d", "i", "o", "u", "x", "X", "p"}

(* The argument of a numeric conversion, as the long that is converted; it   *)
(* is taken as an int unless the size is l.                                  *)
Argument(d, v) ==
    LET arg == IF d.size = "l" THEN v ELSE Wrap(v, IntMax)
    IN CASE Signed(d.conv) /\ d.size = "h" -> Wrap(arg, ShortMax)
         [] Signed(d.conv) /\ d.size # "h" -> arg
         [] ~Signed(d.conv) /\ d.size = "h" -> Unsigned(arg, ShortMax)
         [] OTHER -> Unsigned(arg, LongMax)

Prefix(d, l) ==
    CASE "#" \in d.flags /\ Base(d.conv) = 16 -> <<"0", d.conv>>
      [] "#" \in d.flags /\ d.conv = "o" /\ l # 0 -> <<"0">>
      [] OTHER -> <<>>
SignOf(d, l) ==
    CASE Signed(d.conv) /\ l < 0 -> <<"-">>
      [] Signed(d.conv) /\ l >= 0 /\ "+" \in d.flags -> <<"+">>
      [] Signed(d.conv) /\ l >= 0 /\ "+" \notin d.flags /\ " " \in d.flags -> <<" ">>
      [] OTHER -> <<>>

(* The digits of a number, none if it is zero with precision zero, and the   *)
(* zeros before them.                                                        *)
Empty(d, l)  == d.prec = 0 /\ l = 0
Digits(d, l) == IF Empty(d, l) THEN <<>> ELSE Convert(IF l < 0 THEN -l ELSE l, Base(d.conv), d.conv)
Zeros(d, l)  == IF Empty(d, l) THEN 0 ELSE AtLeast0(d.prec - Len(Digits(d, l)))

ZeroPads_Fault(d, l) == "0" \in d.flags
(* The flag 0 is ignored if there is a precision.                            *)
ZeroPads(d, l) == "0" \in d.flags /\ ~(Numeric(d.conv) /\ ~Empty(d, l) /\ d.prec # -1)

(* An item: what is left of the width goes before it, after it or, as zeros, *)
(* between its prefix and its digits.                                        *)
Output(d, l, prefix, nzeros, body) ==
    LET pad    == AtLeast0(d.width - nzeros - Len(prefix \o body))
        inside == prefix # <<>> /\ ZeroPads(d, l)
    IN CASE "-" \in d.flags -> prefix \o Repeat("0", nzeros) \o body \o Repeat(" ", pad)
         [] "-" \notin d.flags /\ inside -> prefix \o Repeat("0", nzeros + pad) \o body
         [] OTHER -> Repeat(IF ZeroPads(d, l) THEN "0" ELSE " ", pad) \o prefix \o Repeat("0", nzeros) \o body

(* v is a number, a character <<c>>, or <<s>> with a string s; <<>> is NULL. *)
Item(d0, v) ==
    LET d == IF d0.conv = "p" THEN [d0 EXCEPT !.conv = "X", !.size = "l", !.prec = Pprec, !.flags = @ \cup {"#"}]
             ELSE d0
        l == Argument(d, v)
        s == IF v = <<>> THEN PrintNull ELSE v[1]
    IN CASE Numeric(d.conv) -> Output(d, l, SignOf(d, l) \o Prefix(d, l), Zeros(d, l), Digits(d, l))
         [] d.conv = "s" -> Output(d, 0, <<>>, 0, IF d.prec >= 0 THEN TakeUpTo(s, d.prec) ELSE s)
         [] OTHER -> Output(d, 0, <<>>, 0, v)

(* vfprintf: what has been put, the arguments that are left and what %n gave.*)
Starred(k, d) ==
    LET w  == IF d.width = Star THEN Head(k.args) ELSE d.width
        a1 == IF d.width = Star THEN Tail(k.args) ELSE k.args
        p  == IF d.prec = Star THEN Head(a1) ELSE d.prec
        a2 == IF d.prec = Star THEN Tail(a1) ELSE a1
    IN [args |-> a2,
        d |-> [d EXCEPT !.flags = IF w < 0 THEN @ \cup {"-"} ELSE @,
                        !.width = IF w < 0 THEN -w ELSE w,
                        !.prec = IF p < 0 THEN -1 ELSE p]]
(* The size z leaves longflag as it is, and %p sets it to l. It is not set   *)
(* before the first conversion: left is what it then has.                    *)
Directive(k, d0) ==
    LET d == IF d0.size = "z" THEN [d0 EXCEPT !.size = k.longflag] ELSE d0
        s == Starred(k, [d EXCEPT !.width = IF @ = -1 THEN 0 ELSE @])
        n == [k EXCEPT !.longflag = IF d.conv = "p" THEN "l" ELSE d.size]
    IN CASE d0.conv = "lit" -> [k EXCEPT !.out = Append(@, d0.c)]
         [] d0.conv = "%" -> [k EXCEPT !.out = Append(@, d0.c), !.longflag = ""]
         [] d0.conv = "n" -> [n EXCEPT !.seen = Append(@, Len(k.out)), !.args = s.args]
         [] OTHER -> [n EXCEPT !.out = @ \o Item(s.d, Head(s.args)), !.args = Tail(s.args)]
Sprintf(format, args, left) ==
    FoldLeft(Directive, [out |-> <<>>, args |-> args, seen |-> <<>>, longflag |-> left], format)

-----------------------------------------------------------------------------
(* Input. s is the text and i the place in it: Ch(s, i) is "" at the end.    *)

MaxWidth == 128

(* lscan's machine: the state after c, and the base, or state -1.            *)
After(q, c) ==
    LET to(state, base) == [state |-> state, base |-> base]
    IN CASE c \in {"+", "-"} -> IF q.state \in {0, 3, 6} THEN to(q.state + 1, q.base) ELSE to(-1, q.base)
         [] c = "0" -> CASE q.state \in {0, 1} -> to(2, q.base)
                         [] q.state = 2 -> to(5, 8)
                         [] q.state \in {3, 4, 5, 8} -> to(5, q.base)
                         [] OTHER -> to(8, q.base)
         [] c \in {"x", "X"} -> CASE q.state = 2 -> to(5, 16)
                                  [] q.state = 8 -> to(5, q.base)
                                  [] OTHER -> to(-1, q.base)
         [] OTHER -> CASE q.state <= 2 /\ Digit(c) < 10 -> to(5, 10)
                       [] q.state > 2 /\ Digit(c) < q.base -> to(5, q.base)
                       [] OTHER -> to(-1, q.base)
RECURSIVE Lscan(_, _, _, _)
Lscan(s, i, width, q) ==
    LET k == After(q, Ch(s, i))
    IN IF width = 0 \/ Ch(s, i) = "" \/ k.state = -1 THEN [end |-> i, base |-> q.base]
       ELSE Lscan(s, i + 1, width - 1, k)
Entry(base) == [base |-> base, state |-> CASE base = 0 -> 0 [] base = 16 -> 6 [] OTHER -> 3]

(* dscan's machine, which stops in the same way.                             *)
AfterD(state, c) ==
    CASE c \in {"+", "-"} /\ state \in {0, 6} -> state + 1
      [] Digit(c) < 10 -> CASE state \in {0, 1, 3} -> 3 [] state \in {2, 4, 5} -> 5 [] OTHER -> 7
      [] c \in {"E", "e"} /\ state \in 3 .. 5 -> 6
      [] c = "." /\ state \in {0, 1} -> 2
      [] c = "." /\ state = 3 -> 4
      [] OTHER -> -1
RECURSIVE Dscan(_, _, _, _)
Dscan(s, i, width, state) ==
    LET k == AfterD(state, Ch(s, i))
    IN IF width = 0 \/ Ch(s, i) = "" \/ k = -1 THEN i ELSE Dscan(s, i + 1, width - 1, k)

SkipSpace(s, i) == First({j \in i .. Len(s) + 1 : ~IsSpace(Ch(s, j))})

(* Characters for %s, %[ and %c.                                             *)
Taken(s, i, d) ==
    LET stops(j) == CASE d.conv = "s" -> IsSpace(s[j]) [] d.conv = "[" -> s[j] \notin d.set [] OTHER -> FALSE
        width    == IF d.conv = "c" /\ d.width = -1 THEN 1 ELSE d.width
    IN First({j \in i .. Len(s) + 1 : \/ j = Len(s) + 1 \/ (width >= 0 /\ j - i >= width)
                                      \/ (j <= Len(s) /\ stops(j))})

(* vfscanf: k is [i, n, vals, go]: where it is, the items assigned, their    *)
(* values, and whether it goes on; what is counted for %n is what has been read.     *)
Stop(k)      == [k EXCEPT !.go = FALSE]
At(k, j)     == [k EXCEPT !.i = j]
Matched(k, s, c) == IF Ch(s, k.i) = c THEN At(k, k.i + 1) ELSE Stop(k)
Assign(k, j, d, v) ==
    IF d.mute THEN At(k, j) ELSE [At(k, j) EXCEPT !.n = @ + 1, !.vals = Append(@, v)]

Fixed(k, s, d) ==
    LET base  == CASE d.conv = "i" -> 0 [] OTHER -> Base(d.conv)
        width == CASE d.conv = "p" -> Pprec + 2
                   [] d.conv # "p" /\ (d.width = -1 \/ d.width > MaxWidth) -> MaxWidth
                   [] OTHER -> d.width
        l     == Lscan(s, k.i, width, Entry(base))
        val   == Strtoul(SubSeq(s, k.i, l.end - 1), l.base, ~Signed(d.conv), LongMax).val
    IN IF l.end = k.i THEN Stop(k)
       ELSE Assign(k, l.end, d, CASE d.conv = "p" \/ d.size = "l" -> Wrap(val, LongMax)
                                  [] d.conv # "p" /\ d.size = "h" -> Wrap(val, ShortMax)
                                  [] OTHER -> Wrap(val, IntMax))
Floating(k, s, d) ==
    LET end == Dscan(s, k.i, IF d.width = -1 \/ d.width > MaxWidth THEN MaxWidth ELSE d.width, 0)
    IN IF end = k.i THEN Stop(k) ELSE Assign(k, end, d, SubSeq(s, k.i, end - 1))
Characters(k, s, d) ==
    LET end == Taken(s, k.i, d)
    IN IF end = k.i THEN Stop(k) ELSE Assign(k, end, d, SubSeq(s, k.i, end - 1))

Scanned(s, k0, d) ==
    LET k == IF d.conv \in {"lit", "[", "c", "n"} THEN k0 ELSE At(k0, SkipSpace(s, k0.i))
    IN CASE ~k0.go -> k0
         [] k0.go /\ d.conv = "space" -> IF Ch(s, k.i) = "" THEN Stop(k) ELSE k
         [] k0.go /\ d.conv = "lit" -> Matched(k, s, d.c)
         [] k0.go /\ d.conv = "%" -> Matched(k, s, d.c)
         [] k0.go /\ Numeric(d.conv) -> Fixed(k, s, d)
         [] k0.go /\ d.conv = "f" -> Floating(k, s, d)
         [] k0.go /\ d.conv \in {"s", "[", "c"} -> Characters(k, s, d)
         [] k0.go /\ d.conv = "n" -> [k EXCEPT !.vals = Append(@, k.i - 1)]
         [] OTHER -> Stop(k)
Sscanf(s, format) ==
    FoldLeft(LAMBDA k, d : Scanned(s, k, d), [i |-> 1, n |-> 0, vals |-> <<>>, go |-> TRUE], format)

-----------------------------------------------------------------------------
(* What they are for. *)

Printed(d, v) == Sprintf(<<d>>, <<v>>, "").out
Mag(v)      == IF v < 0 THEN -v ELSE v

(* A number v as printed: blanks, sign, prefix, zeros, digits and blanks,    *)
(* where there are as many digits as the precision asks for, the width is    *)
(* filled, by blanks or by zeros. (With # and o there is a zero in front     *)
(* whatever the precision, where C has one only if there would be none; the  *)
(* flag 0 is not ignored for a zero with precision zero.)                    *)
LayoutRight(d, v) ==
    \A out \in {Printed(d, v)}, l \in {Argument(d, v)} :
    LET inner == {i \in DOMAIN out : out[i] # " "}
        lo    == IF inner = {} THEN 1 ELSE First(inner)
        hi    == IF inner = {} THEN 0 ELSE Final(inner)
        core  == SubSeq(out, lo, hi)
        sign  == IF ~Signed(d.conv) THEN "" ELSE IF l < 0 THEN "-" ELSE IF "+" \in d.flags THEN "+" ELSE ""
        pre   == "#" \in d.flags /\ Base(d.conv) = 16
        oct   == "#" \in d.flags /\ d.conv = "o" /\ l # 0
        at    == 1 + (IF sign = "" THEN 0 ELSE 1) + (IF pre THEN 2 ELSE IF oct THEN 1 ELSE 0)
        num   == SubSeq(core, at, Len(core))
        blank == Signed(d.conv) /\ sign = "" /\ " " \in d.flags
        need  == at - 1 + (IF blank THEN 1 ELSE 0)
    IN /\ sign # "" => core[1] = sign
       /\ pre => core[at - 2] = "0" /\ core[at - 1] = d.conv
       /\ oct => core[at - 1] = "0"
       /\ \A c \in ToSet(num) : Digit(c) < Base(d.conv)
       /\ Places(num, 1, Len(num) + 1, Base(d.conv)) = Mag(l)
       /\ d.prec = 0 /\ l = 0 /\ "0" \notin d.flags => num = <<>>
       /\ Len(num) >= (IF d.prec = -1 THEN 1 ELSE d.prec)
       /\ Len(out) >= d.width
       /\ blank => lo > 1 \/ (inner = {} /\ out # <<>>)
       /\ "-" \in d.flags => lo <= 2 /\ (lo = 2 => blank)
       /\ "-" \notin d.flags => hi = Len(out) \/ inner = {}
       /\ Len(out) > d.width =>       \* nothing but what it takes
            /\ Len(out) = need + Len(num)
            /\ Len(num) > d.prec /\ Len(num) > 1 => num[1] # "0"
       /\ Len(num) > d.prec /\ Len(num) > 1 /\ num[1] = "0" => "0" \in d.flags /\ (d.prec = -1 \/ (d.prec = 0 /\ l = 0))

(* A format of two numbers, a string and %n, printed and read back.          *)
ReadsBack(d, e, v, u, str) ==
    LET lit(c) == [conv |-> "lit", c |-> c]
        in(x)  == [conv |-> x.conv, size |-> x.size, width |-> -1, mute |-> FALSE]
        count  == [conv |-> "n", flags |-> {}, width |-> -1, prec |-> -1, size |-> "", mute |-> FALSE]
        string == [conv |-> "s", flags |-> d.flags \ {"0"}, width |-> d.width, prec |-> d.prec, size |-> "",
                   mute |-> FALSE]
        white  == [conv |-> "space"]
        kept(x, y) == CASE x.size = "h" -> Wrap(y, ShortMax) [] OTHER -> y
        text   == IF d.prec >= 0 THEN TakeUpTo(str, d.prec) ELSE str
        none(x, y) == x.prec = 0 /\ y = 0
    IN \A out \in {Sprintf(<<d, lit(","), string, lit(" "), e, count>>, <<v, <<str>>, u>>, "")} :
       \A back \in {Sscanf(out.out, <<in(d), white, lit(","), in(string), white, in(e), count>>)} :
       /\ out.seen = <<Len(out.out)>>
       /\ ~none(d, v) /\ ~none(e, u) /\ text # <<>> =>
            /\ back.n = 3
            /\ SubSeq(back.vals, 1, 3) = <<kept(d, v), text, kept(e, u)>>
            /\ "-" \notin e.flags => back.vals[4] = Len(out.out)
       /\ none(d, v) \/ text = <<>> => back.n < 3

(* What is taken of a text is the longest beginning of a number: with x,     *)
(* hexadecimal; with d or u, decimal.                                        *)
RECURSIVE Begins(_, _, _)
Begins(s, base, sign) ==
    \/ s = <<>>
    \/ sign /\ s[1] \in {"+", "-"} /\ Begins(Tail(s), base, FALSE)
    \/ base = 16 /\ Len(s) >= 2 /\ s[1] = "0" /\ s[2] \in {"x", "X"} /\ \A i \in 3 .. Len(s) : Digit(s[i]) < 16
    \/ \A i \in DOMAIN s : Digit(s[i]) < base
ScanRight(s, base, width) ==
    LET end == Lscan(s, 1, width, Entry(base)).end
    IN /\ end - 1 <= width
       /\ Begins(SubSeq(s, 1, end - 1), base, TRUE)
       /\ end <= Len(s) /\ end - 1 < width => ~Begins(SubSeq(s, 1, end), base, TRUE)
=============================================================================

------------------------------- MODULE LibcMC -------------------------------
(* Small instances of Libc: a buffer of three bytes, a page of one or two      *)
(* regions, at most MaxCalls calls; and what the functions that keep no      *)
(* state are called with.                                                    *)
EXTENDS Libc, Format

MCContents == {<<>>, <<1, Newline, 2>>}
MCTexts    == {<<1>>, <<2, Newline>>, <<Newline, 2, 1>>}
MCTyped    == {<<>>, <<1, Newline>>, <<1, 1, Newline, 2>>}

UpTo3(S) == UNION {[1 .. n -> S] : n \in 0 .. 3}
Chars    == {"-", "0", "1", "9", "x", "a", " "}
Words    == UNION {[1 .. n -> {"-", "a", "b"}] : n \in 0 .. 3} \cup {<<"c">>, <<"-", "c">>}
Out(c, f, width, prec, size) == [conv |-> c, flags |-> f, width |-> width, prec |-> prec, size |-> size]
Dates    == {0, 30, 31, 58, 59, 364, 365, 789, 790, 10956, 11016, 11017, 12000, 20000, 24800}
CST      == <<"C", "S", "T">>
CDT      == <<"C", "D", "T">>
Zones    == {Tzset(CST, o, CDT, f) : o \in {0, 60},
               f \in {<<>>, <<When(-1, 1, 4)>>, <<When(1, 1, 10), When(2, 3, 3)>>,
                      <<When(0, 15, 4), When(0, 20, 9), 3, 30>>}}
            \cup {Tzset(CST, 300, <<>>, <<>>), Initially}

MCJobs ==
    {[op |-> "strings", m |-> s \o <<0>> \o [i \in 1 .. 6 - Len(s) |-> 2] \o t \o <<0, 1, 1, 1, 1, 1, 1>>,
      b |-> 8, n |-> n] : s, t \in UpTo3(1 .. 2), n \in {0, 1, 2, 4}}
    \cup {[op |-> "bytes", m |-> <<1, 0, 2, 1, 2, 0>>, a |-> a, b |-> b, n |-> n] :
            a, b \in 1 .. 4, n \in 0 .. 3}
    \cup {[op |-> "sort", keys |-> k] : k \in UpTo3(1 .. 4) \cup [1 .. 5 -> 1 .. 3] \cup [1 .. 7 -> 1 .. 2]}
    \cup {[op |-> "number", s |-> s, base |-> b] :
            s \in UpTo3(Chars) \cup {<<"-">> \o s : s \in [1 .. 3 -> {"0", "1", "9"}]}, b \in {0, 8, 10, 16}}
    \cup {[op |-> "options", argv |-> v, opts |-> [x \in {"a", "b"} |-> x = "b"]] :
            v \in UNION {[1 .. n -> Words] : n \in 0 .. 2}}
    \cup {[op |-> "print", d |-> Out(c, f, width, p, z), e |-> Out("p", {}, -1, -1, "l"), v |-> v, u |-> 5,
           s |-> <<"a", "b", "c", "d">>] :
            c \in {"d", "u", "o", "X"}, f \in SUBSET {"-", "+", " ", "#", "0"}, width \in {-1, 5},
            p \in {-1, 0, 3}, z \in {"", "h"}, v \in {-16, -1, 0, 7}}
    \cup {[op |-> "scan", s |-> s, base |-> b, n |-> n] :
            s \in UNION {[1 .. n -> {"-", "0", "8", "x", "a"}] : n \in 0 .. 4}, b \in {8, 10, 16}, n \in {2, 9}}
    \cup {[op |-> "date", t |-> d * 86400 + s, n |-> n] :
            d \in Dates, s \in {0, 3599, 43200, 86399}, n \in {13, 15, 16, 17}}
    \cup {[op |-> "local", t |-> Civil(y, m, d) * 86400 + h * 3600, tz |-> tz] :
            y \in {1999, 2000, 2001, 2004, 2023}, m \in {3, 4, 9, 10, 12}, d \in {1, 8, 14, 15, 19, 20, 25, 28},
            h \in {0, 1, 2, 3}, tz \in Zones}

(* The functions on strings, memory and arrays, and those that convert       *)
(* numbers, formats, options and times, answer what they are for: the bytes  *)
(* they copy and no other, the same elements in order, the number that is    *)
(* there or the nearest one, a text that reads back, the date of a time.     *)
Computes ==
    CASE job.op = "strings"  -> StringsRight(job.m, 1, job.b, job.n)
      [] job.op = "bytes"    -> MemoryRight(job.m, job.a, job.b, job.n)
      [] job.op = "sort"     -> SortRight(job.keys)
      [] job.op = "number"   -> NumberRight(job.s, job.base, LongMax)
      [] job.op = "options"  -> OptionsRight(job.argv, job.opts)
      [] job.op = "print"    -> LayoutRight(job.d, job.v) /\ ReadsBack(job.d, job.e, job.v, job.u, job.s)
      [] job.op = "scan"     -> ScanRight(job.s, job.base, job.n)
      [] job.op = "date"     -> GmtimeRight(job.t) /\ StrftimeRight(Gmtime(job.t, 0), job.n)
      [] job.op = "local"    -> LocaltimeRight(job.t, job.tz)
      [] OTHER -> TRUE
=============================================================================

-------------------------------- MODULE Text --------------------------------
(* The parts of the library that work on memory, strings and arrays alone:   *)
(* libc/str*.c, mem*.c, qsort.c, bsearch.c, strtol.c, atoi.c and getopt.c,   *)
(* and last on times (ctime.c, strftime.c).                                  *)
(* Memory is a sequence of small numbers, a pointer an index, and 0 ends a   *)
(* string; the text that strtol and getopt look at is a sequence of          *)
(* characters.                                                               *)
EXTENDS Integers, Sequences, SequencesExt

-----------------------------------------------------------------------------
(* Memory *)

First(S) == CHOOSE i \in S : \A j \in S : i <= j
Final(S) == CHOOSE i \in S : \A j \in S : i >= j
NoPointer == 0
TakeUpTo(s, n) == SubSeq(s, 1, IF n < Len(s) THEN n ELSE Len(s))

(* Bytes copied one by one, upwards or downwards.                            *)
CopyUp(m, d, s, n)   == FoldLeft(LAMBDA k, i : [k EXCEPT ![d + i - 1] = k[s + i - 1]],
                                 m, [i \in 1 .. n |-> i])
CopyDown(m, d, s, n) == FoldLeft(LAMBDA k, i : [k EXCEPT ![d + n - i] = k[s + n - i]],
                                 m, [i \in 1 .. n |-> i])
Fill(m, d, c, n)     == [i \in DOMAIN m |-> IF i >= d /\ i < d + n THEN c ELSE m[i]]

Strlen(m, s)    == First({i \in s .. Len(m) : m[i] = 0}) - s
Where(m, s, n, c) == {i \in s .. s + n - 1 : m[i] = c}
Strchr(m, s, c) == LET w == Where(m, s, Strlen(m, s) + 1, c)
                   IN IF w = {} THEN NoPointer ELSE First(w)
Strrchr(m, s, c) == LET w == Where(m, s, Strlen(m, s) + 1, c)
                    IN IF w = {} THEN NoPointer ELSE Final(w)
Memchr(m, s, c, n) == LET w == Where(m, s, n, c) IN IF w = {} THEN NoPointer ELSE First(w)

Strcpy(m, d, s)  == CopyUp(m, d, s, Strlen(m, s) + 1)
Strcat(m, d, s)  == CopyUp(m, d + Strlen(m, d), s, Strlen(m, s) + 1)

(* strncpy: what is left of the n bytes is zeroed.                           *)
Strncpy(m, d, s, n) ==
    LET k == Strlen(m, s) + 1
    IN IF n <= k THEN CopyUp(m, d, s, n) ELSE Fill(CopyUp(m, d, s, k), d + k, 0, n - k)

Strncat_Fault(m, d, s, n) ==
    LET e == d + Strlen(m, d)
        k == Strlen(m, s)
    IN CASE n = 0 -> m
         [] n > k -> CopyUp(m, e, s, k + 1)
         [] OTHER -> CopyUp(m, e, s, n)
(* strncat: n bytes at most, and then a zero.                                *)
Strncat(m, d, s, n) ==
    LET e == d + Strlen(m, d)
        k == Strlen(m, s)
    IN CASE n = 0 -> m
         [] n > k -> CopyUp(m, e, s, k + 1)
         [] OTHER -> [CopyUp(m, e, s, n) EXCEPT ![e + n] = 0]

Memcpy(m, d, s, n)  == CopyUp(m, d, s, n)
Memset(m, d, c, n)  == Fill(m, d, c, n)
(* memmove: downwards if the destination begins in the source.               *)
Memmove(m, d, s, n) == IF s <= d /\ s + n > d THEN CopyDown(m, d, s, n) ELSE CopyUp(m, d, s, n)

(* strcmp, strncmp, memcmp: the first of n places where the two differ.      *)
Differ(m, a, b, n) == {i \in 0 .. n - 1 : m[a + i] # m[b + i]}
Compared(m, a, b, n) ==
    LET w == Differ(m, a, b, n)
    IN IF w = {} THEN 0 ELSE m[a + First(w)] - m[b + First(w)]
Memcmp(m, a, b, n) == Compared(m, a, b, n)
Strcmp(m, a, b) ==
    LET n == 1 + First({i \in 0 .. Strlen(m, a) : m[a + i] # m[b + i] \/ m[a + i] = 0})
        x == m[a + n - 1]
        y == m[b + n - 1]
    IN CASE x = y -> 0 [] x # y /\ x = 0 -> -1 [] x # y /\ y = 0 -> 1 [] OTHER -> x - y
Strncmp(m, a, b, n) ==
    LET w == {i \in 0 .. n - 1 : m[a + i] # m[b + i] \/ m[a + i] = 0}
        x == m[a + First(w)]
        y == m[b + First(w)]
    IN CASE w = {} -> 0
         [] w # {} /\ x = y -> 0
         [] w # {} /\ x # y /\ x = 0 -> -1
         [] w # {} /\ x # y /\ y = 0 -> 1
         [] OTHER -> x - y

-----------------------------------------------------------------------------
(* qsort.c. A value q is the array with the pointers of qsort1: elements     *)
(* equal to the one picked are between lefteq and righteq, smaller ones go   *)
(* before and larger ones after them.                                        *)

Exchange(a, i, j)     == [a EXCEPT ![i] = a[j], ![j] = a[i]]
Exchange3(a, p, q, r) == [[[a EXCEPT ![p] = a[r]] EXCEPT ![r] = a[q]] EXCEPT ![q] = a[p]]

Below(x, y) == x[1] < y[1]
Same(x, y)  == x[1] = y[1]

RECURSIVE FromLeft(_), FromRight(_), Qsort1(_, _, _)

FromLeft(q) ==
    CASE q.left < q.lefteq /\ Below(q.a[q.left], q.a[q.lefteq]) -> FromLeft([q EXCEPT !.left = @ + 1])
      [] q.left < q.lefteq /\ Same(q.a[q.left], q.a[q.lefteq]) ->
           FromLeft([q EXCEPT !.lefteq = @ - 1, !.a = Exchange(q.a, q.left, q.lefteq - 1)])
      [] OTHER -> FromRight(q)

FromRight(q) ==
    LET more   == q.right > q.righteq
        below  == more /\ Below(q.a[q.right], q.a[q.righteq])
        equal  == more /\ Same(q.a[q.right], q.a[q.righteq])
        larger == q.left < q.lefteq
    IN CASE below /\ larger ->
              FromLeft([q EXCEPT !.a = Exchange(q.a, q.left, q.right), !.left = @ + 1, !.right = @ - 1])
         [] below /\ ~larger ->
              FromRight([q EXCEPT !.a = Exchange3(q.a, q.left, q.righteq + 1, q.right),
                                  !.righteq = @ + 1, !.lefteq = @ + 1, !.left = q.lefteq + 1])
         [] equal ->
              FromRight([q EXCEPT !.a = Exchange(q.a, q.right, q.righteq + 1), !.righteq = @ + 1])
         [] more /\ ~below /\ ~equal -> FromRight([q EXCEPT !.right = @ - 1])
         [] ~more /\ larger ->
              FromLeft([q EXCEPT !.a = Exchange3(q.a, q.right, q.lefteq - 1, q.left),
                                 !.lefteq = @ - 1, !.righteq = @ - 1, !.right = q.righteq - 1])
         [] OTHER -> q

Middle(lo, hi) == lo + (hi - lo + 1) \div 2

Qsort1(a, lo, hi) ==
    IF hi <= lo THEN a
    ELSE LET q == FromLeft([a |-> a, left |-> lo, right |-> hi,
                            lefteq |-> Middle(lo, hi), righteq |-> Middle(lo, hi)])
         IN Qsort1(Qsort1(q.a, lo, q.lefteq - 1), q.righteq + 1, hi)

Qsort(a) == IF a = <<>> THEN a ELSE Qsort1(a, 1, Len(a))

(* bsearch among n elements from base on.                                    *)
RECURSIVE Bsearch(_, _, _, _)
Bsearch(key, a, base, n) ==
    LET mid == base + n \div 2
    IN CASE n = 0 -> NoPointer
         [] n > 0 /\ key = a[mid] -> mid
         [] n > 0 /\ key > a[mid] -> Bsearch(key, a, mid + 1, (n - 1) \div 2)
         [] OTHER -> Bsearch(key, a, base, n \div 2)

-----------------------------------------------------------------------------
(* Numbers *)

DigitList == <<"0", "1", "2", "3", "4", "5", "6", "7", "8", "9",
               "a", "b", "c", "d", "e", "f", "g", "x">>
UpperList == [i \in DOMAIN DigitList |-> CASE DigitList[i] = "a" -> "A" [] DigitList[i] = "b" -> "B"
                 [] DigitList[i] = "c" -> "C" [] DigitList[i] = "d" -> "D" [] DigitList[i] = "e" -> "E"
                 [] DigitList[i] = "f" -> "F" [] DigitList[i] = "g" -> "G" [] DigitList[i] = "x" -> "X"
                 [] OTHER -> DigitList[i]]
NoDigit == 99
(* What isdigit, isupper and islower make of a character as a digit.         *)
Digit(c) == LET w == {i \in DOMAIN DigitList : c \in {DigitList[i], UpperList[i]}}
            IN IF w = {} THEN NoDigit
               ELSE LET i == CHOOSE j \in w : TRUE
                    IN IF DigitList[i] = "x" THEN 33 ELSE i - 1
IsSpace(c) == c \in {" ", "\t", "\n"}

(* The character at i of the string s, whose end is not a character.         *)
Ch(s, i) == IF i \in DOMAIN s THEN s[i] ELSE ""

Skip(s)  == First({i \in 1 .. Len(s) + 1 : ~IsSpace(Ch(s, i))})
Sign(s, i) == IF Ch(s, i) \in {"-", "+"} THEN i + 1 ELSE i

(* strtol and strtoul, where the largest number is max: the value, or the    *)
(* one it is clipped to, and where the scan ended.                           *)
Strtoul(s, base0, uflag, max) ==
    LET i0   == Sign(s, Skip(s))
        neg  == Ch(s, Skip(s)) = "-"
        hex  == Ch(s, i0) = "0" /\ Ch(s, i0 + 1) \in {"x", "X"}
        base == CASE base0 # 0 -> base0
                  [] base0 = 0 /\ Ch(s, i0) = "0" -> IF hex THEN 16 ELSE 8
                  [] base0 = 0 /\ Digit(Ch(s, i0)) < 10 /\ Ch(s, i0) # "0" -> 10
                  [] OTHER -> 0
        i1   == IF base = 16 /\ hex THEN i0 + 2 ELSE i0
        stop == First({i \in i1 .. Len(s) + 1 : Digit(Ch(s, i)) >= base})
        big  == IF uflag THEN 2 * max + 1 ELSE max
        sum  == FoldLeft(LAMBDA k, i :
                           IF k.val < big \div base \/ (k.val = big \div base /\ Digit(s[i]) <= big % base)
                           THEN [k EXCEPT !.val = k.val * base + Digit(s[i])]
                           ELSE [k EXCEPT !.over = TRUE],
                         [val |-> 0, over |-> FALSE], [j \in 1 .. stop - i1 |-> i1 + j - 1])
    IN CASE base = 0 \/ stop = i1 -> [val |-> 0, end |-> IF i1 # i0 /\ base = 16 THEN i0 + 1 ELSE 1]
         [] base # 0 /\ stop # i1 /\ sum.over ->
              [val |-> IF uflag THEN big ELSE IF neg THEN -max - 1 ELSE max, end |-> stop]
         [] OTHER ->
              [val |-> IF neg THEN (IF uflag THEN (2 * max + 2 - sum.val) % (2 * max + 2) ELSE -sum.val)
                       ELSE sum.val,
               end |-> stop]

(* atoi and atol, for numbers that fit.                                      *)
Atoi(s) ==
    LET i    == Sign(s, Skip(s))
        stop == First({j \in i .. Len(s) + 1 : Digit(Ch(s, j)) >= 10})
        val  == FoldLeft(LAMBDA k, j : k * 10 + Digit(s[j]), 0, [j \in 1 .. stop - i |-> i + j - 1])
    IN IF Ch(s, Skip(s)) = "-" THEN -val ELSE val

-----------------------------------------------------------------------------
(* Arguments *)

End == ""       \* what getopt returns at the end of the options

(* getopt: g is [sp, optind, optarg, r], its static variables and the last   *)
(* answer; argv is a sequence of words, the first of which is not looked at. *)
(* opts gives the letters of opts, and whether an argument follows.          *)
Getopt(g, argv, opts) ==
    LET arg  == argv[g.optind]
        c    == Ch(arg, g.sp + 1)
        last == g.sp + 1 = Len(arg)
        next == IF last THEN [g EXCEPT !.optind = @ + 1, !.sp = 1] ELSE [g EXCEPT !.sp = @ + 1]
    IN CASE g.sp = 1 /\ (g.optind > Len(argv) \/ Ch(arg, 1) # "-" \/ Len(arg) = 1) ->
              [g EXCEPT !.r = End]
         [] g.sp = 1 /\ g.optind <= Len(argv) /\ arg = <<"-", "-">> ->
              [g EXCEPT !.optind = @ + 1, !.r = End]
         [] OTHER ->
              CASE c \notin DOMAIN opts -> [next EXCEPT !.r = "?"]
                [] c \in DOMAIN opts /\ ~opts[c] -> [next EXCEPT !.r = c, !.optarg = <<>>]
                [] c \in DOMAIN opts /\ opts[c] /\ ~last ->
                     [sp |-> 1, optind |-> g.optind + 1, r |-> c,
                      optarg |-> SubSeq(arg, g.sp + 2, Len(arg))]
                [] OTHER ->
                     IF g.optind + 1 > Len(argv)
                     THEN [g EXCEPT !.sp = 1, !.optind = @ + 1, !.r = "?"]
                     ELSE [sp |-> 1, optind |-> g.optind + 2, r |-> c, optarg |-> argv[g.optind + 1]]

(* Every answer, up to the first End.                                        *)
RECURSIVE Options(_, _, _)
Options(g, argv, opts) ==
    LET n == Getopt(g, argv, opts)
    IN IF n.r = End THEN [list |-> <<>>, optind |-> n.optind]
       ELSE LET k == Options(n, argv, opts)
            IN [k EXCEPT !.list = <<<<n.r, IF n.r \in DOMAIN opts /\ opts[n.r]
                                           THEN n.optarg ELSE <<>>>>>> \o @]

-----------------------------------------------------------------------------
(* What each is for. *)

Str(m, p) == SubSeq(m, p, p + Strlen(m, p) - 1)
Spared(m, k, from, to) == \A i \in DOMAIN m : (i < from \/ i > to) => k[i] = m[i]

(* The order of strings, by definition.                                      *)
Before(a, b) == \/ Len(a) < Len(b) /\ a = SubSeq(b, 1, Len(a))
                \/ \E i \in DOMAIN a \cap DOMAIN b :
                      a[i] < b[i] /\ SubSeq(a, 1, i - 1) = SubSeq(b, 1, i - 1)
Ordered(r, a, b) == CASE r < 0 -> Before(a, b) [] r > 0 -> Before(b, a) [] OTHER -> a = b

(* Two strings at a and b of m, in a memory with room.                       *)
StringsRight(m, a, b, n) ==
    LET s == Str(m, a)
        t == Str(m, b)
        cat == Strcat(m, a, b)
        ncat == Strncat(m, a, b, n)
        cpy == Strcpy(m, a, b)
        ncpy == Strncpy(m, a, b, n)
        e == a + Len(s)
    IN /\ Str(cat, a) = s \o t /\ Spared(m, cat, e, e + Len(t))
       /\ Str(ncat, a) = s \o TakeUpTo(t, n)
       /\ Spared(m, ncat, e, e + Len(TakeUpTo(t, n)))
       /\ Str(cpy, a) = t /\ Spared(m, cpy, a, a + Len(t))
       /\ SubSeq(ncpy, a, a + n - 1) = [i \in 1 .. n |-> IF i <= Len(t) THEN t[i] ELSE 0]
       /\ Spared(m, ncpy, a, a + n - 1)
       /\ Ordered(Strcmp(m, a, b), s, t)
       /\ Ordered(Strncmp(m, a, b, n), TakeUpTo(s, n), TakeUpTo(t, n))
       /\ \A c \in 1 .. 2 :
            /\ (Strchr(m, a, c) = NoPointer) = (c \notin ToSet(s))
            /\ c \in ToSet(s) =>
                 /\ m[Strchr(m, a, c)] = c /\ c \notin ToSet(SubSeq(m, a, Strchr(m, a, c) - 1))
                 /\ m[Strrchr(m, a, c)] = c
                 /\ c \notin ToSet(SubSeq(m, Strrchr(m, a, c) + 1, a + Len(s)))

(* n bytes from b to a, which may overlap.                                   *)
MemoryRight(m, a, b, n) ==
    LET mv == Memmove(m, a, b, n)
    IN /\ SubSeq(mv, a, a + n - 1) = SubSeq(m, b, b + n - 1) /\ Spared(m, mv, a, a + n - 1)
       /\ (a + n <= b \/ b + n <= a) => Memcpy(m, a, b, n) = mv
       /\ (Memcmp(m, a, b, n) = 0) = (SubSeq(m, a, a + n - 1) = SubSeq(m, b, b + n - 1))
       /\ \A c \in 0 .. 2 : LET p == Memchr(m, a, c, n)
                            IN IF c \in ToSet(SubSeq(m, a, a + n - 1))
                               THEN m[p] = c /\ c \notin ToSet(SubSeq(m, a, p - 1))
                               ELSE p = NoPointer
       /\ SubSeq(Memset(m, a, 1, n), a, a + n - 1) = [i \in 1 .. n |-> 1]
       /\ Spared(m, Memset(m, a, 1, n), a, a + n - 1)

(* keys with their places: the same ones, in order, and a key is found iff   *)
(* it is there.                                                              *)
SortRight(keys) ==
    LET a == [i \in DOMAIN keys |-> <<keys[i], i>>]
        s == Qsort(a)
        k == [i \in DOMAIN s |-> s[i][1]]
    IN /\ ToSet(s) = ToSet(a)
       /\ \A i, j \in DOMAIN s : i < j => k[i] <= k[j]
       /\ \A x \in 0 .. 5 : LET p == Bsearch(x, k, 1, Len(k))
                            IN IF x \in ToSet(k) THEN k[p] = x ELSE p = NoPointer

(* A number in base b between from and stop of s, by its places.             *)
RECURSIVE Power(_, _)
Power(b, n) == IF n = 0 THEN 1 ELSE b * Power(b, n - 1)
Places(s, from, stop, b) ==
    FoldLeft(LAMBDA k, j : k + Digit(s[j]) * Power(b, stop - 1 - j), 0,
             [j \in 1 .. stop - from |-> from + j - 1])

(* What strtol took is the longest text that is a number of the base.        *)
NumberRight(s, base0, max) ==
    \A r \in {Strtoul(s, base0, FALSE, max)}, u \in {Strtoul(s, base0, TRUE, max)}, i \in {Sign(s, Skip(s))} :
    LET neg  == Ch(s, Skip(s)) = "-"
        pre  == base0 \in {0, 16} /\ Ch(s, i) = "0" /\ Ch(s, i + 1) \in {"x", "X"}
        base == IF base0 # 0 THEN base0 ELSE IF pre THEN 16 ELSE IF Ch(s, i) = "0" THEN 8 ELSE 10
        from == IF pre THEN i + 2 ELSE i
        v    == Places(s, from, r.end, base)
        sv   == IF neg THEN -v ELSE v
    IN /\ u.end = r.end
       /\ IF Digit(Ch(s, from)) < base
          THEN /\ Digit(Ch(s, r.end)) >= base
               /\ r.val = (IF sv > max THEN max ELSE IF sv < -max - 1 THEN -max - 1 ELSE sv)
               /\ u.val = (IF v > 2 * max + 1 THEN 2 * max + 1 ELSE sv % (2 * max + 2))
               /\ base = 10 => Atoi(s) = sv
          ELSE r.val = 0 /\ r.end \in {1, i + 1}

(* An argument is an option's, or the options have ended: "--" or a word     *)
(* without "-" ends them.                                                    *)
RECURSIVE Parsed(_, _, _)
Parsed(argv, i, opts) ==
    LET arg == IF i <= Len(argv) THEN argv[i] ELSE <<>>
        bad == {j \in 2 .. Len(arg) : arg[j] \in DOMAIN opts /\ opts[arg[j]]}
        cut == IF bad = {} THEN Len(arg) + 1 ELSE First(bad)
        own == [j \in 1 .. cut - 2 |-> <<IF arg[j + 1] \in DOMAIN opts THEN arg[j + 1] ELSE "?", <<>>>>]
    IN CASE arg = <<"-", "-">> -> [list |-> <<>>, optind |-> i + 1]
         [] Len(arg) < 2 \/ Ch(arg, 1) # "-" -> [list |-> <<>>, optind |-> i]
         [] bad = {} /\ Len(arg) >= 2 /\ arg[1] = "-" /\ arg # <<"-", "-">> ->
              LET k == Parsed(argv, i + 1, opts) IN [k EXCEPT !.list = own \o @]
         [] OTHER ->
              LET inside == cut < Len(arg)
                  after  == IF inside THEN i + 1 ELSE i + 2
                  k      == Parsed(argv, after, opts)
              IN IF ~inside /\ i = Len(argv)
                 THEN [list |-> Append(own, <<"?", <<>>>>), optind |-> i + 1]
                 ELSE [k EXCEPT !.list = Append(own, <<arg[cut], IF inside THEN SubSeq(arg, cut + 1, Len(arg))
                                                                 ELSE argv[i + 1]>>) \o @]

OptionsRight(argv, opts) ==
    Options([sp |-> 1, optind |-> 1, optarg |-> <<>>, r |-> End], argv, opts) = Parsed(argv, 1, opts)

-----------------------------------------------------------------------------
(* Time: libc/ctime.c and strftime.c. A time is a number of seconds since    *)
(* 1970; TIMEZONE has fields: the name of standard time, the offset in       *)
(* minutes, the name of daylight time, empty if there is none, and, each     *)
(* only after the ones before, when that starts, when it ends, the hour of   *)
(* the change and the minutes it adds. A name is a sequence of letters.      *)

Isleap(y) == y % 4000 # 0 /\ (y % 400 = 0 \/ (y % 100 # 0 /\ y % 4 = 0))
Dpm(y) == <<31, IF Isleap(y) THEN 29 ELSE 28, 31, 30, 31, 30, 31, 31, 30, 31, 30, 31>>

(* gmtime: from the year y on, days are left.                                *)
RECURSIVE YearOf(_, _), MonthOf(_, _, _)
YearOf(y, days) ==
    LET ydays == IF Isleap(y) THEN 366 ELSE 365
    IN IF days < ydays THEN [year |-> y, yday |-> days] ELSE YearOf(y + 1, days - ydays)
MonthOf_Fault(y, m, days) ==
    IF m = 12 \/ days <= Dpm(y)[m + 1] THEN [mon |-> m, mday |-> days + 1]
    ELSE MonthOf(y, m + 1, days - Dpm(y)[m + 1])
MonthOf(y, m, days) ==
    IF m = 12 \/ days < Dpm(y)[m + 1] THEN [mon |-> m, mday |-> days + 1]
    ELSE MonthOf(y, m + 1, days - Dpm(y)[m + 1])

(* tm_isdst stays what the static tm had.                                    *)
Gmtime(t, isdst) ==
    LET xtime == IF t < 0 THEN 0 ELSE t
        days  == xtime \div 86400
        secs  == xtime % 86400
        y     == YearOf(1970, days)
        m     == MonthOf(y.year, 0, y.yday)
    IN [hour |-> secs \div 3600, min |-> (secs % 3600) \div 60, sec |-> secs % 60,
        wday |-> (4 + days) % 7, year |-> y.year - 1900, yday |-> y.yday,
        mon |-> m.mon, mday |-> m.mday, isdst |-> isdst]

(* nthday: the day of the month of tm that is the n-th such day of the week. *)
RECURSIVE Down(_), UpTo(_, _)
Down(d) == IF d > 0 THEN Down(d - 7) ELSE d
UpTo(d, end) == IF d < end THEN UpTo(d + 7, end) ELSE d
Nthday(tm, d) ==
    LET some == tm.mday - tm.wday + d.day
    IN CASE d.occur = 0 -> d.day
         [] d.occur > 0 -> Down(some) + 7 * d.occur
         [] OTHER -> UpTo(some, Dpm(tm.year + 1900)[tm.mon + 1]) + 7 * d.occur

Isdaylight(tm, tz) ==
    LET first == Nthday(tm, tz.start)
        final == Nthday(tm, tz.end)
        s     == tz.start.month
        e     == tz.end.month
        named == tz.tzname[2] # <<>>
    IN CASE ~named -> FALSE
         [] named /\ \/ s <= e /\ (tm.mon < s \/ tm.mon > e)
                     \/ s > e /\ tm.mon < s /\ tm.mon > e -> FALSE
         [] named /\ tm.mon = s ->
              IF tm.mday # first THEN tm.mday > first ELSE tm.hour >= tz.hour
         [] named /\ tm.mon # s /\ tm.mon = e ->
              IF tm.mday # final THEN tm.mday < final ELSE tm.hour < tz.hour - 1
         [] OTHER -> TRUE

(* setdst: the fields that are there replace those of tz.                    *)
Setdst(tz, f) ==
    [tz EXCEPT !.start  = IF Len(f) >= 1 THEN f[1] ELSE @,
               !.end    = IF Len(f) >= 2 THEN f[2] ELSE @,
               !.hour   = IF Len(f) >= 3 THEN f[3] ELSE @,
               !.adjust = IF Len(f) >= 4 THEN f[4] * 60 ELSE @]

When(occur, day, month) == [occur |-> occur, day |-> day - 1, month |-> month - 1]
Tzdstdef == <<When(1, 1, 4), When(-1, 1, 10), 2, 60>>
NTzname   == 31
Initially == [timezone |-> 0, tzname |-> <<<<"G", "M", "T">>, <<>>>>,
              start |-> When(1, 1, 4), end |-> When(-1, 1, 10), hour |-> 2, adjust |-> 3600]

(* tzset, when TIMEZONE has not been looked at yet.                          *)
Tzset(standard, offset, daylight, f) ==
    LET tz == [Initially EXCEPT !.timezone = offset * 60,
                                !.tzname = <<TakeUpTo(standard, NTzname), TakeUpTo(daylight, NTzname)>>]
    IN IF daylight = <<>> THEN tz ELSE Setdst(Setdst(tz, Tzdstdef), f)

Localtime(t, tz) ==
    LET std == Gmtime(t - tz.timezone, 0)
    IN IF Isdaylight(std, tz) THEN Gmtime(t - tz.timezone + tz.adjust, 1) ELSE std

-----------------------------------------------------------------------------
(* As text: the name of a day or a month is one character here, with as many *)
(* as it has letters counted by strftime.                                    *)

Days   == <<"Sun", "Mon", "Tue", "Wed", "Thu", "Fri", "Sat">>
Months == <<"Jan", "Feb", "Mar", "Apr", "May", "Jun", "Jul", "Aug", "Sep", "Oct", "Nov", "Dec">>
Full   == <<6, 6, 7, 9, 8, 6, 8>>                           \* the letters of Sunday ...
FullMonths == <<7, 8, 5, 5, 3, 4, 4, 6, 9, 7, 8, 8>>

RECURSIVE Toasc(_, _)
Toasc(i, n) == IF n = 0 THEN <<>> ELSE Append(Toasc(i \div 10, n - 1), i % 10)
Convert3(a, b, c, sep) == Toasc(a, 2) \o <<sep>> \o Toasc(b, 2) \o <<sep>> \o Toasc(c, 2)

Asctime(tm) ==
    <<Days[tm.wday + 1], " ", Months[tm.mon + 1], " ",
      IF tm.mday >= 10 THEN tm.mday \div 10 ELSE " ", tm.mday % 10, " ">>
    \o Convert3(tm.hour, tm.min, tm.sec, ":") \o <<" ">> \o Toasc(tm.year + 1900, 4)

(* What strftime puts for the conversion c, and how long it takes that to be.*)
Put(s)      == [s |-> s, n |-> Len(s)]
Name3(x, n) == [s |-> <<x>>, n |-> n]
Converted(c, tm, tz) ==
    CASE c = "a" -> Name3(Days[tm.wday + 1], 3)
      [] c = "A" -> Name3(Days[tm.wday + 1], Full[tm.wday + 1])
      [] c = "b" -> Name3(Months[tm.mon + 1], 3)
      [] c = "B" -> Name3(Months[tm.mon + 1], FullMonths[tm.mon + 1])
      [] c = "c" -> [s |-> Asctime(tm), n |-> 24]
      [] c = "d" -> Put(Toasc(tm.mday, 2))
      [] c = "H" -> Put(Toasc(tm.hour, 2))
      [] c = "I" -> Put(Toasc(IF tm.hour % 12 = 0 THEN 12 ELSE tm.hour % 12, 2))
      [] c = "j" -> Put(Toasc(tm.yday + 1, 3))
      [] c = "m" -> Put(Toasc(tm.mon + 1, 2))
      [] c = "M" -> Put(Toasc(tm.min, 2))
      [] c = "p" -> Name3(IF tm.hour < 12 THEN "AM" ELSE "PM", 2)
      [] c = "S" -> Put(Toasc(tm.sec, 2))
      [] c = "U" -> Put(Toasc((tm.yday + 7 - tm.wday) \div 7, 2))
      [] c = "w" -> Put(Toasc((tm.yday + 8 - tm.wday) \div 7 - (IF tm.wday = 0 THEN 1 ELSE 0), 2))
      [] c = "W" -> Put(Toasc(tm.wday, 1))
      [] c = "x" -> [s |-> Convert3(tm.mon + 1, tm.mday, tm.year, "/"), n |-> 8]
      [] c = "X" -> [s |-> Convert3(tm.hour, tm.min, tm.sec, ":"), n |-> 8]
      [] c = "y" -> Put(Toasc(tm.year, 2))
      [] c = "Y" -> Put(Toasc(tm.year + 1900, 4))
      [] c = "z" -> Put(tz.tzname[IF tm.isdst = 1 THEN 2 ELSE 1])
      [] OTHER -> Put(<<c>>)

(* strftime: the format is a sequence of <<c>> for the character c and of    *)
(* <<"%", c>>. n characters have been stored, of which s says what they are. *)
RECURSIVE Strftime(_, _, _, _, _, _)
Strftime(format, tm, tz, maxsize, n, s) ==
    LET c     == Head(format)
        plain == Len(c) = 1
        k     == IF plain THEN Put(c) ELSE Converted(c[2], tm, tz)
    IN CASE format = <<>> -> [n |-> IF n + 1 > maxsize THEN 0 ELSE n, s |-> s]
         [] format # <<>> /\ n + k.n >= (IF plain THEN maxsize + 1 ELSE maxsize) -> [n |-> 0, s |-> s]
         [] OTHER -> Strftime(Tail(format), tm, tz, maxsize, n + k.n, s \o k.s)

-----------------------------------------------------------------------------
(* What each is for. *)

(* Days since 1970 of a date of the Gregorian calendar (month 1 to 12).      *)
Civil(year, month, day) ==
    LET y == IF month <= 2 THEN year - 1 ELSE year
        m == IF month > 2 THEN month - 3 ELSE month + 9
    IN 365 * y + y \div 4 - y \div 100 + y \div 400 + (153 * m + 2) \div 5 + day - 1 - 719468

Seconds(tm) == Civil(tm.year + 1900, tm.mon + 1, tm.mday) * 86400 + tm.hour * 3600 + tm.min * 60 + tm.sec

GmtimeRight(t) ==
    LET tm == Gmtime(t, 0)
        d  == Civil(tm.year + 1900, tm.mon + 1, tm.mday)
    IN /\ Seconds(tm) = t
       /\ tm.hour \in 0 .. 23 /\ tm.min \in 0 .. 59 /\ tm.sec \in 0 .. 59 /\ tm.mon \in 0 .. 11
       /\ Civil(tm.year + 1900, tm.mon + 1, 1) <= d
       /\ d < (IF tm.mon = 11 THEN Civil(tm.year + 1901, 1, 1) ELSE Civil(tm.year + 1900, tm.mon + 2, 1))
       /\ tm.wday = (d + 4) % 7
       /\ tm.yday = d - Civil(tm.year + 1900, 1, 1)

(* The days of the month that are such a day of the week, and the one meant: *)
(* days count from 1, as do those of an absolute date (ctime.c:40).          *)
Such(year, d)  == {x \in 1 .. Dpm(year)[d.month + 1] : (Civil(year, d.month + 1, x) + 4) % 7 = d.day}
Meant(year, d) ==
    LET days == Such(year, d)
    IN IF d.occur = 0 THEN d.day + 1
       ELSE CHOOSE x \in days :
              IF d.occur > 0 THEN Cardinality({z \in days : z <= x}) = d.occur
              ELSE Cardinality({z \in days : z >= x}) = -d.occur
(* A month that ends with the day that is counted from its end: nthday gives *)
(* the one before (ctime.c:125). An absolute date is taken for the day       *)
(* before (ctime.c:112), so the change is a day early.                       *)
EndsWithIt(year, d) == d.occur < 0 /\ Dpm(year)[d.month + 1] \in Such(year, d)
TooEarly(s, d, change) == d.occur = 0 /\ s \in change - 86400 .. change - 1

LocaltimeRight(t, tz) ==
    LET std  == t - tz.timezone
        year == Gmtime(std, 0).year + 1900
        at(d, hour) == Civil(year, d.month + 1, Meant(year, d)) * 86400 + hour * 3600
        from == at(tz.start, tz.hour)
        to   == at(tz.end, tz.hour - 1)
        dst  == tz.tzname[2] # <<>> /\ IF from <= to THEN from <= std /\ std < to ELSE from <= std \/ std < to
        l    == Localtime(t, tz)
    IN \/ std < 0
       \/ EndsWithIt(year, tz.start) \/ EndsWithIt(year, tz.end)
       \/ TooEarly(std, tz.start, from) \/ TooEarly(std, tz.end, to)
       \/ /\ l.isdst = (IF dst THEN 1 ELSE 0)
          /\ Seconds(l) = std + IF dst THEN tz.adjust ELSE 0
          /\ Converted("z", l, tz).s = tz.tzname[IF dst THEN 2 ELSE 1]

RECURSIVE Number(_)
Number(s) == IF s = <<>> THEN 0 ELSE 10 * Number(SubSeq(s, 1, Len(s) - 1)) + s[Len(s)]

Shown(c, tm) == Converted(c, tm, Initially).s
Sundays(tm)  == {d \in 0 .. tm.yday : (tm.wday + 7 * 53 - (tm.yday - d)) % 7 = 0}

(* Every conversion tells what it is for, but %w and %W, which are exchanged,*)
(* and %x after 1999; a text that does not fit is not stored.                *)
StrftimeRight(tm, maxsize) ==
    LET format == <<<<"%", "A">>, <<" ">>, <<"%", "H">>, <<":">>, <<"%", "j">>>>
        size   == Full[tm.wday + 1] + 7
        k      == Strftime(format, tm, Initially, maxsize, 0, <<>>)
        noon   == IF Shown("p", tm) = <<"PM">> THEN 12 ELSE 0
    IN /\ Seconds([year |-> Number(Shown("Y", tm)) - 1900, mon |-> Number(Shown("m", tm)) - 1,
                   mday |-> Number(Shown("d", tm)), hour |-> Number(Shown("H", tm)),
                   min |-> Number(Shown("M", tm)), sec |-> Number(Shown("S", tm))]) = Seconds(tm)
       /\ Number(Shown("I", tm)) \in 1 .. 12
       /\ (Number(Shown("I", tm)) % 12) + noon = tm.hour
       /\ Number(Shown("y", tm)) = tm.year % 100
       /\ Number(Shown("j", tm)) = 1 + Civil(tm.year + 1900, tm.mon + 1, tm.mday) - Civil(tm.year + 1900, 1, 1)
       /\ Number(Shown("U", tm)) = Cardinality(Sundays(tm))
       /\ Len(Asctime(tm)) = 24 - 4
       /\ SubSeq(Asctime(tm), 8, 15) = Shown("X", tm)
       /\ SubSeq(Asctime(tm), 17, 20) = Shown("Y", tm)
       /\ k.n = (IF size < maxsize THEN size ELSE 0)
       /\ size < maxsize => k.s = Shown("A", tm) \o <<" ">> \o Shown("H", tm) \o <<":">> \o Shown("j", tm)
=============================================================================

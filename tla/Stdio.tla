------------------------------- MODULE Stdio --------------------------------
(* The streams of the library (libc/include/stdio.h, fopen.c, __fillbuf.c,   *)
(* __flushbuf.c, fflush.c, fseek.c and the calls built on them).             *)
(*                                                                           *)
(* A world w is [heap, disk, typed, fds, file, tab, cleanup]: the heap, the  *)
(* contents of each file that exists, what will be typed at the terminal,    *)
(* the descriptors, the FILE at each pointer, __iotab, and whether           *)
(* __exit_cleanup is set. A call gives [w, r]: the world after it and what   *)
(* it returns. Its parameter o says how the system calls it makes turn out:  *)
(* "ok", "short" (a read or a write transfers one byte), "fail", "partial"   *)
(* (the first write transfers one byte and the next fails).                  *)
EXTENDS Heap, SequencesExt

CONSTANTS Bufsiz,    \* BUFSIZ
          FopenMax,  \* FOPEN_MAX
          FileSize,  \* sizeof(FILE)
          Newline

ASSUME StdioAssumption ==
    /\ {Bufsiz, FileSize} \subseteq Nat \ {0}
    /\ FopenMax \in Nat /\ FopenMax >= 2
    /\ Newline \in Int

EOF == -1
Reply(w, r) == [w |-> w, r |-> r]
SetFile(w, p, f) == [w EXCEPT !.file[p] = f]
Extended(f, x, y) == [z \in DOMAIN f \cup {x} |-> IF z = x THEN y ELSE f[z]]
Slots == 1 .. FopenMax

Stdin == -1
Stdout == -2
Terminal == "tty"
ClosedFd == [name |-> "", pos |-> 0]

FileRec(fd, flags) ==
    [count |-> 0, fd |-> fd, flags |-> flags, bufsiz |-> 0, buf |-> Null, ptr |-> 0, data |-> <<>>]

StdStreams == [p \in {Stdin, Stdout} |->
                 IF p = Stdin THEN FileRec(0, {"READ"}) ELSE FileRec(1, {"WRITE"})]

-----------------------------------------------------------------------------
(* The system *)

(* Does Op with what e comes to.                                             *)
With(e, Op(_)) == CHOOSE r \in {Op(x) : x \in {e}} : TRUE

Min2(a, b) == IF a < b THEN a ELSE b
Max2(a, b) == IF a > b THEN a ELSE b

(* s with t written over it from offset at on.                               *)
Overlay(s, at, t) ==
    [i \in 1 .. Max2(Len(s), at + Len(t)) |->
        IF i > at /\ i <= at + Len(t) THEN t[i - at] ELSE IF i <= Len(s) THEN s[i] ELSE 0]

(* n bytes of b reach descriptor fd.                                         *)
Transfer(w, fd, b) ==
    LET d == w.fds[fd]
        s == w.disk[d.name]
    IN IF d.name = Terminal THEN [w EXCEPT !.disk[Terminal] = s \o b]
       ELSE [w EXCEPT !.disk[d.name] = Overlay(s, d.pos, b), !.fds[fd].pos = d.pos + Len(b)]

(* write(): what it returns.                                                 *)
SysWrite(w, fd, b, o) ==
    IF o = "fail" THEN Reply(w, -1)
    ELSE LET n == IF o = "ok" THEN Len(b) ELSE 1
         IN Reply(Transfer(w, fd, SubSeq(b, 1, n)), n)

(* read(): a terminal gives a line at a time.                                *)
SysRead(w, fd, n, o) ==
    LET d    == w.fds[fd]
        rest == IF d.name = Terminal THEN w.typed
                ELSE SubSeq(w.disk[d.name], d.pos + 1, Len(w.disk[d.name]))
        eol  == {i \in DOMAIN rest : rest[i] = Newline}
        line == IF d.name = Terminal /\ eol # {} THEN CHOOSE i \in eol : \A j \in eol : i <= j
                ELSE Len(rest)
        k    == Min2(line, IF o = "ok" THEN n ELSE 1)
    IN IF o = "fail" THEN [w |-> w, r |-> -1, b |-> <<>>]
       ELSE [w |-> IF d.name = Terminal
                   THEN [w EXCEPT !.typed = SubSeq(rest, k + 1, Len(rest))]
                   ELSE [w EXCEPT !.fds[fd].pos = d.pos + k],
             r |-> k, b |-> SubSeq(rest, 1, k)]

Lseek(w, fd, offset, whence) ==
    LET d  == w.fds[fd]
        to == offset + (CASE whence = "SET" -> 0 [] whence = "CUR" -> d.pos
                          [] OTHER -> Len(w.disk[d.name]))
    IN IF d.name = Terminal \/ to < 0 THEN Reply(w, -1)
       ELSE Reply([w EXCEPT !.fds[fd].pos = to], to)

FreeFds(w) == {fd \in DOMAIN w.fds : w.fds[fd] = ClosedFd}
SysOpen(w, name) ==
    LET fd == CHOOSE x \in FreeFds(w) : \A y \in FreeFds(w) : x <= y
    IN IF name \notin DOMAIN w.disk \/ FreeFds(w) = {} THEN Reply(w, -1)
       ELSE Reply([w EXCEPT !.fds[fd] = [name |-> name, pos |-> 0]], fd)
Creat(w, name, o) ==
    IF o = "fail" THEN Reply(w, -1)
    ELSE SysOpen([w EXCEPT !.disk = Extended(@, name, <<>>)], name)
SysClose(w, fd) == [w EXCEPT !.fds[fd] = ClosedFd]

-----------------------------------------------------------------------------
(* Buffers *)

Flagged(f, x) == x \in f.flags
Raise(f, x)   == [f EXCEPT !.flags = @ \cup {x}]
Drop(f, xs)   == [f EXCEPT !.flags = @ \ xs]
Update(f)     == {"READ", "WRITE"} \subseteq f.flags
Fail(w, p)    == Reply(SetFile(w, p, Raise(w.file[p], "ERR")), EOF)

(* do_write: a partial write is taken up where it ended.                     *)
DoWrite(w, fd, b, o) ==
    CASE o = "fail" -> Reply(w, FALSE)
      [] o = "partial" /\ Len(b) > 1 -> Reply(Transfer(w, fd, SubSeq(b, 1, 1)), FALSE)
      [] OTHER -> Reply(Transfer(w, fd, b), TRUE)

(* In append mode every write is at the end of the file.                     *)
ToEnd(w, f) == IF Flagged(f, "APPEND") THEN Lseek(w, f.fd, 0, "END") ELSE Reply(w, 0)

FlushInput(w, p) ==
    LET f == [w.file[p] EXCEPT !.count = 0]
        s == Lseek(w, f.fd, IF Flagged(f, "NBF") THEN 0 ELSE -w.file[p].count, "CUR")
        g == IF Flagged(f, "WRITE") THEN Drop(f, {"READING", "WRITING"}) ELSE f
    IN IF s.r = -1 THEN Fail(SetFile(s.w, p, f), p)
       ELSE Reply(SetFile(s.w, p, [g EXCEPT !.ptr = 0]), 0)

FlushOutput(w, p, o) ==
    LET f == IF Flagged(w.file[p], "READ") THEN Drop(w.file[p], {"WRITING"}) ELSE w.file[p]
        b == SubSeq(f.data, 1, f.ptr)
        k == SetFile(w, p, [f EXCEPT !.ptr = 0])
        s == ToEnd(k, f)
        t == SysWrite(s.w, f.fd, b, o)
        l == SetFile(t.w, p, [f EXCEPT !.ptr = 0, !.count = 0])
    IN CASE b = <<>> -> Reply(k, 0)
         [] b # <<>> /\ s.r = -1 -> Fail(k, p)
         [] OTHER -> IF t.r = Len(b) THEN Reply(l, 0) ELSE Fail(l, p)

(* fflush of one stream.                                                     *)
Fflush(w, p, o) ==
    LET f == w.file[p]
    IN CASE f.buf = Null \/ f.flags \cap {"READING", "WRITING"} = {} -> Reply(w, 0)
         [] f.buf # Null /\ Flagged(f, "READING") -> FlushInput(w, p)
         [] f.buf # Null /\ ~Flagged(f, "READING") /\ Flagged(f, "WRITING") ->
              IF Flagged(f, "NBF") THEN Reply(w, 0) ELSE FlushOutput(w, p, o)

(* The streams in __iotab that have all the flags, one after the other: the  *)
(* world after the first i slots.                                            *)
FlushSlot(w, i, flags, o) ==
    IF w.tab[i] # Null /\ flags \subseteq w.file[w.tab[i]].flags
    THEN Fflush(w, w.tab[i], o).w ELSE w
Flushing(w, flags, o) ==
    LET after[i \in 0 .. FopenMax] ==
          IF i = 0 THEN w ELSE With(after[i - 1], LAMBDA k : FlushSlot(k, i, flags, o))
    IN after
FlushAll(w, flags, o) == Flushing(w, flags, o)[FopenMax]

(* The buffer that a stream gets at its first transfer, if there is memory.  *)
GetBuffer(w, p) ==
    LET m == Malloc(w.heap, Bufsiz)
    IN CASE Flagged(w.file[p], "NBF") \/ w.file[p].buf # Null -> w
         [] ~(Flagged(w.file[p], "NBF") \/ w.file[p].buf # Null) /\ m.ptr = Null ->
              SetFile(w, p, Raise(w.file[p], "NBF"))
         [] OTHER ->
              [w EXCEPT !.heap = m.heap,
                        !.file[p] = [Raise(w.file[p], "MYBUF")
                                       EXCEPT !.buf = m.ptr, !.bufsiz = Bufsiz, !.ptr = 0,
                                              !.data = [i \in 1 .. Bufsiz |-> 0]]]

(* The static "buffer" of an unbuffered stream.                              *)
Static == -3
OneByte(f) == IF f.buf # Null THEN f ELSE [f EXCEPT !.buf = Static, !.bufsiz = 1, !.data = <<0>>]

(* __fillbuf: the next byte, when the buffer has none.                       *)
CannotRead(f) == Flagged(f, "EOF") \/ Flagged(f, "ERR")
FillBytes(w, p, o) ==
    LET g == w.file[p]
    IN With(SysRead(w, g.fd, g.bufsiz, o), LAMBDA s :
         IF s.r <= 0
         THEN Reply(SetFile(s.w, p, Raise([g EXCEPT !.count = s.r], IF s.r = 0 THEN "EOF" ELSE "ERR")), EOF)
         ELSE Reply(SetFile(s.w, p, [g EXCEPT !.data = Overlay(g.data, 0, s.b),
                                              !.count = s.r - 1, !.ptr = 1]), s.b[1]))

(* Line buffered output comes out before. (Fault: it does not.)              *)
Flushed_Fault(w, o) == w
Flushed(w, o) == FlushAll(w, {"LBF", "WRITING"}, o)

Fillbuf(w, p, o) ==
    LET f == [w.file[p] EXCEPT !.count = 0]
    IN CASE f.fd < 0 \/ CannotRead(f) -> Reply(SetFile(w, p, f), EOF)
         [] f.fd >= 0 /\ ~CannotRead(f) /\ (~Flagged(f, "READ") \/ Flagged(f, "WRITING")) ->
              Fail(SetFile(w, p, f), p)
         [] OTHER ->
              With(GetBuffer(SetFile(w, p, Raise(f, "READING")), p), LAMBDA k1 :
                With(Flushed(k1, o), LAMBDA k2 :
                  FillBytes(SetFile(k2, p, [OneByte(k2.file[p]) EXCEPT !.ptr = 0]), p, o)))

(* __flushbuf: c goes out, or into the buffer that has room again.           *)
Unbuffered(w, p, c, o) ==
    LET s == ToEnd(w, w.file[p])
        t == SysWrite(s.w, w.file[p].fd, <<c>>, o)
        k == SetFile(w, p, [w.file[p] EXCEPT !.count = 0])
    IN IF s.r = -1 THEN Fail(k, p)
       ELSE LET l == SetFile(t.w, p, k.file[p]) IN IF t.r = 1 THEN Reply(l, c) ELSE Fail(l, p)

Store(f, c) == [f EXCEPT !.data = Overlay(f.data, f.ptr, <<c>>), !.ptr = f.ptr + 1]

LineBuffered(w, p, c, o) ==
    LET f == Store(w.file[p], c)
        k == SetFile(w, p, [f EXCEPT !.ptr = 0, !.count = 0])
        s == ToEnd(k, f)
        t == DoWrite(s.w, f.fd, SubSeq(f.data, 1, -f.count), o)
    IN IF c # Newline /\ f.count # -f.bufsiz THEN Reply(SetFile(w, p, f), c)
       ELSE IF s.r = -1 THEN Fail(k, p)
       ELSE IF t.r THEN Reply(t.w, c) ELSE Fail(t.w, p)

(* c is the first byte in the buffer.                                        *)
Afresh(f, c) == [f EXCEPT !.count = f.bufsiz - 1, !.ptr = 1, !.data = Overlay(f.data, 0, <<c>>)]

FullyBuffered_Fault(w, p, c, o) ==
    LET f == w.file[p]
        b == SubSeq(f.data, 1, f.ptr)
        g == Afresh(f, c)
        t == DoWrite(w, f.fd, b, o)
    IN IF b = <<>> THEN Reply(SetFile(w, p, g), c)
       ELSE IF t.r THEN Reply(SetFile(t.w, p, g), c) ELSE Fail(SetFile(t.w, p, g), p)
FullyBuffered(w, p, c, o) ==
    LET f == w.file[p]
        b == SubSeq(f.data, 1, f.ptr)
        g == Afresh(f, c)
        s == ToEnd(w, f)
        t == DoWrite(s.w, f.fd, b, o)
    IN IF b = <<>> THEN Reply(SetFile(w, p, g), c)
       ELSE IF s.r = -1 THEN Fail(SetFile(w, p, [g EXCEPT !.data = f.data]), p)
       ELSE IF t.r THEN Reply(SetFile(t.w, p, g), c) ELSE Fail(SetFile(t.w, p, g), p)

(* f is the stream as it was before it got a buffer.                         *)
PutInBuffer(w, f, p, c, o) ==
    LET g    == w.file[p]
        got  == f.buf = Null /\ g.buf # Null
        line == Flagged(f, "LBF") \/ (got /\ w.fds[f.fd].name = Terminal /\ p = Stdout)
        l    == IF ~got THEN w
                ELSE SetFile(w, p, [(IF line THEN Raise(g, "LBF") ELSE g)
                                      EXCEPT !.count = IF line THEN -1 ELSE Bufsiz - 1])
    IN With(l, LAMBDA v : IF Flagged(g, "NBF") THEN Unbuffered(v, p, c, o)
                          ELSE IF line THEN LineBuffered(v, p, c, o)
                          ELSE FullyBuffered(v, p, c, o))

Flushbuf(w, p, c, o) ==
    LET k == [w EXCEPT !.cleanup = TRUE]
        f == w.file[p]
    IN CASE f.fd < 0 -> Reply(k, c)
         [] f.fd >= 0 /\ (~Flagged(f, "WRITE") \/ (Flagged(f, "READING") /\ ~Flagged(f, "EOF"))) ->
              Reply(k, EOF)
         [] OTHER -> With(GetBuffer(SetFile(k, p, Raise(Drop(f, {"READING"}), "WRITING")), p),
                          LAMBDA h : PutInBuffer(h, f, p, c, o))

-----------------------------------------------------------------------------
(* The calls *)

(* The macro getc: the byte that _ptr is at, while _count says there is one. *)
Getc(w, p, o) ==
    LET f == w.file[p]
    IN IF f.count > 0
       THEN Reply(SetFile(w, p, [f EXCEPT !.count = @ - 1, !.ptr = @ + 1]), f.data[f.ptr + 1])
       ELSE With(SetFile(w, p, [f EXCEPT !.count = @ - 1]), LAMBDA v : Fillbuf(v, p, o))

(* The macro putc.                                                           *)
Putc(w, p, c, o) ==
    LET f == [w.file[p] EXCEPT !.count = @ - 1]
    IN IF f.count >= 0 THEN Reply(SetFile(w, p, Store(f, c)), c)
       ELSE With(SetFile(w, p, f), LAMBDA v : Flushbuf(v, p, c, o))

(* ungetc: where the byte came from, or the first place of an empty buffer.  *)
Ungetc(w, p, c) ==
    LET f  == w.file[p]
        at == IF f.ptr = 0 THEN 1 ELSE f.ptr
    IN IF c = EOF \/ ~Flagged(f, "READING") \/ (f.ptr = 0 /\ f.count # 0) THEN Reply(w, EOF)
       ELSE Reply(SetFile(w, p, [f EXCEPT !.data = Overlay(f.data, at - 1, <<c>>),
                                           !.ptr = at - 1, !.count = @ + 1]), c)

(* gets and fgets, fread: bytes until there are n of them, or none is left,  *)
(* or one is in stop. [w, s, r]: what was read and the last value of getc.   *)
GatherOne(k, p, stop, o) ==
    IF k.r = EOF \/ k.r \in stop THEN k
    ELSE With(Getc(k.w, p, o), LAMBDA g :
                [w |-> g.w, r |-> g.r, s |-> IF g.r = EOF THEN k.s ELSE Append(k.s, g.r)])
Gathering(w, p, n, stop, o) ==
    LET after[i \in 0 .. n] ==
          IF i = 0 THEN [w |-> w, r |-> 0, s |-> <<>>]
          ELSE With(after[i - 1], LAMBDA k : GatherOne(k, p, stop, o))
    IN after
Gather(w, p, n, stop, o) == Gathering(w, p, n, stop, o)[n]

(* fwrite, fputs: [w, n, r], the number of bytes putc took.                  *)
PutOne(k, p, c, o) ==
    IF k.r = EOF THEN k
    ELSE With(Putc(k.w, p, c, o), LAMBDA g :
                [w |-> g.w, r |-> g.r, n |-> IF g.r = EOF THEN k.n ELSE k.n + 1])
Putting(w, p, s, o) ==
    LET after[i \in 0 .. Len(s)] ==
          IF i = 0 THEN [w |-> w, n |-> 0, r |-> 0]
          ELSE With(after[i - 1], LAMBDA k : PutOne(k, p, s[i], o))
    IN after
PutAll(w, p, s, o) == Putting(w, p, s, o)[Len(s)]

Nothing == -2       \* a null pointer for an answer
(* The answer to a request for a line: what was gathered, s of it stored. At *)
(* the end of the file what there is, after an error nothing.                *)
Line(k, p, s) ==
    [w |-> k.w, s |-> s,
     r |-> IF k.r = EOF /\ (~Flagged(k.w.file[p], "EOF") \/ k.s = <<>>) THEN Nothing ELSE Len(k.s)]
(* fgets *)
Fgets(w, p, n, o) == With(Gather(w, p, n - 1, {Newline}, o), LAMBDA k : Line(k, p, k.s))
(* gets: the same for stdin, without the newline.                            *)
Gets(w, room, o) ==
    With(Gather(w, Stdin, room, {Newline}, o),
         LAMBDA k : Line(k, Stdin, SelectSeq(k.s, LAMBDA c : c # Newline)))
(* fread, fwrite: the number of whole members.                               *)
Fread(w, p, size, nmemb, o) ==
    LET k == Gather(w, p, size * nmemb, {}, o)
    IN [w |-> k.w, s |-> k.s, r |-> IF size = 0 THEN 0 ELSE Len(k.s) \div size]
Fwrite(w, p, s, size, o) ==
    LET k == PutAll(w, p, s, o) IN [w |-> k.w, n |-> k.n, r |-> k.n \div size]
Fputs(w, p, s, o) == PutAll(w, p, s, o)
Puts(w, s, o)     == PutAll(w, Stdout, Append(s, Newline), o)

(* fseek: an error of the flush is only a flag of the stream.                *)
Fseek_Fault(w, p, offset, whence, o) ==
    LET f == Drop(w.file[p], {"EOF", "ERR"})
        k == CASE Flagged(f, "READING") -> SetFile(w, p, [f EXCEPT !.count = 0])
               [] ~Flagged(f, "READING") /\ Flagged(f, "WRITING") -> Fflush(SetFile(w, p, f), p, o).w
               [] OTHER -> SetFile(w, p, f)
        s == Lseek(k, f.fd, offset, whence)
        g == s.w.file[p]
    IN Reply(SetFile(s.w, p, [(IF Update(g) THEN Drop(g, {"READING", "WRITING"}) ELSE g)
                                EXCEPT !.ptr = 0]),
             IF s.r = -1 THEN -1 ELSE 0)
Fseek(w, p, offset, whence, o) ==
    LET f == Drop(w.file[p], {"EOF", "ERR"})
        adjust == IF Flagged(f, "READING") /\ whence = "CUR" /\ f.buf # Null /\ ~Flagged(f, "NBF")
                  THEN f.count ELSE 0
        k == CASE Flagged(f, "READING") -> SetFile(w, p, [f EXCEPT !.count = 0])
               [] ~Flagged(f, "READING") /\ Flagged(f, "WRITING") -> Fflush(SetFile(w, p, f), p, o).w
               [] OTHER -> SetFile(w, p, f)
        s == Lseek(k, f.fd, offset - adjust, whence)
        g == s.w.file[p]
    IN Reply(SetFile(s.w, p, [(IF Update(g) THEN Drop(g, {"READING", "WRITING"}) ELSE g)
                                EXCEPT !.ptr = 0]),
             IF s.r = -1 THEN -1 ELSE 0)

Ftell(w, p) ==
    LET f == w.file[p]
        s == Lseek(w, f.fd, 0, "CUR")
    IN CASE s.r = -1 -> -1
         [] s.r # -1 /\ Flagged(f, "READING") -> s.r - f.count
         [] s.r # -1 /\ ~Flagged(f, "READING") ->
              s.r + IF Flagged(f, "WRITING") /\ f.buf # Null /\ ~Flagged(f, "NBF") THEN f.ptr ELSE 0

Rewind(w, p, o) ==
    LET k == Fseek(w, p, 0, "SET", o).w IN Reply(SetFile(k, p, Drop(k.file[p], {"ERR", "EOF"})), 0)
Fgetpos(w, p) == Ftell(w, p)
Fsetpos(w, p, pos, o) == Fseek(w, p, pos, "SET", o)

(* The modes of fopen; each may be followed by "+".                          *)
ModeFlags(mode, plus) ==
    LET base == CASE mode = "r" -> {"READ", "READING"}
                  [] mode = "w" -> {"WRITE", "WRITING"}
                  [] mode = "a" -> {"WRITE", "WRITING", "APPEND"}
    IN IF plus THEN (base \cup {"READ", "WRITE"}) \ {"READING", "WRITING"} ELSE base

(* fopen: a slot of __iotab, then the file, then the memory for the FILE.    *)
Fopen(w, name, mode, plus, o) ==
    LET slots == {i \in Slots : w.tab[i] = Null}
        slot  == CHOOSE i \in slots : \A j \in slots : i <= j
        first == IF mode = "w" THEN Reply(w, -1) ELSE SysOpen(w, name)
        made  == Creat(w, name, o)
        fd    == IF mode # "r" /\ first.r < 0
                 THEN IF made.r > 0 THEN SysOpen(SysClose(made.w, made.r), name) ELSE made
                 ELSE first
        m     == Malloc(fd.w.heap, FileSize)
    IN CASE slots = {} -> Reply(w, Null)
         [] slots # {} /\ fd.r < 0 -> Reply(fd.w, Null)
         [] slots # {} /\ fd.r >= 0 /\ m.ptr = Null -> Reply(SysClose(fd.w, fd.r), Null)
         [] OTHER -> Reply([fd.w EXCEPT !.heap = m.heap, !.tab[slot] = m.ptr,
                                        !.file = Extended(@, m.ptr, FileRec(fd.r, ModeFlags(mode, plus)))],
                           m.ptr)

Discard(w, p) == IF p < 0 THEN w
                 ELSE [w EXCEPT !.heap = MemFree(@, p),
                                !.file = [q \in DOMAIN @ \ {p} |-> @[q]]]

Fclose_Fault(w, p, o) ==
    LET k == [w EXCEPT !.tab = [i \in Slots |-> IF @[i] = p THEN Null ELSE @[i]]]
        s == Fflush(k, p, o)
        l == SysClose(s.w, s.w.file[p].fd)
    IN IF \A i \in Slots : w.tab[i] # p THEN Reply(w, EOF)
       ELSE Reply(Discard(l, p), s.r)

(* fclose: the buffer goes if it is the library's, the FILE if it was opened.*)
Fclose(w, p, o) ==
    LET k == [w EXCEPT !.tab = [i \in Slots |-> IF @[i] = p THEN Null ELSE @[i]]]
        s == Fflush(k, p, o)
        f == s.w.file[p]
        l == SysClose(s.w, f.fd)
        b == IF Flagged(f, "MYBUF") THEN [l EXCEPT !.heap = MemFree(@, f.buf)] ELSE l
    IN IF \A i \in Slots : w.tab[i] # p THEN Reply(w, EOF)
       ELSE Reply(Discard(b, p), s.r)

(* setvbuf: buf is Null or memory of the program.                            *)
Setvbuf(w, p, buf, mode, size) ==
    LET f    == w.file[p]
        k    == IF Flagged(f, "MYBUF") THEN [w EXCEPT !.heap = MemFree(@, f.buf)] ELSE w
        g    == Drop(f, {"MYBUF", "NBF", "LBF"})
        want == buf = Null /\ mode # "NBF" /\ size > 0
        m    == Malloc(k.heap, size)
        got  == want /\ m.ptr # Null
        b    == IF got THEN m.ptr ELSE buf
        bad  == (buf # Null /\ size = 0) \/ (buf = Null /\ mode # "NBF" /\ ~got)
        n    == IF b = Null THEN 1 ELSE size
    IN Reply([k EXCEPT !.cleanup = TRUE,
                       !.heap = IF got THEN m.heap ELSE @,
                       !.file[p] = [(IF got THEN Raise(g, "MYBUF") ELSE g)
                                      EXCEPT !.buf = b, !.count = 0, !.ptr = 0, !.bufsiz = n,
                                             !.data = [i \in 1 .. n |-> 0],
                                             !.flags = @ \cup (IF mode = "FBF" THEN {} ELSE {mode})]],
             IF bad THEN EOF ELSE 0)
Setbuf(w, p, buf) == Setvbuf(w, p, buf, IF buf = Null THEN "NBF" ELSE "FBF", Bufsiz)

(* exit: __stdio_cleanup flushes the streams that are being written.         *)
Cleanup(w, o) == IF w.cleanup THEN FlushAll(w, {"WRITING"}, o) ELSE w
=============================================================================

-------------------------------- MODULE Libc --------------------------------
(* A program on the library: it allocates and frees memory, or has a stream  *)
(* on a file, or talks to a terminal through stdin and stdout, or calls one  *)
(* of the functions that keep no state. It keeps to                          *)
(* the rules of C: a stream that is read and written is positioned (or, if   *)
(* it is buffered, flushed) in between, and buffers are chosen first.        *)
EXTENDS Stdio

CONSTANTS Name,       \* the file
          Contents,   \* what it may have in it at first
          Limits,     \* where the memory may end
          Texts,      \* what may be written
          Typed,      \* what may be typed
          Requests,   \* sizes the program asks malloc for
          MaxCalls,
          UserBuf,    \* the address of a buffer of the program
          Jobs        \* what it may compute

ASSUME LibcAssumption ==
    /\ Name \notin {"", Terminal}
    /\ Limits \subseteq Int
    /\ Requests \subseteq Nat
    /\ MaxCalls \in Nat
    /\ \A s \in Texts : s \in Seq(Int)

VARIABLES scene,    \* "file", "terminal", "memory", "text"
          w,        \* the world
          fp,       \* the stream on the file
          mem,      \* the regions the program has, with their sizes
          call, got, append, trouble, \* what Stream is about
          dir,      \* what the stream was last used for: "", "in", "out"
          said,     \* what the program wrote to the terminal
          job,      \* what was computed
          calls

vars == <<scene, w, fp, mem, call, got, append, trouble, dir, said, job, calls>>

Init ==
    /\ scene \in {"file", "terminal", "memory", "text"}
    /\ \E limit \in Limits, text \in Contents, typed \in Typed :
         /\ scene # "file" => text = <<>>
         /\ scene # "terminal" => typed = <<>>
         /\ scene = "text" => \A l \in Limits : limit <= l
         /\ w = [heap |-> EmptyHeap(limit),
                 disk |-> [f \in {Terminal, Name} |-> IF f = Name THEN text ELSE <<>>],
                 typed |-> typed,
                 fds |-> [i \in 0 .. 3 |-> IF i < 3 THEN [name |-> Terminal, pos |-> 0]
                                           ELSE ClosedFd],
                 file |-> StdStreams,
                 tab |-> [i \in Slots |-> CASE i = 1 -> Stdin [] i = 2 -> Stdout [] OTHER -> Null],
                 cleanup |-> FALSE]
    /\ fp = Null
    /\ mem = <<>>
    /\ call = [op |-> "none"]
    /\ got = <<>>
    /\ append = FALSE
    /\ trouble = FALSE
    /\ dir = ""
    /\ said = <<>>
    /\ job = [op |-> "none"]
    /\ calls = 0

Outcomes == {"ok", "short", "fail", "partial"}
Counted  == calls < MaxCalls /\ calls' = calls + 1

-----------------------------------------------------------------------------
(* The stream on the file *)

(* The call c leaves the world v; bad if it reported an error.               *)
Did(c, v, bad) ==
    /\ scene = "file"
    /\ Counted
    /\ w' = v
    /\ call' = c
    /\ trouble' = (trouble \/ bad \/ (fp # Null /\ fp \in DOMAIN v.file /\ Flagged(v.file[fp], "ERR")))
    /\ UNCHANGED <<scene, mem, said, job>>

Using == fp # Null /\ ~trouble
File  == w.file[fp]

OpenFile(mode, plus, o) ==
    /\ fp = Null
    /\ ~trouble
    /\ o \in {"ok", "fail"}
    /\ LET k == Fopen(w, Name, mode, plus, o)
       IN /\ Did([op |-> "open", mode |-> mode], k.w, k.r = Null)
          /\ fp' = k.r
          /\ append' = (k.r # Null /\ mode = "a")
    /\ dir' = "new"
    /\ UNCHANGED got

(* setvbuf and setbuf, before anything else. An unbuffered stream that is    *)
(* given a buffer uses it for input, and loses its place in fseek.           *)
Setbuffer(mode, buf) ==
    /\ Using
    /\ mode = "NBF" => buf = Null
    /\ dir = "new"
    /\ LET k == IF mode = "FBF" /\ buf # Null THEN Setbuf(w, fp, buf)
                ELSE Setvbuf(w, fp, buf, mode, Bufsiz)
       IN Did([op |-> "flush"], k.w, k.r = EOF)
    /\ dir' = ""
    /\ UNCHANGED <<fp, append, got>>

AtEnd    == call.op = "get" /\ Len(got) < call.n /\ ~call.line /\ Flagged(File, "EOF")
MayWrite == Using /\ Flagged(File, "WRITE") /\ (dir # "in" \/ AtEnd)
MayRead  == Using /\ Flagged(File, "READ") /\ dir # "out"

(* putc, fputs or fwrite.                                                    *)
Write(how, s, o) ==
    /\ MayWrite
    /\ how = "fwrite" => Len(s) % 2 = 0
    /\ how = "putc" => Len(s) = 1
    /\ \E k \in {IF how = "fwrite" THEN Fwrite(w, fp, s, 2, o) ELSE Fputs(w, fp, s, o)} :
         Did([op |-> "put", s |-> s], k.w,
             IF how = "fwrite" THEN k.r # Len(s) \div 2 ELSE k.r = EOF)
    /\ dir' = "out"
    /\ UNCHANGED <<fp, append, got>>

(* getc, fgets or fread of n bytes.                                          *)
Read(how, n, o) ==
    /\ MayRead
    /\ o # "partial"
    /\ \E k \in {CASE how = "fgets" -> Fgets(w, fp, n + 1, o)
                  [] how = "fread" -> Fread(w, fp, 1, n, o)
                  [] how = "getc" -> Gather(w, fp, 1, {}, o)} :
         /\ Did([op |-> "get", n |-> IF how = "getc" THEN 1 ELSE n,
                 line |-> how = "fgets" /\ k.s # <<>> /\ Last(k.s) = Newline], k.w, FALSE)
         /\ got' = k.s
    /\ dir' = "in"
    /\ UNCHANGED <<fp, append>>

(* ungetc of the byte that was read last.                                    *)
PushBack ==
    /\ Using
    /\ dir = "in"
    /\ call.op = "get"
    /\ got # <<>>
    /\ Did([op |-> "unget"], Ungetc(w, fp, Last(got)).w, FALSE)
    /\ UNCHANGED <<fp, append, got, dir>>

Pushed == Flagged(File, "NBF") /\ File.count > 0

(* fseek, fsetpos or rewind, which clears the error of its own flush. After  *)
(* ungetc, an unbuffered stream does not take the pushed byte into account.  *)
Position(whence, offset, o) ==
    /\ Using
    /\ whence = "CUR" => ~Pushed
    /\ \E k \in {CASE whence = "CUR" \/ whence = "END" -> Fseek(w, fp, offset, whence, o)
                  [] whence = "SET" /\ offset = 0 -> Rewind(w, fp, o)
                  [] OTHER -> Fsetpos(w, fp, offset, o)} :
         Did([op |-> "seek", whence |-> whence, offset |-> offset], k.w,
             k.r = -1 \/ (whence = "SET" /\ offset = 0 /\ o # "ok"))
    /\ dir' = IF dir = "new" THEN "new" ELSE ""
    /\ UNCHANGED <<fp, append, got>>

(* ftell and fgetpos; in append mode they answer as if the end had not moved.*)
WhereIs ==
    /\ Using
    /\ ~append
    /\ Did([op |-> "tell", r |-> Fgetpos(w, fp)], w, FALSE)
    /\ UNCHANGED <<fp, append, got, dir>>

(* fflush of the stream, or of all. It does not end the writing of a stream  *)
(* that has no buffer, and leaves a stream that was at its end there when it *)
(* takes back a pushed byte.                                                 *)
FlushStream(all, o) ==
    /\ Using
    /\ ~Pushed
    /\ (dir = "in" /\ Flagged(File, "EOF")) => AtEnd
    /\ LET k == IF all THEN Reply(FlushAll(w, {}, o), 0) ELSE Fflush(w, fp, o)
       IN /\ Did([op |-> "flush"], k.w, k.r = EOF)
          /\ dir' = IF Flagged(k.w.file[fp], "NBF") THEN dir ELSE ""
    /\ UNCHANGED <<fp, append, got>>

CloseFile(o) ==
    /\ fp # Null
    /\ LET k == Fclose(w, fp, o)
       IN Did([op |-> "close"], k.w, k.r = EOF)
    /\ fp' = Null
    /\ append' = FALSE
    /\ dir' = ""
    /\ UNCHANGED got

(* exit, which has nobody to report an error to.                             *)
ExitProgram(o) ==
    /\ fp # Null
    /\ LET k == Cleanup(w, o)
       IN /\ Did([op |-> "close"], [k EXCEPT !.fds = [i \in DOMAIN @ |-> ClosedFd],
                                             !.tab = [i \in Slots |-> Null]],
                 o # "ok")
          /\ calls' = MaxCalls
    /\ fp' = Null
    /\ append' = FALSE
    /\ dir' = "exited"
    /\ UNCHANGED got

-----------------------------------------------------------------------------
(* The terminal *)

Talk(v, s) ==
    /\ scene = "terminal"
    /\ Counted
    /\ w' = v
    /\ said' = said \o s
    /\ UNCHANGED <<scene, fp, mem, call, got, append, trouble, dir, job>>

(* puts, or fputs without a newline.                                         *)
Say(line, s, o) ==
    /\ o \in {"ok", "short"}
    /\ Talk((IF line THEN Puts(w, s, o) ELSE Fputs(w, Stdout, s, o)).w,
          IF line THEN Append(s, Newline) ELSE s)

Hear(o) ==
    /\ o \in {"ok", "short"}
    /\ Talk(Gets(w, 3, o).w, <<>>)

Unwritten(v) == LET f == v.file[Stdout]
                IN IF Flagged(f, "WRITING") /\ f.buf # Null THEN SubSeq(f.data, 1, f.ptr) ELSE <<>>

-----------------------------------------------------------------------------
(* Memory *)

Touch == /\ scene = "memory"
         /\ Counted
         /\ UNCHANGED <<scene, fp, call, got, append, trouble, dir, said, job>>

Allocate(n) ==
    /\ Touch
    /\ LET m == Malloc(w.heap, n)
       IN /\ w' = [w EXCEPT !.heap = m.heap]
          /\ mem' = IF m.ptr = Null THEN mem ELSE Extended(mem, m.ptr, n)

Release(p) ==
    /\ Touch
    /\ p \in DOMAIN mem
    /\ w' = [w EXCEPT !.heap = MemFree(@, p)]
    /\ mem' = [q \in DOMAIN mem \ {p} |-> mem[q]]

-----------------------------------------------------------------------------
(* Functions without state *)

Compute ==
    /\ scene = "text"
    /\ calls = 0
    /\ calls' = 1
    /\ job' \in Jobs
    /\ UNCHANGED <<scene, w, fp, mem, call, got, append, trouble, dir, said>>

-----------------------------------------------------------------------------
Modes == {"r", "w", "a"}
Seeks == {<<"SET", 0>>, <<"SET", 1>>, <<"CUR", -1>>, <<"CUR", 1>>, <<"END", 0>>}

Next ==
    \/ \E mode \in Modes, plus \in BOOLEAN, o \in Outcomes : OpenFile(mode, plus, o)
    \/ \E mode \in {"FBF", "LBF", "NBF"}, buf \in {Null, UserBuf} : Setbuffer(mode, buf)
    \/ \E how \in {"putc", "fputs", "fwrite"}, s \in Texts, o \in Outcomes : Write(how, s, o)
    \/ \E how \in {"getc", "fgets", "fread"}, n \in 1 .. 3, o \in Outcomes : Read(how, n, o)
    \/ PushBack
    \/ \E s \in Seeks, o \in Outcomes : Position(s[1], s[2], o)
    \/ WhereIs
    \/ \E all \in BOOLEAN, o \in Outcomes : FlushStream(all, o)
    \/ \E o \in Outcomes : CloseFile(o)
    \/ \E o \in Outcomes : ExitProgram(o)
    \/ \E line \in BOOLEAN, s \in Texts, o \in Outcomes : Say(line, s, o)
    \/ \E o \in Outcomes : Hear(o)
    \/ \E n \in Requests : Allocate(n)
    \/ \E p \in DOMAIN mem : Release(p)
    \/ Compute

Spec == Init /\ [][Next]_vars

-----------------------------------------------------------------------------
(* What a stream shows its program: the buffer over the file.                *)
Pending == IF fp # Null /\ Flagged(File, "WRITING") /\ ~Flagged(File, "NBF") /\ File.buf # Null
           THEN SubSeq(File.data, 1, File.ptr) ELSE <<>>
Text == LET s == w.disk[Name]
        IN IF Pending = <<>> THEN s
           ELSE Overlay(s, IF Flagged(File, "APPEND") THEN Len(s) ELSE w.fds[File.fd].pos, Pending)
Place == IF fp = Null THEN 0
         ELSE IF Flagged(File, "APPEND") /\ Pending # <<>> THEN Len(Text)
         ELSE w.fds[File.fd].pos + IF Flagged(File, "READING") THEN -File.count ELSE Len(Pending)

Abstract == INSTANCE Stream WITH text <- Text, at <- Place

(* Buffering shows in no answer and in no byte of the file: whatever sizes   *)
(* and kinds of buffers, short transfers and failing allocations there are,  *)
(* the calls do to the file what they would do without a buffer, until an    *)
(* error is reported (__fillbuf.c, __flushbuf.c, fflush.c, fseek.c).         *)
BuffersDoNotShow == Abstract!Spec

(* No two regions overlap, and one that was given has the room that was      *)
(* asked for, unless the size wrapped (malloc.c:64).                         *)
Disjoint ==
    /\ Apart(w.heap)
    /\ \A p \in DOMAIN mem : mem[p] + Header <= SizeMax => Room(w.heap, p) >= mem[p]

(* Memory and descriptors in use are those of the open streams and of the    *)
(* program, and each belongs to one of them: a stream that fails to open, or *)
(* is closed after an error, leaves nothing (fopen.c:114, fclose.c:50).      *)
Owned ==
    LET open  == {p \in DOMAIN w.file : \E i \in Slots : w.tab[i] = p}
        files == {p \in open : p > 0}
        bufs  == {p \in open : Flagged(w.file[p], "MYBUF")}
        given == {w.file[p].buf : p \in bufs}
    IN dir # "exited" =>
         /\ InUse(w.heap) = DOMAIN mem \cup files \cup given
         /\ DOMAIN mem \cap files = {} /\ DOMAIN mem \cap given = {} /\ files \cap given = {}
         /\ \A p, q \in bufs : w.file[p].buf = w.file[q].buf => p = q
         /\ {i \in DOMAIN w.fds : i > 2 /\ w.fds[i] # ClosedFd} = {w.file[p].fd : p \in open} \ {0, 1}

(* Whoever has to type something sees first all that was written before      *)
(* (__fillbuf.c:73), and what is written arrives whole and in order: nothing *)
(* is lost that the error of stdout does not tell of. A flush that writes    *)
(* only a part sets it (fflush.c:93), and drops the rest.                    *)
Prompted ==
    [][~Flagged(w'.file[Stdout], "ERR") =>
         /\ w'.typed # w.typed => w'.disk[Terminal] = said
         /\ w'.disk[Terminal] \o Unwritten(w') = said']_<<w, said>>
=============================================================================

------------------------------- MODULE Stream -------------------------------
(* What a stream promises the program, whatever its buffer does: a file as   *)
(* the program has written it, and a place in it. The program makes one call *)
(* at a time and sees what it read and whether an error has been reported.   *)
EXTENDS Integers, Sequences

VARIABLES call,     \* the last call: [op, and its parameters]
          got,      \* what the last call read
          text,     \* the file, with everything written to the stream
          at,       \* where the next byte is read or written
          append,   \* written bytes go to the end, wherever at is
          trouble   \* an error has been reported

vars == <<call, got, text, at, append, trouble>>

(* s over text from place on.                                                *)
Over(place, s) ==
    [i \in 1 .. (IF place + Len(s) > Len(text) THEN place + Len(s) ELSE Len(text)) |->
        IF i > place /\ i <= place + Len(s) THEN s[i - place]
        ELSE IF i <= Len(text) THEN text[i] ELSE 0]

Init == /\ call = [op |-> "none"]
        /\ got = <<>>
        /\ text \in Seq(Nat)
        /\ at = 0
        /\ append = FALSE
        /\ trouble = FALSE

Open == /\ call'.op = "open"
        /\ append' = (call'.mode = "a")
        /\ text' = IF call'.mode = "w" THEN <<>> ELSE text
        /\ at' = 0

Put == /\ call'.op = "put"
       /\ LET place == IF append THEN Len(text) ELSE at
          IN /\ text' = Over(place, call'.s)
             /\ at' = place + Len(call'.s)
       /\ UNCHANGED append

(* As many bytes as were asked for, while there are any.                     *)
Get == /\ call'.op = "get"
       /\ got' = SubSeq(text, at + 1, at + Len(got'))
       /\ Len(got') = call'.n \/ at + Len(got') >= Len(text) \/ call'.line
       /\ at' = at + Len(got')
       /\ UNCHANGED <<text, append>>

Seek == /\ call'.op = "seek"
        /\ at' = call'.offset + (CASE call'.whence = "SET" -> 0
                                   [] call'.whence = "CUR" -> at
                                   [] OTHER -> Len(text))
        /\ UNCHANGED <<text, append>>

Tell == /\ call'.op = "tell"
        /\ call'.r = at
        /\ UNCHANGED <<text, at, append>>

Unget == /\ call'.op = "unget"
         /\ at' = at - 1
         /\ UNCHANGED <<text, append>>

(* Flushing, a change of buffers: nothing the program could tell.            *)
Flush == /\ call'.op = "flush"
         /\ UNCHANGED <<text, at, append>>

(* fclose and exit: the file is what was written.                            *)
Close == /\ call'.op = "close"
         /\ text' = text
         /\ at' = 0
         /\ append' = FALSE

Next == \/ trouble'
        \/ /\ ~trouble'
           /\ Open \/ Put \/ Get \/ Seek \/ Tell \/ Unget \/ Flush \/ Close

Spec == Init /\ [][Next]_vars
=============================================================================

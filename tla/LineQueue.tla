------------------------------ MODULE LineQueue ------------------------------
(***************************************************************************)
(* What a program may expect of read(0, buf, length): the lines typed on   *)
(* the keyboard in the order they were typed, each once, the part beyond   *)
(* length discarded.  The terminal holds at most Capacity lines nobody has *)
(* read; what it does once more were typed is left open.                   *)
(***************************************************************************)
EXTENDS Naturals, Sequences

CONSTANTS Capacity,      \* lines the terminal can hold
          Lengths        \* the lengths a program asks for

VARIABLES unread,        \* typed lines nobody has read, oldest first
          got,           \* what each read returned, oldest first
          overflown      \* more was typed than the terminal holds

Cut(line, n) == SubSeq(line, 1, IF n < Len(line) THEN n ELSE Len(line))

Init == unread = <<>> /\ got = <<>> /\ overflown = FALSE

(* Another line is complete. *)
Enter ==
    /\ ~overflown /\ Len(unread) < Capacity
    /\ Len(unread') = Len(unread) + 1
    /\ SubSeq(unread', 1, Len(unread)) = unread
    /\ UNCHANGED <<got, overflown>>

Read(n) ==
    /\ ~overflown /\ unread # <<>>
    /\ got' = Append(got, Cut(Head(unread), n))
    /\ unread' = Tail(unread)
    /\ UNCHANGED overflown

Overflow == overflown' = TRUE

Next == Enter \/ (\E n \in Lengths : Read(n)) \/ Overflow

Spec == Init /\ [][Next]_<<unread, got, overflown>>
=============================================================================

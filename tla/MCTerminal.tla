----------------------------- MODULE MCTerminal -----------------------------
(* A terminal of two rows of three characters, and a keyboard with a letter *)
(* and the Enter key.                                                        *)
EXTENDS Terminal

KeyA == 30
Enter == 28

MCKeys == {KeyA, Enter}
MCkbdus == [k \in MCKeys |-> IF k = KeyA THEN "a" ELSE "newline"]
MCkbdus_Shift == [k \in MCKeys |-> IF k = KeyA THEN "A" ELSE "newline"]
=============================================================================

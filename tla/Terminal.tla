------------------------------- MODULE Terminal -------------------------------
(***************************************************************************)
(* The line buffer between the keyboard interrupt (kbInt_handler,          *)
(* term_write) and read(0, ...) (sys_read, term_read): a ring of rows that *)
(* the interrupt fills and the one program that reads drains, without a    *)
(* lock.  Interrupts stay enabled in system calls (SFMASK is never         *)
(* written), so the interrupt, which itself runs to its end, comes between *)
(* any two steps of the read.                                              *)
(*                                                                         *)
(* sys_buffer_write is char[10][128]: a column past the end of a row is a  *)
(* byte of the next row, and past the last row it is memory of others.     *)
(* The echo on the screen is not modelled here.                            *)
(***************************************************************************)
EXTENDS Integers, Sequences, FiniteSets

CONSTANTS Rows,          \* 10
          Width,         \* 128
          Keys,          \* scan codes that stand for a character
          kbdus,         \* scan code -> character
          kbdus_Shift,   \* the same with a shift key down
          Nul, Newline,
          Foreign,       \* what a byte behind the buffer holds
          Lengths,       \* lengths the program asks for
          MaxKeys        \* bound on the characters typed

ASSUME RingOK ==
    /\ Rows \in Nat \ {0} /\ Width \in Nat \ {0}
    /\ Lengths \subseteq Nat \ {0}
    /\ MaxKeys \in Nat

ASSUME CharactersOK ==
    /\ DOMAIN kbdus = Keys /\ DOMAIN kbdus_Shift = Keys
    /\ Nul # Newline /\ Foreign \notin {Nul, Newline}

VARIABLES
    ring,               \* sys_buffer_write, as it lies in memory
    valid,              \* rows that hold a line nobody has read
    soffset, sbuffer,   \* row and column of the next character
    read_ptr,           \* row of the next line to read
    shiftFlag, cntlFlag,
    pc,                 \* where sys_read is: "user" while not in it
    length, read_index, \* parameters of sys_read and term_read
    buf,                \* what term_read has copied to the program's buffer
    typed, line,        \* history: the complete lines, and the current one
    reads,              \* history: the buffer each read returned
    overrun, wide,      \* history: a row was written before its line was
                        \* read; a line was longer than a row
    keystrokes          \* counts the characters typed

vars == <<ring, valid, soffset, sbuffer, read_ptr, shiftFlag, cntlFlag, pc,
          length, read_index, buf, typed, line, reads, overrun, wide,
          keystrokes>>

reader == <<read_ptr, pc, length, read_index, buf, reads>>

written == <<ring, valid, soffset, sbuffer, typed, line, overrun, wide,
             keystrokes>>

Size == Rows * Width

Init ==
    /\ ring = [a \in 0 .. Size - 1 |-> Nul]
    /\ valid = [r \in 0 .. Rows - 1 |-> FALSE]
    /\ soffset = 0 /\ sbuffer = 0 /\ read_ptr = 0
    /\ shiftFlag = FALSE /\ cntlFlag = FALSE
    /\ pc = "user"
    /\ length = 0 /\ read_index = 0 /\ buf = <<>>
    /\ typed = <<>> /\ line = <<>> /\ reads = <<>>
    /\ overrun = FALSE /\ wide = FALSE /\ keystrokes = 0

-----------------------------------------------------------------------------
(* The keyboard interrupt                                                    *)

Pressed == {42, 54}          \* left and right shift go down
Released == {170, 182}       \* and up
CtrlPressed == 29
CtrlReleased == 157

(* Mutant: soffset is not taken modulo the number of rows. *)
EndOfLineNoWrap ==
    /\ valid' = [valid EXCEPT ![soffset] = TRUE]
    /\ soffset' = soffset + 1
    /\ sbuffer' = 0

(* Mutant: the column is not reset. *)
EndOfLineKeepsColumn ==
    /\ valid' = [valid EXCEPT ![soffset] = TRUE]
    /\ soffset' = (soffset + 1) % Rows
    /\ UNCHANGED sbuffer

(* Mutant: the row is marked valid after soffset moved on. *)
EndOfLineMarksNext ==
    /\ soffset' = (soffset + 1) % Rows
    /\ valid' = [valid EXCEPT ![(soffset + 1) % Rows] = TRUE]
    /\ sbuffer' = 0

(* '\n' completes the row. *)
EndOfLine ==
    /\ valid' = [valid EXCEPT ![soffset] = TRUE]
    /\ soffset' = (soffset + 1) % Rows
    /\ sbuffer' = 0

(* One character goes to the ring. *)
term_write(c) ==
    LET a == soffset * Width + sbuffer
    IN  /\ ring' = IF a < Size THEN [ring EXCEPT ![a] = c] ELSE ring
        /\ IF c = Newline
           THEN /\ EndOfLine
                /\ typed' = Append(typed, Append(line, c))
                /\ line' = <<>>
           ELSE /\ sbuffer' = sbuffer + 1
                /\ line' = Append(line, c)
                /\ UNCHANGED <<valid, soffset, typed>>
        /\ overrun' = (overrun \/ valid[soffset])
        /\ wide' = (wide \/ sbuffer >= Width)
        /\ keystrokes' = keystrokes + 1

(* kbInt_handler: shift and control return early, other keys are written as  *)
(* the shift flag says; the release of any shift key clears the flag.        *)
kbInt_handler(scancode) ==
    /\ \/ /\ scancode \in Pressed
          /\ shiftFlag' = TRUE /\ UNCHANGED <<cntlFlag, written>>
       \/ /\ scancode = CtrlPressed
          /\ cntlFlag' = TRUE /\ UNCHANGED <<shiftFlag, written>>
       \/ /\ scancode \in Keys
          /\ keystrokes < MaxKeys
          /\ term_write(IF shiftFlag THEN kbdus_Shift[scancode]
                                     ELSE kbdus[scancode])
          /\ UNCHANGED <<shiftFlag, cntlFlag>>
       \/ /\ scancode \in Released
          /\ shiftFlag' = FALSE /\ UNCHANGED <<cntlFlag, written>>
       \/ /\ scancode = CtrlReleased
          /\ cntlFlag' = FALSE /\ UNCHANGED <<shiftFlag, written>>
    /\ UNCHANGED reader

-----------------------------------------------------------------------------
(* read(0, buf, length)                                                      *)

writer == <<ring, soffset, sbuffer, shiftFlag, cntlFlag, typed, line, overrun,
            wide, keystrokes>>

sys_read(n) ==
    /\ pc = "user"
    /\ pc' = "poll" /\ length' = n
    /\ UNCHANGED <<writer, valid, read_ptr, read_index, buf, reads>>

(* Mutant: the newest row is taken. *)
PollNewest ==
    /\ pc = "poll"
    /\ valid[(soffset + Rows - 1) % Rows]
    /\ pc' = "copy" /\ read_index' = (soffset + Rows - 1) % Rows
    /\ UNCHANGED <<writer, valid, read_ptr, length, buf, reads>>

(* The loop of sys_read ends when the row at read_ptr is valid. *)
Poll ==
    /\ pc = "poll"
    /\ valid[read_ptr]
    /\ pc' = "copy" /\ read_index' = read_ptr
    /\ UNCHANGED <<writer, valid, read_ptr, length, buf, reads>>

(* One iteration of term_read's loop. *)
CopyByte ==
    LET a == read_index * Width + Len(buf)
    IN  /\ pc = "copy"
        /\ Len(buf) < length
        /\ buf' = Append(buf, IF a < Size THEN ring[a] ELSE Foreign)
        /\ UNCHANGED <<writer, valid, read_ptr, pc, length, read_index, reads>>

(* Mutant: the row that is due next is given back. *)
ReleaseNext ==
    /\ pc = "copy"
    /\ Len(buf) = length
    /\ valid' = [valid EXCEPT ![(read_ptr + 1) % Rows] = FALSE]
    /\ read_ptr' = (read_ptr + 1) % Rows
    /\ reads' = Append(reads, buf)
    /\ pc' = "user" /\ length' = 0 /\ read_index' = 0 /\ buf' = <<>>
    /\ UNCHANGED writer

(* The rest of term_read: the row is given back, the next one is due. *)
Release ==
    /\ pc = "copy"
    /\ Len(buf) = length
    /\ valid' = [valid EXCEPT ![read_ptr] = FALSE]
    /\ read_ptr' = (read_ptr + 1) % Rows
    /\ reads' = Append(reads, buf)
    /\ pc' = "user" /\ length' = 0 /\ read_index' = 0 /\ buf' = <<>>
    /\ UNCHANGED writer

-----------------------------------------------------------------------------
Scancodes == Keys \cup Pressed \cup Released \cup {CtrlPressed, CtrlReleased}

ReadStep == Poll \/ CopyByte \/ Release

Next ==
    \/ \E scancode \in Scancodes : kbInt_handler(scancode)
    \/ \E n \in Lengths : sys_read(n)
    \/ ReadStep

(* The program that reads is the only one that runs, and interrupts return   *)
(* to it: a system call that can go on does.                                 *)
Spec == Init /\ [][Next]_vars /\ WF_vars(ReadStep)

-----------------------------------------------------------------------------
(* Properties                                                                *)

Char == {kbdus[k] : k \in Keys} \cup {kbdus_Shift[k] : k \in Keys}
          \cup {Nul, Newline, Foreign}

TypeOK ==
    /\ ring \in [0 .. Size - 1 -> Char]
    /\ valid \in [0 .. Rows - 1 -> BOOLEAN]
    /\ soffset \in 0 .. Rows - 1 /\ read_ptr \in 0 .. Rows - 1
    /\ sbuffer \in Nat
    /\ shiftFlag \in BOOLEAN /\ cntlFlag \in BOOLEAN
    /\ pc \in {"user", "poll", "copy"}
    /\ length \in Lengths \cup {0} /\ read_index \in 0 .. Rows - 1
    /\ buf \in Seq(Char) /\ Len(buf) <= length
    /\ typed \in Seq(Seq(Char)) /\ line \in Seq(Char) /\ reads \in Seq(Seq(Char))
    /\ overrun \in BOOLEAN /\ wide \in BOOLEAN
    /\ keystrokes \in 0 .. MaxKeys

(* The valid rows are exactly those of the lines nobody has read, from       *)
(* read_ptr to soffset, and the interrupt runs into an unread row only when  *)
(* all Rows rows are unread, at whatever moment of a read it comes.          *)
BacklogIsValid ==
    ~overrun =>
        /\ Len(typed) - Len(reads) \in 0 .. Rows
        /\ soffset = Len(typed) % Rows
        /\ read_ptr = Len(reads) % Rows
        /\ \A r \in 0 .. Rows - 1 :
              valid[r] <=> \E k \in Len(reads) .. Len(typed) - 1 : k % Rows = r

(* The string the program sees in what a read returned. *)
AsString(b) ==
    LET ends == {i \in 1 .. Len(b) : b[i] = Nul}
    IN  SubSeq(b, 1, IF ends = {} THEN Len(b)
                     ELSE (CHOOSE i \in ends : \A j \in ends : i <= j) - 1)

(* The shell takes the string up to the first '\0' for the command (it never *)
(* looks for '\n', splitString).  In the first round of the ring that is the *)
(* typed line and nothing else; later a row still holds the tail of a longer *)
(* line typed before.                                                        *)
FirstRoundIsExact ==
    \A k \in 1 .. Len(reads) :
        /\ ~overrun /\ ~wide
        /\ k <= Rows
        /\ Len(typed[k]) < Width /\ Len(typed[k]) < Len(reads[k])
        /\ \A i \in 1 .. Len(typed[k]) : typed[k][i] # Nul
        => AsString(reads[k]) = typed[k]

Queue == INSTANCE LineQueue WITH
    Capacity  <- Rows,
    unread    <- SubSeq(typed, Len(reads) + 1, Len(typed)),
    got       <- [k \in DOMAIN reads |->
                    SubSeq(reads[k], 1,
                           IF k \in DOMAIN typed /\ Len(typed[k]) < Len(reads[k])
                           THEN Len(typed[k]) ELSE Len(reads[k]))],
    overflown <- overrun \/ wide

(* As long as no row is written before its line was read and no line is      *)
(* longer than a row, the terminal is a queue of lines: whatever the         *)
(* interleaving of the interrupt with the copying loop, no read returns a    *)
(* torn, repeated or skipped line.                                           *)
ImplementsLineQueue == Queue!Spec

(* A read that waits while a complete line is unread returns.  (After an     *)
(* overrun it need not: read_ptr and soffset then disagree.)                 *)
LineIsRead ==
    (pc = "poll" /\ Len(typed) > Len(reads)) ~> (pc = "user" \/ overrun)

===============================================================================

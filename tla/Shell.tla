-------------------------------- MODULE Shell --------------------------------
(***************************************************************************)
(* sbush: a command line is read into inputBuffer, split at blanks into    *)
(* the words of buffer[Words][Room], and interpreted.  The words are C     *)
(* strings in one array; nothing checks their number or their length, and  *)
(* a command clears no more than the words it used.                        *)
(*                                                                         *)
(* Memory behind buffer is prompt, the pointer to the "$" (nm of           *)
(* rootfs/bin/sbush), and then the rest of a page, no byte of which is a   *)
(* '\n'; the bytes of prompt have a '\0' among them.  bufptr, whose        *)
(* element bufptr[count] splitString sets to NULL, lies before inputBuffer *)
(* and is read by nobody: from ten words on the store is past its end, in  *)
(* the two words of padding or, from twelve on, in the beginning of the    *)
(* line just split, which the next read replaces.                          *)
(*                                                                         *)
(* The loader copies p_memsz bytes from the ELF file, so that buffer does  *)
(* not start as zeros but as whatever follows the data in the file.  A     *)
(* command name is one character.                                          *)
(***************************************************************************)
EXTENDS Integers, Sequences, SequencesExt, FiniteSetsExt

CONSTANTS Words,         \* 10
          Room,          \* 256
          Char, Nul, Newline, Space,
          echo, sleep, cat, ps,   \* the names of the commands
          Lines,         \* what read leaves in inputBuffer up to its first '\0':
                         \* a line and, perhaps, the tail of an older one (see
                         \* Terminal); a key without a character types a '\0'
                         \* and so cuts the line, '\n' and all
          Images,        \* what buffer may hold at the start
          Openable,      \* the arguments for which open finds a file (see Files)
          MaxLines       \* bound on the lines typed

Cells == 0 .. Words * Room - 1

ASSUME ShellOK ==
    /\ Words \in Nat \ {0, 1} /\ Room \in Nat \ {0} /\ MaxLines \in Nat
    /\ Nul \in Char
    /\ \A l \in Lines : l \in Seq(Char \ {Nul})
    /\ \A b \in Images : b \in [Cells -> Char]
    /\ {echo, sleep, cat, ps} \cap {Nul, Newline, Space} = {}
    /\ echo \notin {sleep, cat} /\ Newline \notin {Space, Nul} /\ Nul # Space

VARIABLES
    buffer,      \* the bytes of all words
    input,       \* inputBuffer up to its '\0', as the last readInput left it
    pc,          \* "prompt", "input", "split", "process"; "hung" in the kernel's
                 \* handler of a fault outside of the program's memory
    prompt,      \* FALSE: prompt may be overwritten
    ran,         \* history: the last command and the argument it was given
    typed,       \* counts the lines
    cleared,     \* history: echo, sleep or cat was the last command
    left         \* history: the second word the lines so far have left

vars == <<buffer, input, pc, prompt, ran, typed, cleared, left>>

-----------------------------------------------------------------------------
(* Strings in buffer                                                         *)

(* Mutant: the end is counted. *)
UntilBehind(b, a, ends) ==
    LET stops == {i \in a .. Words * Room - 1 : b[i] \in ends}
        n == (IF stops = {} THEN Words * Room ELSE Min(stops) + 1) - a
    IN  [i \in 1 .. n |-> b[a + i - 1]]

(* From cell a up to the first of the characters in ends, or the last cell.  *)
Until(b, a, ends) ==
    LET stops == {i \in a .. Words * Room - 1 : b[i] \in ends}
        n == (IF stops = {} THEN Words * Room ELSE Min(stops)) - a
    IN  [i \in 1 .. n |-> b[a + i - 1]]

String(b, w) == Until(b, w * Room, {Nul})

(* Mutant: the word gets no '\0'. *)
copyStringOpen(b, w, s) ==
    [a \in Cells |-> LET i == a - w * Room + 1
                     IN  IF i \in 1 .. Len(s) THEN s[i] ELSE b[a]]

(* copyString: the word and its '\0'; a word behind the array leaves it.     *)
copyString(b, w, s) ==
    [a \in Cells |-> LET i == a - w * Room + 1
                     IN  IF i \in 1 .. Len(s) THEN s[i]
                         ELSE IF i = Len(s) + 1 THEN Nul ELSE b[a]]

(* Mutant: the first character stays. *)
clearBufferShort(b, w) ==
    [a \in Cells |-> IF a > w * Room /\ Nul \notin {b[i] : i \in w * Room .. a}
                     THEN Nul ELSE b[a]]

(* clearBuffer: up to the first '\0'. *)
clearBuffer(b, w) ==
    [a \in Cells |-> IF a >= w * Room /\ Nul \notin {b[i] : i \in w * Room .. a}
                     THEN Nul ELSE b[a]]

(* The loop of splitString: a word ends before each blank and at the end.    *)
Blanks(s) == {i \in 1 .. Len(s) : s[i] = Space}
Before(s, i) == {j \in Blanks(s) : j < i}
Count(s) == Cardinality(Blanks(s)) + 1

WordEnd(s, w) == CHOOSE i \in Blanks(s) \cup {Len(s) + 1} :
                    Cardinality(Before(s, i)) = w - 1
WordStart(s, w) == IF w = 1 THEN 1 ELSE WordEnd(s, w - 1) + 1

(* Mutant: start stays at the first word. *)
WordFromStart(s, w) == SubSeq(s, 1, WordEnd(s, w) - 1)

Word(s, w) == SubSeq(s, WordStart(s, w), WordEnd(s, w) - 1)

(* The words of s are laid over the rows of b.                               *)
Split(b, s) == FoldLeft(LAMBDA c, w : copyString(c, w - 1, Word(s, w)),
                        b, [w \in 1 .. Count(s) |-> w])

(* Every word of s ends, with its '\0', before cell n.                       *)
EndBefore(s, n) == \A w \in 1 .. Count(s) : (w - 1) * Room + Len(Word(s, w)) < n

(* What is behind the first blank, and the part of s before any of ends.     *)
Behind(s) == SubSeq(s, Min(Blanks(s)) + 1, Len(s))
Upto(s, ends) == LET n == {i \in 1 .. Len(s) : s[i] \in ends}
                 IN  IF n = {} THEN s ELSE SubSeq(s, 1, Min(n) - 1)

-----------------------------------------------------------------------------
Init ==
    /\ buffer \in Images
    /\ input = <<>> /\ pc = "prompt" /\ prompt = TRUE
    /\ ran = [command |-> Nul, argument |-> <<>>]
    /\ typed = 0 /\ cleared = FALSE /\ left = String(buffer, 1)

(* displayPrompt: write copies a byte from where prompt points.              *)
displayPrompt ==
    /\ pc = "prompt" /\ typed < MaxLines
    /\ pc' \in IF prompt THEN {"input"} ELSE {"input", "hung"}
    /\ UNCHANGED <<buffer, input, prompt, ran, typed, cleared, left>>

readInput(line) ==
    /\ pc = "input"
    /\ input' = line /\ typed' = typed + 1
    /\ pc' = "split"
    /\ UNCHANGED <<buffer, prompt, ran, cleared, left>>

(* What the line is meant to leave as the second word: its own; without one, *)
(* what was there, and nothing where a command has cleared it.               *)
SecondWord ==
    IF Blanks(input) # {} THEN Upto(Behind(input), {Space})
    ELSE IF cleared THEN <<>> ELSE left

(* The second word, or the only one, is shorter than a row.                  *)
RowHolds(s) == Len(IF Blanks(s) = {} THEN s ELSE Upto(Behind(s), {Space})) < Room

(* A word that ends behind the array is laid over prompt and what is behind  *)
(* it; further on it is past the page.  A word too long for its row leaves   *)
(* what it leaves.                                                           *)
splitString ==
    /\ pc = "split"
    /\ buffer' = Split(buffer, input)
    /\ prompt' = (prompt /\ EndBefore(input, Words * Room))
    /\ pc' \in IF EndBefore(input, (Words + 1) * Room) THEN {"process"}
               ELSE {"process", "hung"}
    /\ left' = IF RowHolds(input) THEN SecondWord ELSE String(buffer', 1)
    /\ UNCHANGED <<input, ran, typed, cleared>>

(* compareStrings(name, buffer[0]) *)
Is(name) == buffer[0] = name

(* The string from the second row on ends in the array.                      *)
Ended(b) == \E a \in Cells : a >= Room /\ b[a] = Nul

(* The command was c with the argument in b; its two words are cleared, and  *)
(* prompt too when the second word runs into it.                             *)
Finish(c, b) ==
    /\ ran' = [command |-> c, argument |-> String(b, 1)]
    /\ buffer' = clearBuffer(clearBuffer(b, 1), 0)
    /\ prompt' = (prompt /\ Ended(b))
    /\ pc' = "prompt" /\ cleared' = TRUE
    /\ UNCHANGED <<input, typed, left>>

Echo == pc = "process" /\ Is(echo) /\ Finish(echo, buffer)

(* Mutant: the search ends with the word. *)
NewlinesInWord == {a \in Cells : a \in Room .. 2 * Room - 1 /\ buffer[a] = Newline}

(* sleep and cat end their argument at the first '\n' from buffer[1] on,     *)
(* wherever it is; an overlong line may have left one behind the array.      *)
Newlines == {a \in Cells : a >= Room /\ buffer[a] = Newline}

NewlineFound == Newlines # {} \/ ~prompt

Cut == IF Newlines = {} THEN buffer ELSE [buffer EXCEPT ![Min(Newlines)] = Nul]

(* The command comes back.  cat reads its file, or what it finds through     *)
(* descriptor -1, into inputBuffer, which the next line replaces.            *)
WithArgument(c) ==
    /\ pc = "process" /\ Is(c) /\ NewlineFound
    /\ Finish(c, Cut)

(* cat does not test for the -1 of open, and the read of descriptor -1 may   *)
(* fault in the kernel for ever (run files_missing).                         *)
NotFound ==
    /\ pc = "process" /\ Is(cat) /\ NewlineFound
    /\ ~Ended(Cut) \/ String(Cut, 1) \notin Openable
    /\ pc' = "hung" /\ buffer' = Cut
    /\ UNCHANGED <<input, prompt, ran, typed, cleared, left>>

(* No '\n' up to the end of the page: the next byte is in no VMA.            *)
RunOff ==
    /\ pc = "process" /\ (Is(sleep) \/ Is(cat))
    /\ Newlines = {}
    /\ pc' = "hung"
    /\ UNCHANGED <<buffer, input, prompt, ran, typed, cleared, left>>

(* ps, and a line that is no command: the words stay.                        *)
Other ==
    /\ pc = "process" /\ ~Is(echo) /\ ~Is(sleep) /\ ~Is(cat)
    /\ ran' = [command |-> IF Is(ps) THEN ps ELSE Nul, argument |-> <<>>]
    /\ pc' = "prompt" /\ cleared' = FALSE
    /\ UNCHANGED <<buffer, input, prompt, typed, left>>

-----------------------------------------------------------------------------
Next ==
    \/ displayPrompt
    \/ \E l \in Lines : readInput(l)
    \/ splitString
    \/ Echo
    \/ \E c \in {sleep, cat} : WithArgument(c)
    \/ NotFound
    \/ RunOff
    \/ Other

Spec == Init /\ [][Next]_vars

-----------------------------------------------------------------------------
(* Properties                                                                *)

(* The words stay characters, and what a command gets is a C string: what    *)
(* counts the characters of a word stops at its '\0'.                        *)
TypeOK ==
    /\ buffer \in [Cells -> Char] /\ left \in Seq(Char \ {Nul})
    /\ ran.argument \in Seq(Char \ {Nul}) /\ ran.command \in {echo, sleep, cat, ps, Nul}
    /\ pc \in {"prompt", "input", "split", "process", "hung"}
    /\ prompt \in BOOLEAN /\ cleared \in BOOLEAN /\ typed \in 0 .. MaxLines
    /\ input \in Lines \cup {<<>>}

CameBack(commands) == pc = "prompt" /\ ran.command \in commands

(* Whatever earlier commands left in the words and however many words the    *)
(* line has, a command with an argument shorter than a row gets exactly the  *)
(* second word of its line; for sleep and cat, without the '\n' and what     *)
(* follows it.  A blank in the stale tail behind the '\n' counts: the shell  *)
(* parses the tail.                                                          *)
ArgumentIsWord ==
    (CameBack({echo, sleep, cat}) /\ Blanks(input) # {} /\ RowHolds(input)) =>
        ran.argument = Upto(Behind(input), IF ran.command = echo THEN {Space}
                                           ELSE {Space, Newline})

(* A command without an argument gets what is left of the lines before: none *)
(* after an echo, sleep or cat, although no more is cleared than up to the   *)
(* first '\0'; after ps, an unknown command and at the start, exactly the    *)
(* second word of the last line that had one since, or of the loaded image.  *)
(* A sleep or cat gets it up to its first '\n'.                              *)
ArgumentIsLeft ==
    (CameBack({echo, sleep, cat}) /\ Blanks(input) = {} /\ RowHolds(input)) =>
        ran.argument = Upto(left, IF ran.command = echo THEN {} ELSE {Newline})

(* Until something overwrites the prompt, the shell hangs in no command but  *)
(* sleep and cat, which test neither for an argument nor for its file: on a  *)
(* line without a '\n' behind a blank, on one with a word that is too long   *)
(* for its row and may cover the '\n', and on a cat of a file that is not    *)
(* there.  Else the search for the '\n' stays in the words.                  *)
HangsOnlyOnBadLine ==
    (pc = "hung" /\ prompt) =>
        /\ input[1] \in {sleep, cat}
        /\ \/ Blanks(input) = {} \/ Newline \notin Range(Behind(input))
           \/ \E w \in 2 .. Count(input) : Len(Word(input, w)) >= Room
           \/ input[1] = cat /\ Upto(Behind(input), {Space, Newline}) \notin Openable
==============================================================================

------------------------------- MODULE Console -------------------------------
(***************************************************************************)
(* The screen: kprintf, called by the program's write() and ps, and by the *)
(* keyboard interrupt for the echo, on one cursor (video, line, count)     *)
(* without a lock; and the timer interrupt with the clock sys_sleep waits  *)
(* for.  Interrupt handlers run to their end (interrupt gates, cli); a     *)
(* system call runs with interrupts enabled, so a handler comes between    *)
(* any two of its instructions.  kprintf is therefore modelled by its      *)
(* loads and stores of the shared variables as compiled (-O1): a           *)
(* comparison after an increment uses the register, not the variable.      *)
(*                                                                         *)
(* The row below the text shows the clock and the last key, at columns of  *)
(* their own; only whether kprintf writes there is modelled.               *)
(***************************************************************************)
EXTENDS Integers, Sequences, FiniteSets

CONSTANTS Rows,          \* 24, the rows of text
          Width,         \* 80
          Newline, Return,        \* '\n' and '\r'
          Glyphs,        \* the other characters the program prints
          Keys,          \* characters the keyboard echoes
          Blank, Colour, \* ' ' and the attribute byte
          Second,        \* 100, timer ticks in a second
          MaxInt,        \* 2^31 - 1
          Times,         \* arguments of sleep, in milliseconds
          MaxKeys,       \* bound on the characters echoed
          MaxTime        \* bound on the clock and on the end of a sleep

ASSUME ScreenOK ==
    /\ Rows \in Nat \ {0, 1} /\ Width \in Nat \ {0}
    /\ Newline # Return /\ {Newline, Return} \cap Glyphs = {}
    /\ Return \notin Keys
    /\ Second \in Nat \ {0} /\ Times \subseteq Nat
    /\ MaxInt \in Nat /\ MaxKeys \in Nat /\ MaxTime \in Nat

VARIABLES
    screen,                \* the bytes of the text rows
    video, line, count,    \* the cursor
    pc, reg, char,         \* where kprintf is, its register, its character
    row,                   \* the row scrolldown moves next
    timer_ticks, currentTime,
    due,                   \* startTime + sleepTime of sys_sleep
    keys,                  \* counts the characters echoed
    text,                  \* history: the lines that should be on the screen
    raced,                 \* history: a handler printed inside kprintf
    touched, skewed,       \* the same for the current character, and for any
                           \* character since the last undisturbed '\n'
    spilled,               \* history: kprintf wrote behind the text rows
    slept, asked           \* history: ticks since sys_sleep began, and the
                           \* milliseconds it was called for

cursor == <<video, line, count>>
history == <<text, raced, touched, skewed>>
clock == <<timer_ticks, currentTime, due, slept, asked>>
vars == <<screen, cursor, pc, reg, char, row, clock, keys, history, spilled>>

RowBytes == 2 * Width
Start(r) == r * RowBytes
Cleared(r, s) == [a \in DOMAIN s |->
    IF a \div RowBytes # r THEN s[a] ELSE IF a % 2 = 0 THEN Blank ELSE Colour]

(* The terminal a reader of kprintf expects, with a cursor of its own: a     *)
(* full row is ended at once, and '\r' goes back to the start of the row.    *)

Sheet == [rows |-> [r \in 0 .. Rows - 1 |-> <<>>], at |-> 0, column |-> 0]

Fed(t) == IF t.at + 1 < Rows
          THEN [t EXCEPT !.at = @ + 1, !.column = 0]
          ELSE [rows |-> [r \in 0 .. Rows - 1 |->
                            IF r = Rows - 1 THEN <<>> ELSE t.rows[r + 1]],
                at |-> Rows - 1, column |-> 0]

Over(r, n, c) == IF n < Len(r) THEN [r EXCEPT ![n + 1] = c] ELSE Append(r, c)

Typed(t, c) ==
    CASE c = Newline -> Fed(t)
      [] c = Return  -> [t EXCEPT !.column = 0]
      [] OTHER -> LET u == [t EXCEPT !.rows[t.at] = Over(@, t.column, c),
                                     !.column = @ + 1]
                  IN  IF u.column = Width THEN Fed(u) ELSE u

(* The BIOS leaves an empty screen. *)
Init ==
    /\ screen = [a \in 0 .. Rows * RowBytes - 1 |->
                   IF a % 2 = 0 THEN Blank ELSE Colour]
    /\ video = 0 /\ line = 0 /\ count = 0
    /\ pc = "idle" /\ reg = 0 /\ char = Blank /\ row = 0
    /\ timer_ticks = 0 /\ currentTime = 0 /\ due = 0
    /\ slept = 0 /\ asked = 0
    /\ keys = 0
    /\ text = Sheet
    /\ raced = FALSE /\ touched = FALSE /\ skewed = FALSE /\ spilled = FALSE

-----------------------------------------------------------------------------
(* No character of the program is half done. *)
AtRest == pc \in {"idle", "sleep"}

(* The keyboard interrupt's kprintf("%c")                                    *)

Put(s, a, b) == IF a \in DOMAIN s THEN [s EXCEPT ![a] = b] ELSE s

(* Mutant: the last row is not cleared. *)
ScrolledOnly(s) == [a \in DOMAIN s |->
        IF a + RowBytes \in DOMAIN s THEN s[a + RowBytes] ELSE s[a]]

(* scrolldown: each row gets the next one, the last is cleared. *)
Scrolled(s) ==
    Cleared(Rows - 1, [a \in DOMAIN s |->
        IF a + RowBytes \in DOMAIN s THEN s[a + RowBytes] ELSE s[a]])

(* The next line; the screen scrolls when the increment hits Rows. *)
NextLine(s, v) ==
    IF line + 1 = Rows
    THEN screen' = Scrolled(s) /\ line' = Rows - 1 /\ video' = Start(Rows - 1)
    ELSE screen' = s /\ line' = line + 1 /\ video' = v

(* kbInt_handler's term_write: undisturbed, as interrupts are off. *)
Echo(c) ==
    /\ keys < MaxKeys
    /\ keys' = keys + 1
    /\ IF c = Newline
       THEN NextLine(screen, Start(line + 1)) /\ count' = 0 /\ UNCHANGED spilled
       ELSE LET s == Put(Put(screen, video, c), video + 1, Colour)
            IN  /\ IF count + 1 = Width
                   THEN NextLine(s, video + 2) /\ count' = 0
                   ELSE /\ screen' = s /\ video' = video + 2
                        /\ count' = count + 1 /\ UNCHANGED line
                /\ spilled' = (spilled \/ video \notin DOMAIN screen)
    /\ IF AtRest
       THEN /\ text' = IF raced THEN text ELSE Typed(text, c)
            /\ UNCHANGED <<raced, touched, skewed>>
       ELSE /\ raced' = TRUE /\ touched' = TRUE /\ skewed' = TRUE
            /\ text' = Sheet
    /\ UNCHANGED <<pc, reg, char, row, clock>>

-----------------------------------------------------------------------------
(* kprintf in a system call, from the loop over finalArray on                *)

Go(from, to) == pc = from /\ pc' = to

(* The next character; between two of them nothing is in a register. *)
NextChar(c) ==
    /\ Go("idle", IF c = Newline THEN "line" ELSE IF c = Return THEN "return"
                                              ELSE "glyph")
    /\ char' = c /\ touched' = FALSE
    /\ text' = IF raced THEN text ELSE Typed(text, c)
    /\ UNCHANGED <<screen, cursor, reg, row, clock, keys, raced, skewed,
                   spilled>>

rest == <<char, clock, keys, text, raced, touched, skewed>>

(* video++ twice, with a byte stored where it pointed. *)
LoadVideo ==
    /\ Go("glyph", "glyph+") \/ Go("colour", "colour+")
    /\ reg' = video
    /\ UNCHANGED <<screen, cursor, row, spilled, rest>>

StoreVideo ==
    /\ Go("glyph+", "put glyph") \/ Go("colour+", "put colour")
    /\ video' = reg + 1
    /\ UNCHANGED <<screen, line, count, reg, row, spilled, rest>>

PutByte ==
    /\ Go("put glyph", "colour") \/ Go("put colour", "count")
    /\ screen' = Put(screen, reg, IF pc = "put glyph" THEN char ELSE Colour)
    /\ spilled' = (spilled \/ reg \notin DOMAIN screen)
    /\ UNCHANGED <<cursor, reg, row, rest>>

LoadCount ==
    /\ Go("count", "count+") \/ Go("return", "return-")
    /\ reg' = count
    /\ UNCHANGED <<screen, cursor, row, spilled, rest>>

(* '\r': video = video - 2*count, which StoreStart stores. *)
StepBack ==
    /\ Go("return-", "start+")
    /\ reg' = video - 2 * reg
    /\ UNCHANGED <<screen, cursor, row, spilled, rest>>

(* count++, and the test for a full row on the register.  (reg and char are  *)
(* cleared where the code does not use them again.)                          *)
StoreCount ==
    /\ Go("count+", IF reg + 1 = Width THEN "line" ELSE "idle")
    /\ count' = reg + 1
    /\ reg' = IF reg + 1 = Width THEN reg ELSE 0
    /\ char' = IF reg + 1 = Width THEN char ELSE Blank
    /\ UNCHANGED <<screen, video, line, row, spilled, clock, keys, history>>

LoadLine ==
    /\ Go("line", "line+")
    /\ reg' = line
    /\ UNCHANGED <<screen, cursor, row, spilled, rest>>

(* line++, and the test for the last row on the register. *)
StoreLine ==
    /\ Go("line+", IF reg + 1 = Rows THEN "scroll"
                   ELSE IF char = Newline THEN "start" ELSE "home")
    /\ line' = reg + 1 /\ row' = 0
    /\ UNCHANGED <<screen, video, count, reg, spilled, rest>>

(* One iteration of scrolldown, and what comes after the last: the cursor    *)
(* goes to the last row, which is cleared.                                   *)
Scroll ==
    /\ pc = "scroll"
    /\ IF row < Rows - 1
       THEN /\ screen' = [a \in DOMAIN screen |->
                            IF a \div RowBytes = row THEN screen[a + RowBytes]
                                                     ELSE screen[a]]
            /\ row' = row + 1
            /\ UNCHANGED <<pc, video>>
       ELSE /\ screen' = Cleared(Rows - 1, screen)
            /\ video' = Start(Rows - 1)
            /\ pc' = "last" /\ row' = 0
    /\ UNCHANGED <<line, count, reg, spilled, rest>>

(* Mutant: line stays behind the last row. *)
LastLineKept == Go("last", "start") /\ UNCHANGED <<screen, cursor, reg, row, spilled, rest>>

(* line=23 *)
LastLine ==
    /\ Go("last", "start")
    /\ line' = Rows - 1
    /\ UNCHANGED <<screen, video, count, reg, row, spilled, rest>>

(* Mutant: after '\n' the row before is loaded. *)
LoadStartEarly ==
    /\ Go("start", "start+")
    /\ reg' = Start(IF char = Newline THEN line - 1 ELSE Rows - 1)
    /\ UNCHANGED <<screen, cursor, row, spilled, rest>>

(* video = 0xffffffff800b8000+(line*160): the line is loaded after '\n', and *)
(* a constant after a full line.                                             *)
LoadStart ==
    /\ Go("start", "start+")
    /\ reg' = Start(IF char = Newline THEN line ELSE Rows - 1)
    /\ UNCHANGED <<screen, cursor, row, spilled, rest>>

(* The end of '\n', of the last full row and of '\r'. *)
StoreStart ==
    /\ Go("start+", "home")
    /\ video' = reg
    /\ UNCHANGED <<screen, line, count, reg, row, spilled, rest>>

(* count=0 ends the character. *)
Home ==
    /\ Go("home", "idle")
    /\ count' = 0 /\ reg' = 0 /\ char' = Blank
    /\ skewed' = (skewed /\ (char # Newline \/ touched))
    /\ UNCHANGED <<screen, video, line, row, spilled, clock, keys, text, raced,
                   touched>>

-----------------------------------------------------------------------------
(* The timer interrupt and sys_sleep                                         *)

console == <<screen, cursor, reg, char, row, keys, history, spilled>>

tick_timer ==
    /\ currentTime < MaxTime
    /\ timer_ticks' = (timer_ticks + 1) % Second
    /\ currentTime' = IF timer_ticks' = 0 THEN currentTime + 1 ELSE currentTime
    /\ slept' = IF pc = "sleep" THEN slept + 1 ELSE 0
    /\ UNCHANGED <<console, pc, due, asked>>

(* Mutant: one second short. *)
SecondsShort(ms) == IF ms < 1000 THEN 0 ELSE (ms \div 1000) - 1

(* atoi adds up in an int, and the division is C's. *)
atoi(ms) == ((ms + MaxInt + 1) % (2 * (MaxInt + 1))) - (MaxInt + 1)
Seconds(ms) == IF ms < 0 THEN -((-ms) \div 1000) ELSE ms \div 1000

sys_sleep(ms) ==
    /\ Go("idle", "sleep")
    /\ currentTime + Seconds(atoi(ms)) <= MaxTime
    /\ due' = currentTime + Seconds(atoi(ms))
    /\ slept' = 0 /\ asked' = ms
    /\ UNCHANGED <<console, timer_ticks, currentTime>>

(* Mutant: the loop waits for the very second. *)
WakeOnTime ==
    /\ Go("sleep", "idle")
    /\ currentTime = due
    /\ due' = 0 /\ slept' = 0 /\ asked' = 0
    /\ UNCHANGED <<console, timer_ticks, currentTime>>

Wake ==
    /\ Go("sleep", "idle")
    /\ currentTime >= due
    /\ due' = 0 /\ slept' = 0 /\ asked' = 0
    /\ UNCHANGED <<console, timer_ticks, currentTime>>

-----------------------------------------------------------------------------
Advance ==
    \/ LoadVideo \/ StoreVideo \/ PutByte \/ LoadCount \/ StepBack \/ StoreCount
    \/ LoadLine \/ StoreLine \/ Scroll \/ LastLine \/ LoadStart \/ StoreStart
    \/ Home

Next ==
    \/ \E c \in Keys : Echo(c)
    \/ \E c \in Glyphs \cup {Newline, Return} : NextChar(c)
    \/ Advance
    \/ tick_timer
    \/ \E ms \in Times : sys_sleep(ms)
    \/ Wake

(* Interrupts return, so a system call goes on; and the timer ticks.         *)
Spec == Init /\ [][Next]_vars /\ WF_vars(Advance \/ Wake) /\ WF_vars(tick_timer)
-----------------------------------------------------------------------------
(* Properties                                                                *)

TypeOK ==
    /\ screen \in [0 .. Rows * RowBytes - 1 -> Glyphs \cup Keys \cup {Blank, Colour}]
    /\ video \in Int /\ reg \in Int
    /\ line \in 0 .. Rows + MaxKeys /\ count \in 0 .. Width + MaxKeys
    /\ row \in 0 .. Rows - 1 /\ char \in Glyphs \cup {Newline, Return, Blank}
    /\ timer_ticks \in 0 .. Second - 1 /\ currentTime \in 0 .. MaxTime
    /\ due \in Int /\ slept \in Nat /\ asked \in Nat /\ keys \in 0 .. MaxKeys
    /\ \A b \in {raced, touched, skewed, spilled} : b \in BOOLEAN

(* Whatever handlers print inside of kprintf, whenever no character is half  *)
(* done the cursor's line is a row of the text and count is short of the     *)
(* width: an increment that a handler's increment runs past is still caught, *)
(* as kprintf compares its register.                                         *)
CursorOnScreen == AtRest => line < Rows /\ count < Width

(* The first '\n' that no handler disturbs repairs a cursor that earlier     *)
(* ones made inconsistent: video points where line and count say.            *)
NewlineRepairs == AtRest /\ ~skewed => video = Start(line) + 2 * count

Shown(t) == [a \in DOMAIN screen |->
    LET r == t.rows[a \div RowBytes]
        n == (a % RowBytes) \div 2 + 1
    IN  IF a % 2 = 1 THEN Colour ELSE IF n <= Len(r) THEN r[n] ELSE Blank]

(* Until a handler first prints inside of kprintf, the screen shows exactly  *)
(* the last rows of what the program and the keyboard wrote, and kprintf     *)
(* leaves the row of the clock alone.                                        *)
ScreenShowsText == ~raced => ~spilled /\ (AtRest => screen = Shown(text))

(* sleep(n) is over at the earliest after more than n - 1 seconds (the rest  *)
(* of the current second counts as one), if n fits an int.                   *)
SleepsLongEnough ==
    [][pc = "sleep" /\ pc' = "idle" /\ asked <= MaxInt
         => slept > ((asked \div 1000) - 1) * Second]_vars

(* and it ends, however often the keyboard interrupts it.                    *)
SleepEnds == pc = "sleep" ~> pc = "idle"
==============================================================================

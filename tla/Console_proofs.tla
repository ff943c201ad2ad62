---------------------------- MODULE Console_proofs ----------------------------
(***************************************************************************)
(* Proofs about Console, for every size of the screen and every placement  *)
(* of the keyboard's handler inside of kprintf.                            *)
(***************************************************************************)
EXTENDS Console, SequenceTheorems, TLAPS

Rest == {"idle", "sleep"}
Glyph == {"glyph", "glyph+", "put glyph", "colour", "colour+", "put colour",
          "count", "count+"}
Back == {"return", "return-"}
Ending == {"line", "line+", "scroll", "last", "start", "start+", "home"}

-----------------------------------------------------------------------------
(* The cursor.  Only while a row is ended may line and count be too large,   *)
(* and then by no more than the characters echoed.                           *)

Integral == line \in Nat /\ count \in Nat /\ keys \in 0 .. MaxKeys /\ reg \in Int /\ video \in Int

Bounds ==
    /\ Integral
    /\ pc \in Rest \cup Glyph \cup Back \cup Ending
    /\ line < Rows \/ (pc \in {"scroll", "last"} /\ line <= Rows + keys)
    /\ count < Width \/ (pc \in Ending /\ count <= Width + keys)
    /\ pc = "line+" => reg \in 0 .. Rows - 1
    /\ pc = "count+" => reg \in 0 .. Width - 1

(* The start of a row is a number. *)
LEMMA StartIsInt == \A r \in Int : Start(r) \in Int
BY ScreenOK DEF ScreenOK, Start, RowBytes

(* The cursor starts in the corner of the screen, *)
LEMMA BoundsInit == Init => Bounds
BY ScreenOK DEF ScreenOK, Init, Bounds, Integral, Rest

(* no step takes it further from the screen than Bounds says, *)
LEMMA BoundsStep == Bounds /\ [Next]_vars => Bounds'
<1> SUFFICES ASSUME Bounds, [Next]_vars PROVE Bounds'
    OBVIOUS
<1> USE ScreenOK DEF ScreenOK, Bounds, Integral
<1>1. ASSUME NEW c \in Keys, Echo(c) PROVE Bounds'
  BY <1>1, StartIsInt DEF Echo, NextLine
<1>2. ASSUME NEW c \in Glyphs \cup {Newline, Return}, NextChar(c) PROVE Bounds'
  BY <1>2 DEF NextChar, Go, cursor, Rest, Glyph, Back, Ending
<1>3. CASE LoadVideo
  BY <1>3 DEF LoadVideo, Go, cursor, rest, clock, Rest, Glyph, Back, Ending
<1>4. CASE StoreVideo
  <2>1. /\ video' = reg + 1 /\ UNCHANGED <<line, count, reg, keys>>
        /\ pc \in {"glyph+", "colour+"} /\ pc' \in {"put glyph", "put colour"}
    BY <1>4 DEF StoreVideo, Go, rest, clock
  <2>2. pc \notin Ending /\ pc \notin {"scroll", "last"}
    BY <2>1 DEF Ending
  <2>3. pc' \in Glyph /\ pc' # "line+" /\ pc' # "count+"
    BY <2>1 DEF Glyph
  <2>4. Integral'
    <3>1. video' = reg + 1 /\ reg \in Int
      BY <2>1
    <3>2. video' \in Int
      BY <3>1
    <3> QED BY <2>1, <3>2
  <2> QED BY <2>1, <2>2, <2>3, <2>4
<1>5. CASE PutByte
  BY <1>5 DEF PutByte, Go, cursor, rest, clock, Rest, Glyph, Back, Ending
<1>6. CASE LoadCount
  <2>1. /\ reg' = count /\ UNCHANGED <<video, line, count, keys>>
        /\ pc \in {"count", "return"} /\ pc' \in {"count+", "return-"}
    BY <1>6 DEF LoadCount, Go, cursor, rest, clock
  <2>2. pc \notin Ending /\ pc \notin {"scroll", "last"}
    BY <2>1 DEF Ending
  <2>3. pc' \in Glyph \cup Back /\ pc' # "line+"
    BY <2>1 DEF Glyph, Back
  <2> QED BY <2>1, <2>2, <2>3
<1>7. CASE StepBack
  BY <1>7 DEF StepBack, Go, cursor, rest, clock, Rest, Glyph, Back, Ending
<1>8. CASE StoreCount
  BY <1>8 DEF StoreCount, Go, Rest, Glyph, Back, Ending
<1>9. CASE LoadLine
  BY <1>9 DEF LoadLine, Go, cursor, rest, clock, Rest, Glyph, Back, Ending
<1>10. CASE StoreLine
  BY <1>10 DEF StoreLine, Go, rest, clock, Rest, Glyph, Back, Ending
<1>11. CASE Scroll
  <2>1. /\ video' \in {video, Start(Rows - 1)} /\ UNCHANGED <<line, count, reg, keys>>
        /\ pc = "scroll" /\ pc' \in {"scroll", "last"}
    BY <1>11 DEF Scroll, rest, clock
  <2>2. Start(Rows - 1) \in Int
    BY StartIsInt
  <2> QED BY <2>1, <2>2 DEF Rest, Glyph, Back, Ending
<1>12. CASE LastLine
  BY <1>12 DEF LastLine, Go, rest, clock, Rest, Glyph, Back, Ending
<1>13. CASE LoadStart
  BY <1>13, StartIsInt DEF LoadStart, Go, cursor, rest, clock, Rest, Glyph, Back, Ending
<1>14. CASE StoreStart
  BY <1>14 DEF StoreStart, Go, rest, clock, Rest, Glyph, Back, Ending
<1>15. CASE Home
  BY <1>15 DEF Home, Go, Rest, Glyph, Back, Ending
<1>16. CASE tick_timer
  BY <1>16 DEF tick_timer, console, cursor
<1>17. ASSUME NEW ms \in Times, sys_sleep(ms) PROVE Bounds'
  BY <1>17 DEF sys_sleep, Go, console, cursor, Rest, Glyph, Back, Ending
<1>18. CASE Wake
  BY <1>18 DEF Wake, Go, console, cursor, Rest, Glyph, Back, Ending
<1>19. CASE UNCHANGED vars
  BY <1>19 DEF vars, cursor
<1>20. QED
  BY <1>1, <1>2, <1>3, <1>4, <1>5, <1>6, <1>7, <1>8, <1>9, <1>10, <1>11,
     <1>12, <1>13, <1>14, <1>15, <1>16, <1>17, <1>18, <1>19 DEF Next, Advance

(* so Bounds always holds. *)
LEMMA BoundsAlways == Spec => []Bounds
BY BoundsInit, BoundsStep, PTL DEF Spec

(* Whatever handlers print inside of kprintf: whenever no character is half  *)
(* done, line and count are on the screen.                                   *)
THEOREM CursorCorrect == Spec => []CursorOnScreen
<1>1. Bounds => CursorOnScreen
  BY DEF Bounds, CursorOnScreen, AtRest, Ending
<1> QED BY <1>1, BoundsAlways, PTL
-----------------------------------------------------------------------------
(* The cursor's two descriptions: an address, and a line with a column.      *)

Sync == video = Start(line) + 2 * count

(* What an undisturbed character (or '\n', for the last two parts) keeps.    *)
Undisturbed ==
    /\ pc \in Rest \cup {"glyph", "glyph+", "return", "return-"} => Sync
    /\ pc \in {"put glyph", "colour", "colour+"} => video = Start(line) + 2 * count + 1
    /\ pc \in {"put colour", "count", "count+"} => video = Start(line) + 2 * count + 2
    /\ pc \in {"glyph+", "colour+"} => reg = video
    /\ pc \in {"return-", "count+"} => reg = count
    /\ (pc \in {"line", "line+"} /\ char # Newline) => Sync /\ count = Width
    /\ (pc = "line+" /\ char # Newline) => reg = line
    /\ (pc = "start" /\ char # Newline) => line = Rows - 1

Repaired == (pc = "start+" => reg = Start(line)) /\ (pc = "home" => video = Start(line))

Pointing ==
    /\ touched \in BOOLEAN /\ skewed \in BOOLEAN /\ (touched => skewed)
    /\ pc \in Back => char # Newline
    /\ ~skewed => Undisturbed
    /\ (~skewed \/ (~touched /\ char = Newline)) => Repaired

(* The next row is a row of bytes further. *)
LEMMA NextStart == \A r \in Int : Start(r + 1) = Start(r) + 2 * Width
BY ScreenOK DEF ScreenOK, Start, RowBytes

(* At first video points to the first place. *)
LEMMA PointingInit == Init => Pointing
<1>1. Start(0) = 0
  BY ScreenOK DEF ScreenOK, Start, RowBytes
<1> SUFFICES ASSUME Init PROVE Pointing
    OBVIOUS
<1>2. Sync
  BY <1>1 DEF Init, Sync
<1>3. pc = "idle" /\ touched = FALSE /\ skewed = FALSE
  BY DEF Init
<1> QED BY <1>2, <1>3 DEF Back, Pointing, Undisturbed, Repaired

(* Every step keeps Pointing. *)
LEMMA PointingStep == Bounds /\ Pointing /\ [Next]_vars => Pointing'
<1> SUFFICES ASSUME Bounds, Pointing, [Next]_vars PROVE Pointing'
    OBVIOUS
<1> USE ScreenOK DEF ScreenOK
<1>1. ASSUME NEW c \in Keys, Echo(c) PROVE Pointing'
  <2>1. CASE ~AtRest
    BY <1>1, <2>1 DEF Echo, Back, Pointing
  <2>2. CASE AtRest /\ skewed
    BY <1>1, <2>2 DEF Echo, Back, Pointing, Repaired, AtRest
  <2>3. CASE AtRest /\ ~skewed
    <3>1. Integral /\ video = Start(line) + 2 * count /\ line < Rows
      BY <2>3 DEF Bounds, Pointing, Undisturbed, Sync, AtRest, Rest
    <3>2. Start(line + 1) = Start(line) + 2 * Width /\ Start(line) \in Int
      BY <3>1, NextStart, StartIsInt DEF Integral
    <3>3. Sync'
      BY <1>1, <3>1, <3>2, StartIsInt DEF Echo, NextLine, Sync, Integral
    <3> QED BY <1>1, <2>3, <3>3 DEF Echo, Back, Pointing, Undisturbed, Repaired, AtRest
  <2> QED BY <2>1, <2>2, <2>3 DEF Pointing
<1>2. ASSUME NEW c \in Glyphs \cup {Newline, Return}, NextChar(c) PROVE Pointing'
  BY <1>2 DEF NextChar, Go, cursor, Rest, Back, Pointing, Undisturbed, Repaired, Sync
<1>3. CASE LoadVideo
  BY <1>3 DEF LoadVideo, Go, cursor, rest, Rest, Back, Pointing, Undisturbed, Repaired, Sync
<1>4. CASE StoreVideo
  <2>1. video' = reg + 1 /\ UNCHANGED <<line, count, reg, char, touched, skewed>>
    BY <1>4 DEF StoreVideo, rest
  <2>2. \/ pc = "glyph+" /\ pc' = "put glyph"
        \/ pc = "colour+" /\ pc' = "put colour"
    BY <1>4 DEF StoreVideo, Go
  <2>3. Integral /\ Start(line) \in Int
    BY StartIsInt DEF Bounds, Integral
  <2>4. ASSUME ~skewed, pc = "glyph+"
        PROVE  video' = Start(line) + 2 * count + 1
    BY <2>1, <2>3, <2>4 DEF Pointing, Undisturbed, Sync, Integral
  <2>5. ASSUME ~skewed, pc = "colour+"
        PROVE  video' = Start(line) + 2 * count + 2
    BY <2>1, <2>3, <2>5 DEF Pointing, Undisturbed, Integral
  <2> QED BY <2>1, <2>2, <2>4, <2>5 DEF Rest, Back, Pointing, Undisturbed, Repaired
<1>5. CASE PutByte
  BY <1>5 DEF PutByte, Go, cursor, rest, Rest, Back, Pointing, Undisturbed, Repaired, Sync
<1>6. CASE LoadCount
  BY <1>6 DEF LoadCount, Go, cursor, rest, Rest, Back, Pointing, Undisturbed, Repaired, Sync
<1>7. CASE StepBack
  <2>1. /\ pc = "return-" /\ pc' = "start+" /\ reg' = video - 2 * reg
        /\ UNCHANGED <<video, line, count, char, touched, skewed>>
    BY <1>7 DEF StepBack, Go, cursor, rest
  <2>2. ASSUME ~skewed PROVE video = Start(line) + 2 * count /\ reg = count
    BY <2>1, <2>2 DEF Pointing, Undisturbed, Sync
  <2>3. ASSUME ~skewed PROVE reg' = Start(line)
    BY <2>1, <2>2, <2>3, StartIsInt DEF Bounds, Integral
  <2>4. char # Newline
    BY <2>1 DEF Pointing, Back
  <2> QED BY <2>1, <2>3, <2>4 DEF Rest, Back, Pointing, Undisturbed, Repaired
<1>8. CASE StoreCount
  BY <1>8, StartIsInt DEF StoreCount, Go, history, Rest, Back, Pointing, Undisturbed, Repaired, Sync, Bounds, Integral
<1>9. CASE LoadLine
  BY <1>9 DEF LoadLine, Go, cursor, rest, Rest, Back, Pointing, Undisturbed, Repaired, Sync
<1>10. CASE StoreLine
  BY <1>10, NextStart, StartIsInt DEF StoreLine, Go, rest, Rest, Back, Pointing, Undisturbed, Repaired, Sync, Bounds, Integral
<1>11. CASE Scroll
  BY <1>11 DEF Scroll, rest, Rest, Back, Pointing, Undisturbed, Repaired, Sync
<1>12. CASE LastLine
  BY <1>12 DEF LastLine, Go, rest, Rest, Back, Pointing, Undisturbed, Repaired, Sync
<1>13. CASE LoadStart
  BY <1>13 DEF LoadStart, Go, cursor, rest, Rest, Back, Pointing, Undisturbed, Repaired, Sync
<1>14. CASE StoreStart
  BY <1>14 DEF StoreStart, Go, rest, Rest, Back, Pointing, Undisturbed, Repaired, Sync
<1>15. CASE Home
  BY <1>15, StartIsInt DEF Home, Go, Rest, Back, Pointing, Undisturbed, Repaired, Sync, Bounds, Integral
<1>16. CASE tick_timer
  BY <1>16 DEF tick_timer, console, cursor, history, Back, Pointing, Undisturbed, Repaired, Sync
<1>17. ASSUME NEW ms \in Times, sys_sleep(ms) PROVE Pointing'
  BY <1>17 DEF sys_sleep, Go, console, cursor, history, Rest, Back, Pointing, Undisturbed, Repaired, Sync
<1>18. CASE Wake
  BY <1>18 DEF Wake, Go, console, cursor, history, Rest, Back, Pointing, Undisturbed, Repaired, Sync
<1>19. CASE UNCHANGED vars
  BY <1>19 DEF vars, cursor, history, Back, Pointing, Undisturbed, Repaired, Sync
<1>20. QED
  BY <1>1, <1>2, <1>3, <1>4, <1>5, <1>6, <1>7, <1>8, <1>9, <1>10, <1>11,
     <1>12, <1>13, <1>14, <1>15, <1>16, <1>17, <1>18, <1>19 DEF Next, Advance

(* The first '\n' that no handler disturbs repairs a cursor that earlier     *)
(* ones made inconsistent.                                                   *)
THEOREM NewlineCorrect == Spec => []NewlineRepairs
<1>1. Spec => []Pointing
  BY PointingInit, PointingStep, BoundsAlways, PTL DEF Spec
<1>2. Pointing => NewlineRepairs
  BY DEF Pointing, Undisturbed, Sync, Rest, NewlineRepairs, AtRest
<1> QED BY <1>1, <1>2, PTL
-----------------------------------------------------------------------------
(* The clock.  While a process sleeps, the moment it fell asleep lay in the  *)
(* second that is its time to sleep before due.                              *)

Clock ==
    /\ timer_ticks \in 0 .. Second - 1 /\ currentTime \in 0 .. MaxTime
    /\ due \in Int /\ slept \in Nat /\ asked \in Nat

Asleep == pc = "sleep" /\ asked <= MaxInt

Timed ==
    /\ Clock
    /\ Asleep => currentTime * Second + timer_ticks
                   < (due - (asked \div 1000)) * Second + slept + Second

(* What a remainder is. *)
LEMMA Remainder ==
    ASSUME NEW n \in Nat \ {0}, NEW a \in Nat
    PROVE  a % n \in 0 .. n - 1 /\ (a < n => a % n = a)
BY SMT

(* Up to MaxInt the argument of sleep arrives as it is. *)
LEMMA AtoiInRange ==
    ASSUME NEW ms \in Nat
    PROVE  Seconds(atoi(ms)) \in Int /\ (ms <= MaxInt => Seconds(atoi(ms)) = ms \div 1000)
<1> USE ScreenOK DEF ScreenOK
<1>1. PICK n \in Nat \ {0}, a \in Nat : n = 2 * (MaxInt + 1) /\ a = ms + MaxInt + 1
  OBVIOUS
<1>2. a % n \in 0 .. n - 1 /\ (a < n => a % n = a)
  BY <1>1, Remainder
<1>3. PICK r \in Int : r = a % n
  BY <1>2
<1>4. atoi(ms) = r - (MaxInt + 1)
  BY <1>1, <1>3 DEF atoi
<1>5. ms <= MaxInt => r = ms + MaxInt + 1
  BY <1>1, <1>2, <1>3
<1>6. PICK t \in Int : t = atoi(ms) /\ (ms <= MaxInt => t = ms)
  BY <1>4, <1>5
<1> QED BY <1>6 DEF Seconds

(* At first nobody sleeps. *)
LEMMA TimedInit == Init => Timed
BY ScreenOK DEF ScreenOK, Init, Timed, Clock, Asleep

(* What does not touch the clock, nor the sleep, changes nothing here. *)
LEMMA TimedElsewhere ==
    ASSUME Timed, UNCHANGED clock, pc' # "sleep" \/ pc' = pc
    PROVE  Timed'
BY DEF Timed, Clock, Asleep, clock

(* A tick counts for the sleep, and its second passes. *)
LEMMA TickTimed == Timed /\ tick_timer => Timed'
<1> SUFFICES ASSUME Timed, tick_timer PROVE Timed'
    OBVIOUS
<1> USE ScreenOK DEF ScreenOK
<1>1. \/ timer_ticks' = timer_ticks + 1 /\ currentTime' = currentTime /\ timer_ticks' \in 0 .. Second - 1
      \/ timer_ticks' = 0 /\ timer_ticks = Second - 1 /\ currentTime' = currentTime + 1
  <2>1. timer_ticks + 1 \in Nat /\ timer_ticks + 1 <= Second /\ currentTime \in Nat
    BY DEF Timed, Clock
  <2>2. CASE timer_ticks + 1 < Second
    <3>1. (timer_ticks + 1) % Second = timer_ticks + 1
      BY <2>1, <2>2, Remainder
    <3>2. timer_ticks' = timer_ticks + 1 /\ timer_ticks' # 0
      BY <2>1, <3>1 DEF tick_timer, Timed, Clock
    <3> QED BY <2>1, <2>2, <3>2 DEF tick_timer
  <2>3. CASE timer_ticks + 1 = Second
    <3>1. Second % Second = 0
      OBVIOUS
    <3> QED BY <2>1, <2>3, <3>1 DEF tick_timer, Timed, Clock
  <2> QED BY <2>1, <2>2, <2>3
<1>2. Clock'
  BY <1>1 DEF tick_timer, Timed, Clock
<1>3. currentTime' * Second + timer_ticks' = currentTime * Second + timer_ticks + 1
  BY <1>1 DEF Timed, Clock
<1>4. ASSUME Asleep'
      PROVE  /\ currentTime * Second + timer_ticks
                  < (due - (asked \div 1000)) * Second + slept + Second
             /\ UNCHANGED <<due, asked>> /\ slept' = slept + 1
  BY <1>4 DEF tick_timer, Timed, Asleep
<1>5. ASSUME Asleep'
      PROVE  currentTime' * Second + timer_ticks'
                  < (due' - (asked' \div 1000)) * Second + slept' + Second
  <2>1. PICK c \in Int : c = currentTime * Second + timer_ticks
    BY DEF Timed, Clock
  <2>2. PICK d \in Int : d = (due - (asked \div 1000)) * Second
    BY DEF Timed, Clock
  <2>3. c < d + slept + Second
    BY <1>4, <1>5, <2>1, <2>2
  <2>4. c + 1 < d + (slept + 1) + Second
    BY <2>3 DEF Timed, Clock
  <2> QED BY <1>3, <1>4, <1>5, <2>1, <2>2, <2>4
<1> QED BY <1>2, <1>5 DEF Timed

(* A sleep is due by the seconds of its argument. *)
LEMMA SleepTimed == ASSUME NEW ms \in Times, Timed, sys_sleep(ms) PROVE Timed'
<1> USE ScreenOK DEF ScreenOK
<1>1. PICK s \in Int : s = Seconds(atoi(ms)) /\ (ms <= MaxInt => s = ms \div 1000)
  BY AtoiInRange
<1>2. /\ due' = currentTime + s /\ slept' = 0 /\ asked' = ms
      /\ UNCHANGED <<timer_ticks, currentTime>>
  BY <1>1 DEF sys_sleep
<1>3. Clock'
  BY <1>2 DEF Timed, Clock
<1>4. ASSUME asked' <= MaxInt
      PROVE  due' - (asked' \div 1000) = currentTime
  BY <1>1, <1>2, <1>4 DEF Timed, Clock
<1>5. ASSUME asked' <= MaxInt
      PROVE  currentTime' * Second + timer_ticks'
                < (due' - (asked' \div 1000)) * Second + slept' + Second
  BY <1>2, <1>4, <1>5 DEF Timed, Clock
<1> QED BY <1>3, <1>5 DEF Timed, Asleep

(* Every step keeps Timed, *)
LEMMA TimedStep == Timed /\ [Next]_vars => Timed'
<1> SUFFICES ASSUME Timed, [Next]_vars PROVE Timed'
    OBVIOUS
<1>1. ASSUME NEW c \in Keys, Echo(c) PROVE Timed'
  BY <1>1, TimedElsewhere DEF Echo
<1>2. ASSUME NEW c \in Glyphs \cup {Newline, Return}, NextChar(c) PROVE Timed'
  BY <1>2, TimedElsewhere DEF NextChar, Go
<1>3. CASE Advance
  <2>1. UNCHANGED clock
    BY <1>3 DEF Advance, LoadVideo, StoreVideo, PutByte, LoadCount, StepBack,
       StoreCount, LoadLine, StoreLine, Scroll, LastLine, LoadStart, StoreStart,
       Home, rest
  <2>2. pc' # "sleep"
    BY <1>3 DEF Advance, LoadVideo, StoreVideo, PutByte, LoadCount, StepBack,
       StoreCount, LoadLine, StoreLine, Scroll, LastLine, LoadStart, StoreStart,
       Home, Go
  <2> QED BY <2>1, <2>2, TimedElsewhere
<1>4. CASE tick_timer
  BY <1>4, TickTimed
<1>5. ASSUME NEW ms \in Times, sys_sleep(ms) PROVE Timed'
  BY <1>5, SleepTimed
<1>6. CASE Wake
  BY <1>6 DEF Wake, Go, Timed, Clock, Asleep
<1>7. CASE UNCHANGED vars
  BY <1>7, TimedElsewhere DEF vars
<1> QED BY <1>1, <1>2, <1>3, <1>4, <1>5, <1>6, <1>7 DEF Next

(* so Timed always holds. *)
LEMMA TimedAlways == Spec => []Timed
BY TimedInit, TimedStep, PTL DEF Spec

(* sleep(ms) is over only after more than ms \div 1000 - 1 seconds, for each *)
(* ms that fits an int and however the clock stood when it was called.       *)
THEOREM SleepCorrect == Spec => SleepsLongEnough
<1>1. ASSUME Timed, [Next]_vars
      PROVE  [pc = "sleep" /\ pc' = "idle" /\ asked <= MaxInt
                => slept > ((asked \div 1000) - 1) * Second]_vars
  <2> SUFFICES ASSUME Next, pc = "sleep", pc' = "idle", asked <= MaxInt
               PROVE  slept > ((asked \div 1000) - 1) * Second
    BY <1>1
  <2>1. Wake
    <3>1. ~Advance
      BY DEF Advance, LoadVideo, StoreVideo, PutByte, LoadCount, StepBack,
         StoreCount, LoadLine, StoreLine, Scroll, LastLine, LoadStart, StoreStart,
         Home, Go
    <3> QED BY <3>1 DEF Next, Echo, NextChar, tick_timer, sys_sleep, Go
  <2>2. currentTime >= due
    BY <2>1 DEF Wake
  <2>3. PICK n \in Nat \ {0}, q \in Nat : n = Second /\ q = asked \div 1000
    BY <1>1, ScreenOK DEF ScreenOK, Timed, Clock
  <2>4. currentTime * n + timer_ticks < (due - q) * n + slept + n
    BY <1>1, <2>3 DEF Timed, Asleep
  <2>5. currentTime \in Nat /\ due \in Int /\ slept \in Nat /\ timer_ticks \in Nat
    BY <1>1, <2>3 DEF Timed, Clock
  <2>6. due * n <= currentTime * n
    BY <2>2, <2>3, <2>5
  <2>7. (due - q) * n = due * n - q * n /\ (q - 1) * n = q * n - n
    BY <2>3, <2>5
  <2>8. PICK c \in Int, d \in Int, e \in Int : c = currentTime * n /\ d = due * n /\ e = q * n
    BY <2>3, <2>5
  <2>9. slept > e - n
    BY <2>3, <2>4, <2>5, <2>6, <2>7, <2>8
  <2> QED BY <2>3, <2>7, <2>8, <2>9
<1> QED BY <1>1, TimedAlways, PTL DEF Spec, SleepsLongEnough
-----------------------------------------------------------------------------
(* Types: the bytes of the screen, what kprintf keeps, and the clock.        *)

Byte == Glyphs \cup Keys \cup {Blank, Colour}
Area == 0 .. Rows * RowBytes - 1

Bytes ==
    /\ screen \in [Area -> Byte]
    /\ char \in Glyphs \cup {Newline, Return, Blank}
    /\ pc \in Glyph => char \in Glyphs
    /\ row \in 0 .. Rows - 1
    /\ raced \in BOOLEAN /\ touched \in BOOLEAN /\ skewed \in BOOLEAN /\ spilled \in BOOLEAN

(* Below a row but the last there is another. *)
LEMMA NextRowOnScreen ==
    ASSUME NEW a \in Area, NEW r \in 0 .. Rows - 2, a \div RowBytes = r
    PROVE  a + RowBytes \in Area
<1> USE ScreenOK DEF ScreenOK
<1>1. PICK n \in Nat \ {0} : n = RowBytes
  BY DEF RowBytes
<1>2. a \in Nat /\ r \in Nat
  BY <1>1 DEF Area
<1>3. a < n * (r + 1)
  BY <1>1, <1>2
<1>4. n * (r + 1) + n = n * (r + 2)
  BY <1>1, <1>2
<1>5. n * (r + 2) <= n * Rows
  BY <1>1, <1>2
<1>6. n * Rows = Rows * n
  BY <1>1
<1>7. PICK p \in Int, q \in Int, w \in Int : p = n * (r + 1) /\ q = n * (r + 2) /\ w = Rows * n
  BY <1>1, <1>2
<1>8. a + n <= w - 1
  BY <1>1, <1>2, <1>3, <1>4, <1>5, <1>6, <1>7
<1> QED BY <1>1, <1>2, <1>7, <1>8 DEF Area

(* A byte on the screen is a byte. *)
LEMMA PutTyped ==
    ASSUME NEW s \in [Area -> Byte], NEW a, NEW b \in Byte
    PROVE  Put(s, a, b) \in [Area -> Byte]
BY DEF Put

(* Scrolling moves and clears bytes. *)
LEMMA ScrolledTyped ==
    ASSUME NEW s \in [Area -> Byte]
    PROVE  /\ Cleared(Rows - 1, s) \in [Area -> Byte]
           /\ Scrolled(s) \in [Area -> Byte]
<1>1. \A t \in [Area -> Byte] : Cleared(Rows - 1, t) \in [Area -> Byte]
  BY DEF Cleared, Byte
<1>2. [a \in DOMAIN s |-> IF a + RowBytes \in DOMAIN s THEN s[a + RowBytes] ELSE s[a]]
         \in [Area -> Byte]
  OBVIOUS
<1> QED BY <1>1, <1>2 DEF Scrolled

(* The screen starts with bytes, *)
LEMMA BytesInit == Init => Bytes
<1> SUFFICES ASSUME Init PROVE Bytes
    OBVIOUS
<1>1. screen \in [Area -> Byte]
  BY DEF Init, Area, Byte
<1>2. pc \notin Glyph /\ row \in 0 .. Rows - 1 /\ char = Blank
  BY ScreenOK DEF ScreenOK, Init, Glyph
<1>3. raced = FALSE /\ touched = FALSE /\ skewed = FALSE /\ spilled = FALSE
  BY DEF Init
<1> QED BY <1>1, <1>2, <1>3 DEF Bytes

(* an echo puts bytes there, *)
LEMMA EchoTyped ==
    ASSUME Bytes, NEW c \in Keys, Echo(c)
    PROVE  screen' \in [Area -> Byte] /\ spilled' \in BOOLEAN
<1>1. c \in Byte /\ Colour \in Byte /\ screen \in [Area -> Byte]
  BY DEF Byte, Bytes
<1>2. CASE c = Newline
  <2>1. Scrolled(screen) \in [Area -> Byte]
    BY <1>1, ScrolledTyped
  <2> QED BY <1>1, <1>2, <2>1 DEF Echo, NextLine, Bytes
<1>3. CASE c # Newline
  <2> DEFINE s == Put(Put(screen, video, c), video + 1, Colour)
  <2>1. s \in [Area -> Byte]
    BY <1>1, PutTyped
  <2>2. Scrolled(s) \in [Area -> Byte]
    BY <2>1, ScrolledTyped
  <2>3. screen' \in {s, Scrolled(s)}
    BY <1>3 DEF Echo, NextLine
  <2>4. spilled' \in BOOLEAN
    BY <1>3 DEF Echo
  <2> QED BY <2>1, <2>2, <2>3, <2>4
<1> QED BY <1>2, <1>3

(* and so does every step. *)
LEMMA BytesStep == Bytes /\ [Next]_vars => Bytes'
<1> SUFFICES ASSUME Bytes, [Next]_vars PROVE Bytes'
    OBVIOUS
<1>1. ASSUME NEW c \in Keys, Echo(c) PROVE Bytes'
  <2>1. UNCHANGED <<pc, char, row>> /\ raced' \in BOOLEAN /\ touched' \in BOOLEAN
        /\ skewed' \in BOOLEAN
    BY <1>1 DEF Echo, Bytes
  <2> QED BY <1>1, <2>1, EchoTyped DEF Bytes
<1>2. ASSUME NEW c \in Glyphs \cup {Newline, Return}, NextChar(c) PROVE Bytes'
  BY <1>2 DEF NextChar, Go, Bytes, Glyph
<1>3. CASE LoadVideo \/ StoreVideo \/ LoadCount
  <2>1. /\ UNCHANGED <<screen, char, row, spilled, raced, touched, skewed>>
        /\ pc \in Glyph \/ pc' \notin Glyph
    BY <1>3 DEF LoadVideo, StoreVideo, LoadCount, Go, rest, Glyph
  <2> QED BY <2>1 DEF Bytes
<1>4. CASE PutByte
  <2>1. pc \in Glyph /\ UNCHANGED <<char, row, raced, touched, skewed>> /\ spilled' \in BOOLEAN
    BY <1>4 DEF PutByte, Go, rest, Glyph
  <2>2. char \in Byte /\ Colour \in Byte
    BY <2>1 DEF Bytes, Byte
  <2>3. screen' \in [Area -> Byte]
    BY <1>4, <2>2, PutTyped DEF PutByte, Bytes
  <2> QED BY <2>1, <2>3 DEF Bytes
<1>5. CASE StepBack \/ LoadLine \/ LastLine \/ LoadStart \/ StoreStart
  <2>1. UNCHANGED <<screen, char, row, spilled, raced, touched, skewed>> /\ pc' \notin Glyph
    BY <1>5 DEF StepBack, LoadLine, LastLine, LoadStart, StoreStart, Go, cursor, rest, Glyph
  <2> QED BY <2>1 DEF Bytes
<1>6. CASE StoreCount
  <2>1. UNCHANGED <<screen, row, spilled, raced, touched, skewed>> /\ pc' \notin Glyph
        /\ char' \in {char, Blank}
    BY <1>6 DEF StoreCount, Go, history, Glyph
  <2> QED BY <2>1 DEF Bytes
<1>7. CASE StoreLine
  <2>1. UNCHANGED <<screen, char, spilled, raced, touched, skewed>> /\ pc' \notin Glyph
        /\ row' = 0
    BY <1>7 DEF StoreLine, Go, rest, Glyph
  <2> QED BY <2>1, ScreenOK DEF ScreenOK, Bytes
<1>8. CASE Scroll
  <2>1. UNCHANGED <<char, spilled, raced, touched, skewed>> /\ pc' \notin Glyph
    BY <1>8 DEF Scroll, rest, Glyph
  <2>2. screen' \in [Area -> Byte] /\ row' \in 0 .. Rows - 1
    <3>1. CASE row < Rows - 1
      <4>1. row \in 0 .. Rows - 2
        BY <3>1, ScreenOK DEF ScreenOK, Bytes
      <4>2. \A a \in Area : a \div RowBytes = row => a + RowBytes \in Area
        BY <4>1, NextRowOnScreen
      <4>3. screen' = [a \in Area |-> IF a \div RowBytes = row THEN screen[a + RowBytes]
                                                               ELSE screen[a]]
        BY <1>8, <3>1 DEF Scroll, Bytes
      <4>4. screen' \in [Area -> Byte]
        BY <4>2, <4>3 DEF Bytes
      <4>5. row' = row + 1
        BY <1>8, <3>1 DEF Scroll
      <4> QED BY <4>1, <4>4, <4>5, ScreenOK DEF ScreenOK
    <3>2. CASE ~(row < Rows - 1)
      BY <1>8, <3>2, ScrolledTyped, ScreenOK DEF ScreenOK, Scroll, Bytes
    <3> QED BY <3>1, <3>2
  <2> QED BY <2>1, <2>2 DEF Bytes
<1>9. CASE Home
  BY <1>9 DEF Home, Go, Bytes, Glyph
<1>10. ASSUME tick_timer \/ Wake \/ UNCHANGED vars \/ \E ms \in Times : sys_sleep(ms)
       PROVE  Bytes'
  <2>1. /\ UNCHANGED <<screen, char, row, spilled, raced, touched, skewed>>
        /\ pc' = pc \/ pc' \notin Glyph
    BY <1>10 DEF tick_timer, Wake, vars, sys_sleep, console, history, Go, Glyph
  <2> QED BY <2>1 DEF Bytes
<1> QED BY <1>1, <1>2, <1>3, <1>4, <1>5, <1>6, <1>7, <1>8, <1>9, <1>10 DEF Next, Advance

(* For every size of the screen, kprintf and the keyboard's handler keep     *)
(* line within Rows + MaxKeys and count within Width + MaxKeys, and no byte  *)
(* but characters, blanks and colours reaches the screen.                    *)
THEOREM TypeCorrect == Spec => []TypeOK
<1>1. Bounds /\ Bytes /\ Timed => TypeOK
  <2> SUFFICES ASSUME Bounds, Bytes, Timed PROVE TypeOK
      OBVIOUS
  <2>1. screen \in [0 .. Rows * RowBytes - 1 -> Glyphs \cup Keys \cup {Blank, Colour}]
    BY DEF Bytes, Area, Byte
  <2>2. line \in 0 .. Rows + MaxKeys /\ count \in 0 .. Width + MaxKeys /\ keys \in 0 .. MaxKeys
    BY ScreenOK DEF ScreenOK, Bounds, Integral
  <2> QED BY <2>1, <2>2 DEF TypeOK, Bounds, Integral, Bytes, Timed, Clock
<1>2. Spec => []Bytes
  BY BytesInit, BytesStep, PTL DEF Spec
<1> QED BY <1>1, <1>2, BoundsAlways, TimedAlways, PTL
-----------------------------------------------------------------------------
(* Places on the screen: byte b (character or colour) of column n of row r   *)

At(r, n, b) == Start(r) + 2 * n + b
Lines == 0 .. Rows - 1
Columns == 0 .. Width - 1

(* Quotient and remainder by an unknown number.                              *)
LEMMA DivisionIs ==
    ASSUME NEW n \in Nat \ {0}, NEW q \in Nat, NEW r \in 0 .. n - 1, NEW a \in Nat, a = q * n + r
    PROVE  a % n = r /\ a \div n = q
BY SMT

LEMMA Division ==
    ASSUME NEW n \in Nat \ {0}, NEW a \in Nat
    PROVE  \E q \in Nat, r \in 0 .. n - 1 : a = q * n + r
<1>1. a \div n \in Nat
  <2>1. a \div n \in Int BY SMT
  <2>2. a \div n >= 0 BY SMT
  <2> QED BY <2>1, <2>2
<1>2. PICK q \in Nat : q = a \div n
  BY <1>1
<1>3. a - q * n \in 0 .. n - 1
  BY <1>2, SMT
<1>4. PICK m \in Int : m = q * n
  BY <1>2
<1>5. PICK r \in 0 .. n - 1 : r = a - m
  BY <1>3, <1>4
<1>6. a = m + r
  BY <1>5
<1>7. QED
  BY <1>4, <1>5, <1>6

(* A place has an address, from which it can be computed.                    *)
LEMMA AtIs ==
    ASSUME NEW r \in Lines, NEW n \in Columns, NEW b \in 0 .. 1
    PROVE  /\ At(r, n, b) \in Area /\ At(r, n, b) \div RowBytes = r
           /\ (At(r, n, b) % RowBytes) \div 2 = n /\ At(r, n, b) % 2 = b
<1>1. Rows \in Nat /\ Width \in Nat \ {0} /\ r \in Nat /\ n \in Nat /\ b \in Nat
  BY ScreenOK DEF ScreenOK, Lines, Columns
<1>2. PICK w \in Nat \ {0} : w = RowBytes /\ w = 2 * Width
  BY <1>1 DEF RowBytes
<1>3. PICK m \in 0 .. w - 1 : m = 2 * n + b
  BY <1>1, <1>2 DEF Columns
<1>4. PICK p \in Nat : p = r * w
  BY <1>1, <1>2
<1>5. PICK a \in Nat : a = p + m
  BY <1>3, <1>4
<1>6. At(r, n, b) = a
  BY <1>1, <1>2, <1>3, <1>4, <1>5 DEF At, Start
<1>7. a % w = m /\ a \div w = r
  BY <1>1, <1>4, <1>5, DivisionIs
<1>8. m \div 2 = n
  BY <1>1, <1>3
<1>9. a % 2 = b
  <2>1. PICK h \in Nat : h = r * Width
    BY <1>1
  <2>2. p = 2 * h
    BY <1>1, <1>2, <1>4, <2>1
  <2>3. a = 2 * (h + n) + b
    BY <1>1, <1>3, <1>5, <2>2
  <2>4. QED
    BY <1>1, <2>3
<1>10. a <= Rows * w - 1
  <2>1. PICK d \in Nat : Rows = r + 1 + d
    <3>1. Rows - r - 1 \in Nat /\ Rows = r + 1 + (Rows - r - 1)
      BY <1>1 DEF Lines
    <3>2. QED
      BY <3>1
  <2>2. Rows * w = r * w + w + d * w /\ d * w \in Nat
    BY <1>1, <1>2, <2>1
  <2>3. QED
    BY <1>2, <1>3, <1>4, <1>5, <2>2
<1>11. a \in Area
  BY <1>1, <1>2, <1>10 DEF Area
<1>12. QED
  BY <1>2, <1>6, <1>7, <1>8, <1>9, <1>11

(* Every byte of the text rows has a place.                                  *)
LEMMA AreaIs ==
    ASSUME NEW a \in Area
    PROVE  \E r \in Lines, n \in Columns, b \in 0 .. 1 : a = At(r, n, b)
<1>1. Rows \in Nat /\ Width \in Nat \ {0}
  BY ScreenOK DEF ScreenOK
<1>2. PICK w \in Nat \ {0} : w = RowBytes /\ w = 2 * Width
  BY <1>1 DEF RowBytes
<1>3. a \in Nat /\ a <= Rows * w - 1
  BY <1>1, <1>2 DEF Area
<1>4. PICK r \in Nat, m \in 0 .. w - 1 : a = r * w + m
  BY <1>2, <1>3, Division
<1>5. PICK n \in Nat, b \in 0 .. 1 : m = 2 * n + b
  <2>1. PICK v \in Nat, i \in Nat \ {0} : v = m /\ i = 2
    BY <1>4
  <2>2. \E q \in Nat, x \in 0 .. i - 1 : v = q * i + x
    BY Division
  <2>3. QED
    BY <2>1, <2>2
<1>6. n \in Columns
  BY <1>1, <1>2, <1>4, <1>5 DEF Columns
<1>7. r < Rows
  <2>1. SUFFICES ASSUME r >= Rows PROVE FALSE
    BY <1>1, <1>4
  <2>2. PICK d \in Nat : r = Rows + d
    <3>1. r - Rows \in Nat /\ r = Rows + (r - Rows)
      BY <1>1, <1>4, <2>1
    <3>2. QED
      BY <3>1
  <2>3. r * w = Rows * w + d * w /\ d * w \in Nat /\ Rows * w \in Nat
    BY <1>1, <1>2, <2>2
  <2>4. QED
    BY <1>3, <1>4, <2>3
<1>8. a = At(r, n, b)
  <2>1. PICK p \in Nat : p = r * w
    BY <1>2, <1>4
  <2>2. At(r, n, b) = p + 2 * n + b
    BY <1>2, <2>1 DEF At, Start
  <2>3. a = p + m
    BY <1>4, <2>1
  <2>4. m \in Nat /\ n \in Nat /\ b \in Nat /\ p \in Nat
    BY <1>4, <1>5
  <2>5. p + m = p + 2 * n + b
    BY <1>5, <2>4
  <2>6. QED
    BY <2>2, <2>3, <2>5
<1>9. QED
  BY <1>1, <1>4, <1>6, <1>7, <1>8 DEF Lines

(* The place below; the last row has none.                                   *)
LEMMA AtBelow ==
    ASSUME NEW r \in Lines, NEW n \in Columns, NEW b \in 0 .. 1
    PROVE  /\ At(r, n, b) + RowBytes = At(r + 1, n, b)
           /\ r # Rows - 1 => r + 1 \in Lines
           /\ At(r, n, b) + RowBytes \in Area <=> r # Rows - 1
<1>1. Rows \in Nat /\ Width \in Nat \ {0} /\ r \in Nat /\ n \in Nat /\ b \in Nat
  BY ScreenOK DEF ScreenOK, Lines, Columns
<1>2. PICK w \in Nat \ {0} : w = RowBytes
  BY <1>1 DEF RowBytes
<1>3. PICK p \in Nat, q \in Nat : p = r * w /\ q = (r + 1) * w
  BY <1>1, <1>2
<1>4. q = p + w
  BY <1>1, <1>2, <1>3
<1>5. At(r, n, b) + RowBytes = At(r + 1, n, b)
  BY <1>1, <1>2, <1>3, <1>4 DEF At, Start
<1>6. r # Rows - 1 => r + 1 \in Lines
  BY <1>1 DEF Lines
<1>7. ASSUME r # Rows - 1 PROVE At(r, n, b) + RowBytes \in Area
  BY <1>5, <1>6, <1>7, AtIs
<1>8. ASSUME r = Rows - 1 PROVE At(r, n, b) + RowBytes \notin Area
  <2>1. q = Rows * w
    BY <1>1, <1>3, <1>8
  <2>2. At(r + 1, n, b) >= q
    BY <1>1, <1>2, <1>3 DEF At, Start
  <2>3. QED
    BY <1>2, <1>3, <1>5, <2>1, <2>2 DEF Area
<1>9. QED
  BY <1>5, <1>6, <1>7, <1>8

-----------------------------------------------------------------------------
(* What the screen shows of a sheet *)

Char == Glyphs \cup Keys

SheetOK(t) ==
    /\ t \in [rows : [Lines -> Seq(Char)], at : Lines, column : 0 .. Width]
    /\ \A r \in Lines : Len(t.rows[r]) <= Width
    /\ t.column <= Len(t.rows[t.at])

Cell(t, r, n) == IF n < Len(t.rows[r]) THEN t.rows[r][n + 1] ELSE Blank

Picture(t) == [a \in Area |->
    IF a % 2 = 1 THEN Colour ELSE Cell(t, a \div RowBytes, (a % RowBytes) \div 2)]

(* f is a function on the bytes of the text rows.                            *)
OnArea(f) == f = [a \in Area |-> f[a]]

(* The picture place by place.                                               *)
LEMMA PictureAt ==
    ASSUME NEW t, NEW r \in Lines, NEW n \in Columns
    PROVE  Picture(t)[At(r, n, 0)] = Cell(t, r, n) /\ Picture(t)[At(r, n, 1)] = Colour
<1>1. PICK a \in Area, c \in Area :
        /\ a = At(r, n, 0) /\ a \div RowBytes = r /\ (a % RowBytes) \div 2 = n /\ a % 2 = 0
        /\ c = At(r, n, 1) /\ c % 2 = 1
  BY AtIs
<1>2. Picture(t)[a] = Cell(t, r, n)
  BY <1>1 DEF Picture
<1>3. Picture(t)[c] = Colour
  BY <1>1 DEF Picture
<1>4. QED
  BY <1>1, <1>2, <1>3

(* Functions that agree at all places are equal.                             *)
LEMMA SamePlaces ==
    ASSUME NEW f, NEW g, OnArea(f), OnArea(g),
           \A r \in Lines, n \in Columns, b \in 0 .. 1 : f[At(r, n, b)] = g[At(r, n, b)]
    PROVE  f = g
<1>1. \A a \in Area : f[a] = g[a]
  BY AreaIs
<1>2. QED
  BY <1>1 DEF OnArea

LEMMA PictureIs ==
    ASSUME NEW t, NEW f, OnArea(f),
           \A r \in Lines, n \in Columns : f[At(r, n, 0)] = Cell(t, r, n) /\ f[At(r, n, 1)] = Colour
    PROVE  f = Picture(t)
<1>1. OnArea(Picture(t))
  BY DEF OnArea, Picture
<1>2. ASSUME NEW r \in Lines, NEW n \in Columns, NEW b \in 0 .. 1
      PROVE  f[At(r, n, b)] = Picture(t)[At(r, n, b)]
  <2>1. CASE b = 0
    BY <2>1, PictureAt
  <2>2. CASE b = 1
    BY <2>2, PictureAt
  <2>3. QED
    BY <2>1, <2>2
<1>3. QED
  BY <1>1, <1>2, SamePlaces

(* Sheets with the same rows look the same.                                  *)
LEMMA SameRows ==
    ASSUME NEW t, NEW u, t.rows = u.rows
    PROVE  Picture(t) = Picture(u)
BY DEF Picture, Cell

(* The screen is compared with the picture.                                  *)
LEMMA ShownIs ==
    ASSUME Bytes, NEW t, SheetOK(t)
    PROVE  Shown(t) = Picture(t)
<1>1. DOMAIN screen = Area
  BY DEF Bytes
<1>2. ASSUME NEW a \in Area
      PROVE  (a % RowBytes) \div 2 + 1 <= Len(t.rows[a \div RowBytes])
                <=> (a % RowBytes) \div 2 < Len(t.rows[a \div RowBytes])
  <2>1. PICK r \in Lines, n \in Columns, b \in 0 .. 1 : a = At(r, n, b)
    BY AreaIs
  <2>2. a \div RowBytes = r /\ (a % RowBytes) \div 2 = n
    BY <2>1, AtIs
  <2>3. Len(t.rows[r]) \in Nat
    BY LenProperties DEF SheetOK
  <2>4. n \in Nat
    BY ScreenOK DEF ScreenOK, Columns
  <2>5. QED
    BY <2>2, <2>3, <2>4
<1>3. QED
  BY <1>1, <1>2 DEF Shown, Picture, Cell
-----------------------------------------------------------------------------
(* What the terminal of Typed does to the picture *)

(* A character at the cursor, before the test for a full row.                *)
Glyphed(t, c) == [t EXCEPT !.rows[t.at] = Over(@, t.column, c), !.column = @ + 1]

(* A row with a character more, or another one.                              *)
LEMMA OverIs ==
    ASSUME NEW s \in Seq(Char), NEW n \in 0 .. Len(s), NEW c \in Char
    PROVE  /\ Over(s, n, c) \in Seq(Char)
           /\ Len(Over(s, n, c)) = IF n < Len(s) THEN Len(s) ELSE Len(s) + 1
           /\ \A i \in 1 .. Len(Over(s, n, c)) :
                 Over(s, n, c)[i] = IF i = n + 1 THEN c ELSE s[i]
<1>1. Len(s) \in Nat
  BY LenProperties
<1>2. CASE n < Len(s)
  <2>1. n + 1 \in 1 .. Len(s)
    BY <1>1, <1>2
  <2>2. PICK k \in 1 .. Len(s) : k = n + 1
    BY <2>1
  <2>3. /\ [s EXCEPT ![k] = c] \in Seq(Char)
        /\ Len([s EXCEPT ![k] = c]) = Len(s)
        /\ \A i \in 1 .. Len(s) : [s EXCEPT ![k] = c][i] = IF i = k THEN c ELSE s[i]
    BY ExceptSeq
  <2>4. QED
    BY <1>2, <2>2, <2>3 DEF Over
<1>3. CASE ~ (n < Len(s))
  <2>1. n = Len(s)
    BY <1>1, <1>3
  <2>2. /\ Append(s, c) \in Seq(Char) /\ Len(Append(s, c)) = Len(s) + 1
        /\ \A i \in 1 .. Len(s) : Append(s, c)[i] = s[i]
        /\ Append(s, c)[Len(s) + 1] = c
    BY AppendProperties
  <2>3. ASSUME NEW i \in 1 .. Len(s) + 1
        PROVE  Append(s, c)[i] = IF i = n + 1 THEN c ELSE s[i]
    <3>1. CASE i = Len(s) + 1
      BY <2>1, <2>2, <3>1
    <3>2. CASE i # Len(s) + 1
      <4>1. i \in 1 .. Len(s)
        BY <1>1, <3>2
      <4>2. QED
        BY <2>1, <2>2, <3>2, <4>1
    <3>3. QED
      BY <3>1, <3>2
  <2>4. QED
    BY <1>3, <2>2, <2>3 DEF Over
<1>4. QED
  BY <1>2, <1>3

(* The character is in its place, and the rest stays.                        *)
LEMMA GlyphedIs ==
    ASSUME NEW t, SheetOK(t), t.column < Width, NEW c \in Char
    PROVE  /\ SheetOK(Glyphed(t, c)) /\ Glyphed(t, c).at = t.at
           /\ Glyphed(t, c).column = t.column + 1
           /\ \A r \in Lines, n \in Columns :
                 Cell(Glyphed(t, c), r, n) = IF r = t.at /\ n = t.column THEN c
                                             ELSE Cell(t, r, n)
<1> DEFINE s == t.rows[t.at]
           u == Over(s, t.column, c)
<1>1. Width \in Nat /\ Rows \in Nat
  BY ScreenOK DEF ScreenOK
<1>2. /\ t \in [rows : [Lines -> Seq(Char)], at : Lines, column : 0 .. Width]
      /\ s \in Seq(Char) /\ Len(s) <= Width /\ t.column \in 0 .. Len(s) /\ t.at \in Lines
  <2>1. t \in [rows : [Lines -> Seq(Char)], at : Lines, column : 0 .. Width]
    BY DEF SheetOK
  <2>2. s \in Seq(Char) /\ t.at \in Lines
    BY <2>1
  <2>3. Len(s) \in Nat
    BY <2>2, LenProperties
  <2>4. QED
    BY <1>1, <2>1, <2>2, <2>3 DEF SheetOK
<1>3. Len(s) \in Nat /\ t.column \in Nat
  BY <1>2, LenProperties
<1> HIDE DEF s
<1>4. /\ u \in Seq(Char) /\ Len(u) = IF t.column < Len(s) THEN Len(s) ELSE Len(s) + 1
      /\ \A i \in 1 .. Len(u) : u[i] = IF i = t.column + 1 THEN c ELSE s[i]
  BY <1>2, OverIs
<1> HIDE DEF u
<1>5. t.column + 1 \in 0 .. Width
  BY <1>1, <1>3
<1>6. PICK k \in 0 .. Width : k = t.column + 1
  BY <1>5
<1>7. Glyphed(t, c) = [rows |-> [t.rows EXCEPT ![t.at] = u], at |-> t.at, column |-> k]
  <2>1. PICK R : R = [t.rows EXCEPT ![t.at] = u]
    OBVIOUS
  <2>2. Glyphed(t, c) = [t EXCEPT !.rows = R, !.column = k]
    BY <1>2, <1>6, <2>1 DEF Glyphed, s, u
  <2>3. [t EXCEPT !.rows = R, !.column = k] = [rows |-> R, at |-> t.at, column |-> k]
    <3>1. PICK x, y, z : t = [rows |-> x, at |-> y, column |-> z]
      BY <1>2
    <3>2. PICK v : v = [t EXCEPT !.rows = R]
      OBVIOUS
    <3>3. v = [rows |-> R, at |-> y, column |-> z]
      BY <3>1, <3>2
    <3>4. [v EXCEPT !.column = k] = [rows |-> R, at |-> y, column |-> k]
      BY <3>3
    <3>5. [t EXCEPT !.rows = R, !.column = k] = [v EXCEPT !.column = k]
      BY <3>2
    <3>6. QED
      BY <3>1, <3>4, <3>5
  <2>4. QED
    BY <2>1, <2>2, <2>3
<1>8. PICK g : g = Glyphed(t, c)
  OBVIOUS
<1>9. /\ g.rows = [t.rows EXCEPT ![t.at] = u] /\ g.at = t.at /\ g.column = k
      /\ g \in [rows : [Lines -> Seq(Char)], at : Lines, column : 0 .. Width]
  BY <1>2, <1>4, <1>7, <1>8
<1>10. \A r \in Lines : g.rows[r] = IF r = t.at THEN u ELSE t.rows[r]
  BY <1>2, <1>9
<1>11. Len(u) <= Width /\ k <= Len(u)
  BY <1>1, <1>2, <1>3, <1>4, <1>6
<1>12. SheetOK(g)
  BY <1>2, <1>9, <1>10, <1>11 DEF SheetOK
<1>13. ASSUME NEW r \in Lines, NEW n \in Columns
       PROVE  Cell(g, r, n) = IF r = t.at /\ n = t.column THEN c ELSE Cell(t, r, n)
  <2>1. CASE r # t.at
    BY <1>10, <2>1 DEF Cell
  <2>2. CASE r = t.at
    <3>1. Cell(g, r, n) = IF n < Len(u) THEN u[n + 1] ELSE Blank
      BY <1>10, <2>2 DEF Cell
    <3>2. Cell(t, r, n) = IF n < Len(s) THEN s[n + 1] ELSE Blank
      BY <2>2 DEF Cell, s
    <3>3. n \in Nat
      BY <1>1 DEF Columns
    <3>4. CASE n < Len(u)
      <4>1. n + 1 \in 1 .. Len(u)
        BY <1>3, <1>4, <3>3, <3>4
      <4>2. u[n + 1] = IF n = t.column THEN c ELSE s[n + 1]
        BY <1>3, <1>4, <3>3, <4>1
      <4>3. n # t.column => n < Len(s)
        BY <1>2, <1>3, <1>4, <3>3, <3>4
      <4>4. QED
        BY <2>2, <3>1, <3>2, <3>4, <4>2, <4>3
    <3>5. CASE ~ (n < Len(u))
      <4>1. n # t.column /\ ~ (n < Len(s))
        BY <1>2, <1>3, <1>4, <3>3, <3>5
      <4>2. QED
        BY <3>1, <3>2, <3>5, <4>1
    <3>6. QED
      BY <3>4, <3>5
  <2>3. QED
    BY <2>1, <2>2
<1>14. QED
  BY <1>6, <1>8, <1>9, <1>12, <1>13

(* The two bytes kprintf and the echo store show the character.              *)
LEMMA PutPicture ==
    ASSUME NEW t, SheetOK(t), t.column < Width, NEW c \in Char
    PROVE  /\ At(t.at, t.column, 0) \in Area /\ At(t.at, t.column, 1) \in Area
           /\ Put(Picture(t), At(t.at, t.column, 0), c) = Picture(Glyphed(t, c))
           /\ Put(Picture(Glyphed(t, c)), At(t.at, t.column, 1), Colour)
                 = Picture(Glyphed(t, c))
<1>1. t.at \in Lines /\ t.column \in Columns
  BY ScreenOK DEF ScreenOK, SheetOK, Columns
<1>2. PICK p, q \in Area : p = At(t.at, t.column, 0) /\ q = At(t.at, t.column, 1)
  BY <1>1, AtIs
<1>3. PICK g : g = Glyphed(t, c)
  OBVIOUS
<1>4. DOMAIN Picture(t) = Area /\ DOMAIN Picture(g) = Area
  BY DEF Picture
<1>5. PICK f : f = [Picture(t) EXCEPT ![p] = c]
  OBVIOUS
<1>6. /\ OnArea(f) /\ Put(Picture(t), p, c) = f
      /\ \A a \in Area : f[a] = IF a = p THEN c ELSE Picture(t)[a]
  BY <1>4, <1>5 DEF Put, OnArea, Picture
<1>7. ASSUME NEW r \in Lines, NEW n \in Columns
      PROVE  f[At(r, n, 0)] = Cell(g, r, n) /\ f[At(r, n, 1)] = Colour
  <2>1. PICK x, y \in Area :
           /\ x = At(r, n, 0) /\ x \div RowBytes = r /\ (x % RowBytes) \div 2 = n /\ x % 2 = 0
           /\ y = At(r, n, 1) /\ y % 2 = 1
    BY AtIs
  <2>2. p \div RowBytes = t.at /\ (p % RowBytes) \div 2 = t.column /\ p % 2 = 0
    BY <1>1, <1>2, AtIs
  <2>3. y # p /\ (x = p <=> r = t.at /\ n = t.column)
    BY <1>2, <2>1, <2>2
  <2>4. Picture(t)[x] = Cell(t, r, n) /\ Picture(t)[y] = Colour
    BY <2>1, PictureAt
  <2>5. Cell(g, r, n) = IF r = t.at /\ n = t.column THEN c ELSE Cell(t, r, n)
    BY <1>3, GlyphedIs
  <2>6. QED
    BY <1>6, <2>1, <2>3, <2>4, <2>5
<1>8. f = Picture(g)
  BY <1>6, <1>7, PictureIs
<1>9. Picture(g)[q] = Colour
  BY <1>1, <1>2, PictureAt
<1>10. Put(Picture(g), q, Colour) = Picture(g)
  <2>1. [Picture(g) EXCEPT ![q] = Colour] = Picture(g)
    BY <1>4, <1>9 DEF Picture
  <2>2. QED
    BY <2>1 DEF Put
<1>11. QED
  BY <1>2, <1>3, <1>6, <1>8, <1>10

(* The end of a row on a sheet.                                              *)
LEMMA FedIs ==
    ASSUME NEW t, SheetOK(t)
    PROVE  /\ SheetOK(Fed(t)) /\ Fed(t).column = 0
           /\ t.at + 1 # Rows => Fed(t).at = t.at + 1 /\ Picture(Fed(t)) = Picture(t)
           /\ t.at + 1 = Rows =>
                 /\ Fed(t).at = Rows - 1
                 /\ \A r \in Lines, n \in Columns :
                       Cell(Fed(t), r, n) = IF r = Rows - 1 THEN Blank ELSE Cell(t, r + 1, n)
<1>1. Rows \in Nat /\ Rows > 1 /\ Width \in Nat
  BY ScreenOK DEF ScreenOK
<1>2. /\ t \in [rows : [Lines -> Seq(Char)], at : Lines, column : 0 .. Width]
      /\ \A r \in Lines : Len(t.rows[r]) <= Width /\ Len(t.rows[r]) \in Nat
  <2>1. t \in [rows : [Lines -> Seq(Char)], at : Lines, column : 0 .. Width]
    BY DEF SheetOK
  <2>2. \A r \in Lines : t.rows[r] \in Seq(Char)
    BY <2>1
  <2>3. QED
    BY <2>1, <2>2, LenProperties DEF SheetOK
<1>3. t.at \in Nat /\ t.at < Rows
  BY <1>1, <1>2 DEF Lines
<1>4. CASE t.at + 1 # Rows
  <2>1. t.at + 1 < Rows /\ t.at + 1 \in Lines
    BY <1>1, <1>3, <1>4 DEF Lines
  <2>2. PICK k \in Lines : k = t.at + 1
    BY <2>1
  <2>3. PICK z \in 0 .. Width : z = 0
    BY <1>1
  <2>4. PICK f : f = Fed(t)
    OBVIOUS
  <2>5. f = [rows |-> t.rows, at |-> k, column |-> z]
    BY <1>2, <2>1, <2>2, <2>3, <2>4 DEF Fed
  <2>6. /\ f.rows = t.rows /\ f.at = k /\ f.column = 0
        /\ f \in [rows : [Lines -> Seq(Char)], at : Lines, column : 0 .. Width]
    BY <1>2, <2>3, <2>5
  <2>7. SheetOK(f)
    BY <1>2, <2>6 DEF SheetOK
  <2>8. Picture(f) = Picture(t)
    BY <2>6, SameRows
  <2>9. QED
    BY <1>4, <2>2, <2>4, <2>6, <2>7, <2>8
<1>5. CASE t.at + 1 = Rows
  <2> DEFINE below == [r \in Lines |-> IF r = Rows - 1 THEN <<>> ELSE t.rows[r + 1]]
  <2>1. Rows - 1 \in Lines /\ \A r \in Lines : r # Rows - 1 => r + 1 \in Lines
    BY <1>1 DEF Lines
  <2>2. <<>> \in Seq(Char) /\ Len(<<>>) = 0
    BY EmptySeq
  <2>3. below \in [Lines -> Seq(Char)]
    BY <1>2, <2>1, <2>2
  <2>4. /\ \A r \in Lines : r # Rows - 1 => below[r] = t.rows[r + 1]
        /\ below[Rows - 1] = <<>>
    BY <2>1
  <2>5. \A r \in Lines : Len(below[r]) <= Width /\ Len(below[r]) \in Nat
    BY <1>1, <1>2, <2>1, <2>2, <2>4
  <2>6. Fed(t) = [rows |-> below, at |-> Rows - 1, column |-> 0]
    BY <1>3, <1>5 DEF Fed, Lines
  <2> HIDE DEF below
  <2>7. PICK f : f = Fed(t)
    OBVIOUS
  <2>8. /\ f.rows = below /\ f.at = Rows - 1 /\ f.column = 0
        /\ f \in [rows : [Lines -> Seq(Char)], at : Lines, column : 0 .. Width]
    BY <1>1, <2>1, <2>3, <2>6, <2>7
  <2>9. SheetOK(f)
    BY <2>1, <2>5, <2>8 DEF SheetOK
  <2>10. ASSUME NEW r \in Lines, NEW n \in Columns
         PROVE  Cell(f, r, n) = IF r = Rows - 1 THEN Blank ELSE Cell(t, r + 1, n)
    <3>1. CASE r = Rows - 1
      <4>1. f.rows[r] = <<>> /\ n \in Nat
        BY <1>1, <2>4, <2>8, <3>1 DEF Columns
      <4>2. ~ (n < Len(f.rows[r]))
        BY <2>2, <4>1
      <4>3. QED
        BY <3>1, <4>2 DEF Cell
    <3>2. CASE r # Rows - 1
      BY <2>4, <2>8, <3>2 DEF Cell
    <3>3. QED
      BY <3>1, <3>2
  <2>11. QED
    BY <1>5, <2>7, <2>8, <2>9, <2>10
<1>6. QED
  BY <1>4, <1>5
-----------------------------------------------------------------------------
(* Scrolling the picture, at once and row by row *)

(* The first k rows were moved.                                              *)
Scrolling(t, k) == [a \in Area |->
    IF a \div RowBytes < k THEN Picture(t)[a + RowBytes] ELSE Picture(t)[a]]

(* The last row is cleared.                                                  *)
LEMMA ClearedIs ==
    ASSUME NEW f, OnArea(f), NEW t, SheetOK(t), t.at + 1 = Rows,
           \A r \in Lines, n \in Columns, b \in 0 .. 1 :
              r # Rows - 1 => f[At(r, n, b)] = Picture(t)[At(r + 1, n, b)]
    PROVE  Cleared(Rows - 1, f) = Picture(Fed(t))
<1>1. DOMAIN f = Area
  BY DEF OnArea
<1>2. PICK g : g = Cleared(Rows - 1, f)
  OBVIOUS
<1>3. /\ OnArea(g)
      /\ \A a \in Area : g[a] = IF a \div RowBytes # Rows - 1 THEN f[a]
                                ELSE IF a % 2 = 0 THEN Blank ELSE Colour
  BY <1>1, <1>2 DEF Cleared, OnArea
<1>4. ASSUME NEW r \in Lines, NEW n \in Columns
      PROVE  g[At(r, n, 0)] = Cell(Fed(t), r, n) /\ g[At(r, n, 1)] = Colour
  <2>1. PICK x, y \in Area : /\ x = At(r, n, 0) /\ x \div RowBytes = r /\ x % 2 = 0
                             /\ y = At(r, n, 1) /\ y \div RowBytes = r /\ y % 2 = 1
    BY AtIs
  <2>2. Cell(Fed(t), r, n) = IF r = Rows - 1 THEN Blank ELSE Cell(t, r + 1, n)
    BY FedIs
  <2>3. CASE r = Rows - 1
    BY <1>3, <2>1, <2>2, <2>3
  <2>4. CASE r # Rows - 1
    <3>1. r + 1 \in Lines
      BY <2>4, AtBelow
    <3>2. Picture(t)[At(r + 1, n, 0)] = Cell(t, r + 1, n) /\ Picture(t)[At(r + 1, n, 1)] = Colour
      BY <3>1, PictureAt
    <3>3. f[x] = Cell(t, r + 1, n) /\ f[y] = Colour
      BY <2>1, <2>4, <3>2
    <3>4. QED
      BY <1>3, <2>1, <2>2, <2>4, <3>3
  <2>5. QED
    BY <2>3, <2>4
<1>5. g = Picture(Fed(t))
  BY <1>3, <1>4, PictureIs
<1>6. QED
  BY <1>2, <1>5

(* The echo scrolls at once.                                                 *)
LEMMA ScrolledIs ==
    ASSUME NEW t, SheetOK(t), t.at + 1 = Rows
    PROVE  Scrolled(Picture(t)) = Picture(Fed(t))
<1> DEFINE f == [a \in DOMAIN Picture(t) |->
                   IF a + RowBytes \in DOMAIN Picture(t) THEN Picture(t)[a + RowBytes]
                   ELSE Picture(t)[a]]
<1>1. DOMAIN Picture(t) = Area
  BY DEF Picture
<1>2. /\ OnArea(f)
      /\ \A a \in Area : f[a] = IF a + RowBytes \in Area THEN Picture(t)[a + RowBytes]
                                ELSE Picture(t)[a]
  BY <1>1 DEF OnArea
<1>3. Scrolled(Picture(t)) = Cleared(Rows - 1, f)
  BY DEF Scrolled
<1> HIDE DEF f
<1>4. \A r \in Lines, n \in Columns, b \in 0 .. 1 :
         r # Rows - 1 => f[At(r, n, b)] = Picture(t)[At(r + 1, n, b)]
  <2> SUFFICES ASSUME NEW r \in Lines, NEW n \in Columns, NEW b \in 0 .. 1, r # Rows - 1
               PROVE  f[At(r, n, b)] = Picture(t)[At(r + 1, n, b)]
    OBVIOUS
  <2>1. /\ At(r, n, b) \in Area /\ At(r, n, b) + RowBytes = At(r + 1, n, b)
        /\ At(r, n, b) + RowBytes \in Area
    BY AtIs, AtBelow
  <2>2. QED
    BY <1>2, <2>1
<1>5. QED
  BY <1>2, <1>3, <1>4, ClearedIs

(* kprintf scrolls row by row, from the picture                              *)
LEMMA ScrollingStarts ==
    ASSUME NEW t
    PROVE  Scrolling(t, 0) = Picture(t)
<1>1. ASSUME NEW a \in Area PROVE ~ (a \div RowBytes < 0)
  <2>1. PICK r \in Lines, n \in Columns, b \in 0 .. 1 : a = At(r, n, b)
    BY AreaIs
  <2>2. a \div RowBytes = r
    BY <2>1, AtIs
  <2>3. QED
    BY <2>2, ScreenOK DEF ScreenOK, Lines
<1>2. Scrolling(t, 0) = [a \in Area |-> Picture(t)[a]]
  BY <1>1 DEF Scrolling
<1>3. QED
  BY <1>2 DEF Picture

(* over the next row                                                         *)
LEMMA ScrollingGoesOn ==
    ASSUME NEW t, NEW k \in 0 .. Rows - 2
    PROVE  [a \in Area |-> IF a \div RowBytes = k THEN Scrolling(t, k)[a + RowBytes]
                                                  ELSE Scrolling(t, k)[a]]
              = Scrolling(t, k + 1)
<1> DEFINE f == [a \in Area |-> IF a \div RowBytes = k THEN Scrolling(t, k)[a + RowBytes]
                                                       ELSE Scrolling(t, k)[a]]
<1>1. \A a \in Area : Scrolling(t, k)[a] = IF a \div RowBytes < k THEN Picture(t)[a + RowBytes]
                                           ELSE Picture(t)[a]
  BY DEF Scrolling
<1>2. \A a \in Area : Scrolling(t, k + 1)[a] = IF a \div RowBytes < k + 1
                                               THEN Picture(t)[a + RowBytes] ELSE Picture(t)[a]
  BY DEF Scrolling
<1>3. OnArea(f) /\ OnArea(Scrolling(t, k + 1))
  BY DEF OnArea, Scrolling
<1>4. \A a \in Area : f[a] = IF a \div RowBytes = k THEN Scrolling(t, k)[a + RowBytes]
                                                    ELSE Scrolling(t, k)[a]
  OBVIOUS
<1> HIDE DEF f
<1>5. ASSUME NEW r \in Lines, NEW n \in Columns, NEW b \in 0 .. 1
      PROVE  f[At(r, n, b)] = Scrolling(t, k + 1)[At(r, n, b)]
  <2>1. PICK a \in Area : a = At(r, n, b) /\ a \div RowBytes = r
    BY AtIs
  <2>2. r \in Int /\ k \in Int /\ Rows \in Int
    BY ScreenOK DEF ScreenOK, Lines
  <2>3. CASE r = k
    <3>1. r # Rows - 1
      BY <2>2, <2>3
    <3>2. r + 1 \in Lines /\ a + RowBytes = At(r + 1, n, b)
      BY <2>1, <3>1, AtBelow
    <3>3. a + RowBytes \in Area /\ (a + RowBytes) \div RowBytes = r + 1
      BY <3>2, AtIs
    <3>4. Scrolling(t, k)[a + RowBytes] = Picture(t)[a + RowBytes]
      BY <1>1, <2>2, <2>3, <3>3
    <3>5. QED
      BY <1>2, <1>4, <2>1, <2>2, <2>3, <3>4
  <2>4. CASE r # k
    <3>1. r < k <=> r < k + 1
      BY <2>2, <2>4
    <3>2. QED
      BY <1>1, <1>2, <1>4, <2>1, <2>4, <3>1
  <2>5. QED
    BY <2>3, <2>4
<1>6. f = Scrolling(t, k + 1)
  BY <1>3, <1>5, SamePlaces
<1>7. QED
  BY <1>6 DEF f

(* to the picture of the sheet that was fed.                                 *)
LEMMA ScrollingEnds ==
    ASSUME NEW t, SheetOK(t), t.at + 1 = Rows
    PROVE  Cleared(Rows - 1, Scrolling(t, Rows - 1)) = Picture(Fed(t))
<1>1. OnArea(Scrolling(t, Rows - 1))
  BY DEF OnArea, Scrolling
<1>2. ASSUME NEW r \in Lines, NEW n \in Columns, NEW b \in 0 .. 1, r # Rows - 1
      PROVE  Scrolling(t, Rows - 1)[At(r, n, b)] = Picture(t)[At(r + 1, n, b)]
  <2>1. PICK a \in Area : a = At(r, n, b) /\ a \div RowBytes = r
    BY AtIs
  <2>2. r < Rows - 1 /\ a + RowBytes = At(r + 1, n, b)
    BY <1>2, <2>1, AtBelow, ScreenOK DEF ScreenOK, Lines
  <2>3. QED
    BY <2>1, <2>2 DEF Scrolling
<1>3. QED
  BY <1>1, <1>2, ClearedIs
-----------------------------------------------------------------------------
(* The invariant: while no handler has printed inside of kprintf, the screen *)
(* and the cursor are on the way from the sheet t before the character, the  *)
(* row or the screen was full to the sheet text.                             *)

Before == {"glyph", "glyph+", "put glyph"}
After == {"colour", "colour+", "put colour", "count", "count+"}
Done == {"start", "start+", "home", "return", "return-"}

Drawn(t) == SheetOK(t) /\ screen = Picture(t)

Putting(t) == Drawn(t) /\ line = t.at /\ count = t.column /\ text = Typed(t, char)
Counting(t) == /\ Drawn(t) /\ line = t.at /\ count + 1 = t.column
               /\ text = IF t.column = Width THEN Fed(t) ELSE t
Feeding(t) == Drawn(t) /\ line = t.at /\ text = Fed(t)
Moving(t) == SheetOK(t) /\ t.at + 1 = Rows /\ text = Fed(t) /\ screen = Scrolling(t, row)

AtEnd == Drawn(text) /\ text.at = Rows - 1 /\ text.column = 0
AtStart == Drawn(text) /\ line = text.at /\ text.column = 0

Showing ==
    /\ ~touched /\ ~skewed /\ ~spilled
    /\ SheetOK(text)
    /\ pc \in Rest => Drawn(text) /\ line = text.at /\ count = text.column
    /\ pc \in Before => \E t : Putting(t)
    /\ pc \in After => \E t : Counting(t)
    /\ pc \in {"put glyph", "put colour"} => reg = video - 1
    /\ pc \in {"line", "line+"} => \E t : Feeding(t)
    /\ pc = "line+" => reg = line
    /\ pc = "scroll" => \E t : Moving(t)
    /\ pc = "last" => AtEnd
    /\ pc \in Done => AtStart

ScreenInv == ~raced => Showing

(* What the keyboard's handler has disturbed stays so.                       *)
LEMMA RacedStays == Bytes /\ [Next]_vars /\ raced => raced'
<1> SUFFICES ASSUME Bytes, [Next]_vars, raced PROVE raced'
  OBVIOUS
<1>1. ASSUME NEW c \in Keys, Echo(c) PROVE raced'
  BY <1>1 DEF Echo
<1>2. ASSUME NEW c \in Glyphs \cup {Newline, Return}, NextChar(c) PROVE raced'
  BY <1>2 DEF NextChar
<1>3. CASE Advance
  BY <1>3 DEF Advance, LoadVideo, StoreVideo, PutByte, LoadCount, StepBack, StoreCount,
     LoadLine, StoreLine, Scroll, LastLine, LoadStart, StoreStart, Home, rest, history
<1>4. CASE tick_timer \/ Wake \/ UNCHANGED vars \/ \E ms \in Times : sys_sleep(ms)
  BY <1>4 DEF tick_timer, Wake, sys_sleep, vars, console, history
<1>5. QED
  BY <1>1, <1>2, <1>3, <1>4 DEF Next

(* A character is typed.                                                     *)
LEMMA TypedIs ==
    ASSUME NEW t, SheetOK(t), t.column < Width, NEW c \in Char, c \notin {Newline, Return}
    PROVE  /\ Typed(t, c) = IF Glyphed(t, c).column = Width THEN Fed(Glyphed(t, c))
                            ELSE Glyphed(t, c)
           /\ SheetOK(Typed(t, c))
<1>1. Typed(t, c) = IF Glyphed(t, c).column = Width THEN Fed(Glyphed(t, c)) ELSE Glyphed(t, c)
  BY DEF Typed, Glyphed
<1>2. QED
  BY <1>1, GlyphedIs, FedIs

(* The cursor goes back to the start of its row.                             *)
LEMMA BackIs ==
    ASSUME NEW t, SheetOK(t), NEW u, u = [t EXCEPT !.column = 0]
    PROVE  SheetOK(u) /\ u.rows = t.rows /\ u.at = t.at /\ u.column = 0
<1>1. t \in [rows : [Lines -> Seq(Char)], at : Lines, column : 0 .. Width] /\ Width \in Nat
  BY ScreenOK DEF SheetOK, ScreenOK
<1>2. /\ u \in [rows : [Lines -> Seq(Char)], at : Lines, column : 0 .. Width]
      /\ u.rows = t.rows /\ u.at = t.at /\ u.column = 0
  BY <1>1
<1>3. Len(t.rows[t.at]) \in Nat
  <2>1. t.rows[t.at] \in Seq(Char)
    BY <1>1
  <2>2. QED
    BY <2>1, LenProperties
<1>4. \A r \in Lines : Len(u.rows[r]) <= Width
  BY <1>2 DEF SheetOK
<1>5. u.column <= Len(u.rows[u.at])
  <2>1. PICK l \in Nat : l = Len(t.rows[t.at])
    BY <1>3
  <2>2. 0 <= l
    BY <2>1
  <2>3. QED
    BY <1>2, <2>1, <2>2
<1>6. SheetOK(u)
  BY <1>2, <1>4, <1>5 DEF SheetOK
<1>7. QED
  BY <1>2, <1>6

(* '\n' ends the row, and '\r' goes back.                                     *)
LEMMA TypedEnds ==
    ASSUME NEW t
    PROVE  Typed(t, Newline) = Fed(t) /\ Typed(t, Return) = [t EXCEPT !.column = 0]
<1>1. Newline # Return
  BY ScreenOK DEF ScreenOK
<1>2. Typed(t, Newline) = Fed(t)
  BY <1>1 DEF Typed
<1>3. Typed(t, Return) = [t EXCEPT !.column = 0]
  BY <1>1 DEF Typed
<1>4. QED
  BY <1>2, <1>3

(* The screen starts empty.                                                  *)
LEMMA ScreenInit == Init => ScreenInv
<1> SUFFICES ASSUME Init PROVE Showing
  BY DEF ScreenInv
<1>1. Rows \in Nat /\ Rows > 1 /\ Width \in Nat \ {0}
  BY ScreenOK DEF ScreenOK
<1>2. <<>> \in Seq(Char) /\ Len(<<>>) = 0
  BY EmptySeq
<1>3. text = [rows |-> [r \in Lines |-> <<>>], at |-> 0, column |-> 0]
  BY DEF Init, Sheet, Lines
<1>4. PICK R : R = [r \in Lines |-> <<>>]
  OBVIOUS
<1>5. R \in [Lines -> Seq(Char)] /\ \A r \in Lines : R[r] = <<>>
  BY <1>2, <1>4
<1>6. text.rows = R /\ text.at = 0 /\ text.column = 0
  BY <1>3, <1>4
<1>7. text \in [rows : [Lines -> Seq(Char)], at : Lines, column : 0 .. Width] /\ 0 \in Lines
  BY <1>1, <1>3, <1>4, <1>5 DEF Lines
<1>8. \A r \in Lines : Len(text.rows[r]) = 0
  BY <1>2, <1>5, <1>6
<1>9. SheetOK(text)
  BY <1>1, <1>6, <1>7, <1>8 DEF SheetOK
<1>10. /\ OnArea(screen)
       /\ \A a \in Area : screen[a] = IF a % 2 = 0 THEN Blank ELSE Colour
  BY DEF Init, Area, OnArea
<1>11. ASSUME NEW r \in Lines, NEW n \in Columns
       PROVE  screen[At(r, n, 0)] = Cell(text, r, n) /\ screen[At(r, n, 1)] = Colour
  <2>1. PICK x, y \in Area : x = At(r, n, 0) /\ x % 2 = 0 /\ y = At(r, n, 1) /\ y % 2 = 1
    BY AtIs
  <2>2. ~ (n < Len(text.rows[r]))
    BY <1>1, <1>8 DEF Columns
  <2>3. QED
    BY <1>10, <2>1, <2>2 DEF Cell
<1>12. screen = Picture(text)
  BY <1>10, <1>11, PictureIs
<1>13. pc = "idle" /\ line = 0 /\ count = 0
       /\ touched = FALSE /\ skewed = FALSE /\ spilled = FALSE
  BY DEF Init
<1>14. QED
  BY <1>6, <1>9, <1>12, <1>13 DEF Showing, Drawn, Before, After, Done

(* An echo between two characters.                                           *)
LEMMA EchoShows ==
    ASSUME Bounds, Bytes, Pointing, ScreenInv, NEW c \in Keys, Echo(c), ~raced'
    PROVE  Showing'
<1>1. AtRest /\ ~raced
  BY DEF Echo
<1>2. /\ Drawn(text) /\ line = text.at /\ count = text.column
      /\ ~touched /\ ~skewed /\ ~spilled
  BY <1>1 DEF ScreenInv, Showing, AtRest, Rest
<1>3. /\ video = Start(line) + 2 * count /\ count < Width /\ line \in Nat /\ count \in Nat
      /\ Start(line) \in Int
  <2>1. pc \in Rest
    BY <1>1 DEF AtRest, Rest
  <2>2. Undisturbed
    BY <1>2 DEF Pointing
  <2>3. Sync
    BY <2>1, <2>2 DEF Undisturbed
  <2>4. Integral /\ count < Width
    BY <2>1 DEF Bounds, Rest, Ending
  <2>5. QED
    BY <2>3, <2>4, StartIsInt DEF Sync, Integral
<1>4. /\ text' = Typed(text, c) /\ UNCHANGED <<pc, touched, skewed>> /\ pc \in Rest
  BY <1>1 DEF Echo, AtRest, Rest
<1>5. DOMAIN screen = Area
  BY DEF Bytes
<1>6. SheetOK(text) /\ screen = Picture(text)
  BY <1>2 DEF Drawn
<1>7. ASSUME SheetOK(text'), screen' = Picture(text'), line' = text'.at, count' = text'.column,
             spilled' = spilled
      PROVE  Showing'
  BY <1>2, <1>4, <1>7 DEF Showing, Drawn, Rest, Before, After, Done
<1>8. ASSUME NEW t, NEW v, SheetOK(t), t.at = line, NextLine(Picture(t), v), count' = 0,
             text' = Fed(t), spilled' = spilled
      PROVE  Showing'
  <2>1. SheetOK(text') /\ text'.column = 0
    BY <1>8, FedIs
  <2>2. CASE line + 1 = Rows
    <3>1. screen' = Scrolled(Picture(t)) /\ line' = Rows - 1
      BY <1>8, <2>2 DEF NextLine
    <3>2. screen' = Picture(text') /\ line' = text'.at
      BY <1>8, <2>2, <3>1, FedIs, ScrolledIs
    <3>3. QED
      BY <1>7, <1>8, <2>1, <3>2
  <2>3. CASE line + 1 # Rows
    <3>1. screen' = Picture(t) /\ line' = line + 1
      BY <1>8, <2>3 DEF NextLine
    <3>2. screen' = Picture(text') /\ line' = text'.at
      BY <1>8, <2>3, <3>1, FedIs
    <3>3. QED
      BY <1>7, <1>8, <2>1, <3>2
  <2>4. QED
    BY <2>2, <2>3
<1>9. CASE c = Newline
  <2>1. NextLine(Picture(text), Start(line + 1)) /\ count' = 0 /\ spilled' = spilled
    BY <1>6, <1>9 DEF Echo
  <2>2. text' = Fed(text)
    BY <1>4, <1>9, TypedEnds
  <2>3. QED
    BY <1>2, <1>6, <1>8, <2>1, <2>2
<1>10. CASE c # Newline
  <2>1. c \in Char /\ c \notin {Newline, Return}
    BY <1>10, ScreenOK DEF ScreenOK, Char
  <2>2. PICK u : u = Glyphed(text, c)
    OBVIOUS
  <2>3. SheetOK(u) /\ u.at = line /\ u.column = count + 1
    BY <1>2, <1>3, <1>6, <2>1, <2>2, GlyphedIs
  <2>4. text' = IF u.column = Width THEN Fed(u) ELSE u
    BY <1>2, <1>3, <1>4, <1>6, <2>1, <2>2, TypedIs
  <2>5. video = At(text.at, text.column, 0) /\ video + 1 = At(text.at, text.column, 1)
    BY <1>2, <1>3 DEF At
  <2>6. /\ video \in DOMAIN screen
        /\ Put(Put(screen, video, c), video + 1, Colour) = Picture(u)
    BY <1>2, <1>3, <1>5, <1>6, <2>1, <2>2, <2>5, PutPicture
  <2>7. spilled' = spilled
    BY <1>2, <1>10, <2>6 DEF Echo, Bytes
  <2>8. CASE count + 1 = Width
    <3>1. NextLine(Picture(u), video + 2) /\ count' = 0
      BY <1>10, <2>6, <2>8 DEF Echo
    <3>2. text' = Fed(u)
      BY <2>3, <2>4, <2>8
    <3>3. QED
      BY <1>8, <2>3, <2>7, <3>1, <3>2
  <2>9. CASE count + 1 # Width
    <3>1. screen' = Picture(u) /\ count' = count + 1 /\ line' = line
      BY <1>10, <2>6, <2>9 DEF Echo
    <3>2. text' = u
      BY <2>3, <2>4, <2>9
    <3>3. QED
      BY <1>7, <2>3, <2>7, <3>1, <3>2
  <2>10. QED
    BY <2>8, <2>9
<1>11. QED
  BY <1>9, <1>10

(* The next character: text is ahead of the screen.                          *)
LEMMA NextCharShows ==
    ASSUME Bounds, Bytes, ScreenInv, NEW c \in Glyphs \cup {Newline, Return}, NextChar(c),
           ~raced'
    PROVE  Showing'
<1>1. /\ ~raced /\ text' = Typed(text, c) /\ char' = c /\ pc = "idle"
      /\ UNCHANGED <<screen, line, count, skewed, spilled>> /\ touched' = FALSE
  BY DEF NextChar, Go, cursor
<1>2. /\ SheetOK(text) /\ screen = Picture(text) /\ line = text.at /\ count = text.column
      /\ ~skewed /\ ~spilled
  BY <1>1 DEF ScreenInv, Showing, Drawn, Rest
<1>3. text.column < Width
  BY <1>1, <1>2 DEF Bounds, Ending
<1>4. Newline # Return
  BY ScreenOK DEF ScreenOK
<1>5. PICK t : t = text
  OBVIOUS
<1>6. SheetOK(t) /\ t.column < Width /\ text' = Typed(t, c)
  BY <1>1, <1>2, <1>3, <1>5
<1>7. Drawn(t)' /\ line' = t.at /\ count' = t.column
  BY <1>1, <1>2, <1>5 DEF Drawn
<1>8. CASE c = Newline
  <2>1. text' = Fed(t) /\ pc' = "line"
    BY <1>6, <1>8, TypedEnds DEF NextChar, Go
  <2>2. SheetOK(text')
    BY <1>6, <2>1, FedIs
  <2>3. Feeding(t)'
    BY <1>7, <2>1 DEF Feeding
  <2>4. QED
    BY <1>1, <1>2, <2>1, <2>2, <2>3 DEF Showing, Rest, Before, After, Done
<1>9. CASE c = Return
  <2>1. text' = [t EXCEPT !.column = 0] /\ pc' = "return"
    BY <1>4, <1>6, <1>9, TypedEnds DEF NextChar, Go
  <2>2. SheetOK(text') /\ text'.rows = t.rows /\ text'.at = t.at /\ text'.column = 0
    BY <1>6, <2>1, BackIs
  <2>3. screen' = Picture(text')
    BY <1>7, <2>2, SameRows DEF Drawn
  <2>4. AtStart'
    BY <1>7, <2>2, <2>3 DEF AtStart, Drawn
  <2>5. QED
    BY <1>1, <1>2, <2>1, <2>2, <2>4 DEF Showing, Rest, Before, After, Done
<1>10. CASE c \notin {Newline, Return}
  <2>1. pc' = "glyph" /\ c \in Char
    BY <1>10 DEF NextChar, Go, Char
  <2>2. SheetOK(text')
    BY <1>6, <1>10, <2>1, TypedIs
  <2>3. Putting(t)'
    BY <1>1, <1>6, <1>7 DEF Putting
  <2>4. QED
    BY <1>1, <1>2, <2>1, <2>2, <2>3 DEF Showing, Rest, Before, After, Done
<1>11. QED
  BY <1>8, <1>9, <1>10

(* The colour of a place is stored again.                                    *)
LEMMA PutColour ==
    ASSUME NEW t, NEW r \in Lines, NEW n \in Columns
    PROVE  At(r, n, 1) \in Area /\ Put(Picture(t), At(r, n, 1), Colour) = Picture(t)
<1>1. PICK a \in Area : a = At(r, n, 1)
  BY AtIs
<1>2. Picture(t)[a] = Colour
  BY <1>1, PictureAt
<1>3. DOMAIN Picture(t) = Area
  BY DEF Picture
<1>4. [Picture(t) EXCEPT ![a] = Colour] = Picture(t)
  BY <1>2, <1>3 DEF Picture
<1>5. QED
  BY <1>1, <1>4 DEF Put

(* A character's bytes are stored.                                           *)
LEMMA GlyphShows ==
    ASSUME Bounds, Bytes, Pointing, ScreenInv, ~raced, LoadVideo \/ StoreVideo \/ PutByte
    PROVE  Showing'
<1>1. Showing /\ Undisturbed /\ Integral
  BY DEF ScreenInv, Showing, Pointing, Bounds
<1>2. UNCHANGED <<text, touched, skewed, line, count, char>>
  BY DEF LoadVideo, StoreVideo, PutByte, rest, cursor
<1>3. ASSUME spilled' = spilled, pc' = "put glyph" => reg' = video' - 1,
             NEW t, Putting(t)', pc' \in Before
      PROVE  Showing'
  BY <1>1, <1>2, <1>3 DEF Showing, Rest, Before, After, Done
<1>4. ASSUME spilled' = spilled, pc' = "put colour" => reg' = video' - 1,
             NEW t, Counting(t)', pc' \in After
      PROVE  Showing'
  BY <1>1, <1>2, <1>4 DEF Showing, Rest, Before, After, Done
<1>5. ASSUME screen' = screen
      PROVE  /\ \A t : Putting(t) => Putting(t)'
             /\ \A t : Counting(t) => Counting(t)'
  BY <1>2, <1>5 DEF Putting, Counting, Drawn
<1>6. CASE LoadVideo
  <2>1. screen' = screen /\ spilled' = spilled
    BY <1>6 DEF LoadVideo
  <2>2. CASE Go("glyph", "glyph+")
    <3>1. PICK t : Putting(t)
      BY <1>1, <2>2 DEF Showing, Go, Before
    <3>2. QED
      BY <1>3, <1>5, <2>1, <2>2, <3>1 DEF Go, Before
  <2>3. CASE Go("colour", "colour+")
    <3>1. PICK t : Counting(t)
      BY <1>1, <2>3 DEF Showing, Go, After
    <3>2. QED
      BY <1>4, <1>5, <2>1, <2>3, <3>1 DEF Go, After
  <2>4. QED
    BY <1>6, <2>2, <2>3 DEF LoadVideo
<1>7. CASE StoreVideo
  <2>1. screen' = screen /\ spilled' = spilled /\ reg' = video' - 1
    <3>1. UNCHANGED <<screen, spilled, reg>> /\ video' = reg + 1 /\ reg \in Int
      BY <1>1, <1>7 DEF StoreVideo, Integral
    <3>2. QED
      BY <3>1
  <2>2. CASE Go("glyph+", "put glyph")
    <3>1. PICK t : Putting(t)
      BY <1>1, <2>2 DEF Showing, Go, Before
    <3>2. QED
      BY <1>3, <1>5, <2>1, <2>2, <3>1 DEF Go, Before
  <2>3. CASE Go("colour+", "put colour")
    <3>1. PICK t : Counting(t)
      BY <1>1, <2>3 DEF Showing, Go, After
    <3>2. QED
      BY <1>4, <1>5, <2>1, <2>3, <3>1 DEF Go, After
  <2>4. QED
    BY <1>7, <2>2, <2>3 DEF StoreVideo
<1>8. CASE PutByte
  <2>1. DOMAIN screen = Area /\ spilled = FALSE
    BY <1>1 DEF Bytes, Showing
  <2>2. line \in Nat /\ count \in Nat /\ Start(line) \in Int
    BY <1>1, StartIsInt DEF Integral
  <2>3. CASE Go("put glyph", "colour")
    <3>1. PICK t : Putting(t)
      BY <1>1, <2>3 DEF Showing, Go, Before
    <3>2. /\ SheetOK(t) /\ screen = Picture(t) /\ line = t.at /\ count = t.column
          /\ text = Typed(t, char)
      BY <3>1 DEF Putting, Drawn
    <3>3. char \in Char /\ char \notin {Newline, Return}
      BY <2>3, ScreenOK DEF Bytes, Go, Glyph, Char, ScreenOK
    <3>4. t.column < Width
      BY <2>3, <3>2 DEF Bounds, Go, Ending
    <3>5. reg = Start(line) + 2 * count
      <4>1. video = Start(line) + 2 * count + 1 /\ reg = video - 1
        BY <1>1, <2>3 DEF Showing, Undisturbed, Go
      <4>2. QED
        BY <2>2, <4>1
    <3>6. reg = At(t.at, t.column, 0)
      BY <2>2, <3>2, <3>5 DEF At
    <3>7. PICK u : u = Glyphed(t, char)
      OBVIOUS
    <3>8. SheetOK(u) /\ u.at = line /\ u.column = count + 1
      BY <3>2, <3>3, <3>4, <3>7, GlyphedIs
    <3>9. text = IF u.column = Width THEN Fed(u) ELSE u
      BY <3>2, <3>3, <3>4, <3>7, TypedIs
    <3>10. reg \in DOMAIN screen /\ Put(screen, reg, char) = Picture(u)
      BY <2>1, <3>2, <3>3, <3>4, <3>6, <3>7, PutPicture
    <3>11. screen' = Picture(u) /\ spilled' = spilled
      BY <1>8, <2>1, <2>3, <3>10 DEF PutByte, Go
    <3>12. Counting(u)'
      BY <1>2, <3>8, <3>9, <3>11 DEF Counting, Drawn
    <3>13. QED
      BY <1>4, <2>3, <3>11, <3>12 DEF Go, After
  <2>4. CASE Go("put colour", "count")
    <3>1. PICK t : Counting(t)
      BY <1>1, <2>4 DEF Showing, Go, After
    <3>2. SheetOK(t) /\ screen = Picture(t) /\ line = t.at
      BY <3>1 DEF Counting, Drawn
    <3>3. line \in Lines /\ count \in Columns
      <4>1. line \in Lines
        BY <3>2 DEF SheetOK
      <4>2. count < Width /\ Width \in Nat
        BY <2>4, ScreenOK DEF Bounds, Go, Ending, ScreenOK
      <4>3. QED
        BY <2>2, <4>1, <4>2 DEF Columns
    <3>4. reg = At(line, count, 1)
      <4>1. video = Start(line) + 2 * count + 2 /\ reg = video - 1
        BY <1>1, <2>4 DEF Showing, Undisturbed, Go
      <4>2. QED
        BY <2>2, <4>1 DEF At
    <3>5. reg \in DOMAIN screen /\ Put(screen, reg, Colour) = screen
      BY <2>1, <3>2, <3>3, <3>4, PutColour
    <3>6. screen' = screen /\ spilled' = spilled
      BY <1>8, <2>1, <2>4, <3>5 DEF PutByte, Go
    <3>7. QED
      BY <1>4, <1>5, <2>4, <3>1, <3>6 DEF Go, After
  <2>5. QED
    BY <1>8, <2>3, <2>4 DEF PutByte
<1>9. QED
  BY <1>6, <1>7, <1>8

(* The column is counted, and the cursor goes back after '\r'.               *)
LEMMA CountShows ==
    ASSUME Bounds, Bytes, Pointing, ScreenInv, ~raced, LoadCount \/ StoreCount \/ StepBack
    PROVE  Showing'
<1>1. Showing /\ Undisturbed /\ Integral /\ Width \in Nat
  BY ScreenOK DEF ScreenInv, Showing, Pointing, Bounds, ScreenOK
<1>2. UNCHANGED <<text, touched, skewed, spilled, screen, line>>
  BY DEF LoadCount, StoreCount, StepBack, rest, cursor, history
<1>3. AtStart => AtStart'
  BY <1>2 DEF AtStart, Drawn
<1>4. CASE AtStart' /\ pc' \in Done
  BY <1>1, <1>2, <1>4 DEF Showing, Rest, Before, After, Done
<1>5. CASE LoadCount
  <2>1. CASE Go("count", "count+")
    <3>1. PICK t : Counting(t)
      BY <1>1, <2>1 DEF Showing, Go, After
    <3>2. Counting(t)'
      BY <1>2, <1>5, <3>1 DEF Counting, Drawn, LoadCount, cursor
    <3>3. QED
      BY <1>1, <1>2, <2>1, <3>2 DEF Showing, Go, Rest, Before, After, Done
  <2>2. CASE Go("return", "return-")
    BY <1>1, <1>3, <1>4, <2>2 DEF Showing, Go, Done
  <2>3. QED
    BY <1>5, <2>1, <2>2 DEF LoadCount
<1>6. CASE StepBack
  BY <1>1, <1>3, <1>4, <1>6 DEF StepBack, Showing, Go, Done
<1>7. CASE StoreCount
  <2>1. PICK t : Counting(t)
    BY <1>1, <1>7 DEF Showing, StoreCount, Go, After
  <2>2. count' = t.column
    BY <1>1, <1>7, <2>1 DEF Undisturbed, StoreCount, Go, Counting
  <2>3. SheetOK(t) /\ screen = Picture(t) /\ line = t.at
    BY <2>1 DEF Counting, Drawn
  <2>4. CASE t.column = Width
    <3>1. text = Fed(t)
      BY <2>1, <2>4 DEF Counting
    <3>2. pc' = "line"
      BY <1>7, <2>2, <2>4 DEF StoreCount, Go
    <3>3. Feeding(t)'
      BY <1>2, <2>3, <3>1 DEF Feeding, Drawn
    <3>4. QED
      BY <1>1, <1>2, <3>2, <3>3 DEF Showing, Rest, Before, After, Done
  <2>5. CASE t.column # Width
    <3>1. text = t
      BY <2>1, <2>5 DEF Counting
    <3>2. pc' = "idle"
      BY <1>7, <2>2, <2>5 DEF StoreCount, Go
    <3>3. Drawn(text)' /\ line' = text'.at /\ count' = text'.column
      BY <1>2, <2>2, <2>3, <3>1 DEF Drawn
    <3>4. QED
      BY <1>1, <1>2, <3>2, <3>3 DEF Showing, Rest, Before, After, Done
  <2>6. QED
    BY <2>4, <2>5
<1>8. QED
  BY <1>5, <1>6, <1>7

(* The row is ended, and the screen scrolled.                                *)
LEMMA LineShows ==
    ASSUME Bounds, Bytes, Pointing, ScreenInv, ~raced,
           LoadLine \/ StoreLine \/ Scroll \/ LastLine
    PROVE  Showing'
<1>1. Showing /\ Rows \in Nat /\ Rows > 1
  BY ScreenOK DEF ScreenInv, ScreenOK
<1>2. UNCHANGED <<text, touched, skewed, spilled>>
  BY DEF LoadLine, StoreLine, Scroll, LastLine, rest
<1>3. CASE LoadLine
  <2>1. pc = "line" /\ pc' = "line+" /\ reg' = line /\ line' = line /\ screen' = screen
    BY <1>3 DEF LoadLine, Go, cursor
  <2>2. PICK t : Feeding(t)
    BY <1>1, <2>1 DEF Showing
  <2>3. Feeding(t)'
    BY <1>2, <2>1, <2>2 DEF Feeding, Drawn
  <2>4. QED
    BY <1>1, <1>2, <2>1, <2>3 DEF Showing, Rest, Before, After, Done
<1>4. CASE StoreLine
  <2>1. pc = "line+" /\ line' = reg + 1 /\ row' = 0 /\ screen' = screen
    BY <1>4 DEF StoreLine, Go
  <2>2. PICK t : Feeding(t)
    BY <1>1, <2>1 DEF Showing
  <2>3. SheetOK(t) /\ screen = Picture(t) /\ text = Fed(t) /\ reg = t.at
    BY <1>1, <2>1, <2>2 DEF Showing, Feeding, Drawn
  <2>4. CASE t.at + 1 = Rows
    <3>1. pc' = "scroll"
      BY <1>4, <2>3, <2>4 DEF StoreLine, Go
    <3>2. screen' = Scrolling(t, row')
      BY <2>1, <2>3, ScrollingStarts
    <3>3. Moving(t)'
      BY <1>2, <2>3, <2>4, <3>2 DEF Moving
    <3>4. QED
      BY <1>1, <1>2, <3>1, <3>3 DEF Showing, Rest, Before, After, Done
  <2>5. CASE t.at + 1 # Rows
    <3>1. pc' \in {"start", "home"}
      BY <1>4, <2>3, <2>5 DEF StoreLine, Go
    <3>2. text.at = t.at + 1 /\ Picture(text) = screen /\ text.column = 0 /\ SheetOK(text)
      BY <2>3, <2>5, FedIs
    <3>3. AtStart'
      BY <1>2, <2>1, <2>3, <3>2 DEF AtStart, Drawn
    <3>4. QED
      BY <1>1, <1>2, <3>1, <3>3 DEF Showing, Rest, Before, After, Done
  <2>6. QED
    BY <2>4, <2>5
<1>5. CASE Scroll
  <2>1. PICK t : Moving(t)
    BY <1>1, <1>5 DEF Showing, Scroll
  <2>2. SheetOK(t) /\ t.at + 1 = Rows /\ text = Fed(t) /\ screen = Scrolling(t, row)
    BY <2>1 DEF Moving
  <2>3. row \in 0 .. Rows - 1 /\ DOMAIN screen = Area
    BY DEF Bytes
  <2>4. CASE row < Rows - 1
    <3>1. pc' = "scroll" /\ row' = row + 1 /\
          screen' = [a \in Area |-> IF a \div RowBytes = row THEN screen[a + RowBytes]
                                    ELSE screen[a]]
      BY <1>5, <2>3, <2>4 DEF Scroll
    <3>2. PICK k \in 0 .. Rows - 2 : k = row
      BY <1>1, <2>3, <2>4
    <3>3. screen' = Scrolling(t, k + 1)
      BY <2>2, <3>1, <3>2, ScrollingGoesOn
    <3>4. Moving(t)'
      BY <1>2, <2>2, <3>1, <3>2, <3>3 DEF Moving
    <3>5. QED
      BY <1>1, <1>2, <3>1, <3>4 DEF Showing, Rest, Before, After, Done
  <2>5. CASE ~ (row < Rows - 1)
    <3>1. row = Rows - 1
      BY <1>1, <2>3, <2>5
    <3>2. screen' = Cleared(Rows - 1, screen) /\ pc' = "last"
      BY <1>5, <2>5 DEF Scroll
    <3>3. screen' = Picture(text)
      BY <2>2, <3>1, <3>2, ScrollingEnds
    <3>4. text.at = Rows - 1 /\ text.column = 0 /\ SheetOK(text)
      BY <2>2, FedIs
    <3>5. AtEnd'
      BY <1>2, <3>3, <3>4 DEF AtEnd, Drawn
    <3>6. QED
      BY <1>1, <1>2, <3>2, <3>5 DEF Showing, Rest, Before, After, Done
  <2>6. QED
    BY <2>4, <2>5
<1>6. CASE LastLine
  <2>1. pc = "last" /\ pc' = "start" /\ line' = Rows - 1 /\ screen' = screen
    BY <1>6 DEF LastLine, Go
  <2>2. AtStart'
    BY <1>1, <1>2, <2>1 DEF Showing, AtEnd, AtStart, Drawn
  <2>3. QED
    BY <1>1, <1>2, <2>1, <2>2 DEF Showing, Rest, Before, After, Done
<1>7. QED
  BY <1>3, <1>4, <1>5, <1>6

(* The cursor is set to the start of the row.                                *)
LEMMA EndShows ==
    ASSUME Bounds, Bytes, Pointing, ScreenInv, ~raced, LoadStart \/ StoreStart \/ Home
    PROVE  Showing'
<1>1. Showing
  BY DEF ScreenInv
<1>2. UNCHANGED <<text, touched, spilled, screen, line>> /\ ~skewed'
  <2>1. UNCHANGED <<text, touched, spilled, screen, line>>
    BY DEF LoadStart, StoreStart, Home, rest, cursor
  <2>2. ~skewed
    BY <1>1 DEF Showing
  <2>3. CASE LoadStart \/ StoreStart
    <3>1. skewed' = skewed
      BY <2>3 DEF LoadStart, StoreStart, rest
    <3>2. QED
      BY <2>1, <2>2, <3>1
  <2>4. CASE Home
    <3>1. skewed' = (skewed /\ (char # Newline \/ touched))
      BY <2>4 DEF Home
    <3>2. ~skewed'
      BY <2>2, <3>1, Zenon
    <3>3. QED
      BY <2>1, <3>2
  <2>5. QED
    BY <2>3, <2>4
<1>3. AtStart
  BY <1>1 DEF Showing, LoadStart, StoreStart, Home, Go, Done
<1>4. AtStart'
  BY <1>2, <1>3 DEF AtStart, Drawn
<1>5. CASE LoadStart \/ StoreStart
  <2>1. pc' \in {"start+", "home"}
    BY <1>5 DEF LoadStart, StoreStart, Go
  <2>2. QED
    BY <1>1, <1>2, <1>4, <2>1 DEF Showing, Rest, Before, After, Done
<1>6. CASE Home
  <2>1. pc' = "idle" /\ count' = 0
    BY <1>6 DEF Home, Go
  <2>2. Drawn(text)' /\ line' = text'.at /\ count' = text'.column
    BY <1>4, <2>1 DEF AtStart
  <2>3. QED
    BY <1>1, <1>2, <2>1, <2>2 DEF Showing, Rest, Before, After, Done
<1>7. QED
  BY <1>5, <1>6

(* The clock's steps leave the screen alone.                                 *)
LEMMA ClockShows ==
    ASSUME ScreenInv, ~raced,
           tick_timer \/ Wake \/ UNCHANGED vars \/ \E ms \in Times : sys_sleep(ms)
    PROVE  Showing'
<1>1. Showing
  BY DEF ScreenInv
<1>2. UNCHANGED <<text, touched, skewed, spilled, screen, line, count, video, reg, row, char>>
  BY DEF tick_timer, Wake, sys_sleep, vars, console, history, cursor
<1>3. /\ Drawn(text)' = Drawn(text) /\ AtEnd' = AtEnd /\ AtStart' = AtStart
      /\ \A t : /\ Putting(t) => Putting(t)'
                /\ Counting(t) => Counting(t)'
                /\ Feeding(t) => Feeding(t)'
                /\ Moving(t) => Moving(t)'
  BY <1>2 DEF Putting, Counting, Feeding, Moving, AtEnd, AtStart, Drawn
<1>4. pc' = pc \/ (pc \in Rest /\ pc' \in Rest)
  BY DEF tick_timer, Wake, sys_sleep, vars, Go, Rest
<1>5. CASE pc' = pc
  BY <1>1, <1>2, <1>3, <1>5 DEF Showing
<1>6. CASE pc \in Rest /\ pc' \in Rest
  <2>1. Drawn(text)' /\ line' = text'.at /\ count' = text'.column
    BY <1>1, <1>2, <1>3, <1>6 DEF Showing
  <2>2. QED
    BY <1>1, <1>2, <1>6, <2>1 DEF Showing, Rest, Before, After, Done
<1>7. QED
  BY <1>4, <1>5, <1>6

(* Every step keeps it.                                                      *)
LEMMA ScreenStep == Bounds /\ Bytes /\ Pointing /\ ScreenInv /\ [Next]_vars => ScreenInv'
<1> SUFFICES ASSUME Bounds, Bytes, Pointing, ScreenInv, [Next]_vars, ~raced' PROVE Showing'
  BY DEF ScreenInv
<1>1. ~raced
  BY RacedStays
<1>2. ASSUME NEW c \in Keys, Echo(c) PROVE Showing'
  BY <1>2, EchoShows
<1>3. ASSUME NEW c \in Glyphs \cup {Newline, Return}, NextChar(c) PROVE Showing'
  BY <1>3, NextCharShows
<1>4. CASE Advance
  BY <1>1, <1>4, GlyphShows, CountShows, LineShows, EndShows DEF Advance
<1>5. CASE tick_timer \/ Wake \/ UNCHANGED vars \/ \E ms \in Times : sys_sleep(ms)
  BY <1>1, <1>5, ClockShows
<1>6. QED
  BY <1>2, <1>3, <1>4, <1>5 DEF Next

(* For every screen, whatever is written: until a handler first prints       *)
(* inside of kprintf, the screen shows the last rows of what was written,    *)
(* and nothing is stored behind them.                                        *)
THEOREM ScreenCorrect == Spec => []ScreenShowsText
<1>1. Bytes /\ ScreenInv => ScreenShowsText
  <2> SUFFICES ASSUME Bytes, Showing PROVE ~spilled /\ (AtRest => screen = Shown(text))
    BY DEF ScreenInv, ScreenShowsText
  <2>1. SheetOK(text) /\ ~spilled
    BY DEF Showing
  <2>2. ASSUME AtRest PROVE screen = Picture(text)
    BY <2>2 DEF AtRest, Rest, Showing, Drawn
  <2>3. Shown(text) = Picture(text)
    BY <2>1, ShownIs
  <2>4. QED
    BY <2>1, <2>2, <2>3
<1>2. Spec => []Bytes
  BY BytesInit, BytesStep, PTL DEF Spec
<1>3. Spec => []Pointing
  BY BoundsAlways, PointingInit, PointingStep, PTL DEF Spec
<1>4. Spec => []ScreenInv
  BY <1>2, <1>3, BoundsAlways, ScreenInit, ScreenStep, PTL DEF Spec
<1>5. QED
  BY <1>1, <1>2, <1>4, PTL
=============================================================================

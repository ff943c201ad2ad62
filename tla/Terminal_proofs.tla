--------------------------- MODULE Terminal_proofs ---------------------------
(***************************************************************************)
(* For every number and width of rows: the terminal stays well typed, and  *)
(* the flags in valid mark exactly the unread lines until a row is         *)
(* overrun, at every interleaving of the interrupt with a read.            *)
(***************************************************************************)
EXTENDS Terminal, SequenceTheorems, TLAPS

(* Between reads nothing is left of the last one. *)
BufferIsEmpty == pc # "copy" => buf = <<>>

TypeInv == TypeOK /\ BufferIsEmpty

(* A row that is being copied was found valid, and nobody takes that back. *)
CopiesValid == pc = "copy" => valid[read_ptr]

TerminalInv ==
    /\ TypeInv
    /\ BacklogIsValid
    /\ ~overrun => CopiesValid

-----------------------------------------------------------------------------
(* Remainders                                                                *)

(* Quotient and remainder by an unknown n. *)
LEMMA Division ==
    ASSUME NEW a \in Nat, NEW n \in Nat \ {0}
    PROVE  \E q \in Nat, r \in 0 .. n - 1 : a = n * q + r /\ a % n = r
<1>1. a \div n \in Nat
  <2>1. a \div n \in Int BY SMT
  <2>2. a \div n >= 0 BY SMT
  <2> QED BY <2>1, <2>2
<1>2. PICK q \in Nat : q = a \div n
  BY <1>1
<1>3. a % n = a - n * q
  BY <1>2
<1>4. a % n \in 0 .. n - 1
  BY SMT
<1>5. PICK r \in 0 .. n - 1 : r = a % n
  BY <1>4
<1>6. n * q \in Int
  OBVIOUS
<1>7. PICK m \in Int : m = n * q
  BY <1>6
<1>8. a = m + r
  BY <1>3, <1>5, <1>7
<1> QED BY <1>5, <1>7, <1>8

(* A remainder is unique. *)
LEMMA RemainderIs ==
    ASSUME NEW n \in Nat \ {0}, NEW q \in Nat, NEW r \in 0 .. n - 1, NEW a \in Nat, a = n * q + r
    PROVE  a % n = r
BY SMT

(* Numbers less than n apart have different remainders. *)
LEMMA CloseRemainders ==
    ASSUME NEW n \in Nat \ {0}, NEW a \in Nat, NEW b \in Nat,
           a <= b, b - a < n, a % n = b % n
    PROVE  a = b
<1>1. PICK p \in Nat, r \in 0 .. n - 1 : a = n * p + r /\ a % n = r
  BY Division
<1>2. PICK q \in Nat, s \in 0 .. n - 1 : b = n * q + s /\ b % n = s
  BY Division
<1>3. r = s BY <1>1, <1>2
<1>4. CASE p = q BY <1>1, <1>2, <1>3, <1>4
<1>5. CASE q >= p + 1
  <2>1. PICK d \in Nat : q = p + 1 + d
    <3>1. q - p - 1 \in Nat /\ q = p + 1 + (q - p - 1) BY <1>5
    <3> QED BY <3>1
  <2>2. n * q = n * p + n + n * d /\ n * d >= 0 BY <2>1
  <2> QED BY <2>2, <1>1, <1>2, <1>3
<1>6. CASE p >= q + 1
  <2>1. PICK d \in Nat : p = q + 1 + d
    <3>1. p - q - 1 \in Nat /\ p = q + 1 + (p - q - 1) BY <1>6
    <3> QED BY <3>1
  <2>2. n * p = n * q + n + n * d /\ n * d >= 0 BY <2>1
  <2> QED BY <2>2, <1>1, <1>2, <1>3
<1> QED BY <1>4, <1>5, <1>6

(* Remainders go round. *)
LEMMA NextRemainder ==
    ASSUME NEW n \in Nat \ {0}, NEW a \in Nat
    PROVE  (a + 1) % n = ((a % n) + 1) % n
<1>1. PICK q \in Nat, r \in 0 .. n - 1 : a = n * q + r /\ a % n = r
  BY Division
<1>2. CASE r + 1 < n
  <2>1. (r + 1) % n = r + 1
    BY <1>2
  <2>2. (a + 1) % n = r + 1
    <3>1. PICK s \in 0 .. n - 1 : s = r + 1
      BY <1>1, <1>2
    <3>2. PICK b \in Nat : b = a + 1
      OBVIOUS
    <3>3. b = n * q + s
      BY <1>1, <3>1, <3>2
    <3>4. b % n = s
      BY <3>3, RemainderIs
    <3> QED BY <3>1, <3>2, <3>4
  <2> QED BY <1>1, <2>1, <2>2
<1>3. CASE r + 1 = n
  <2>1. (a + 1) % n = 0
    <3>1. PICK m \in Nat : m = q + 1
      OBVIOUS
    <3>2. PICK z \in 0 .. n - 1 : z = 0
      OBVIOUS
    <3>3. n * m = n * q + n
      BY <3>1
    <3>4. PICK b \in Nat : b = a + 1
      OBVIOUS
    <3>5. b = n * m + z
      BY <1>1, <1>3, <3>2, <3>3, <3>4
    <3>6. b % n = z
      BY <3>5, RemainderIs
    <3> QED BY <3>2, <3>4, <3>6
  <2>2. n % n = 0
    <3>1. PICK q1 \in Nat, t \in 0 .. n - 1 : n = n * q1 + t /\ n % n = t
      BY Division
    <3>2. CASE q1 = 0
      BY <3>1, <3>2
    <3>3. CASE q1 >= 1
      <4>1. PICK d \in Nat : q1 = 1 + d
        <5>1. q1 - 1 \in Nat /\ q1 = 1 + (q1 - 1)
          BY <3>3
        <5> QED BY <5>1
      <4>2. n * q1 = n + n * d /\ n * d >= 0
        BY <4>1
      <4> QED BY <3>1, <4>2
    <3> QED BY <3>2, <3>3
  <2> QED BY <1>1, <1>3, <2>1, <2>2
<1> QED BY <1>2, <1>3

(* Numbers n apart have the same remainder. *)
LEMMA SameRemainder ==
    ASSUME NEW n \in Nat \ {0}, NEW a \in Nat
    PROVE  (a + n) % n = a % n
<1>1. PICK q \in Nat, r \in 0 .. n - 1 : a = n * q + r /\ a % n = r
  BY Division
<1>2. PICK m \in Nat : m = q + 1
  OBVIOUS
<1>3. n * m = n * q + n
  BY <1>2
<1>4. PICK b \in Nat : b = a + n
  OBVIOUS
<1>5. b = n * m + r
  BY <1>1, <1>3, <1>4
<1>6. b % n = r
  BY <1>5, RemainderIs
<1> QED BY <1>1, <1>4, <1>6

-----------------------------------------------------------------------------
(* The rows of the lines from R to T - 1, where n is the number of rows.     *)

RowsOf(R, T, n) == {k % n : k \in R .. T - 1}

(* If the row of the next line is free, the ring is not full. *)
LEMMA RoomForNext ==
    ASSUME NEW n \in Nat \ {0}, NEW R \in Nat, NEW T \in Nat, R <= T,
           T - R <= n, T % n \notin RowsOf(R, T, n)
    PROVE  T - R < n
<1>1. SUFFICES ASSUME T = R + n PROVE FALSE
  OBVIOUS
<1>2. T % n = R % n
  BY <1>1, SameRemainder
<1>3. R \in R .. T - 1
  BY <1>1
<1> QED BY <1>2, <1>3 DEF RowsOf

(* A line more takes its own row, *)
LEMMA RowTaken ==
    ASSUME NEW n \in Nat \ {0}, NEW R \in Nat, NEW T \in Nat, R <= T
    PROVE  RowsOf(R, T + 1, n) = RowsOf(R, T, n) \cup {T % n}
<1>1. R .. (T + 1) - 1 = (R .. T - 1) \cup {T}
  OBVIOUS
<1> QED BY <1>1 DEF RowsOf

(* and a line less gives back its own row and no other. *)
LEMMA RowGivenBack ==
    ASSUME NEW n \in Nat \ {0}, NEW R \in Nat, NEW T \in Nat, R < T, T - R <= n
    PROVE  RowsOf(R + 1, T, n) = RowsOf(R, T, n) \ {R % n}
<1>1. R .. T - 1 = {R} \cup (R + 1 .. T - 1)
  OBVIOUS
<1>2. ASSUME NEW k \in R + 1 .. T - 1 PROVE k % n # R % n
  <2>1. k \in Nat /\ R <= k /\ k - R < n /\ R # k
    OBVIOUS
  <2> QED BY <2>1, CloseRemainders
<1> QED BY <1>1, <1>2 DEF RowsOf

-----------------------------------------------------------------------------
(* Well typed                                                                *)

(* What the keymaps give are characters. *)
LEMMA CharactersAreChars ==
    ASSUME NEW k \in Keys
    PROVE  kbdus[k] \in Char /\ kbdus_Shift[k] \in Char
BY DEF Char

(* The row behind the last is the first. *)
LEMMA NextRow ==
    ASSUME NEW r \in 0 .. Rows - 1
    PROVE  (r + 1) % Rows \in 0 .. Rows - 1
<1>1. Rows \in Nat \ {0} /\ r + 1 \in Nat
  BY RingOK
<1> QED BY <1>1, Division

(* The terminal starts well typed. *)
LEMMA InitTyped == Init => TypeOK
<1> SUFFICES ASSUME Init PROVE TypeOK
  OBVIOUS
<1>1. Nul \in Char
  BY DEF Char
<1>2. ring \in [0 .. Size - 1 -> Char] /\ valid \in [0 .. Rows - 1 -> BOOLEAN]
  BY <1>1 DEF Init
<1>3. soffset \in 0 .. Rows - 1 /\ read_ptr \in 0 .. Rows - 1 /\ sbuffer \in Nat
  BY RingOK DEF Init
<1>4. /\ length \in Lengths \cup {0} /\ read_index \in 0 .. Rows - 1
      /\ buf \in Seq(Char) /\ Len(buf) <= length
      /\ keystrokes \in 0 .. MaxKeys
  BY RingOK DEF Init
<1>5. typed \in Seq(Seq(Char)) /\ line \in Seq(Char) /\ reads \in Seq(Seq(Char))
  BY DEF Init
<1>6. /\ shiftFlag \in BOOLEAN /\ cntlFlag \in BOOLEAN
      /\ pc \in {"user", "poll", "copy"}
      /\ overrun \in BOOLEAN /\ wide \in BOOLEAN
  BY DEF Init
<1> QED BY <1>2, <1>3, <1>4, <1>5, <1>6 DEF TypeOK

(* What the interrupt leaves alone. *)
LEMMA ReaderTyped ==
    ASSUME TypeOK, UNCHANGED reader
    PROVE  /\ read_ptr' \in 0 .. Rows - 1
           /\ pc' \in {"user", "poll", "copy"}
           /\ length' \in Lengths \cup {0} /\ read_index' \in 0 .. Rows - 1
           /\ buf' \in Seq(Char) /\ Len(buf') <= length'
           /\ reads' \in Seq(Seq(Char))
BY DEF TypeOK, reader

(* A character keeps the ring well typed. *)
LEMMA WrittenTyped ==
    ASSUME TypeOK, NEW c \in Char, term_write(c), keystrokes < MaxKeys
    PROVE  /\ ring' \in [0 .. Size - 1 -> Char]
           /\ valid' \in [0 .. Rows - 1 -> BOOLEAN]
           /\ soffset' \in 0 .. Rows - 1 /\ sbuffer' \in Nat
           /\ typed' \in Seq(Seq(Char)) /\ line' \in Seq(Char)
           /\ overrun' \in BOOLEAN /\ wide' \in BOOLEAN
           /\ keystrokes' \in 0 .. MaxKeys
<1>1. ring' \in [0 .. Size - 1 -> Char]
  BY DEF TypeOK, term_write
<1>2. /\ valid' \in [0 .. Rows - 1 -> BOOLEAN]
      /\ soffset' \in 0 .. Rows - 1 /\ sbuffer' \in Nat
  <2>1. CASE c = Newline
    <3>1. EndOfLine
      BY <2>1 DEF term_write
    <3>2. (soffset + 1) % Rows \in 0 .. Rows - 1
      BY NextRow DEF TypeOK
    <3> QED BY <3>1, <3>2 DEF EndOfLine, TypeOK
  <2>2. CASE c # Newline
    BY <2>2 DEF term_write, TypeOK
  <2> QED BY <2>1, <2>2
<1>3. typed' \in Seq(Seq(Char)) /\ line' \in Seq(Char)
  <2>1. Append(line, c) \in Seq(Char)
    BY DEF TypeOK
  <2>2. Append(typed, Append(line, c)) \in Seq(Seq(Char))
    BY <2>1 DEF TypeOK
  <2>3. <<>> \in Seq(Char)
    OBVIOUS
  <2> QED BY <2>1, <2>2, <2>3 DEF TypeOK, term_write
<1>4. overrun' \in BOOLEAN /\ wide' \in BOOLEAN
  BY DEF TypeOK, term_write
<1>5. keystrokes' \in 0 .. MaxKeys
  BY RingOK DEF TypeOK, term_write
<1> QED BY <1>1, <1>2, <1>3, <1>4, <1>5

(* So does the interrupt, *)
LEMMA InterruptTyped ==
    ASSUME TypeOK, NEW scancode \in Scancodes, kbInt_handler(scancode)
    PROVE  TypeOK'
<1>1. UNCHANGED reader
  BY DEF kbInt_handler
<1>2. CASE UNCHANGED written
  <2>1. shiftFlag' \in BOOLEAN /\ cntlFlag' \in BOOLEAN
    BY DEF kbInt_handler, TypeOK
  <2> QED BY <1>1, <1>2, <2>1, ReaderTyped DEF written, TypeOK
<1>3. CASE /\ scancode \in Keys /\ keystrokes < MaxKeys
           /\ term_write(IF shiftFlag THEN kbdus_Shift[scancode]
                                      ELSE kbdus[scancode])
           /\ UNCHANGED <<shiftFlag, cntlFlag>>
  <2>1. PICK c \in Char : term_write(c)
    BY <1>3, CharactersAreChars
  <2>2. shiftFlag' \in BOOLEAN /\ cntlFlag' \in BOOLEAN
    BY <1>3 DEF TypeOK
  <2> QED BY <1>1, <1>3, <2>1, <2>2, ReaderTyped, WrittenTyped DEF TypeOK
<1> QED BY <1>2, <1>3 DEF kbInt_handler

(* and so do the steps of a read. *)
LEMMA ReadTyped ==
    ASSUME TypeInv, ReadStep \/ \E n \in Lengths : sys_read(n)
    PROVE  TypeInv'
<1> USE DEF TypeInv, BufferIsEmpty
<1>1. CASE \E n \in Lengths : sys_read(n)
  <2>1. PICK n \in Lengths : sys_read(n)
    BY <1>1
  <2>2. length' \in Lengths /\ buf' = <<>> /\ Len(buf') <= length'
    BY <2>1, RingOK DEF sys_read
  <2>3. BufferIsEmpty'
    BY <2>2
  <2>4. /\ valid' = valid /\ read_ptr' = read_ptr
        /\ read_index' = read_index /\ reads' = reads /\ buf' = buf
        /\ pc' = "poll" /\ UNCHANGED writer
    BY <2>1 DEF sys_read
  <2> QED BY <2>2, <2>3, <2>4 DEF TypeOK, writer
<1>2. CASE Poll
  BY <1>2 DEF Poll, TypeOK, writer
<1>3. CASE CopyByte
  <2>1. PICK c \in Char : buf' = Append(buf, c)
    <3>1. Foreign \in Char
      BY DEF Char
    <3>2. PICK a \in Nat : a = read_index * Width + Len(buf)
      <4>1. read_index \in Nat /\ Width \in Nat /\ Len(buf) \in Nat
        BY RingOK DEF TypeOK
      <4>2. read_index * Width + Len(buf) \in Nat
        BY <4>1
      <4> QED BY <4>2
    <3>3. a < Size => a \in 0 .. Size - 1
      <4>1. Size \in Int
        BY RingOK DEF Size
      <4> QED BY <4>1
    <3> QED BY <1>3, <3>1, <3>2, <3>3 DEF CopyByte, TypeOK
  <2>2. buf' \in Seq(Char) /\ Len(buf') = Len(buf) + 1
    BY <2>1 DEF TypeOK
  <2>3. pc = "copy" /\ Len(buf) < length /\ length' = length /\ pc' = pc
        /\ UNCHANGED <<writer, valid, read_ptr, read_index, reads>>
    BY <1>3 DEF CopyByte
  <2>4. Len(buf') <= length'
    BY <2>2, <2>3, RingOK DEF TypeOK
  <2> QED BY <2>2, <2>3, <2>4 DEF TypeOK, writer
<1>4. CASE Release
  <2>1. valid' \in [0 .. Rows - 1 -> BOOLEAN]
    BY <1>4 DEF Release, TypeOK
  <2>2. read_ptr' \in 0 .. Rows - 1
    BY <1>4, NextRow DEF Release, TypeOK
  <2>3. reads' \in Seq(Seq(Char))
    BY <1>4 DEF Release, TypeOK
  <2>4. pc' = "user" /\ length' = 0 /\ read_index' = 0 /\ buf' = <<>>
        /\ UNCHANGED writer
    BY <1>4 DEF Release
  <2>5. read_index' \in 0 .. Rows - 1 /\ buf' \in Seq(Char) /\ Len(buf') <= length'
    BY <2>4, RingOK
  <2> QED BY <2>1, <2>2, <2>3, <2>4, <2>5 DEF TypeOK, writer
<1> QED BY <1>1, <1>2, <1>3, <1>4 DEF ReadStep

(* Every step keeps the types. *)
LEMMA NextTyped == TypeInv /\ [Next]_vars => TypeInv'
<1> SUFFICES ASSUME TypeInv, [Next]_vars PROVE TypeInv'
  OBVIOUS
<1>1. CASE \E scancode \in Scancodes : kbInt_handler(scancode)
  <2>1. PICK scancode \in Scancodes : kbInt_handler(scancode)
    BY <1>1
  <2>2. TypeOK'
    BY <2>1, InterruptTyped DEF TypeInv
  <2>3. BufferIsEmpty'
    BY <2>1 DEF kbInt_handler, reader, TypeInv, BufferIsEmpty
  <2> QED BY <2>2, <2>3 DEF TypeInv
<1>2. CASE ReadStep \/ \E n \in Lengths : sys_read(n)
  BY <1>2, ReadTyped
<1>3. CASE UNCHANGED vars
  BY <1>3 DEF vars, TypeInv, TypeOK, BufferIsEmpty
<1> QED BY <1>1, <1>2, <1>3 DEF Next

(* Whatever the number and the width of the rows, what is typed and when it  *)
(* is read: the terminal stays well typed, no row outside the ring is marked *)
(* or released, and a read never returns more than it was asked for.         *)
THEOREM TypeCorrect == Spec => []TypeOK
<1>1. Init => TypeInv
  BY InitTyped DEF Init, TypeInv, BufferIsEmpty
<1>2. TypeInv /\ [Next]_vars => TypeInv'
  BY NextTyped
<1>3. TypeInv => TypeOK
  BY DEF TypeInv
<1> QED BY <1>1, <1>2, <1>3, PTL DEF Spec

-----------------------------------------------------------------------------
(* The valid rows are the unread lines                                       *)

Backlog ==
    /\ Len(typed) - Len(reads) \in 0 .. Rows
    /\ soffset = Len(typed) % Rows
    /\ read_ptr = Len(reads) % Rows
    /\ {r \in 0 .. Rows - 1 : valid[r]} = RowsOf(Len(reads), Len(typed), Rows)

(* BacklogIsValid with sets of rows in the place of quantifiers. *)
LEMMA BacklogMeans == ASSUME TypeOK PROVE BacklogIsValid <=> (~overrun => Backlog)
<1>1. Len(reads) \in Nat /\ Len(typed) \in Nat
  BY DEF TypeOK
<1>2. ASSUME NEW k \in Len(reads) .. Len(typed) - 1 PROVE k % Rows \in 0 .. Rows - 1
  <2>1. k \in Nat /\ Rows \in Nat \ {0}
    BY <1>1, RingOK
  <2> QED BY <2>1, Division
<1>3. (\A r \in 0 .. Rows - 1 :
          valid[r] <=> \E k \in Len(reads) .. Len(typed) - 1 : k % Rows = r)
      <=> {r \in 0 .. Rows - 1 : valid[r]} = RowsOf(Len(reads), Len(typed), Rows)
  BY <1>2 DEF RowsOf
<1> QED BY <1>3 DEF BacklogIsValid, Backlog

(* A character keeps the backlog: a newline adds the row of its line. *)
LEMMA WriteKeepsBacklog ==
    ASSUME TypeOK, Backlog, CopiesValid, ~overrun', NEW c \in Char,
           term_write(c), UNCHANGED reader
    PROVE  Backlog' /\ CopiesValid'
<1>1. CASE c # Newline
  BY <1>1 DEF term_write, reader, Backlog, CopiesValid
<1>2. CASE c = Newline
  <2> DEFINE T == Len(typed)
             R == Len(reads)
  <2>1. /\ T \in Nat /\ R \in Nat /\ R <= T /\ T - R <= Rows
        /\ Rows \in Nat \ {0}
    BY RingOK DEF TypeOK, Backlog
  <2>2. /\ valid' = [valid EXCEPT ![soffset] = TRUE]
        /\ soffset' = (soffset + 1) % Rows
        /\ Len(typed') = T + 1
        /\ ~valid[soffset]
    <3>1. EndOfLine /\ typed' = Append(typed, Append(line, c))
      BY <1>2 DEF term_write
    <3>2. typed \in Seq(Seq(Char)) /\ Append(line, c) \in Seq(Char)
      BY DEF TypeOK
    <3>3. Len(typed') = T + 1
      BY <3>1, <3>2
    <3>4. ~valid[soffset]
      BY DEF term_write
    <3> QED BY <3>1, <3>3, <3>4 DEF EndOfLine
  <2>3. soffset = T % Rows /\ soffset \in 0 .. Rows - 1
    BY DEF Backlog, TypeOK
  <2>4. T % Rows \notin RowsOf(R, T, Rows)
    BY <2>2, <2>3 DEF Backlog
  <2> HIDE DEF T, R
  <2>5. T - R < Rows
    BY <2>1, <2>4, RoomForNext
  <2>6. T + 1 - R \in 0 .. Rows
    BY <2>1, <2>5
  <2>7. (T + 1) % Rows = soffset'
    BY <2>1, <2>2, <2>3, NextRemainder
  <2>8. RowsOf(R, T + 1, Rows) = RowsOf(R, T, Rows) \cup {T % Rows}
    BY <2>1, RowTaken
  <2>9. {r \in 0 .. Rows - 1 : valid'[r]}
            = {r \in 0 .. Rows - 1 : valid[r]} \cup {soffset}
    BY <2>2, <2>3 DEF TypeOK
  <2>10. /\ {r \in 0 .. Rows - 1 : valid'[r]} = RowsOf(R, T + 1, Rows)
    BY <2>3, <2>8, <2>9 DEF Backlog, T, R
  <2>11. Backlog'
    BY <2>2, <2>6, <2>7, <2>10 DEF Backlog, reader, T, R
  <2>12. CopiesValid'
    BY <2>2, <2>3 DEF CopiesValid, reader, TypeOK
  <2> QED BY <2>11, <2>12
<1> QED BY <1>1, <1>2

(* A read that returns takes the row of its line out. *)
LEMMA ReleaseKeepsBacklog ==
    ASSUME TypeOK, Backlog, CopiesValid, Release
    PROVE  Backlog' /\ CopiesValid'
<1> DEFINE T == Len(typed)
           R == Len(reads)
<1>1. /\ T \in Nat /\ R \in Nat /\ T - R <= Rows /\ Rows \in Nat \ {0}
  BY RingOK DEF TypeOK, Backlog
<1>2. /\ valid' = [valid EXCEPT ![read_ptr] = FALSE]
      /\ read_ptr' = (read_ptr + 1) % Rows
      /\ Len(reads') = R + 1
      /\ pc = "copy" /\ pc' = "user"
      /\ soffset' = soffset /\ typed' = typed
  BY DEF Release, writer, TypeOK
<1>3. read_ptr = R % Rows /\ read_ptr \in 0 .. Rows - 1
  BY DEF Backlog, TypeOK
<1>4. read_ptr \in RowsOf(R, T, Rows)
  BY <1>2, <1>3 DEF CopiesValid, Backlog
<1> HIDE DEF T, R
<1>5. R < T
  BY <1>1, <1>4 DEF RowsOf
<1>6. T - (R + 1) \in 0 .. Rows
  BY <1>1, <1>5
<1>7. (R + 1) % Rows = read_ptr'
  BY <1>1, <1>2, <1>3, NextRemainder
<1>8. RowsOf(R + 1, T, Rows) = RowsOf(R, T, Rows) \ {R % Rows}
  BY <1>1, <1>5, RowGivenBack
<1>9. {r \in 0 .. Rows - 1 : valid'[r]}
          = {r \in 0 .. Rows - 1 : valid[r]} \ {read_ptr}
  BY <1>2, <1>3 DEF TypeOK
<1>10. {r \in 0 .. Rows - 1 : valid'[r]} = RowsOf(R + 1, T, Rows)
  BY <1>3, <1>8, <1>9 DEF Backlog, T, R
<1>11. Backlog'
  BY <1>2, <1>6, <1>7, <1>10 DEF Backlog, T, R
<1>12. CopiesValid'
  BY <1>2 DEF CopiesValid
<1> QED BY <1>11, <1>12

(* Every step that overruns no row keeps the backlog. *)
LEMMA NextKeepsBacklog ==
    ASSUME TypeOK, Backlog, CopiesValid, ~overrun', [Next]_vars
    PROVE  Backlog' /\ CopiesValid'
<1>1. CASE \E scancode \in Scancodes : kbInt_handler(scancode)
  <2>1. PICK scancode \in Scancodes : kbInt_handler(scancode)
    BY <1>1
  <2>2. UNCHANGED reader
    BY <2>1 DEF kbInt_handler
  <2>3. CASE UNCHANGED written
    BY <2>2, <2>3 DEF written, reader, Backlog, CopiesValid
  <2>4. CASE /\ scancode \in Keys
             /\ term_write(IF shiftFlag THEN kbdus_Shift[scancode]
                                        ELSE kbdus[scancode])
    <3>1. PICK c \in Char : term_write(c)
      BY <2>4, CharactersAreChars
    <3> QED BY <2>2, <3>1, WriteKeepsBacklog
  <2> QED BY <2>1, <2>3, <2>4 DEF kbInt_handler
<1>2. CASE \E n \in Lengths : sys_read(n)
  BY <1>2 DEF sys_read, writer, Backlog, CopiesValid
<1>3. CASE Poll
  BY <1>3 DEF Poll, writer, Backlog, CopiesValid
<1>4. CASE CopyByte
  BY <1>4 DEF CopyByte, writer, Backlog, CopiesValid
<1>5. CASE Release
  BY <1>5, ReleaseKeepsBacklog
<1>6. CASE UNCHANGED vars
  BY <1>6 DEF vars, Backlog, CopiesValid
<1> QED BY <1>1, <1>2, <1>3, <1>4, <1>5, <1>6 DEF Next, ReadStep

(* An overrun is remembered. *)
LEMMA OverrunStays ==
    ASSUME TypeOK, [Next]_vars, overrun
    PROVE  overrun'
<1>1. CASE \E scancode \in Scancodes : kbInt_handler(scancode)
  BY <1>1 DEF kbInt_handler, written, term_write
<1>2. CASE ReadStep \/ \E n \in Lengths : sys_read(n)
  BY <1>2 DEF ReadStep, Poll, CopyByte, Release, sys_read, writer
<1>3. CASE UNCHANGED vars
  BY <1>3 DEF vars
<1> QED BY <1>1, <1>2, <1>3 DEF Next

(* At first no row is valid and no line typed. *)
LEMMA InitBacklog == Init => BacklogIsValid /\ CopiesValid
<1> SUFFICES ASSUME Init PROVE BacklogIsValid /\ CopiesValid
  OBVIOUS
<1>1. TypeOK
  BY InitTyped
<1>2. 0 % Rows = 0
  <2>1. PICK z \in Nat : z = 0
    OBVIOUS
  <2>2. z \in 0 .. Rows - 1 /\ z = Rows * z + z
    BY <2>1, RingOK
  <2>3. z % Rows = z
    BY <2>2, RingOK, RemainderIs
  <2> QED BY <2>1, <2>3
<1>3. Len(typed) = 0 /\ Len(reads) = 0
  BY DEF Init
<1>4. RowsOf(Len(reads), Len(typed), Rows) = {}
  BY <1>3 DEF RowsOf
<1>5. {r \in 0 .. Rows - 1 : valid[r]} = {}
  BY DEF Init
<1>6. Backlog
  BY <1>2, <1>3, <1>4, <1>5, RingOK DEF Backlog, Init
<1>7. CopiesValid
  BY DEF Init, CopiesValid
<1> QED BY <1>1, <1>6, <1>7, BacklogMeans

(* Every step keeps the invariant. *)
LEMMA NextKeepsTerminalInv == TerminalInv /\ [Next]_vars => TerminalInv'
<1> SUFFICES ASSUME TerminalInv, [Next]_vars PROVE TerminalInv'
  OBVIOUS
<1>1. TypeInv /\ TypeOK /\ TypeInv' /\ TypeOK'
  BY NextTyped DEF TerminalInv, TypeInv
<1>2. ASSUME ~overrun' PROVE Backlog' /\ CopiesValid'
  <2>1. ~overrun
    BY <1>1, <1>2, OverrunStays
  <2>2. Backlog /\ CopiesValid
    BY <1>1, <2>1, BacklogMeans DEF TerminalInv
  <2> QED BY <1>1, <1>2, <2>2, NextKeepsBacklog
<1>3. (BacklogIsValid <=> (~overrun => Backlog))'
  BY <1>1, BacklogMeans, PTL
<1> QED BY <1>1, <1>2, <1>3 DEF TerminalInv

(* Whatever the number and the width of the rows and at every interleaving   *)
(* of the keyboard interrupt with sys_read and term_read: until the          *)
(* interrupt runs into an unread row (and only when all rows are unread can  *)
(* it), the flags in valid mark the rows of the unread lines and no others.  *)
THEOREM BacklogCorrect == Spec => []BacklogIsValid
<1>1. Init => TerminalInv
  BY InitTyped, InitBacklog DEF Init, TerminalInv, TypeInv, BufferIsEmpty
<1>2. TerminalInv /\ [Next]_vars => TerminalInv'
  BY NextKeepsTerminalInv
<1>3. TerminalInv => BacklogIsValid
  BY DEF TerminalInv
<1> QED BY <1>1, <1>2, <1>3, PTL DEF Spec
-----------------------------------------------------------------------------
(* For every number and width of rows: the terminal is a queue of lines     *)
(* until a row is overrun or a line is longer than a row, and what reads    *)
(* return in the first round of the ring ends behind the line.  The         *)
(* invariant says where each unread line, the current line and the bytes    *)
(* copied so far are; it holds because the interrupt writes to the row at   *)
(* soffset only, which BacklogIsValid keeps apart from the unread ones.     *)

(* Reads done and lines typed. *)
R == Len(reads)
T == Len(typed)

Cell(r, c) == r * Width + c
Row(k) == (k - 1) % Rows

(* Each line in its row, from the first column on. *)
Lines ==
    /\ sbuffer = Len(line) /\ Len(line) <= Width
    /\ \A k \in 1 .. T : Len(typed[k]) <= Width
    /\ \A c \in 0 .. Len(line) - 1 : ring[Cell(soffset, c)] = line[c + 1]
    /\ \A k \in R + 1 .. T : \A c \in 0 .. Len(typed[k]) - 1 :
          ring[Cell(Row(k), c)] = typed[k][c + 1]

(* In the first round nothing was ever written behind a line. *)
Blanks ==
    /\ T < Rows =>
          \A r \in 0 .. Rows - 1, c \in 0 .. Width - 1 :
              r > soffset \/ (r = soffset /\ c >= Len(line))
                  => ring[Cell(r, c)] = Nul
    /\ \A k \in R + 1 .. T : k <= Rows /\ Len(typed[k]) < Width =>
          ring[Cell(Row(k), Len(typed[k]))] = Nul

(* b begins as line k does, and goes on with '\0' in the first round. *)
Holds(b, k) ==
    /\ \A i \in 1 .. Len(typed[k]) : i <= Len(b) => b[i] = typed[k][i]
    /\ k <= Rows /\ Len(typed[k]) < Width /\ Len(typed[k]) < Len(b)
          => b[Len(typed[k]) + 1] = Nul

Copied ==
    /\ pc = "copy" => read_index = read_ptr /\ Holds(buf, R + 1)
    /\ \A k \in 1 .. R : Holds(reads[k], k)

QueueInv ==
    /\ TerminalInv
    /\ pc # "user" => length \in Lengths
    /\ ~overrun /\ ~wide => Lines /\ Blanks /\ Copied

-----------------------------------------------------------------------------
(* Cells and rows                                                            *)

(* The cells of the rows are the bytes of the ring. *)
LEMMA CellInRing ==
    ASSUME NEW r \in 0 .. Rows - 1, NEW c \in 0 .. Width - 1
    PROVE  Cell(r, c) \in 0 .. Size - 1
<1>1. PICK d \in Nat : Rows = r + 1 + d
  <2>1. Rows - r - 1 \in Nat /\ Rows = r + 1 + (Rows - r - 1)
    BY RingOK
  <2> QED BY <2>1
<1>2. Rows * Width = r * Width + Width + d * Width /\ d * Width >= 0
  BY <1>1, RingOK
<1>3. r * Width \in Nat
  BY RingOK
<1> QED BY <1>2, <1>3, RingOK DEF Cell, Size

(* Cells of different rows are different bytes. *)
LEMMA CellsDiffer ==
    ASSUME NEW r \in 0 .. Rows - 1, NEW c \in 0 .. Width - 1,
           NEW s \in 0 .. Rows - 1, NEW d \in 0 .. Width - 1,
           r # s \/ c # d
    PROVE  Cell(r, c) # Cell(s, d)
<1>1. ASSUME NEW x \in Nat, NEW y \in Nat, x < y PROVE x * Width + Width <= y * Width
  <2>1. PICK e \in Nat : y = x + 1 + e
    <3>1. y - x - 1 \in Nat /\ y = x + 1 + (y - x - 1)
      BY <1>1
    <3> QED BY <3>1
  <2>2. y * Width = x * Width + Width + e * Width /\ e * Width >= 0 /\ x * Width >= 0
    BY <2>1, RingOK
  <2> QED BY <2>2, RingOK
<1>2. r * Width \in Int /\ s * Width \in Int
  BY RingOK
<1>3. CASE r = s
  BY <1>2, <1>3 DEF Cell
<1>4. CASE r < s
  <2>1. r * Width + Width <= s * Width
    BY <1>1, <1>4
  <2> QED BY <1>2, <2>1, RingOK DEF Cell
<1>5. CASE s < r
  <2>1. s * Width + Width <= r * Width
    BY <1>1, <1>5
  <2> QED BY <1>2, <2>1, RingOK DEF Cell
<1> QED BY <1>3, <1>4, <1>5

(* In the first round row k - 1 is that of line k. *)
LEMMA SmallRemainder ==
    ASSUME NEW n \in Nat \ {0}, NEW a \in 0 .. n - 1
    PROVE  a % n = a
<1>1. PICK z \in Nat : z = 0
  OBVIOUS
<1>2. a = n * z + a /\ a \in Nat
  BY <1>1
<1> QED BY <1>2, RemainderIs

(* What the types say of the sequences. *)
LEMMA Sizes ==
    ASSUME TypeOK
    PROVE  /\ R \in Nat /\ T \in Nat /\ Len(line) \in Nat /\ Len(buf) \in Nat
           /\ DOMAIN typed = 1 .. T /\ DOMAIN reads = 1 .. R
           /\ \A k \in 1 .. T : typed[k] \in Seq(Char) /\ Len(typed[k]) \in Nat
           /\ \A k \in 1 .. R : reads[k] \in Seq(Char) /\ Len(reads[k]) \in Nat
BY DEF TypeOK, R, T

(* The row of an unread line is valid, *)
LEMMA UnreadIsValid ==
    ASSUME TypeOK, Backlog, NEW k \in R + 1 .. T
    PROVE  Row(k) \in 0 .. Rows - 1 /\ valid[Row(k)]
<1>1. k - 1 \in R .. T - 1 /\ R \in Nat /\ T \in Nat
  BY Sizes
<1>2. Row(k) \in RowsOf(R, T, Rows)
  BY <1>1 DEF RowsOf, Row
<1> QED BY <1>2 DEF Backlog, R, T

(* and a valid row at read_ptr is that of the oldest of them. *)
LEMMA CopiesOldest ==
    ASSUME TypeOK, Backlog, valid[read_ptr]
    PROVE  R + 1 \in R + 1 .. T /\ Row(R + 1) = read_ptr
<1>1. read_ptr \in RowsOf(R, T, Rows)
  BY DEF Backlog, TypeOK, R, T
<1>2. R \in Nat /\ T \in Nat
  BY Sizes
<1>3. R < T
  BY <1>1, <1>2 DEF RowsOf
<1>4. (R + 1) - 1 = R
  BY <1>2
<1>5. Row(R + 1) = read_ptr
  BY <1>4 DEF Row, Backlog, R
<1> QED BY <1>2, <1>3, <1>5

(* No line is unread twice: oldest and newest are at most Rows apart. *)
LEMMA BacklogSizes ==
    ASSUME TypeOK, Backlog
    PROVE  R <= T /\ T - R <= Rows /\ soffset = T % Rows
<1>1. R \in Nat /\ T \in Nat /\ Rows \in Nat
  BY Sizes, RingOK
<1>2. T - R \in 0 .. Rows
  BY DEF Backlog, R, T
<1> QED BY <1>1, <1>2 DEF Backlog, T

-----------------------------------------------------------------------------
(* Overruns and lines that are too long stay                                 *)

(* A line that was longer than a row is remembered. *)
LEMMA WideStays ==
    ASSUME TypeOK, [Next]_vars, wide
    PROVE  wide'
<1>1. CASE \E scancode \in Scancodes : kbInt_handler(scancode)
  BY <1>1 DEF kbInt_handler, written, term_write
<1>2. CASE ReadStep \/ \E n \in Lengths : sys_read(n)
  BY <1>2 DEF ReadStep, Poll, CopyByte, Release, sys_read, writer
<1>3. CASE UNCHANGED vars
  BY <1>3 DEF vars
<1> QED BY <1>1, <1>2, <1>3 DEF Next

-----------------------------------------------------------------------------
(* The interrupt                                                             *)

(* A line more does not change what a read of an earlier one holds. *)
LEMMA HoldsStays ==
    ASSUME NEW b, NEW k, typed'[k] = typed[k], Holds(b, k)
    PROVE  /\ \A i \in 1 .. Len(typed'[k]) : i <= Len(b) => b[i] = typed'[k][i]
           /\ k <= Rows /\ Len(typed'[k]) < Width /\ Len(typed'[k]) < Len(b)
                 => b[Len(typed'[k]) + 1] = Nul
BY DEF Holds

(* A character goes behind the current line, and to no row that is unread. *)
LEMMA WriteKeepsQueue ==
    ASSUME TypeOK, Backlog, CopiesValid, Lines, Blanks, Copied,
           ~overrun', ~wide', NEW c \in Char, term_write(c), UNCHANGED reader
    PROVE  Lines' /\ Blanks' /\ Copied'
<1> DEFINE n == Len(line)
           L == Append(line, c)
<1>1. /\ R \in Nat /\ T \in Nat /\ n \in Nat /\ R <= T
      /\ Rows \in Nat \ {0} /\ Width \in Nat \ {0}
      /\ soffset \in 0 .. Rows - 1 /\ soffset = T % Rows
  BY Sizes, BacklogSizes, RingOK DEF TypeOK
<1>2. ~valid[soffset] /\ sbuffer = n /\ n \in 0 .. Width - 1
  <2>1. ~valid[soffset] /\ ~(sbuffer >= Width)
    BY DEF term_write
  <2> QED BY <1>1, <2>1 DEF Lines
<1>3. /\ Cell(soffset, n) \in 0 .. Size - 1
      /\ ring' = [ring EXCEPT ![Cell(soffset, n)] = c]
  <2>1. Cell(soffset, n) \in 0 .. Size - 1
    BY <1>1, <1>2, CellInRing
  <2>2. Size \in Int
    BY RingOK DEF Size
  <2>3. Cell(soffset, n) < Size
    BY <2>1, <2>2
  <2> QED BY <1>2, <2>1, <2>3 DEF term_write, Cell
<1>4. ring'[Cell(soffset, n)] = c
  BY <1>3 DEF TypeOK
<1>5. ASSUME NEW r \in 0 .. Rows - 1, NEW d \in 0 .. Width - 1,
             r # soffset \/ d # n
      PROVE  ring'[Cell(r, d)] = ring[Cell(r, d)]
  <2>1. Cell(r, d) # Cell(soffset, n) /\ Cell(r, d) \in 0 .. Size - 1
    BY <1>1, <1>2, <1>5, CellsDiffer, CellInRing
  <2> QED BY <1>3, <2>1 DEF TypeOK
<1>6. ASSUME NEW k \in R + 1 .. T PROVE Row(k) \in 0 .. Rows - 1 /\ Row(k) # soffset
  BY <1>2, UnreadIsValid
<1>7. /\ L \in Seq(Char) /\ Len(L) = n + 1 /\ L[n + 1] = c
      /\ \A i \in 1 .. n : L[i] = line[i]
  BY DEF TypeOK
<1>8. ASSUME NEW k \in R + 1 .. T PROVE Len(typed[k]) \in 0 .. Width
  BY <1>1, Sizes DEF Lines
<1>9. ASSUME NEW d \in 0 .. Len(L) - 1 PROVE ring'[Cell(soffset, d)] = L[d + 1]
  <2>1. CASE d = n
    BY <1>4, <1>7, <2>1
  <2>2. CASE d # n
    <3>1. d \in 0 .. n - 1 /\ d \in 0 .. Width - 1 /\ d + 1 \in 1 .. n
      BY <1>1, <1>2, <1>7, <2>2
    <3>2. ring'[Cell(soffset, d)] = ring[Cell(soffset, d)]
      BY <1>1, <1>5, <2>2, <3>1
    <3> QED BY <1>7, <3>1, <3>2 DEF Lines
  <2> QED BY <2>1, <2>2
<1>10. ASSUME NEW k \in R + 1 .. T, NEW d \in 0 .. Len(typed[k]) - 1
       PROVE  ring'[Cell(Row(k), d)] = typed[k][d + 1]
  <2>1. d \in 0 .. Width - 1
    BY <1>1, <1>8
  <2> QED BY <1>5, <1>6, <2>1 DEF Lines
<1>11. ASSUME NEW k \in R + 1 .. T, k <= Rows, Len(typed[k]) < Width
       PROVE  ring'[Cell(Row(k), Len(typed[k]))] = Nul
  <2>1. Len(typed[k]) \in 0 .. Width - 1
    BY <1>1, <1>8, <1>11
  <2>2. ring[Cell(Row(k), Len(typed[k]))] = Nul
    BY <1>11 DEF Blanks
  <2> QED BY <1>5, <1>6, <2>1, <2>2
<1>12. ASSUME T < Rows, NEW r \in 0 .. Rows - 1, NEW d \in 0 .. Width - 1,
              r > soffset \/ (r = soffset /\ d >= n + 1)
       PROVE  ring'[Cell(r, d)] = Nul
  <2>1. r # soffset \/ d # n
    BY <1>1, <1>12
  <2>2. r > soffset \/ (r = soffset /\ d >= n)
    BY <1>1, <1>12
  <2>3. ring[Cell(r, d)] = Nul
    BY <1>12, <2>2 DEF Blanks
  <2> QED BY <1>5, <2>1, <2>3
<1>13. R' = R /\ UNCHANGED <<reads, buf, pc, read_index, read_ptr>>
  BY DEF reader, R
<1> HIDE DEF n, L
<1>14. ASSUME \A k \in 1 .. T : typed'[k] = typed[k] PROVE Copied'
  <2>1. pc = "copy" => read_index = read_ptr /\ Holds(buf, R + 1) /\ R + 1 \in 1 .. T
    <3>1. pc = "copy" => R + 1 \in R + 1 .. T
      BY CopiesOldest DEF CopiesValid
    <3> QED BY <1>1, <3>1 DEF Copied
  <2>2. pc = "copy" => Holds(buf, R + 1)'
    BY <1>13, <1>14, <2>1, HoldsStays DEF Holds
  <2>3. ASSUME NEW k \in 1 .. R PROVE Holds(reads[k], k)'
    <3>1. k \in 1 .. T /\ Holds(reads[k], k)
      BY <1>1 DEF Copied
    <3> QED BY <1>13, <1>14, <3>1, HoldsStays DEF Holds
  <2> QED BY <1>13, <2>1, <2>2, <2>3 DEF Copied
<1>15. CASE c # Newline
  <2>1. /\ line' = L /\ typed' = typed /\ soffset' = soffset /\ sbuffer' = n + 1
        /\ T' = T
    BY <1>2, <1>15 DEF term_write, T, L
  <2>2. Len(line') = n + 1 /\ n + 1 <= Width
    BY <1>1, <1>2, <1>7, <2>1
  <2>3. Lines'
    BY <1>9, <1>10, <1>13, <2>1, <2>2 DEF Lines, L
  <2>4. Blanks'
    BY <1>11, <1>12, <1>13, <2>1, <2>2 DEF Blanks
  <2> QED BY <1>14, <2>1, <2>3, <2>4
<1>16. CASE c = Newline
  <2>1. /\ line' = <<>> /\ typed' = Append(typed, L)
        /\ soffset' = (soffset + 1) % Rows /\ sbuffer' = 0
    BY <1>16 DEF term_write, EndOfLine, L
  <2>2. /\ T' = T + 1 /\ typed'[T + 1] = L
        /\ \A k \in 1 .. T : typed'[k] = typed[k]
    BY <1>7, <2>1 DEF TypeOK, T
  <2>3. Row(T + 1) = soffset
    <3>1. (T + 1) - 1 = T
      BY <1>1
    <3> QED BY <1>1, <3>1 DEF Row
  <2>4. ASSUME NEW k \in 1 .. T' PROVE k = T + 1 \/ k \in 1 .. T
    BY <1>1, <2>2
  <2>5. ASSUME NEW k \in R' + 1 .. T' PROVE k = T + 1 \/ k \in R + 1 .. T
    BY <1>1, <1>13, <2>2
  <2>6. \A k \in R + 1 .. T : k \in 1 .. T
    BY <1>1
  <2>7. Len(L) = n + 1 /\ n + 1 <= Width /\ Len(line') = 0
    BY <1>1, <1>2, <1>7, <2>1
  <2>8. Lines'
    <3>1. sbuffer' = Len(line') /\ Len(line') <= Width
      BY <1>1, <2>1, <2>7
    <3>2. ASSUME NEW k \in 1 .. T' PROVE Len(typed'[k]) <= Width
      BY <2>2, <2>4, <2>7 DEF Lines
    <3>3. \A d \in 0 .. Len(line') - 1 : ring'[Cell(soffset', d)] = line'[d + 1]
      BY <2>7
    <3>4. ASSUME NEW k \in R' + 1 .. T', NEW d \in 0 .. Len(typed'[k]) - 1
          PROVE  ring'[Cell(Row(k), d)] = typed'[k][d + 1]
      <4>1. CASE k = T + 1
        BY <1>9, <2>2, <2>3, <4>1
      <4>2. CASE k \in R + 1 .. T
        BY <1>10, <2>2, <2>6, <4>2
      <4> QED BY <2>5, <4>1, <4>2
    <3> QED BY <3>1, <3>2, <3>3, <3>4 DEF Lines
  <2>9. T < Rows => soffset = T
    BY <1>1, SmallRemainder
  <2>10. Blanks'
    <3>1. ASSUME T' < Rows, NEW r \in 0 .. Rows - 1, NEW d \in 0 .. Width - 1,
                 r > soffset' \/ (r = soffset' /\ d >= Len(line'))
          PROVE  ring'[Cell(r, d)] = Nul
      <4>1. T < Rows /\ T + 1 \in 0 .. Rows - 1
        BY <1>1, <2>2, <3>1
      <4>2. soffset' = T + 1
        BY <1>1, <2>1, <2>9, <4>1, SmallRemainder
      <4>3. r > soffset
        BY <1>1, <2>9, <3>1, <4>1, <4>2
      <4> QED BY <1>12, <4>1, <4>3
    <3>2. ASSUME NEW k \in R' + 1 .. T', k <= Rows, Len(typed'[k]) < Width
          PROVE  ring'[Cell(Row(k), Len(typed'[k]))] = Nul
      <4>1. CASE k = T + 1
        <5>1. T < Rows /\ n + 1 \in 0 .. Width - 1 /\ Len(typed'[k]) = n + 1
          BY <1>1, <2>2, <2>7, <3>2, <4>1
        <5> QED BY <1>1, <1>12, <2>3, <4>1, <5>1
      <4>2. CASE k \in R + 1 .. T
        BY <1>11, <2>2, <2>6, <3>2, <4>2
      <4> QED BY <2>5, <4>1, <4>2
    <3> QED BY <3>1, <3>2 DEF Blanks
  <2> QED BY <1>14, <2>2, <2>8, <2>10
<1> QED BY <1>15, <1>16

-----------------------------------------------------------------------------
(* The read                                                                  *)

Unwritten == UNCHANGED <<ring, typed, line, soffset, sbuffer>>

(* The later of the lines from r + 1 to t. *)
LEMMA FewerLines ==
    ASSUME NEW r \in Nat, NEW n \in Nat, NEW t \in Nat, r <= n
    PROVE  \A k \in n + 1 .. t : k \in r + 1 .. t
OBVIOUS

(* What a read leaves alone stays where it is. *)
LEMMA ReadKeepsLines ==
    ASSUME TypeOK, Lines, Blanks, Unwritten, R' \in {R, R + 1}
    PROVE  Lines' /\ Blanks'
<1>1. T' = T /\ R \in Nat /\ T \in Nat
  BY Sizes DEF Unwritten, T
<1>2. \A k \in R' + 1 .. T : k \in R + 1 .. T
  <2>1. PICK n \in Nat : n = R' /\ R <= n
    BY <1>1
  <2>2. \A k \in n + 1 .. T : k \in R + 1 .. T
    BY <1>1, <2>1, FewerLines
  <2> QED BY <2>1, <2>2
<1>3. Lines'
  BY <1>1, <1>2 DEF Lines, Unwritten
<1>4. Blanks'
  BY <1>1, <1>2 DEF Blanks, Unwritten
<1> QED BY <1>3, <1>4

(* The loop of term_read copies the next byte of the line, or the '\0' that  *)
(* ends it.                                                                  *)
LEMMA CopyKeepsCopied ==
    ASSUME TypeOK, Backlog, CopiesValid, Lines, Blanks, Copied, CopyByte
    PROVE  Copied'
<1> DEFINE m == Len(buf)
           k == R + 1
<1>1. /\ pc = "copy" /\ pc' = "copy" /\ read_index' = read_index
      /\ read_ptr' = read_ptr /\ reads' = reads /\ typed' = typed /\ R' = R
  BY DEF CopyByte, writer, R
<1>2. read_index = read_ptr /\ Holds(buf, k)
  BY <1>1 DEF Copied
<1>3. k \in R + 1 .. T /\ Row(k) = read_ptr
  BY <1>1, CopiesOldest DEF CopiesValid
<1>4. /\ R \in Nat /\ T \in Nat /\ m \in Nat /\ k \in 1 .. T
      /\ Len(typed[k]) \in Nat /\ Len(typed[k]) <= Width
      /\ Width \in Nat /\ read_ptr \in 0 .. Rows - 1
  <2>1. R \in Nat /\ T \in Nat /\ m \in Nat
    BY Sizes
  <2>2. k \in 1 .. T
    BY <1>3, <2>1
  <2> QED BY <2>1, <2>2, Sizes, RingOK DEF Lines, TypeOK
<1>5. PICK x \in Char : /\ buf' = Append(buf, x)
                        /\ Cell(read_ptr, m) < Size => x = ring[Cell(read_ptr, m)]
  <2>1. buf' = Append(buf, IF Cell(read_ptr, m) < Size THEN ring[Cell(read_ptr, m)]
                                                       ELSE Foreign)
    BY <1>2 DEF CopyByte, Cell
  <2>2. Foreign \in Char
    BY DEF Char
  <2>3. Cell(read_ptr, m) < Size => Cell(read_ptr, m) \in 0 .. Size - 1
    <3>1. Cell(read_ptr, m) \in Nat /\ Size \in Nat
      BY <1>4, RingOK DEF Cell, Size
    <3> QED BY <3>1
  <2>4. Cell(read_ptr, m) < Size => ring[Cell(read_ptr, m)] \in Char
    BY <2>3 DEF TypeOK
  <2> QED BY <2>1, <2>2, <2>4
<1>6. /\ Len(buf') = m + 1 /\ buf'[m + 1] = x
      /\ \A i \in 1 .. m : buf'[i] = buf[i]
  BY <1>5 DEF TypeOK
<1>7. ASSUME m < Width PROVE x = ring[Cell(Row(k), m)]
  <2>1. m \in 0 .. Width - 1
    BY <1>4, <1>7
  <2>2. Cell(read_ptr, m) \in 0 .. Size - 1 /\ Size \in Int
    BY <1>4, <2>1, RingOK, CellInRing DEF Size
  <2> QED BY <1>3, <1>5, <2>2
<1>8. ASSUME NEW i \in 1 .. Len(typed[k]), i <= m + 1 PROVE buf'[i] = typed[k][i]
  <2>1. CASE i = m + 1
    <3>1. m \in 0 .. Len(typed[k]) - 1 /\ m < Width
      BY <1>4, <2>1
    <3>2. ring[Cell(Row(k), m)] = typed[k][m + 1]
      BY <1>3, <3>1 DEF Lines
    <3> QED BY <1>6, <1>7, <2>1, <3>1, <3>2
  <2>2. CASE i # m + 1
    <3>1. i \in 1 .. m
      BY <1>4, <1>8, <2>2
    <3> QED BY <1>2, <1>6, <3>1 DEF Holds
  <2> QED BY <2>1, <2>2
<1>9. ASSUME k <= Rows, Len(typed[k]) < Width, Len(typed[k]) < m + 1
      PROVE  buf'[Len(typed[k]) + 1] = Nul
  <2>1. CASE Len(typed[k]) = m
    <3>1. ring[Cell(Row(k), m)] = Nul
      BY <1>3, <1>9, <2>1 DEF Blanks
    <3> QED BY <1>6, <1>7, <1>9, <2>1, <3>1
  <2>2. CASE Len(typed[k]) # m
    <3>1. Len(typed[k]) + 1 \in 1 .. m
      BY <1>4, <1>9, <2>2
    <3> QED BY <1>2, <1>6, <1>9, <3>1, <1>4 DEF Holds
  <2> QED BY <2>1, <2>2
<1>10. Holds(buf, k)'
  BY <1>1, <1>6, <1>8, <1>9 DEF Holds
<1>11. \A j \in 1 .. R : Holds(reads[j], j)'
  BY <1>1 DEF Copied, Holds
<1> QED BY <1>1, <1>2, <1>10, <1>11 DEF Copied

(* A read that returns holds the line it was due. *)
LEMMA ReadKeepsCopied ==
    ASSUME TypeInv, Backlog, CopiesValid, Lines, Blanks, Copied,
           ReadStep \/ \E n \in Lengths : sys_read(n)
    PROVE  Unwritten /\ R' \in {R, R + 1} /\ Copied'
<1>0. TypeOK /\ BufferIsEmpty
  BY DEF TypeInv
<1>1. CASE \E n \in Lengths : sys_read(n)
  <2>1. pc' = "poll" /\ UNCHANGED <<reads, typed>> /\ Unwritten /\ R' = R
    BY <1>1 DEF sys_read, writer, Unwritten, R
  <2> QED BY <2>1 DEF Copied, Holds
<1>2. CASE Poll
  <2>1. /\ pc' = "copy" /\ UNCHANGED <<reads, typed, buf, read_ptr>> /\ Unwritten
        /\ R' = R /\ read_index' = read_ptr /\ valid[read_ptr] /\ buf = <<>>
    BY <1>0, <1>2 DEF Poll, writer, Unwritten, R, BufferIsEmpty
  <2>2. R + 1 \in 1 .. T
    <3>1. R + 1 \in R + 1 .. T /\ R \in Nat /\ T \in Nat
      BY <1>0, <2>1, CopiesOldest, Sizes
    <3> QED BY <3>1
  <2>3. Len(typed[R + 1]) \in Nat /\ Len(buf) = 0
    BY <1>0, <2>1, <2>2, Sizes
  <2>4. Holds(buf, R + 1)
    BY <2>3 DEF Holds
  <2> QED BY <2>1, <2>4 DEF Copied, Holds
<1>3. CASE CopyByte
  <2>1. Unwritten /\ R' = R
    BY <1>3 DEF CopyByte, writer, Unwritten, R
  <2> QED BY <1>0, <1>3, <2>1, CopyKeepsCopied
<1>4. CASE Release
  <2>1. /\ pc = "copy" /\ pc' = "user" /\ typed' = typed /\ Unwritten
        /\ reads' = Append(reads, buf)
    BY <1>4 DEF Release, writer, Unwritten
  <2>2. /\ R' = R + 1 /\ reads'[R + 1] = buf
        /\ \A j \in 1 .. R : reads'[j] = reads[j]
    BY <1>0, <2>1 DEF TypeOK, R
  <2>3. Holds(buf, R + 1)
    BY <2>1 DEF Copied
  <2>4. ASSUME NEW j \in 1 .. R' PROVE Holds(reads[j], j)'
    <3>1. R \in Nat
      BY <1>0, Sizes
    <3>2. CASE j = R + 1
      BY <2>1, <2>2, <2>3, <3>2 DEF Holds
    <3>3. CASE j # R + 1
      <4>1. j \in 1 .. R
        BY <2>2, <3>1, <3>3
      <4> QED BY <2>1, <2>2, <4>1 DEF Holds, Copied
    <3> QED BY <3>2, <3>3
  <2> QED BY <2>1, <2>2, <2>4 DEF Copied
<1> QED BY <1>1, <1>2, <1>3, <1>4 DEF ReadStep

-----------------------------------------------------------------------------
(* The invariant                                                             *)

(* An empty ring, no line and no read. *)
LEMMA InitQueueInv == Init => QueueInv
<1> SUFFICES ASSUME Init PROVE QueueInv
  OBVIOUS
<1>1. TerminalInv
  BY InitTyped, InitBacklog DEF Init, TerminalInv, TypeInv, BufferIsEmpty
<1>2. /\ R = 0 /\ T = 0 /\ Len(line) = 0 /\ sbuffer = 0 /\ pc = "user"
      /\ ring = [a \in 0 .. Size - 1 |-> Nul]
  BY DEF Init, R, T
<1>3. Lines
  BY <1>2, RingOK DEF Lines
<1>4. Blanks
  BY <1>2, CellInRing DEF Blanks
<1>5. Copied
  BY <1>2 DEF Copied
<1> QED BY <1>1, <1>2, <1>3, <1>4, <1>5 DEF QueueInv

(* A step that neither overruns a row nor widens a line. *)
LEMMA NextKeepsQueue ==
    ASSUME TypeInv, Backlog, CopiesValid, Lines, Blanks, Copied,
           ~overrun', ~wide', [Next]_vars
    PROVE  Lines' /\ Blanks' /\ Copied'
<1>0. TypeOK
  BY DEF TypeInv
<1>1. CASE \E scancode \in Scancodes : kbInt_handler(scancode)
  <2>1. PICK scancode \in Scancodes : kbInt_handler(scancode)
    BY <1>1
  <2>2. UNCHANGED reader
    BY <2>1 DEF kbInt_handler
  <2>3. CASE UNCHANGED written
    <3>1. Unwritten /\ R' = R
      BY <2>2, <2>3 DEF written, reader, Unwritten, R
    <3>2. Copied'
      BY <2>2, <3>1 DEF Copied, Holds, reader, Unwritten
    <3> QED BY <1>0, <3>1, <3>2, ReadKeepsLines
  <2>4. CASE /\ scancode \in Keys
             /\ term_write(IF shiftFlag THEN kbdus_Shift[scancode]
                                        ELSE kbdus[scancode])
    <3>1. PICK c \in Char : term_write(c)
      BY <2>4, CharactersAreChars
    <3> QED BY <1>0, <2>2, <3>1, WriteKeepsQueue
  <2> QED BY <2>1, <2>3, <2>4 DEF kbInt_handler
<1>2. CASE ReadStep \/ \E n \in Lengths : sys_read(n)
  BY <1>0, <1>2, ReadKeepsCopied, ReadKeepsLines
<1>3. CASE UNCHANGED vars
  <2>1. Unwritten /\ R' = R
    BY <1>3 DEF vars, Unwritten, R
  <2>2. Copied'
    BY <1>3, <2>1 DEF Copied, Holds, vars
  <2> QED BY <1>0, <2>1, <2>2, ReadKeepsLines
<1> QED BY <1>1, <1>2, <1>3 DEF Next

(* The invariant is kept, whatever comes after an overrun. *)
LEMMA NextKeepsQueueInv == QueueInv /\ [Next]_vars => QueueInv'
<1> SUFFICES ASSUME QueueInv, [Next]_vars PROVE QueueInv'
  OBVIOUS
<1>1. TerminalInv' /\ TypeInv /\ TypeOK
  BY NextKeepsTerminalInv DEF QueueInv, TerminalInv, TypeInv
<1>2. (pc # "user" => length \in Lengths)'
  <2>1. CASE \E scancode \in Scancodes : kbInt_handler(scancode)
    BY <2>1 DEF kbInt_handler, reader, QueueInv
  <2>2. CASE ReadStep \/ \E n \in Lengths : sys_read(n)
    BY <2>2 DEF ReadStep, Poll, CopyByte, Release, sys_read, QueueInv
  <2>3. CASE UNCHANGED vars
    BY <2>3 DEF vars, QueueInv
  <2> QED BY <2>1, <2>2, <2>3 DEF Next
<1>3. ASSUME ~overrun', ~wide' PROVE Lines' /\ Blanks' /\ Copied'
  <2>1. ~overrun /\ ~wide
    BY <1>1, <1>3, OverrunStays, WideStays
  <2>2. Lines /\ Blanks /\ Copied /\ Backlog /\ CopiesValid
    BY <1>1, <2>1, BacklogMeans DEF QueueInv, TerminalInv
  <2> QED BY <1>1, <1>3, <2>2, NextKeepsQueue
<1> QED BY <1>1, <1>2, <1>3 DEF QueueInv

(* The invariant holds always. *)
LEMMA QueueCorrect == Spec => []QueueInv
<1> QED BY InitQueueInv, NextKeepsQueueInv, PTL DEF Spec

-----------------------------------------------------------------------------
(* The first round                                                           *)

(* The string in a buffer ends at its first '\0'. *)
LEMMA StringIs ==
    ASSUME NEW b \in Seq(Char), NEW l \in Seq(Char), Len(l) < Len(b),
           \A i \in 1 .. Len(l) : b[i] = l[i] /\ l[i] # Nul,
           b[Len(l) + 1] = Nul
    PROVE  AsString(b) = l
<1> DEFINE ends == {i \in 1 .. Len(b) : b[i] = Nul}
           e == Len(l) + 1
           first == CHOOSE i \in ends : \A j \in ends : i <= j
<1>1. Len(l) \in Nat /\ Len(b) \in Nat /\ e \in 1 .. Len(b)
  OBVIOUS
<1>2. e \in ends
  BY <1>1
<1>3. ASSUME NEW j \in ends PROVE e <= j
  <2>1. j \in 1 .. Len(b) /\ b[j] = Nul
    OBVIOUS
  <2>2. j \notin 1 .. Len(l)
    BY <2>1
  <2> QED BY <1>1, <2>1, <2>2
<1>4. first = e
  <2> HIDE DEF ends, e
  <2>1. first \in ends /\ \A j \in ends : first <= j
    BY <1>2, <1>3
  <2>2. first <= e /\ e <= first
    BY <1>2, <1>3, <2>1
  <2>3. first \in Int /\ e \in Int
    BY <1>1, <2>1 DEF ends
  <2> HIDE DEF first
  <2> QED BY <2>2, <2>3
<1>5. AsString(b) = SubSeq(b, 1, first - 1)
  <2>1. ends # {}
    BY <1>2
  <2> QED BY <2>1 DEF AsString
<1>6. AsString(b) = SubSeq(b, 1, Len(l))
  <2>1. e - 1 = Len(l)
    BY <1>1
  <2> HIDE DEF e, first
  <2> QED BY <1>4, <1>5, <2>1
<1>7. \A i \in 1 .. Len(l) : b[i] \in Char
  BY <1>1
<1>8. /\ SubSeq(b, 1, Len(l)) \in Seq(Char)
      /\ Len(SubSeq(b, 1, Len(l))) = Len(l)
      /\ \A i \in 1 .. Len(l) : SubSeq(b, 1, Len(l))[i] = l[i]
  <2>1. Len(l) - 1 + 1 = Len(l) /\ \A i \in 1 .. Len(l) : 1 + i - 1 = i
    BY <1>1
  <2>2. 1 <= Len(l) \/ Len(l) = 0
    BY <1>1
  <2> QED BY <1>1, <1>7, <2>1, <2>2, SubSeqProperties
<1> QED BY <1>6, <1>8, SeqEqual

(* Whatever the number and the width of the rows, and whenever the           *)
(* interrupt comes: in the first round of the ring, a line that fits into    *)
(* its row and into the program's buffer is read as the string that was      *)
(* typed, because no byte behind it was ever written.                        *)
THEOREM FirstRoundCorrect == Spec => []FirstRoundIsExact
<1>1. ASSUME QueueInv PROVE FirstRoundIsExact
  <2>1. TypeOK
    BY <1>1 DEF QueueInv, TerminalInv, TypeInv
  <2> SUFFICES ASSUME NEW k \in 1 .. Len(reads), ~overrun, ~wide, k <= Rows,
                      Len(typed[k]) < Width, Len(typed[k]) < Len(reads[k]),
                      \A i \in 1 .. Len(typed[k]) : typed[k][i] # Nul
               PROVE  AsString(reads[k]) = typed[k]
    BY DEF FirstRoundIsExact
  <2>2. Copied /\ Backlog
    BY <1>1, <2>1, BacklogMeans DEF QueueInv, TerminalInv
  <2>3. k \in 1 .. R /\ k \in 1 .. T
    BY <2>1, <2>2, BacklogSizes, Sizes DEF R
  <2>4. Holds(reads[k], k)
    BY <2>2, <2>3 DEF Copied
  <2>5. /\ reads[k] \in Seq(Char) /\ typed[k] \in Seq(Char)
        /\ Len(reads[k]) \in Nat /\ Len(typed[k]) \in Nat
    BY <2>1, <2>3, Sizes
  <2>6. /\ \A i \in 1 .. Len(typed[k]) : reads[k][i] = typed[k][i]
        /\ reads[k][Len(typed[k]) + 1] = Nul
    BY <2>4, <2>5 DEF Holds
  <2> QED BY <2>5, <2>6, StringIs
<1> QED BY <1>1, QueueCorrect, PTL

-----------------------------------------------------------------------------
(* The queue                                                                 *)

(* The refinement mapping. *)
Unread == SubSeq(typed, Len(reads) + 1, Len(typed))
Shown(b, k) == SubSeq(b, 1, IF k \in DOMAIN typed /\ Len(typed[k]) < Len(b)
                            THEN Len(typed[k]) ELSE Len(b))
Got == [k \in DOMAIN reads |-> Shown(reads[k], k)]
Overflown == overrun \/ wide

(* The first elements of a sequence. *)
LEMMA PrefixIs ==
    ASSUME NEW S, NEW q \in Seq(S), NEW m \in 0 .. Len(q)
    PROVE  /\ SubSeq(q, 1, m) \in Seq(S) /\ Len(SubSeq(q, 1, m)) = m
           /\ \A i \in 1 .. m : SubSeq(q, 1, m)[i] = q[i]
<1>1. \A i \in 1 .. m : q[i] \in S /\ 1 + i - 1 = i
  OBVIOUS
<1>2. m - 1 + 1 = m /\ (1 <= m \/ m = 0)
  OBVIOUS
<1> QED BY <1>1, <1>2, SubSeqProperties

(* The elements from n + 1 to the last. *)
LEMMA RestIs ==
    ASSUME NEW S, NEW q \in Seq(S), NEW n \in 0 .. Len(q)
    PROVE  /\ SubSeq(q, n + 1, Len(q)) \in Seq(S)
           /\ Len(SubSeq(q, n + 1, Len(q))) = Len(q) - n
           /\ \A i \in 1 .. Len(q) - n : SubSeq(q, n + 1, Len(q))[i] = q[n + i]
<1> DEFINE r == SubSeq(q, n + 1, Len(q))
<1>1. \A i \in n + 1 .. Len(q) : q[i] \in S
  OBVIOUS
<1>2. n + 1 \in Int /\ Len(q) \in Int
  OBVIOUS
<1>3. /\ r \in Seq(S)
      /\ Len(r) = IF n + 1 <= Len(q) THEN Len(q) - (n + 1) + 1 ELSE 0
      /\ \A i \in 1 .. Len(q) - (n + 1) + 1 : r[i] = q[(n + 1) + i - 1]
  BY <1>1, <1>2, SubSeqProperties
<1> HIDE DEF r
<1>4. /\ Len(q) - (n + 1) + 1 = Len(q) - n
      /\ n + 1 <= Len(q) \/ Len(q) - n = 0
      /\ \A i \in 1 .. Len(q) - n : (n + 1) + i - 1 = n + i
  BY <1>2
<1>5. Len(r) = Len(q) - n
  BY <1>2, <1>3, <1>4
<1>6. ASSUME NEW i \in 1 .. Len(q) - n PROVE r[i] = q[n + i]
  BY <1>3, <1>4
<1> QED BY <1>3, <1>5, <1>6 DEF r

(* A line more is the last of the unread ones, *)
LEMMA UnreadGrows ==
    ASSUME NEW S, NEW q \in Seq(S), NEW x \in S, NEW n \in 0 .. Len(q)
    PROVE  LET u == SubSeq(q, n + 1, Len(q))
               v == SubSeq(Append(q, x), n + 1, Len(Append(q, x)))
           IN  Len(v) = Len(u) + 1 /\ SubSeq(v, 1, Len(u)) = u
<1> DEFINE p == Append(q, x)
           u == SubSeq(q, n + 1, Len(q))
           v == SubSeq(p, n + 1, Len(p))
<1>1. /\ p \in Seq(S) /\ Len(p) = Len(q) + 1
      /\ \A i \in 1 .. Len(q) : p[i] = q[i]
  OBVIOUS
<1> HIDE DEF p
<1>2. n \in 0 .. Len(p)
  BY <1>1
<1>3. /\ u \in Seq(S) /\ Len(u) = Len(q) - n
      /\ \A i \in 1 .. Len(q) - n : u[i] = q[n + i]
  BY RestIs
<1>4. /\ v \in Seq(S) /\ Len(v) = Len(p) - n
      /\ \A i \in 1 .. Len(p) - n : v[i] = p[n + i]
  BY <1>1, <1>2, RestIs
<1> HIDE DEF u, v
<1>5. Len(u) \in 0 .. Len(v) /\ Len(v) = Len(u) + 1
  BY <1>1, <1>3, <1>4
<1>6. /\ SubSeq(v, 1, Len(u)) \in Seq(S) /\ Len(SubSeq(v, 1, Len(u))) = Len(u)
      /\ \A i \in 1 .. Len(u) : SubSeq(v, 1, Len(u))[i] = v[i]
  BY <1>4, <1>5, PrefixIs
<1>7. ASSUME NEW i \in 1 .. Len(u) PROVE v[i] = u[i]
  <2>1. i \in 1 .. Len(q) - n /\ i \in 1 .. Len(p) - n /\ n + i \in 1 .. Len(q)
    BY <1>1, <1>3
  <2> QED BY <1>1, <1>3, <1>4, <2>1
<1>8. SubSeq(v, 1, Len(u)) = u
  BY <1>3, <1>6, <1>7, SeqEqual
<1> QED BY <1>5, <1>8 DEF u, v, p

(* and a line less is the first of them. *)
LEMMA UnreadShrinks ==
    ASSUME NEW S, NEW q \in Seq(S), NEW n \in Nat, n < Len(q)
    PROVE  LET u == SubSeq(q, n + 1, Len(q))
           IN  /\ u # <<>> /\ Head(u) = q[n + 1]
               /\ Tail(u) = SubSeq(q, (n + 1) + 1, Len(q))
<1>1. n + 1 \in 1 .. Len(q) /\ Len(q) \in n + 1 .. Len(q) /\ n \in 0 .. Len(q)
  OBVIOUS
<1>2. Len(SubSeq(q, n + 1, Len(q))) = Len(q) - n
  BY <1>1, RestIs
<1>3. Len(q) - n # 0
  OBVIOUS
<1>4. SubSeq(q, n + 1, Len(q)) # <<>>
  BY <1>2, <1>3, EmptySeq
<1> QED BY <1>1, <1>4, HeadTailOfSubSeq

(* What a read of length Len(b) shows of line l is what it holds of it. *)
LEMMA ShownIsCut ==
    ASSUME NEW S, NEW b \in Seq(S), NEW l \in Seq(S),
           \A i \in 1 .. Len(l) : i <= Len(b) => b[i] = l[i]
    PROVE  SubSeq(b, 1, IF Len(l) < Len(b) THEN Len(l) ELSE Len(b))
             = SubSeq(l, 1, IF Len(b) < Len(l) THEN Len(b) ELSE Len(l))
<1>1. PICK m \in Nat : /\ m = IF Len(l) < Len(b) THEN Len(l) ELSE Len(b)
                       /\ m = IF Len(b) < Len(l) THEN Len(b) ELSE Len(l)
                       /\ m \in 0 .. Len(b) /\ m \in 0 .. Len(l)
  OBVIOUS
<1>2. /\ SubSeq(b, 1, m) \in Seq(S) /\ Len(SubSeq(b, 1, m)) = m
      /\ \A i \in 1 .. m : SubSeq(b, 1, m)[i] = b[i]
  BY <1>1, PrefixIs
<1>3. /\ SubSeq(l, 1, m) \in Seq(S) /\ Len(SubSeq(l, 1, m)) = m
      /\ \A i \in 1 .. m : SubSeq(l, 1, m)[i] = l[i]
  BY <1>1, PrefixIs
<1>4. \A i \in 1 .. m : b[i] = l[i]
  BY <1>1
<1>5. SubSeq(b, 1, m) = SubSeq(l, 1, m)
  BY <1>2, <1>3, <1>4, SeqEqual
<1> QED BY <1>1, <1>5

(* What reads returned is a sequence of lines. *)
LEMMA GotIs ==
    TypeOK => /\ Got \in Seq(Seq(Char)) /\ Len(Got) = R
              /\ \A k \in 1 .. R : Got[k] = Shown(reads[k], k)
<1> SUFFICES ASSUME TypeOK
             PROVE  /\ Got \in Seq(Seq(Char)) /\ Len(Got) = R
                    /\ \A k \in 1 .. R : Got[k] = Shown(reads[k], k)
  OBVIOUS
<1>1. /\ R \in Nat /\ DOMAIN reads = 1 .. R /\ DOMAIN typed = 1 .. T
      /\ \A k \in 1 .. R : reads[k] \in Seq(Char) /\ Len(reads[k]) \in Nat
      /\ \A k \in 1 .. T : Len(typed[k]) \in Nat
  BY Sizes
<1>2. ASSUME NEW k \in 1 .. R PROVE Shown(reads[k], k) \in Seq(Char)
  <2>1. PICK m \in 0 .. Len(reads[k]) : Shown(reads[k], k) = SubSeq(reads[k], 1, m)
    <3>1. CASE k \in DOMAIN typed /\ Len(typed[k]) < Len(reads[k])
      <4>1. Len(typed[k]) \in 0 .. Len(reads[k])
        BY <1>1, <3>1
      <4> QED BY <3>1, <4>1 DEF Shown
    <3>2. CASE ~(k \in DOMAIN typed /\ Len(typed[k]) < Len(reads[k]))
      <4>1. Len(reads[k]) \in 0 .. Len(reads[k])
        BY <1>1
      <4> QED BY <3>2, <4>1 DEF Shown
    <3> QED BY <3>1, <3>2
  <2> QED BY <1>1, <2>1, PrefixIs
<1>3. Got \in [1 .. R -> Seq(Char)] /\ \A k \in 1 .. R : Got[k] = Shown(reads[k], k)
  BY <1>1, <1>2 DEF Got
<1>4. Got \in Seq(Seq(Char)) /\ Len(Got) = R
  BY <1>1, <1>3
<1> QED BY <1>3, <1>4

(* The queue's actions in terms of the mapping. *)
LEMMA QueueIs ==
    /\ Queue!Init <=> Unread = <<>> /\ Got = <<>> /\ Overflown = FALSE
    /\ Queue!Enter <=> /\ ~Overflown /\ Len(Unread) < Rows
                       /\ Len(Unread') = Len(Unread) + 1
                       /\ SubSeq(Unread', 1, Len(Unread)) = Unread
                       /\ Got' = Got /\ Overflown' = Overflown
    /\ Queue!Overflow <=> Overflown' = TRUE
    /\ \A n : Queue!Read(n) <=>
          /\ ~Overflown /\ Unread # <<>>
          /\ Got' = Append(Got, SubSeq(Head(Unread), 1,
                       IF n < Len(Head(Unread)) THEN n ELSE Len(Head(Unread))))
          /\ Unread' = Tail(Unread)
          /\ Overflown' = Overflown
<1>1. Queue!Init <=> Unread = <<>> /\ Got = <<>> /\ Overflown = FALSE
  BY DEF Queue!Init, Unread, Got, Shown, Overflown
<1>2. Queue!Enter <=> /\ ~Overflown /\ Len(Unread) < Rows
                      /\ Len(Unread') = Len(Unread) + 1
                      /\ SubSeq(Unread', 1, Len(Unread)) = Unread
                      /\ Got' = Got /\ Overflown' = Overflown
  BY DEF Queue!Enter, Unread, Got, Shown, Overflown
<1>3. Queue!Overflow <=> Overflown' = TRUE
  BY DEF Queue!Overflow, Overflown
<1>4. \A n : Queue!Read(n) <=>
          /\ ~Overflown /\ Unread # <<>>
          /\ Got' = Append(Got, SubSeq(Head(Unread), 1,
                       IF n < Len(Head(Unread)) THEN n ELSE Len(Head(Unread))))
          /\ Unread' = Tail(Unread)
          /\ Overflown' = Overflown
  BY DEF Queue!Read, Queue!Cut, Unread, Got, Shown, Overflown
<1> QED BY <1>1, <1>2, <1>3, <1>4

(* The interrupt completes a line: it enters the queue. *)
LEMMA NewlineEnters ==
    ASSUME TypeOK, Backlog, ~Overflown, ~Overflown', NEW c \in Char,
           c = Newline, term_write(c), UNCHANGED reader
    PROVE  Queue!Enter
<1> DEFINE L == Append(line, c)
<1>1. /\ R \in Nat /\ T \in Nat /\ R <= T /\ T - R <= Rows /\ soffset = T % Rows
      /\ Rows \in Nat \ {0}
  BY Sizes, BacklogSizes, RingOK
<1>2. /\ typed \in Seq(Seq(Char)) /\ L \in Seq(Char) /\ typed' = Append(typed, L)
      /\ reads' = reads
  BY DEF TypeOK, term_write, reader
<1> HIDE DEF L
<1>3. /\ T' = T + 1 /\ \A k \in 1 .. T : typed'[k] = typed[k]
      /\ DOMAIN typed = 1 .. T /\ DOMAIN typed' = 1 .. T + 1
  BY <1>2 DEF T
<1>4. T - R < Rows
  <2>1. ~valid[soffset]
    BY DEF term_write, Overflown
  <2>2. T % Rows \notin RowsOf(R, T, Rows)
    BY <1>1, <2>1 DEF Backlog, R, T
  <2> QED BY <1>1, <2>2, RoomForNext
<1>5. R \in 0 .. Len(typed) /\ Unread = SubSeq(typed, R + 1, Len(typed))
  BY <1>1 DEF T, R, Unread
<1>6. Unread' = SubSeq(Append(typed, L), R + 1, Len(Append(typed, L)))
  BY <1>2 DEF Unread, R
<1>7. Len(Unread) = T - R
  BY <1>2, <1>5, RestIs DEF T
<1>8. Len(Unread') = Len(Unread) + 1 /\ SubSeq(Unread', 1, Len(Unread)) = Unread
  BY <1>2, <1>5, <1>6, UnreadGrows
<1>9. Got' = Got
  <2>1. DOMAIN reads = 1 .. R
    BY Sizes
  <2>2. ASSUME NEW k \in 1 .. R PROVE Shown(reads[k], k)' = Shown(reads[k], k)
    <3>1. k \in 1 .. T /\ k \in 1 .. T + 1
      BY <1>1
    <3> QED BY <1>2, <1>3, <3>1 DEF Shown
  <2> QED BY <1>2, <2>1, <2>2 DEF Got
<1>10. Overflown' = Overflown
  BY DEF Overflown, TypeOK, term_write
<1> QED BY <1>4, <1>7, <1>8, <1>9, <1>10, QueueIs

(* A read returns: the oldest line leaves the queue. *)
LEMMA ReleaseReads ==
    ASSUME TypeOK, TypeOK', Backlog, CopiesValid, Copied, ~Overflown, Release,
           length \in Lengths
    PROVE  Queue!Next
<1>1. /\ pc = "copy" /\ Len(buf) = length /\ reads' = Append(reads, buf)
      /\ typed' = typed /\ Overflown' = Overflown
  BY DEF Release, writer, Overflown
<1>2. /\ R \in Nat /\ T \in Nat /\ R + 1 \in R + 1 .. T
      /\ typed \in Seq(Seq(Char)) /\ buf \in Seq(Char)
      /\ reads \in Seq(Seq(Char))
  BY <1>1, Sizes, CopiesOldest DEF CopiesValid, TypeOK
<1>3. /\ R' = R + 1 /\ reads'[R + 1] = buf
      /\ \A k \in 1 .. R : reads'[k] = reads[k]
  BY <1>1, <1>2 DEF R
<1>4. R < Len(typed) /\ R + 1 \in 1 .. Len(typed) /\ typed[R + 1] \in Seq(Char)
  <2>1. R < T /\ R + 1 \in 1 .. T
    BY <1>2
  <2> QED BY <1>2, <2>1 DEF T
<1>5. /\ Unread # <<>> /\ Head(Unread) = typed[R + 1]
      /\ Tail(Unread) = SubSeq(typed, (R + 1) + 1, Len(typed))
  BY <1>2, <1>4, UnreadShrinks DEF Unread, R
<1>6. Unread' = Tail(Unread)
  BY <1>1, <1>3, <1>5 DEF Unread, R
<1> DEFINE cut == SubSeq(typed[R + 1], 1, IF Len(buf) < Len(typed[R + 1])
                                          THEN Len(buf) ELSE Len(typed[R + 1]))
<1>7. Shown(buf, R + 1) = cut
  <2>1. \A i \in 1 .. Len(typed[R + 1]) : i <= Len(buf) => buf[i] = typed[R + 1][i]
    BY <1>1 DEF Copied, Holds
  <2>2. R + 1 \in DOMAIN typed
    BY <1>2, <1>4
  <2> QED BY <1>2, <1>4, <2>1, <2>2, ShownIsCut DEF Shown
<1>8. Got' = Append(Got, cut)
  <2>1. /\ Got \in Seq(Seq(Char)) /\ Len(Got) = R
        /\ \A k \in 1 .. R : Got[k] = Shown(reads[k], k)
    BY GotIs
  <2>2. (TypeOK => /\ Got \in Seq(Seq(Char)) /\ Len(Got) = R
                   /\ \A k \in 1 .. R : Got[k] = Shown(reads[k], k))'
    BY GotIs, PTL
  <2>3. /\ Got' \in Seq(Seq(Char)) /\ Len(Got') = R + 1
        /\ \A k \in 1 .. R + 1 : Got'[k] = Shown(reads'[k], k)
    <3>1. \A b, k : Shown(b, k)' = Shown(b', k)
      BY <1>1 DEF Shown
    <3> QED BY <1>3, <2>2, <3>1
  <2>4. cut \in Seq(Char)
    <3>1. PICK m \in 0 .. Len(typed[R + 1]) : cut = SubSeq(typed[R + 1], 1, m)
      <4>1. Len(buf) \in Nat /\ Len(typed[R + 1]) \in Nat
        BY <1>2, <1>4
      <4>2. CASE Len(buf) < Len(typed[R + 1])
        <5>1. Len(buf) \in 0 .. Len(typed[R + 1])
          BY <4>1, <4>2
        <5> QED BY <4>2, <5>1
      <4>3. CASE ~(Len(buf) < Len(typed[R + 1]))
        <5>1. Len(typed[R + 1]) \in 0 .. Len(typed[R + 1])
          BY <4>1
        <5> QED BY <4>3, <5>1
      <4> QED BY <4>2, <4>3
    <3> QED BY <1>4, <3>1, PrefixIs
  <2> HIDE DEF cut
  <2>5. /\ Append(Got, cut) \in Seq(Seq(Char)) /\ Len(Append(Got, cut)) = R + 1
        /\ \A k \in 1 .. R : Append(Got, cut)[k] = Got[k]
        /\ Append(Got, cut)[R + 1] = cut
    BY <2>1, <2>4, AppendProperties
  <2>6. ASSUME NEW k \in 1 .. R + 1 PROVE Got'[k] = Append(Got, cut)[k]
    <3>1. CASE k = R + 1
      BY <1>3, <1>7, <2>3, <2>5, <3>1
    <3>2. CASE k # R + 1
      <4>1. k \in 1 .. R
        BY <1>2, <3>2
      <4> QED BY <1>3, <2>1, <2>3, <2>5, <4>1
    <3> QED BY <3>1, <3>2
  <2> QED BY <2>3, <2>5, <2>6, SeqEqual
<1>9. PICK n \in Lengths : n = length
  OBVIOUS
<1>10. Queue!Read(n)
  <2>1. cut = SubSeq(Head(Unread), 1, IF n < Len(Head(Unread))
                                      THEN n ELSE Len(Head(Unread)))
    BY <1>1, <1>5, <1>9
  <2> HIDE DEF cut
  <2> QED BY <1>1, <1>5, <1>6, <1>8, <2>1, QueueIs
<1> QED BY <1>10 DEF Queue!Next

(* Every step of the terminal is a step of the queue, or changes nothing.    *)
LEMMA StepOfTheQueue ==
    ASSUME QueueInv, QueueInv', [Next]_vars
    PROVE  Queue!Next \/ UNCHANGED <<Unread, Got, Overflown>>
<1>0. TypeInv /\ TypeOK /\ TypeOK'
  BY DEF QueueInv, TerminalInv, TypeInv
<1>1. CASE Overflown'
  <2>1. Overflown' = TRUE
    BY <1>0, <1>1 DEF Overflown, TypeOK
  <2> QED BY <2>1, QueueIs DEF Queue!Next
<1>2. CASE ~Overflown'
  <2>1. ~Overflown
    BY <1>0, <1>2, OverrunStays, WideStays DEF Overflown
  <2>2. Lines /\ Blanks /\ Copied /\ Backlog /\ CopiesValid
    BY <1>0, <2>1, BacklogMeans DEF QueueInv, TerminalInv, Overflown
  <2>3. ASSUME UNCHANGED <<typed, reads>>
        PROVE  UNCHANGED <<Unread, Got, Overflown>>
    <3>1. Overflown' = Overflown
      BY <1>0, <1>2, <2>1 DEF Overflown, TypeOK
    <3> QED BY <2>3, <3>1 DEF Unread, Got, Shown
  <2>4. CASE \E scancode \in Scancodes : kbInt_handler(scancode)
    <3>1. PICK scancode \in Scancodes : kbInt_handler(scancode)
      BY <2>4
    <3>2. UNCHANGED reader
      BY <3>1 DEF kbInt_handler
    <3>3. CASE UNCHANGED written
      BY <2>3, <3>2, <3>3 DEF written, reader
    <3>4. CASE /\ scancode \in Keys
               /\ term_write(IF shiftFlag THEN kbdus_Shift[scancode]
                                          ELSE kbdus[scancode])
      <4>1. PICK c \in Char : term_write(c)
        BY <3>4, CharactersAreChars
      <4>2. CASE c = Newline
        BY <1>0, <1>2, <2>1, <2>2, <3>2, <4>1, <4>2, NewlineEnters DEF Queue!Next
      <4>3. CASE c # Newline
        BY <2>3, <3>2, <4>1, <4>3 DEF term_write, reader
      <4> QED BY <4>2, <4>3
    <3> QED BY <3>1, <3>3, <3>4 DEF kbInt_handler
  <2>5. CASE Poll \/ CopyByte \/ \E n \in Lengths : sys_read(n)
    BY <2>3, <2>5 DEF Poll, CopyByte, sys_read, writer
  <2>6. CASE Release
    <3>1. length \in Lengths
      BY <2>6 DEF Release, QueueInv
    <3> QED BY <1>0, <2>1, <2>2, <2>6, <3>1, ReleaseReads
  <2>7. CASE UNCHANGED vars
    BY <2>3, <2>7 DEF vars
  <2> QED BY <2>4, <2>5, <2>6, <2>7 DEF Next, ReadStep
<1> QED BY <1>1, <1>2

(* Whatever the number and the width of the rows, the lengths programs ask   *)
(* for and the moments at which keys are pressed: until a row is overrun or  *)
(* a line is longer than a row, reads return the typed lines in their order, *)
(* each once, none torn.                                                     *)
THEOREM LineQueueImplemented == Spec => ImplementsLineQueue
<1>1. Init => QueueInv /\ Queue!Init
  <2> SUFFICES ASSUME Init PROVE Queue!Init
    BY InitQueueInv
  <2>1. typed = <<>> /\ reads = <<>> /\ ~overrun /\ ~wide
    BY DEF Init
  <2>2. Unread = <<>>
    <3>1. Len(reads) = 0 /\ Len(typed) = 0 /\ 0 + 1 \in Int /\ 0 \in Int /\ 0 < 0 + 1
      BY <2>1
    <3>2. SubSeq(typed, 0 + 1, 0) = <<>>
      BY <3>1, SubSeqEmpty
    <3> QED BY <3>1, <3>2 DEF Unread
  <2>3. Got = <<>>
    <3>1. TypeOK /\ R = 0
      BY <2>1, InitTyped DEF R
    <3>2. Got \in Seq(Seq(Char)) /\ Len(Got) = 0
      BY <3>1, GotIs
    <3> QED BY <3>2, EmptySeq
  <2>4. Overflown = FALSE
    BY DEF Init, Overflown
  <2> QED BY <2>2, <2>3, <2>4, QueueIs
<1>2. QueueInv /\ [Next]_vars => QueueInv'
  BY NextKeepsQueueInv
<1>3. ASSUME QueueInv, QueueInv', [Next]_vars
      PROVE  [Queue!Next]_<<Unread, Got, Overflown>>
  BY <1>3, StepOfTheQueue
<1>4. Queue!Spec <=> Queue!Init /\ [][Queue!Next]_<<Unread, Got, Overflown>>
  BY DEF Queue!Spec, Unread, Got, Shown, Overflown
<1> QED BY <1>1, <1>2, <1>3, <1>4, PTL DEF Spec, ImplementsLineQueue
===============================================================================

-------------------------------- MODULE Files --------------------------------
(***************************************************************************)
(* open, read and close: the search through the tar archive that is linked *)
(* into the kernel, and the descriptor slots of the program.  An address   *)
(* is a position in the archive.  The program is any that reads and closes *)
(* what open returned; as the shell's cat does, it tests a descriptor      *)
(* against 1 only, so it also uses the -1 of a failed open.                *)
(***************************************************************************)
EXTENDS Integers, Sequences, SequencesExt, FiniteSetsExt

CONSTANTS Block,         \* 512
          Wrap,          \* 2^64
          Archive,       \* the bytes of the archive, a sequence
          Contents,      \* what it was made from: [at, name, text], where at
                         \* is the address of the header
          Nul,
          Slots,         \* 128, the length of fdArr
          Names,         \* the names the program opens
          Counts,        \* the counts it reads
          MaxOpens       \* bound on the calls of open

Size == Len(Archive)
Byte(a) == Archive[a + 1]
At(a, s) == a + Len(s) <= Size /\ \A i \in 1 .. Len(s) : Byte(a + i - 1) = s[i]

ASSUME ArchiveOK ==
    /\ Block \in Nat \ {0, 1} /\ Wrap \in Nat /\ Wrap % Block = 0
    /\ Archive \in Seq(Range(Archive)) /\ Size < Wrap /\ Size % Block = 0
    /\ Slots \in Nat \ (0 .. 3) /\ Counts \subseteq Nat \ {0}

(* What tar does: files in the order of their headers, '\0's behind a name   *)
(* and up to the end of a text's last block.                                 *)
Padding(f) == f.at + Block + Len(f.text)

ASSUME ContentsOK ==
    /\ Len(Contents) \in Nat
    /\ \A i \in 1 .. Len(Contents) : LET f == Contents[i] IN
          /\ f.at \in Nat /\ f.at % Block = 0
          /\ f.name \in Seq(Range(f.name)) /\ At(f.at, Append(f.name, Nul))
          /\ f.text \in Seq(Range(f.text)) /\ At(f.at + Block, f.text)
          /\ Padding(f) % Block # 0 => Byte(Padding(f)) = Nul
    /\ \A i, j \in 1 .. Len(Contents) : i < j => Contents[i].at < Contents[j].at

(* C strings that fit into a header.                                         *)
ASSUME NamesOK ==
    \A n \in Names : n \in Seq(Range(n) \ {Nul}) /\ Len(n) <= Block

VARIABLES
    fdArr,       \* the slots; what precedes slot 0 is read as slot -1
    handles,     \* the calls of open so far: [name, fd, closed]
    hung,        \* an access to an address in no VMA never returns
    got,         \* history: what was read from a slot since it was set, and
                 \* whether the last read came up short
    astray       \* history: a read used a slot no open has set

vars == <<fdArr, handles, hung, got, astray>>

Unset == -1              \* whatever memory held: addPCB copies an unset struct

(* initializeFDList *)
Init ==
    /\ fdArr = [i \in -1 .. Slots - 1 |->
                  [free |-> i >= 3, start |-> Unset, offset |-> Unset]]
    /\ got = [i \in -1 .. Slots - 1 |-> [bytes |-> <<>>, short |-> FALSE]]
    /\ handles = <<>> /\ hung = FALSE /\ astray = FALSE

-----------------------------------------------------------------------------
(* searchTarfs                                                               *)

(* Mutant: the size is not rounded; -1 moves the loop off the blocks. *)
RoundUpKept(size) == size

RoundUp(size) == IF size % Block = 0 THEN size
                 ELSE ((size \div Block) * Block + Block) % Wrap

(* Where the loop is after k iterations; size is -1 at first and is never    *)
(* set to the size of a file that was not asked for.                         *)
Visit[k \in Nat] ==
    IF k = 0 THEN [t |-> 0, size |-> Wrap - 1]
    ELSE LET size == RoundUp(Visit[k - 1].size)
         IN  [t |-> (Visit[k - 1].t + size + Block) % Wrap, size |-> size]

(* compareStrings ends with the name: a prefix is enough. *)
searchTarfs(name) ==
    LET hits == {k \in 0 .. Size \div Block :
                   Visit[k].t < Size /\ At(Visit[k].t, name)}
    IN  IF hits = {} THEN -1 ELSE Visit[Min(hits)].t

-----------------------------------------------------------------------------
getFreeFd == Min({i \in 0 .. Slots - 1 : fdArr[i].free})

(* Mutant: the file starts at its header. *)
initializeFdAtHeader(filePtr) == [free |-> TRUE, start |-> filePtr, offset |-> 0]

initializeFd(filePtr) == [free |-> TRUE, start |-> filePtr + Block, offset |-> 0]

open(name) ==
    LET filePtr == searchTarfs(name)
        fd == IF filePtr = -1 THEN -1 ELSE getFreeFd
    IN  /\ ~hung /\ Len(handles) < MaxOpens
        /\ handles' = Append(handles, [name |-> name, fd |-> fd, closed |-> FALSE])
        /\ IF fd = -1 THEN UNCHANGED <<fdArr, got>>
           ELSE /\ fdArr' = [fdArr EXCEPT ![fd] = initializeFd(filePtr)]
                /\ got' = [got EXCEPT ![fd] = [bytes |-> <<>>, short |-> FALSE]]
        /\ UNCHANGED <<hung, astray>>

close(h) ==
    /\ ~hung /\ ~handles[h].closed /\ handles[h].fd # 1
    /\ fdArr' = [fdArr EXCEPT ![handles[h].fd].free = TRUE]
    /\ handles' = [handles EXCEPT ![h].closed = TRUE]
    /\ UNCHANGED <<hung, got, astray>>

(* Mutant: the '\0' is copied, too. *)
copyBytes2Nul(a, count) ==
    LET ends == {n \in 0 .. count - 1 : a + n < Size /\ Byte(a + n) = Nul}
        n == IF ends = {} THEN count ELSE Min(ends) + 1
    IN  SubSeq(Archive, a + 1, Min({a + n, Size}))

(* copyBytes2 stops at count bytes or at the first '\0'; an archive ends with *)
(* blocks of them.                                                           *)
copyBytes2(a, count) ==
    LET ends == {n \in 0 .. count - 1 : a + n >= Size \/ Byte(a + n) = Nul}
        n == IF ends = {} THEN count ELSE Min(ends)
    IN  SubSeq(Archive, a + 1, a + n)

(* sys_read and fileRead on a slot that was set; descriptor 0 is the         *)
(* terminal.                                                                 *)
fileRead(h, count) ==
    LET fd == handles[h].fd
        bytes == copyBytes2(fdArr[fd].start + fdArr[fd].offset, count)
    IN  /\ ~hung /\ ~handles[h].closed /\ fd \notin {0, 1}
        /\ fdArr[fd].start # Unset
        /\ fdArr' = [fdArr EXCEPT ![fd].offset = @ + Len(bytes)]
        /\ got' = [got EXCEPT ![fd] = [bytes |-> @.bytes \o bytes,
                                       short |-> Len(bytes) < count]]
        /\ UNCHANGED <<handles, hung, astray>>

(* fileRead on a slot nobody has set (-1 is the end of ustack) follows an    *)
(* arbitrary pointer: it hangs, or returns bytes of other memory and adds    *)
(* their number to an arbitrary offset.                                      *)
fileReadAstray(h) ==
    /\ ~hung /\ ~handles[h].closed /\ handles[h].fd \notin {0, 1}
    /\ fdArr[handles[h].fd].start = Unset
    /\ fdArr' = [fdArr EXCEPT ![handles[h].fd].offset = Unset]
    /\ hung' \in BOOLEAN /\ astray' = TRUE
    /\ UNCHANGED <<handles, got>>

-----------------------------------------------------------------------------
Next ==
    \/ \E name \in Names : open(name)
    \/ \E h \in 1 .. Len(handles) : close(h)
    \/ \E h \in 1 .. Len(handles) : fileReadAstray(h)
    \/ \E h \in 1 .. Len(handles), count \in Counts : fileRead(h, count)

Spec == Init /\ [][Next]_vars

-----------------------------------------------------------------------------
(* Properties                                                                *)

TypeOK ==
    /\ \A i \in -1 .. Slots - 1 :
          /\ fdArr[i].free \in BOOLEAN
          /\ fdArr[i].start \in {Unset} \cup Block .. Size + Block
          /\ fdArr[i].offset \in {Unset} \cup 0 .. Size
          /\ fdArr[i].start # Unset => fdArr[i].offset # Unset
          /\ got[i].bytes \in Seq(Range(Archive) \ {Nul})
    /\ \A h \in 1 .. Len(handles) :
          handles[h].name \in Names /\ handles[h].fd \in -1 .. Slots - 1
    /\ hung \in BOOLEAN /\ astray \in BOOLEAN

Files == 1 .. Len(Contents)
Begins(name) == {i \in Files : IsPrefix(name, Contents[i].name)}
Headers == {Contents[i].at : i \in Files}
(* A block that is no header starts like the name. *)
Mistakable(name) == \E k \in 0 .. (Size \div Block) - 1 :
                       k * Block \notin Headers /\ At(k * Block, name)

(* The slot belongs to the open that set it last: every open sets the first  *)
(* free slot, and leaves it free.                                            *)
Newest(h) == \A g \in h + 1 .. Len(handles) : handles[g].fd # handles[h].fd

(* open finds a file if and only if some file's name begins with the name    *)
(* asked for, and then the first such file: stepping through all blocks (the *)
(* sizes are never used) finds the headers, unless a block of a file's text  *)
(* looks like one.                                                           *)
OpenFindsFile ==
    \A h \in 1 .. Len(handles) : LET name == handles[h].name IN
        ~Mistakable(name) =>
           /\ handles[h].fd = -1 <=> Begins(name) = {}
           /\ handles[h].fd # -1 /\ Newest(h) =>
                fdArr[handles[h].fd].start = Contents[Min(Begins(name))].at + Block

(* Whatever counts its reads use, what the newest descriptor returns since   *)
(* its file was opened is that file's text piece by piece from its start,    *)
(* and a read comes up short only when all of it was read; for a text        *)
(* without '\0' that does not fill its last block (else the read goes on in  *)
(* the next header).  Nothing is said of an older descriptor: all share one  *)
(* slot, so it reads the newest one's file.                                  *)
ReadsFileInOrder ==
    \A h \in 1 .. Len(handles) : LET fd == handles[h].fd
                                    name == handles[h].name IN
        fd # -1 /\ Newest(h) /\ ~Mistakable(name) =>
            LET text == Contents[Min(Begins(name))].text
            IN  Nul \notin Range(text) /\ Len(text) % Block # 0 =>
                  /\ IsPrefix(got[fd].bytes, text)
                  /\ fdArr[fd].offset = Len(got[fd].bytes)
                  /\ got[fd].short => got[fd].bytes = text

(* fileRead is only asked to read files that open found.                     *)
ReadsFoundFiles == ~astray
==============================================================================

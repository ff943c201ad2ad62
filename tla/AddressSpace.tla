----------------------------- MODULE AddressSpace -----------------------------
(***************************************************************************)
(* The memory of the program: page tables and VMAs, the ELF loader that    *)
(* fills them, the page-fault handler that maps pages on demand, and the   *)
(* copy of the tables fork makes, with the processor's translation cache   *)
(* (TLB) between the program and the tables.  The kernel flushes the TLB   *)
(* in yield2 only, which runs for the last time before the program starts. *)
(*                                                                         *)
(* A page table is named by its level and by the part of the page number   *)
(* that leads to it: <<0, 0>> is the PML4, <<Levels, p>> the frame of page *)
(* p.  Accesses of the kernel to frames go through its own mapping of all  *)
(* of memory and cannot fault (see PageAllocator).                         *)
(***************************************************************************)
EXTENDS Integers, Sequences, FiniteSets

CONSTANTS Levels,        \* 4
          Fanout,        \* 512
          PageSize,      \* 4096
          Word,          \* 8, the unit of copyBytes
          CowOffsets,    \* offsets with the bits 0x805 set
          Frames,        \* frames getFreePage still has, the PML4 included
          Stack,         \* the VMA of the user stack: [addr, size]
          Segments,      \* program headers: [addr, size, bytes], where bytes
                         \* are the size bytes of the archive at p_offset
          Zero,
          Accesses,      \* what the program does: [addr, cells]
          MaxChildren    \* bound on the forks

Idle == [addr |-> -1, cells |-> <<>>]

(* The pages below a table that is n levels above them.                      *)
Pages[n \in Nat] == IF n = 0 THEN 1 ELSE Fanout * Pages[n - 1]

ASSUME ShapeOK ==
    /\ Levels \in Nat \ {0} /\ Fanout \in Nat \ {0, 1}
    /\ PageSize \in Nat \ {0} /\ Word \in Nat \ {0}
    /\ CowOffsets \subseteq 1 .. PageSize - 1
    /\ Frames \in Nat \ {0} /\ MaxChildren \in Nat
    /\ Idle \notin Accesses

(* The program is linked into the address space, and so is its stack: an     *)
(* address inside a VMA has a way through the tables that starts at the PML4.*)
InSpace(v) == /\ v.addr \in Nat /\ v.size \in Nat
              /\ v.addr + v.size <= PageSize * Pages[Levels]

ASSUME VmasFit ==
    /\ InSpace(Stack)
    /\ Len(Segments) \in Nat
    /\ \A s \in 1 .. Len(Segments) : InSpace(Segments[s])
    /\ \A a \in Accesses : a.addr \in Nat

(* No access crosses the end of a page (for the processor, one that does is  *)
(* two), nor does a word of the loader: program headers are aligned, as the  *)
(* linker does it, and the bits cowBitSet tests are not all above those of a *)
(* word.  A program header comes with all of its bytes.                      *)
ASSUME AccessesFit ==
    /\ \A a \in Accesses : /\ Len(a.cells) \in Nat
                           /\ (a.addr % PageSize) + Len(a.cells) <= PageSize
    /\ PageSize % Word = 0
    /\ \A o \in CowOffsets : o % Word # 0
    /\ \A s \in 1 .. Len(Segments) :
          /\ Segments[s].addr % Word = 0
          /\ LET b == Segments[s].bytes
             IN  b = [i \in 1 .. Segments[s].size |-> b[i]]

VARIABLES
    tables,      \* page tables of the program: table or page -> its entry
    data,        \* contents of the frames that hold pages
    free,        \* the next frame of getFreePage; frames are granted in order
    vmas,        \* currentTask->vmaList
    children,    \* the tables and VMAs of forked processes
    tlb,         \* page -> the frame the processor has cached for it
    access,      \* the access of the loader or the program under way
    faults,      \* activations of handlePageFault, the innermost last: the
                 \* address in cr2, and the frame of the copy (0: none yet)
    stage,       \* "load", then "user"; "hung" in a loop without an end
    seg, word,   \* program header, and word of it, that is copied next
    snapshot     \* history: what a page held when it was moved

kernel == <<tables, free, vmas, children>>
loader == <<stage, seg, word>>
vars == <<tables, data, free, vmas, children, tlb, access, faults, stage, seg,
          word, snapshot>>

Page(a) == a \div PageSize
Cells(p) == p * PageSize .. p * PageSize + PageSize - 1
Blank == [o \in 0 .. PageSize - 1 |-> Zero]

(* The table (or page, for k = Levels) of level k on the way to page p.      *)
Table(k, p) == <<k, p \div Pages[Levels - k]>>
Leaf(p) == Table(Levels, p)

RW == 7                  \* present, writable, user
COW == 2053              \* 0x805: present, user, and a bit for the kernel

With(f, x, v) == [y \in DOMAIN f \cup {x} |-> IF y = x THEN v ELSE f[y]]

InVma(v, a) == v.addr <= a /\ a < v.addr + v.size
isValidAddress(a) == \E i \in 1 .. Len(vmas) : InVma(vmas[i], a)
cowBitSet(a) == (a % PageSize) \in CowOffsets

(* processPreloading: the PML4 holds no user page yet.                       *)
Init ==
    /\ tables = [n \in {<<0, 0>>} |-> [frame |-> 1, flags |-> RW]]
    /\ data = [f \in 1 .. Frames |-> Blank]
    /\ free = 2
    /\ vmas = <<[addr |-> Stack.addr, size |-> Stack.size]>>
    /\ children = <<>> /\ tlb = <<>>
    /\ access = Idle /\ faults = <<>>
    /\ stage = "load" /\ seg = 0 /\ word = 0
    /\ snapshot = <<>>

-----------------------------------------------------------------------------
(* The loader (kernel mode) and the program                                  *)

Running == stage # "hung" /\ access = Idle

(* Mutant: copyBytes is one word short. *)
WordsShort(s) == IF s = 0 THEN 0 ELSE (Segments[s].size \div Word) - 1

Words(s) == IF s = 0 THEN 0 ELSE Segments[s].size \div Word

(* parseElf goes to the next program header, whatever its type, and enters   *)
(* its VMA.                                                                  *)
NextSegment ==
    /\ Running /\ stage = "load"
    /\ word = Words(seg) /\ seg < Len(Segments)
    /\ seg' = seg + 1 /\ word' = 0
    /\ vmas' = Append(vmas, [addr |-> Segments[seg + 1].addr,
                             size |-> Segments[seg + 1].size])
    /\ UNCHANGED <<tables, data, free, children, tlb, access, faults, stage,
                   snapshot>>

(* One iteration of copyBytes: a word of the archive goes to the program.    *)
CopyWord ==
    /\ Running /\ stage = "load"
    /\ word < Words(seg)
    /\ access' = [addr |-> Segments[seg].addr + word * Word,
                  cells |-> SubSeq(Segments[seg].bytes,
                                   word * Word + 1, word * Word + Word)]
    /\ UNCHANGED <<kernel, data, tlb, faults, loader, snapshot>>

(* switchToRing3, when the last program header is done.                      *)
EnterProgram ==
    /\ Running /\ stage = "load"
    /\ seg = Len(Segments) /\ word = Words(seg)
    /\ stage' = "user"
    /\ UNCHANGED <<kernel, data, tlb, access, faults, seg, word, snapshot>>

(* The program, or the kernel in a system call, uses the program's memory.   *)
Issue(a) ==
    /\ Running /\ stage = "user"
    /\ access' = a
    /\ UNCHANGED <<kernel, data, tlb, faults, loader, snapshot>>

-----------------------------------------------------------------------------
(* The processor                                                             *)

Present(p) == p \in DOMAIN tlb \/ Leaf(p) \in DOMAIN tables
Translation(p) == IF p \in DOMAIN tlb THEN tlb[p] ELSE tables[Leaf(p)].frame

(* The access the processor is at: the program's, or the first read of the   *)
(* page that the innermost handler copies.                                   *)
Copying == faults # <<>> /\ faults[Len(faults)].copy # 0
Current == IF Copying
           THEN Page(faults[Len(faults)].addr) * PageSize ELSE access.addr

(* The page is present (user pages are writable): the access is done and the *)
(* translation stays in the TLB.                                             *)
Perform ==
    LET p == Page(access.addr)
        at == access.addr % PageSize
    IN  /\ stage # "hung" /\ access # Idle /\ faults = <<>>
        /\ Present(p)
        /\ data' = [data EXCEPT ![Translation(p)] =
                      [o \in 0 .. PageSize - 1 |->
                         IF o - at \in 0 .. Len(access.cells) - 1
                         THEN access.cells[o - at + 1] ELSE @[o]]]
        /\ tlb' = With(tlb, p, Translation(p))
        /\ access' = Idle
        /\ word' = IF stage = "load" THEN word + 1 ELSE word
        /\ UNCHANGED <<kernel, faults, stage, seg, snapshot>>

(* Exception 14: pageFault_int calls the handler.                            *)
Fault ==
    /\ stage # "hung" /\ access # Idle
    /\ faults = <<>> \/ Copying
    /\ ~Present(Page(Current))
    /\ faults' = Append(faults, [addr |-> Current, copy |-> 0])
    /\ UNCHANGED <<kernel, data, tlb, access, loader, snapshot>>

(* The processor may drop a translation whenever it likes.                   *)
Evict(p) ==
    /\ p \in DOMAIN tlb
    /\ tlb' = [q \in DOMAIN tlb \ {p} |-> tlb[q]]
    /\ snapshot' = [q \in DOMAIN snapshot \ {p} |-> snapshot[q]]
    /\ UNCHANGED <<kernel, data, access, faults, loader>>

-----------------------------------------------------------------------------
(* handlePageFault                                                           *)

(* The innermost activation, before and after it has taken a frame to copy.  *)
Handling == stage # "hung" /\ faults # <<>> /\ ~Copying
Top == faults[Len(faults)]
Return == faults' = SubSeq(faults, 1, Len(faults) - 1)

(* Mutant: mapVirtualAddress does not look whether a table is there. *)
MissingAll(p) == 1 .. Levels - 1

Missing(p) == {k \in 1 .. Levels - 1 : Table(k, p) \notin DOMAIN tables}
(* Mutant: one frame more than there is. *)
ExhaustedLate(n) == free + n > Frames + 2

Exhausted(n) == free + n > Frames + 1

(* Entry n belongs to table t or to one under it. *)
Under(n, t) == n[1] > t[1] /\ n[2] \div Pages[n[1] - t[1]] = t[2]

(* mapVirtualAddress and mapVirtualAddressToGivenPhysicalAddr: the missing   *)
(* tables on the way get the frames from first on, top down, and are empty;  *)
(* the last entry is set to the frame of the page, whatever it held.         *)
Install(p, first, frame) ==
    LET top == Levels - Cardinality(Missing(p))
        new == {Table(k, p) : k \in Missing(p)}
        old == {n \in DOMAIN tables : \A t \in new : ~Under(n, t)}
    IN  tables' = [n \in {Leaf(p)} \cup new \cup old |->
                     IF n = Leaf(p) THEN [frame |-> frame, flags |-> RW]
                     ELSE IF n \in new
                     THEN [frame |-> first + n[1] - top, flags |-> RW]
                     ELSE tables[n]]

(* Mutant: the handler returns when the address lies in no VMA. *)
RejectReturns ==
    /\ Handling
    /\ ~isValidAddress(Top.addr)
    /\ Return
    /\ UNCHANGED <<kernel, data, tlb, access, loader, snapshot>>

(* The address lies in no VMA: while (1).                                    *)
RejectAddress ==
    /\ Handling
    /\ ~isValidAddress(Top.addr)
    /\ stage' = "hung"
    /\ UNCHANGED <<kernel, data, tlb, access, faults, seg, word, snapshot>>

(* mapVirtualAddressToPhysical *)
MapPage ==
    LET p == Page(Top.addr)
        n == Cardinality(Missing(p))
    IN  /\ Handling
        /\ isValidAddress(Top.addr) /\ ~cowBitSet(Top.addr)
        /\ ~Exhausted(n + 1)
        /\ Install(p, free, free + n)
        /\ free' = free + n + 1
        /\ Return
        /\ UNCHANGED <<data, vmas, children, tlb, access, loader, snapshot>>

(* The copy-on-write branch takes a frame and calls copyBytes, whose first   *)
(* read faults again unless the page is there.                               *)
BeginCopy ==
    /\ Handling
    /\ isValidAddress(Top.addr) /\ cowBitSet(Top.addr)
    /\ ~Exhausted(1)
    /\ free' = free + 1
    /\ faults' = [faults EXCEPT ![Len(faults)].copy = free]
    /\ UNCHANGED <<tables, data, vmas, children, tlb, access, loader, snapshot>>

(* The rest of the branch: copyBytes, then the copy is mapped.  The TLB is   *)
(* not flushed.                                                              *)
FinishCopy ==
    LET p == Page(Top.addr)
        n == Cardinality(Missing(p))
    IN  /\ stage # "hung" /\ Copying
        /\ Present(p)
        /\ ~Exhausted(n)
        /\ data' = [data EXCEPT ![Top.copy] = data[Translation(p)]]
        /\ tlb' = With(tlb, p, Translation(p))
        /\ Install(p, free, Top.copy)
        /\ free' = free + n
        /\ Return
        /\ snapshot' = With(snapshot, p, data[Translation(p)])
        /\ UNCHANGED <<vmas, children, access, loader>>

(* No frame is left: getFreePage runs into memory that is not there and the  *)
(* handler's own fault is in no VMA.                                         *)
RunOut ==
    /\ Handling /\ isValidAddress(Top.addr)
    /\ Exhausted(IF cowBitSet(Top.addr)
                 THEN 1 ELSE Cardinality(Missing(Page(Top.addr))) + 1)
    /\ stage' = "hung"
    /\ UNCHANGED <<kernel, data, tlb, access, faults, seg, word, snapshot>>

-----------------------------------------------------------------------------
(* fork                                                                      *)

Tables == {n \in DOMAIN tables : n[1] < Levels}
Leaves == {n \in DOMAIN tables : n[1] = Levels}

(* copyPML4 .. copyPTE meet the tables in the order of the first page below  *)
(* them, the upper level first.                                              *)
Before(m, n) ==
    LET First(t) == t[2] * Pages[Levels - t[1]]
    IN  First(m) < First(n) \/ (First(m) = First(n) /\ m[1] < n[1])

Rank(n) == Cardinality({m \in Tables : Before(m, n)})

(* Mutant: the child gets a PML4 of its own and nothing else. *)
CopyTopOnly(first) ==
    [n \in DOMAIN tables |->
       IF n[1] = 0 THEN [frame |-> first, flags |-> RW] ELSE tables[n]]

(* Mutant: copyPTE reads the entry behind the one it writes. *)
CopyTablesShifted(first) ==
    LET From(n) == IF <<n[1], n[2] + 1>> \in Leaves THEN <<n[1], n[2] + 1>> ELSE n
    IN  [n \in DOMAIN tables |->
           IF n \in Tables THEN [frame |-> first + Rank(n), flags |-> RW]
                           ELSE [frame |-> tables[From(n)].frame, flags |-> COW]]

(* Every table gets a fresh frame; the pages are shared, and only the child  *)
(* gets the flags that tell so.                                              *)
CopyTables(first) ==
    [n \in DOMAIN tables |->
       IF n \in Tables THEN [frame |-> first + Rank(n), flags |-> RW]
                       ELSE [frame |-> tables[n].frame, flags |-> COW]]

(* copyCurrentProcessIntoAnother: a page for the child's VMAs, the tables,   *)
(* the VMAs.  (PCB and stacks: Processes.)                                   *)
Fork ==
    LET n == 1 + Cardinality(Tables)
    IN  /\ Running /\ stage = "user"
        /\ Len(children) < MaxChildren
        /\ IF Exhausted(n)
           THEN stage' = "hung" /\ UNCHANGED <<free, children>>
           ELSE /\ free' = free + n
                /\ children' = Append(children,
                     [tables |-> CopyTables(free + 1), vmas |-> vmas])
                /\ UNCHANGED stage
        /\ UNCHANGED <<tables, data, vmas, tlb, access, faults, seg, word,
                       snapshot>>

-----------------------------------------------------------------------------
Load == NextSegment \/ CopyWord \/ EnterProgram
Handle == RejectAddress \/ MapPage \/ BeginCopy \/ FinishCopy \/ RunOut

Next == \/ Load \/ Handle \/ Perform \/ Fault \/ Fork
        \/ \E a \in Accesses : Issue(a)
        \/ \E p \in DOMAIN tlb : Evict(p)

(* The loader, the handler and the access go on: nothing else runs.          *)
Spec == Init /\ [][Next]_vars /\ WF_vars(Load \/ Handle \/ Perform \/ Fault)
-----------------------------------------------------------------------------
(* Properties                                                                *)

Entry == [frame : 1 .. Frames, flags : {RW, COW}]
IsTables(t) == /\ DOMAIN t \subseteq (0 .. Levels) \X Nat
               /\ \A n \in DOMAIN t : t[n] \in Entry

TypeOK ==
    /\ IsTables(tables)
    /\ \A f \in DOMAIN data : DOMAIN data[f] = 0 .. PageSize - 1
    /\ DOMAIN data = 1 .. Frames /\ free \in 1 .. Frames + 1
    /\ \A i \in 1 .. Len(children) : IsTables(children[i].tables)
    /\ Len(children) <= MaxChildren
    /\ \A p \in DOMAIN tlb : tlb[p] \in 1 .. Frames
    /\ access = Idle => faults = <<>>
    /\ Len(faults) <= 2
    /\ \A i \in 1 .. Len(faults) : faults[i].copy \in 0 .. Frames
    /\ stage \in {"load", "user", "hung"}
    /\ seg \in 0 .. Len(Segments) /\ word \in 0 .. Words(seg)
    /\ DOMAIN snapshot \subseteq DOMAIN tlb

(* The tables of the program (space 0) and of its children.                  *)
Space(i) == IF i = 0 THEN tables ELSE children[i].tables
Spaces == 0 .. Len(children)

(* The walk the processor does finds every page a space maps; no frame is    *)
(* used twice, but for the pages a child shares with the program, at the     *)
(* same address; and the frame of a copy that is being made is used nowhere. *)
FramesAreTrees ==
    /\ \A i \in Spaces : \A n \in DOMAIN Space(i) :
          n[1] = Levels => \A k \in 0 .. Levels : Table(k, n[2]) \in DOMAIN Space(i)
    /\ \A i, j \in Spaces : \A m \in DOMAIN Space(i), n \in DOMAIN Space(j) :
          Space(i)[m].frame = Space(j)[n].frame =>
             m = n /\ (i = j \/ m[1] = Levels)
    /\ \A h \in 1 .. Len(faults) : \A i \in Spaces : \A n \in DOMAIN Space(i) :
          faults[h].copy # Space(i)[n].frame

(* What fork gave a child stays what the program uses: a page the program    *)
(* had mapped is never mapped anew, however later faults and copies          *)
(* interleave with evictions, and the child finds it at the same address.    *)
ChildSharesPages ==
    \A i \in 1 .. Len(children) : \A n \in DOMAIN children[i].tables :
       n[1] = Levels => /\ n \in DOMAIN tables
                        /\ tables[n].frame = children[i].tables[n].frame

(* The memory the program sees: through the TLB, else through the tables,    *)
(* and a page that is not there yet will be zero.                            *)
Addresses == 0 .. PageSize * Pages[Levels] - 1
Memory == [a \in Addresses |->
             IF Present(Page(a)) THEN data[Translation(Page(a))][a % PageSize]
                                 ELSE Zero]

(* The program headers, in order, whose copied words contain a.              *)
Copied(a) ==
    {s \in 1 .. seg : a - Segments[s].addr \in
                         0 .. (IF s = seg THEN word ELSE Segments[s].size \div Word) * Word - 1}

(* Up to its last instruction the loader has put exactly the whole words of  *)
(* the program headers into memory, later headers over earlier ones; what    *)
(* copyBytes leaves out (up to Word - 1 bytes at the end of a header) stays  *)
(* zero.  A header's bytes are p_memsz bytes of the file, more than the      *)
(* p_filesz that belong to it: that .bss is not zero is no violation here.   *)
LoadedExactly ==
    stage = "load" =>
        \A a \in Addresses :
           Memory[a] = IF Copied(a) = {} THEN Zero
                       ELSE LET s == CHOOSE s \in Copied(a) :
                                        \A r \in Copied(a) : r <= s
                            IN  Segments[s].bytes[a - Segments[s].addr + 1]

Flat == INSTANCE VirtualMemory WITH
    mem   <- Memory,
    moved <- [p \in DOMAIN snapshot |->
                [a \in Cells(p) |-> snapshot[p][a % PageSize]]]

(* Demand paging, forks and TLB evictions are invisible to the program: each *)
(* access takes effect once, at its address only, and pages appear as zeros. *)
(* The exception is a page first touched at an offset in CowOffsets: it is   *)
(* moved while the TLB holds the old frame, and the stores until that entry  *)
(* is evicted are lost.                                                      *)
ImplementsVirtualMemory == Flat!Spec

(* No access faults for ever: it is done, or the kernel hangs on purpose.    *)
AccessCompletes == (access # Idle) ~> (access = Idle \/ stage = "hung")

(* handlePageFault copies pages that fork marked for copying, as the comment *)
(* in cowBitSet has it, and no others.                                       *)
CopiesMarkedPages ==
    \A i \in 1 .. Len(faults) :
       faults[i].copy # 0 => LET n == Leaf(Page(faults[i].addr))
                             IN  n \in DOMAIN tables /\ tables[n].flags = COW
===============================================================================

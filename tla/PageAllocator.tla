---------------------------- MODULE PageAllocator ----------------------------
(***************************************************************************)
(* The physical page allocator of sys/memoryAllocator.c, from the memory   *)
(* map the boot loader hands to start() (sys/main.c) to getFreePage(),     *)
(* getFreePages() and kmalloc().                                           *)
(*                                                                         *)
(* Addresses are physical addresses counted in units of one struct         *)
(* page_descriptor (32 bytes, so PageSize is 128 in the real kernel):      *)
(* everything the allocator compares is a multiple of it, and the          *)
(* descriptor table itself occupies addresses, one unit per descriptor.    *)
(* A kernel virtual address is represented by its offset from kernmem, and *)
(* kpt is the part of the page tables that maps those offsets.             *)
(***************************************************************************)
EXTENDS Integers, Sequences, FiniteSets

CONSTANTS PageSize,      \* 4096
          PhysBase,      \* where the kernel image is loaded, 0x200000
          VideoMemory,   \* 0xb8000
          PtEntries,     \* entries of one page table, 512
          BootInfos,     \* the [smap, physfree] pairs the boot loader can pass
          KmallocSizes   \* sizes callers pass to kmalloc

-----------------------------------------------------------------------------
(* The layout start() derives from the memory map                            *)

RoundUp(a) == IF a % PageSize = 0 THEN a ELSE (a \div PageSize + 1) * PageSize

(* The entries start() keeps: memory (type 1) of non-zero length. *)
Usable(smap) == SelectSeq(smap, LAMBDA e : e.type = 1 /\ e.length # 0)

Layout(b) ==
    LET use == Usable(b.smap)
    IN  [start    |-> [i \in DOMAIN use |-> RoundUp(use[i].base)],
         end      |-> [i \in DOMAIN use |-> use[i].base + use[i].length],
         physfree |-> b.physfree]

(* newPhysfree: physbase plus one descriptor more than totalMemory/4096.     *)
NewPhysfree(l) ==
    PhysBase + (l.end[Len(l.end)] - l.start[1]) \div PageSize + 1

(* The descriptors whose address is at most newPhysfree.                     *)
Mapped(l) == NewPhysfree(l) - l.physfree + 1

(***************************************************************************)
(* What the layouts of the machines this kernel boots on have in common:   *)
(*   - regions are in address order and the first has a whole page;        *)
(*   - the image and the addresses up to newPhysfree lie in the last       *)
(*     region, two pages below its end, and every region starts below;     *)
(*   - the image is larger than the descriptors lost at ragged region ends *)
(*     (two per region) and smaller than the table;                        *)
(*   - one page table maps physbase..newPhysfree (mapKernel has no check   *)
(*     for its end);                                                       *)
(*   - the boot itself does not run out of mapped frames.                  *)
(***************************************************************************)
LayoutOK(l) ==
    LET last == Len(l.start)
    IN  /\ last \in Nat \ {0}
        /\ l.start \in [1 .. last -> Nat]
        /\ l.end \in [1 .. last -> Nat]
        /\ Len(l.end) = last
        /\ l.start[1] + PageSize <= l.end[1]
        /\ \A i \in 1 .. last : l.start[i] <= l.end[i] /\ l.start[i] <= PhysBase
        /\ \A i \in 1 .. last - 1 :
              l.end[i] <= l.start[i + 1] /\ l.end[i] <= PhysBase
        /\ NewPhysfree(l) + 2 * PageSize <= l.end[last]
        /\ l.physfree \in Nat
        /\ PhysBase + 2 * last + 2 <= l.physfree
        /\ l.physfree <= NewPhysfree(l)
        /\ NewPhysfree(l) - PhysBase < PtEntries * PageSize
        /\ NewPhysfree(l) - l.start[1] <= PageSize * (Mapped(l) - 14)

ASSUME ConstantsOK ==
    /\ PageSize \in Nat \ {0}
    /\ PhysBase \in Nat
    /\ VideoMemory \in 1 .. PhysBase - 1
    /\ PtEntries \in Nat \ {0, 1}
    /\ KmallocSizes \subseteq Nat \ {0}

ASSUME LayoutsOK == \A b \in BootInfos : LayoutOK(Layout(b))

(* The image is linked at a page boundary (physbase of sys/linker.script),   *)
(* and the memory map counts addresses from 0.                               *)
ASSUME AlignmentOK ==
    /\ PhysBase % PageSize = 0
    /\ \A b \in BootInfos :
          \A i \in DOMAIN Usable(b.smap) : Usable(b.smap)[i].base \in Nat

-----------------------------------------------------------------------------
VARIABLES
    layout,             \* startIndices, endIndices and physfree: never change
    pc,                 \* where the kernel is in initializeMemory or a request
    region, s,          \* i of initializeMemory and s of populatePageDescriptor
    descs,              \* the page descriptor table, at physfree
    freeListHead,       \* index of a descriptor, 0 for NULL
    headVirt,           \* freeListHead holds a kernel virtual address
    firstFreeLocation,  \* 0 until the first free descriptor is met (freeFlag)
    ptr,                \* cursor of mapKernel, then of mapEntireMemory
    pteOff,             \* next entry of the page table being filled
    va,                 \* kernel offset that entry maps
    kpt,                \* kernel offset -> physical address
    request,            \* the getFreePages call in progress
    granted             \* history: what each call returned and cleared

vars == <<layout, pc, region, s, descs, freeListHead, headVirt,
          firstFreeLocation, ptr, pteOff, va, kpt, request, granted>>

NoRequest == [head |-> 0, count |-> 0, walked |-> 0]

LastRegion == Len(layout.start)
Limit == NewPhysfree(layout)

(* The address descriptor i occupies: the table starts at physfree. *)
Slot(i) == layout.physfree + i - 1

(* Descriptors up to this one are remapped by remapNextPointers, and their   *)
(* frames mapped by mapEntireMemory: both stop at newPhysfree.               *)
LastMapped == Mapped(layout)

Paged == pc \in {"ready", "walk", "hang"}

-----------------------------------------------------------------------------
(* Building the table                                                        *)

Init ==
    /\ layout \in {Layout(b) : b \in BootInfos}
    /\ pc = IF Len(layout.start) = 1 THEN "last" ELSE "available"
    /\ region = 1
    /\ s = layout.start[1]
    /\ descs = <<>>
    /\ freeListHead = 0 /\ headVirt = FALSE /\ firstFreeLocation = 0
    /\ ptr = 0 /\ pteOff = 0 /\ va = 0
    /\ kpt = [o \in {} |-> 0]
    /\ request = NoRequest
    /\ granted = <<>>

(* The loop condition of populatePageDescriptor: an available region is      *)
(* passed with its end, a hole with the next start less one byte.            *)
MorePages ==
    CASE pc \in {"available", "last"} -> s + PageSize <= layout.end[region]
      [] pc = "hole" -> s + PageSize < layout.start[region + 1]

(* Mutant: every frame behind physbase counts as free. *)
PopulateFromPhysBase ==
    LET d == [startAddress |-> s, isAvailable |-> pc # "hole",
              isfree |-> s > PhysBase, nextFree |-> Len(descs) + 2,
              virt |-> FALSE]
        first == s > PhysBase /\ firstFreeLocation = 0
    IN  /\ pc \in {"available", "hole", "last"}
        /\ MorePages
        /\ descs' = Append(descs, d)
        /\ freeListHead' = IF first THEN Len(descs) + 1 ELSE freeListHead
        /\ firstFreeLocation' =
              IF first THEN Len(descs) + 1 ELSE firstFreeLocation
        /\ s' = s + PageSize
        /\ UNCHANGED <<layout, pc, region, headVirt, ptr, pteOff, va, kpt,
                       request, granted>>

(* One iteration of populatePageDescriptor's loop. *)
PopulatePageDescriptor ==
    LET d == [startAddress |-> s, isAvailable |-> pc # "hole",
              isfree |-> s > Limit, nextFree |-> Len(descs) + 2,
              virt |-> FALSE]
        first == s > Limit /\ firstFreeLocation = 0
    IN  /\ pc \in {"available", "hole", "last"}
        /\ MorePages
        /\ descs' = Append(descs, d)
        /\ freeListHead' = IF first THEN Len(descs) + 1 ELSE freeListHead
        /\ firstFreeLocation' =
              IF first THEN Len(descs) + 1 ELSE firstFreeLocation
        /\ s' = s + PageSize
        /\ UNCHANGED <<layout, pc, region, headVirt, ptr, pteOff, va, kpt,
                       request, granted>>

(* The loops of initializeMemory move on: from a region to the hole after    *)
(* it, from a hole to the next region, from the last region to the rest.     *)
NextCall ==
    /\ pc \in {"available", "hole", "last"}
    /\ ~MorePages
    /\ \/ /\ pc = "available"
          /\ pc' = "hole" /\ s' = layout.end[region]
          /\ UNCHANGED region
       \/ /\ pc = "hole"
          /\ pc' = IF region + 1 = LastRegion THEN "last" ELSE "available"
          /\ region' = region + 1 /\ s' = layout.start[region + 1]
       \/ /\ pc = "last"
          /\ pc' = "exclude"
          /\ UNCHANGED <<region, s>>
    /\ UNCHANGED <<layout, descs, freeListHead, headVirt, firstFreeLocation,
                   ptr, pteOff, va, kpt, request, granted>>

(* The next available descriptor after i, NULL when there is none. *)
NextAvailable(i) ==
    LET later == {j \in i + 1 .. Len(descs) : descs[j].isAvailable}
    IN  IF later = {} THEN 0 ELSE CHOOSE j \in later : \A k \in later : j <= k

(* nextFree of the descriptor before a hole skips the hole's descriptors. *)
ExcludeUnavailableMemory ==
    /\ pc = "exclude"
    /\ descs' = [i \in DOMAIN descs |->
                    IF /\ descs[i].isAvailable
                       /\ i < Len(descs) /\ ~descs[i + 1].isAvailable
                    THEN [descs[i] EXCEPT !.nextFree = NextAvailable(i)]
                    ELSE descs[i]]
    /\ pc' = "pagingSetup"
    /\ UNCHANGED <<layout, region, s, freeListHead, headVirt,
                   firstFreeLocation, ptr, pteOff, va, kpt, request, granted>>

-----------------------------------------------------------------------------
(* Taking frames off the free list                                           *)

Zeroed == [startAddress |-> 0, isAvailable |-> FALSE, isfree |-> FALSE,
           nextFree |-> 0, virt |-> FALSE]

(* freeListHead can be dereferenced: it is not NULL, it is within the table, *)
(* and once the kernel runs on its own page tables it is a virtual address.  *)
HeadUsable == freeListHead \in DOMAIN descs /\ (Paged => headVirt)

(* Kernel offsets of n pages whose physical address is head, as              *)
(* getVirtualAddressFromPhysical computes them.                              *)
Offsets(head, n) == {head - PhysBase + k * PageSize : k \in 0 .. n - 1}

(* Mutant: memset runs one page too far. *)
WritableOneMore(head, n) == Paged => Offsets(head, n + 1) \subseteq DOMAIN kpt

(* Writing to those offsets does not fault; before enablePaging the boot     *)
(* loader's page tables map them.                                            *)
Writable(head, n) == Paged => Offsets(head, n) \subseteq DOMAIN kpt

(* The frames memset really clears when it writes to those offsets. *)
Cleared(head, n) ==
    {IF Paged THEN kpt[o] ELSE PhysBase + o : o \in Offsets(head, n)}

(* The table after those frames are filled with zeroes. *)
Clear(ds, frames) ==
    [i \in DOMAIN ds |->
        IF \E f \in frames : f <= Slot(i) /\ Slot(i) < f + PageSize
        THEN Zeroed ELSE ds[i]]

HeadTaken == [descs EXCEPT ![freeListHead].isfree = FALSE]

Grant(head, n) ==
    [head |-> head, pages |-> n, cleared |-> Cleared(head, n)]

(* getFreePage: unlink the head, clear its frame, return its address. *)
GetFreePage ==
    LET head == descs[freeListHead].startAddress
    IN  /\ HeadUsable
        /\ Writable(head, 1)
        /\ freeListHead' = descs[freeListHead].nextFree
        /\ headVirt' = descs[freeListHead].virt
        /\ descs' = Clear(HeadTaken, Cleared(head, 1))
        /\ granted' = Append(granted, Grant(head, 1))

-----------------------------------------------------------------------------
(* The kernel's own page tables                                              *)

(* pml4, pdpe, pde and pte, one page each. *)
PagingSetup ==
    /\ pc = "pagingSetup"
    /\ GetFreePage
    /\ IF Len(granted) = 3
       THEN pc' = "mapKernel" /\ ptr' = PhysBase
       ELSE UNCHANGED <<pc, ptr>>
    /\ UNCHANGED <<layout, region, s, firstFreeLocation, pteOff, va, kpt,
                   request>>

MapTo(o, p) ==
    kpt' = [x \in DOMAIN kpt \cup {o} |-> IF x = o THEN p ELSE kpt[x]]

(* Mutant: the loop stops before newPhysfree. *)
MapKernelShort ==
    /\ pc = "mapKernel"
    /\ IF ptr < Limit
       THEN /\ MapTo(va, ptr)
            /\ va' = va + PageSize
            /\ pteOff' = pteOff + 1
            /\ ptr' = ptr + PageSize
            /\ UNCHANGED pc
       ELSE /\ pc' = "mapVideoCard"
            /\ UNCHANGED <<va, pteOff, ptr, kpt>>
    /\ UNCHANGED <<layout, region, s, descs, freeListHead, headVirt,
                   firstFreeLocation, request, granted>>

(* One iteration of mapKernel's loop over physbase..newPhysfree. *)
MapKernel ==
    /\ pc = "mapKernel"
    /\ IF ptr <= Limit
       THEN /\ MapTo(va, ptr)
            /\ va' = va + PageSize
            /\ pteOff' = pteOff + 1
            /\ ptr' = ptr + PageSize
            /\ UNCHANGED pc
       ELSE /\ pc' = "mapVideoCard"
            /\ UNCHANGED <<va, pteOff, ptr, kpt>>
    /\ UNCHANGED <<layout, region, s, descs, freeListHead, headVirt,
                   firstFreeLocation, request, granted>>

(* A page table of its own maps the video memory. *)
MapVideoCard ==
    /\ pc = "mapVideoCard"
    /\ GetFreePage
    /\ MapTo(VideoMemory - PhysBase, VideoMemory)
    /\ ptr' = firstFreeLocation
    /\ pc' = "mapEntireMemory"
    /\ UNCHANGED <<layout, region, s, firstFreeLocation, pteOff, va, request>>

(* mapEntireMemory starts another page table when the current one is full... *)
NewPageTable ==
    /\ pc = "mapEntireMemory"
    /\ Slot(ptr) <= Limit
    /\ pteOff = PtEntries
    /\ GetFreePage
    /\ pteOff' = 0
    /\ UNCHANGED <<layout, pc, region, s, firstFreeLocation, ptr, va, kpt,
                   request>>

(* Mutant: the full table is not noticed. *)
MapFrameUnchecked ==
    /\ pc = "mapEntireMemory"
    /\ Slot(ptr) <= Limit
    /\ MapTo(va, descs[ptr].startAddress)
    /\ va' = va + PageSize
    /\ pteOff' = pteOff + 1
    /\ ptr' = ptr + 1
    /\ UNCHANGED <<layout, pc, region, s, descs, freeListHead, headVirt,
                   firstFreeLocation, request, granted>>

(* ... and maps the frame of the descriptor at ptr. *)
MapFrame ==
    /\ pc = "mapEntireMemory"
    /\ Slot(ptr) <= Limit
    /\ pteOff # PtEntries
    /\ MapTo(va, descs[ptr].startAddress)
    /\ va' = va + PageSize
    /\ pteOff' = pteOff + 1
    /\ ptr' = ptr + 1
    /\ UNCHANGED <<layout, pc, region, s, descs, freeListHead, headVirt,
                   firstFreeLocation, request, granted>>

(* Mutant: the loop stops before the descriptor at newPhysfree. *)
RemapShort ==
    /\ pc = "mapEntireMemory"
    /\ Slot(ptr) > Limit
    /\ descs' = [i \in DOMAIN descs |->
                    [descs[i] EXCEPT !.virt = Slot(i) < Limit]]
    /\ headVirt' = TRUE
    /\ pc' = "ready"
    /\ UNCHANGED <<layout, region, s, freeListHead, firstFreeLocation, ptr,
                   pteOff, va, kpt, request, granted>>

(* enablePaging and remapNextPointers: cr3 is switched, and the descriptors  *)
(* up to newPhysfree, freeListHead and firstFreeLocation get kernel          *)
(* virtual addresses in place of physical ones.                              *)
RemapNextPointers ==
    /\ pc = "mapEntireMemory"
    /\ Slot(ptr) > Limit
    /\ descs' = [i \in DOMAIN descs |->
                    [descs[i] EXCEPT !.virt = Slot(i) <= Limit]]
    /\ headVirt' = TRUE
    /\ pc' = "ready"
    /\ UNCHANGED <<layout, region, s, freeListHead, firstFreeLocation, ptr,
                   pteOff, va, kpt, request, granted>>

-----------------------------------------------------------------------------
(* Requests of the running kernel                                            *)

(* A page fault on a kernel address never returns: handlePageFault finds no  *)
(* VMA for it and loops with interrupts off.                                 *)
Hang(count) ==
    /\ pc' = "hang"
    /\ request' = [request EXCEPT !.count = count]
    /\ UNCHANGED <<layout, region, s, descs, freeListHead, headVirt,
                   firstFreeLocation, ptr, pteOff, va, kpt, granted>>

GetFreePageCall ==
    /\ pc = "ready"
    /\ GetFreePage
    /\ UNCHANGED <<layout, pc, region, s, firstFreeLocation, ptr, pteOff, va,
                   kpt, request>>

GetFreePageFaults ==
    /\ pc = "ready"
    /\ ~(HeadUsable /\ Writable(descs[freeListHead].startAddress, 1))
    /\ Hang(1)

NoPages(size) ==
    IF size % PageSize = 0 THEN size \div PageSize ELSE size \div PageSize + 1

(* Mutant: the loop runs while i < count. *)
KmallocOneShort(size) ==
    /\ pc = "ready"
    /\ HeadUsable
    /\ request' = [head |-> descs[freeListHead].startAddress,
                   count |-> NoPages(size), walked |-> 1]
    /\ pc' = "walk"
    /\ UNCHANGED <<layout, region, s, descs, freeListHead, headVirt,
                   firstFreeLocation, ptr, pteOff, va, kpt, granted>>

(* kmalloc enters getFreePages, which reads the head's address first... *)
Kmalloc(size) ==
    /\ pc = "ready"
    /\ HeadUsable
    /\ request' = [head |-> descs[freeListHead].startAddress,
                   count |-> NoPages(size), walked |-> 0]
    /\ pc' = "walk"
    /\ UNCHANGED <<layout, region, s, descs, freeListHead, headVirt,
                   firstFreeLocation, ptr, pteOff, va, kpt, granted>>

(* ... unlinks count descriptors, one per iteration ... *)
GetFreePagesWalk ==
    /\ pc = "walk"
    /\ request.walked < request.count
    /\ HeadUsable
    /\ freeListHead' = descs[freeListHead].nextFree
    /\ headVirt' = descs[freeListHead].virt
    /\ descs' = HeadTaken
    /\ request' = [request EXCEPT !.walked = @ + 1]
    /\ UNCHANGED <<layout, pc, region, s, firstFreeLocation, ptr, pteOff, va,
                   kpt, granted>>

(* Mutant: the address is read after the loop. *)
ReturnReadsHeadLate ==
    /\ pc = "walk"
    /\ request.walked = request.count
    /\ HeadUsable
    /\ LET head == descs[freeListHead].startAddress
       IN  /\ Writable(head, request.count)
           /\ descs' = Clear(descs, Cleared(head, request.count))
           /\ granted' = Append(granted, Grant(head, request.count))
    /\ request' = NoRequest
    /\ pc' = "ready"
    /\ UNCHANGED <<layout, region, s, freeListHead, headVirt,
                   firstFreeLocation, ptr, pteOff, va, kpt>>

(* ... and clears count pages from the first address on. *)
GetFreePagesReturn ==
    /\ pc = "walk"
    /\ request.walked = request.count
    /\ Writable(request.head, request.count)
    /\ descs' = Clear(descs, Cleared(request.head, request.count))
    /\ granted' = Append(granted, Grant(request.head, request.count))
    /\ request' = NoRequest
    /\ pc' = "ready"
    /\ UNCHANGED <<layout, region, s, freeListHead, headVirt,
                   firstFreeLocation, ptr, pteOff, va, kpt>>

(* The walk runs past the descriptors with virtual addresses, or memset past *)
(* the frames the kernel maps.  (The head a request starts with can always   *)
(* be read: it is at most the descriptor after the last remapped one.)       *)
GetFreePagesFaults ==
    /\ pc = "walk"
    /\ IF request.walked < request.count
       THEN ~HeadUsable
       ELSE ~Writable(request.head, request.count)
    /\ Hang(request.count)

HangForever == pc = "hang" /\ UNCHANGED vars

Next ==
    \/ PopulatePageDescriptor
    \/ NextCall
    \/ ExcludeUnavailableMemory
    \/ PagingSetup
    \/ MapKernel
    \/ MapVideoCard
    \/ NewPageTable
    \/ MapFrame
    \/ RemapNextPointers
    \/ GetFreePageCall
    \/ GetFreePageFaults
    \/ \E size \in KmallocSizes : Kmalloc(size)
    \/ GetFreePagesWalk
    \/ GetFreePagesReturn
    \/ GetFreePagesFaults
    \/ HangForever

Spec == Init /\ [][Next]_vars

-----------------------------------------------------------------------------
(* Properties                                                                *)

Descriptor == [startAddress : Nat, isAvailable : BOOLEAN, isfree : BOOLEAN,
               nextFree : Nat, virt : BOOLEAN]

Answer == [head : Nat, pages : Nat, cleared : SUBSET Int]

TypeOK ==
    /\ layout \in {Layout(b) : b \in BootInfos}
    /\ pc \in {"available", "hole", "last", "exclude", "pagingSetup",
               "mapKernel", "mapVideoCard", "mapEntireMemory", "ready",
               "walk", "hang"}
    /\ region \in 1 .. LastRegion
    /\ s \in Nat
    /\ descs \in Seq(Descriptor)
    /\ freeListHead \in Nat /\ headVirt \in BOOLEAN
    /\ firstFreeLocation \in Nat
    /\ ptr \in Nat /\ va \in Nat /\ pteOff \in 0 .. PtEntries
    /\ DOMAIN kpt \subseteq Int
    /\ \A o \in DOMAIN kpt : kpt[o] \in Nat
    /\ request \in [head : Nat, count : Nat, walked : Nat]
    /\ granted \in Seq(Answer)

EndOf(g) == g.head + g.pages * PageSize

(* No frame is ever in two answers of getFreePage and getFreePages, the page *)
(* tables taken during boot included.                                        *)
NoDoubleGrant ==
    \A i, j \in DOMAIN granted :
        i < j => \/ EndOf(granted[i]) <= granted[j].head
                 \/ EndOf(granted[j]) <= granted[i].head

(* Every answer lies wholly in one available region of the memory map, and   *)
(* none reaches into the kernel image or the video memory.                   *)
GrantsAreMemory ==
    \A i \in DOMAIN granted :
        LET g == granted[i]
        IN  /\ \E r \in 1 .. LastRegion :
                  /\ layout.start[r] <= g.head
                  /\ EndOf(g) <= layout.end[r]
            /\ g.head >= layout.physfree \/ EndOf(g) <= PhysBase
            /\ g.head > VideoMemory \/ EndOf(g) <= VideoMemory

(* memset clears exactly the frames of the answer: the linear mapping of     *)
(* getVirtualAddressFromPhysical reaches each of them, and the count         *)
(* descriptors getFreePages unlinked are those of adjacent frames.           *)
ClearsWhatItGrants ==
    \A i \in DOMAIN granted :
        LET g == granted[i]
        IN  g.cleared = {g.head + k * PageSize : k \in 0 .. g.pages - 1}

(* Clearing pages never reaches a descriptor the free list still has to      *)
(* deliver: from the head to the last mapped descriptor all are intact, and  *)
(* each links to the one of the adjacent frame.                              *)
FreeListIntact ==
    pc = "ready" =>
        \A i \in freeListHead .. LastMapped :
            /\ descs[i].isfree /\ descs[i].isAvailable /\ descs[i].virt
            /\ descs[i].nextFree = i + 1
            /\ i < LastMapped =>
                  descs[i + 1].startAddress = descs[i].startAddress + PageSize

(* Frames with a remapped descriptor that are in no answer yet. *)
FreeFrames ==
    IF firstFreeLocation = 0 THEN {}
    ELSE {f \in {descs[i].startAddress :
                    i \in {j \in firstFreeLocation .. Len(descs) :
                              Slot(j) <= Limit}} :
             \A i \in DOMAIN granted :
                f < granted[i].head \/ f >= EndOf(granted[i])}

(* The kernel hangs in a request only when fewer mapped frames are left than *)
(* the request asks for.                                                     *)
HangsOnlyWhenExhausted ==
    pc = "hang" => Cardinality(FreeFrames) < request.count

(* getFreePage asks for one page, kmalloc for as many as its size needs. *)
RequestLengths == {1} \cup {NoPages(z) : z \in KmallocSizes}

Pool == INSTANCE FramePool WITH
    Lengths <- RequestLengths,
    free <- FreeFrames,
    granted <- [i \in DOMAIN granted |->
                  [head |-> granted[i].head, pages |-> granted[i].pages]]

(* The allocator implements the frame pool: boot fills it once, and every    *)
(* answer is a run of adjacent frames that were still in it.                 *)
ImplementsFramePool == Pool!Spec

(* "get new physfree by adding current physfree and page_desc_size" (the     *)
(* comment at line 209): what is handed out starts behind the descriptor     *)
(* table.  The code computes newPhysfree from physbase and puts the table    *)
(* at physfree, so the end of the table lies in frames it hands out.         *)
DescriptorTableReserved ==
    \A i \in DOMAIN granted :
        \/ granted[i].head > Slot(Len(descs))
        \/ EndOf(granted[i]) <= layout.physfree

=============================================================================

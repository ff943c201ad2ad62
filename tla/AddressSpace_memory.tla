------------------------- MODULE AddressSpace_memory -------------------------
(***************************************************************************)
(* Proofs about the memory the running program sees (AddressSpace), for    *)
(* every shape of the page tables, every program and every order of its    *)
(* accesses, faults, copies, evictions and forks: it is the flat memory of *)
(* module VirtualMemory, and until the loader is done it holds the whole   *)
(* words copied so far.  Children do not run, and nothing is said of the   *)
(* memory they see.                                                        *)
(*                                                                         *)
(* What the program sees goes through the TLB, which the kernel does not   *)
(* flush.  The invariant says where the TLB and the tables may differ: for *)
(* a page that the copying branch has moved, whose old frame is in no      *)
(* table, and whose new frame keeps what it was given.                     *)
(***************************************************************************)
EXTENDS AddressSpace_proofs

-----------------------------------------------------------------------------
(* The invariant *)

(* Frames that were not granted yet are blank. *)
BlankOK == \A f \in free .. Frames : data[f] = Blank

(* A translation in the TLB is the one in the tables, or the page was moved: *)
(* then nobody else uses the old frame, and the new one keeps what the page  *)
(* held.  No two pages have the same frame in the TLB.                       *)
MovedOK(p) ==
    /\ Spare(tlb[p], tables)
    /\ data[tables[Leaf(p)].frame] = snapshot[p]

CachedOK(p) ==
    /\ p \in Nat /\ Leaf(p) \in DOMAIN tables /\ tlb[p] < free
    /\ IF p \in DOMAIN snapshot THEN MovedOK(p)
                                ELSE tlb[p] = tables[Leaf(p)].frame

CacheOK ==
    /\ \A p \in DOMAIN tlb : CachedOK(p)
    /\ \A p, q \in DOMAIN tlb : tlb[p] = tlb[q] => p = q
    /\ faults # <<>> => \A p \in DOMAIN tlb : tlb[p] # faults[1].copy

(* A fault is about the page of the access under way, which has no           *)
(* translation in the TLB, and none in the tables until it is mapped.        *)
FaultingOK ==
    faults # <<>> =>
       /\ faults[1].addr = access.addr
       /\ Page(access.addr) \notin DOMAIN tlb
       /\ ~ Copying => Leaf(Page(access.addr)) \notin DOMAIN tables

(* The access lies in one page. *)
AccessOK ==
    access # Idle => /\ Len(access.cells) \in Nat
                     /\ (access.addr % PageSize) + Len(access.cells) <= PageSize

MemoryOK == BlankOK /\ CacheOK /\ FaultingOK /\ AccessOK

(* With the trees. *)
MInv == IInv /\ MemoryOK

-----------------------------------------------------------------------------
(* Frames of pages *)

(* The frame that the TLB has for a page is in the tables for no other.      *)
LEMMA OthersFrames ==
    ASSUME IInv, CacheOK, NEW p \in DOMAIN tlb, NEW n \in DOMAIN tables,
           n # Leaf(p)
    PROVE  tables[n].frame # tlb[p]
<1>1. CachedOK(p)
  BY DEF CacheOK
<1>2. Own(tables)
  BY DEF IInv, TreesOK
<1>3. CASE p \in DOMAIN snapshot
  BY <1>1, <1>3 DEF CachedOK, MovedOK, Spare
<1>4. CASE p \notin DOMAIN snapshot
  BY <1>1, <1>2, <1>4 DEF CachedOK, Own
<1>5. QED
  BY <1>3, <1>4

(* The processor finds frames that were granted.                             *)
LEMMA TranslationGranted ==
    ASSUME IInv, CacheOK, NEW p, Present(p)
    PROVE  Translation(p) \in 1 .. Frames /\ Translation(p) < free
<1>1. Translation(p) \in 1 .. Frames
  BY TranslationType DEF IInv
<1>2. CASE p \in DOMAIN tlb
  BY <1>1, <1>2 DEF CacheOK, CachedOK, Translation
<1>3. CASE p \notin DOMAIN tlb
  <2>1. Leaf(p) \in DOMAIN tables /\ Below(tables, free)
    BY <1>3 DEF Present, IInv, TreesOK
  <2>2. QED
    BY <1>1, <1>3, <2>1 DEF Below, Translation
<1>4. QED
  BY <1>1, <1>2, <1>3

(* It finds different frames for different pages. *)
LEMMA TranslationsDiffer ==
    ASSUME IInv, CacheOK, NEW p \in Nat, NEW q \in Nat, p # q,
           Present(p), Present(q)
    PROVE  Translation(p) # Translation(q)
<1>1. Leaf(p) # Leaf(q)
  BY TableEnds
<1>2. CASE p \in DOMAIN tlb /\ q \in DOMAIN tlb
  BY <1>2 DEF CacheOK, Translation
<1>3. CASE p \in DOMAIN tlb /\ q \notin DOMAIN tlb
  BY <1>1, <1>3, OthersFrames DEF Present, Translation
<1>4. CASE p \notin DOMAIN tlb /\ q \in DOMAIN tlb
  BY <1>1, <1>4, OthersFrames DEF Present, Translation
<1>5. CASE p \notin DOMAIN tlb /\ q \notin DOMAIN tlb
  BY <1>1, <1>5 DEF Present, Translation, IInv, TreesOK, Own
<1>6. QED
  BY <1>2, <1>3, <1>4, <1>5

(* A page that is being copied is about the access under way.                *)
LEMMA FaultingPage ==
    ASSUME IInv, FaultingOK, faults # <<>>
    PROVE  /\ Outer.addr = access.addr /\ access # Idle /\ access.addr \in Nat
           /\ Page(Outer.addr) = Page(access.addr)
           /\ Page(access.addr) \in Nat /\ Page(access.addr) \notin DOMAIN tlb
<1>1. access # Idle
  BY EmptySequence DEF IInv, FaultsOK
<1>2. access.addr \in Nat
  BY <1>1 DEF IInv, StateOK
<1>3. Page(access.addr) \in Nat
  BY <1>2, ShapeOK DEF Page
<1>4. QED
  BY <1>1, <1>2, <1>3 DEF FaultingOK, Outer

-----------------------------------------------------------------------------
(* The invariant of memory *)

(* Memory starts blank, with nothing in the TLB. *)
LEMMA InitMemory == Init => MemoryOK
<1> SUFFICES ASSUME Init PROVE MemoryOK
  OBVIOUS
<1>1. /\ data = [f \in 1 .. Frames |-> Blank] /\ free = 2 /\ tlb = <<>>
      /\ faults = <<>> /\ access = Idle
  BY DEF Init
<1>2. BlankOK
  BY <1>1, ShapeOK DEF BlankOK
<1>3. DOMAIN tlb = {}
  BY <1>1
<1>4. CacheOK
  BY <1>1, <1>3 DEF CacheOK
<1>5. QED
  BY <1>1, <1>2, <1>4 DEF MemoryOK, FaultingOK, AccessOK

(* Nothing happens to the memory. *)
LEMMA MemoryStays ==
    ASSUME MemoryOK,
           UNCHANGED <<tables, data, free, tlb, access, faults, snapshot>>
    PROVE  MemoryOK'
BY DEF MemoryOK, BlankOK, CacheOK, CachedOK, MovedOK, FaultingOK, Copying,
       AccessOK

(* Frames are granted while nothing is faulting. *)
LEMMA MemoryLater ==
    ASSUME MInv, faults = <<>>, free' \in Nat, free <= free',
           UNCHANGED <<tables, data, tlb, access, faults, snapshot>>
    PROVE  MemoryOK'
<1>1. free \in 1 .. Frames + 1 /\ Frames \in Nat
  BY ShapeOK DEF MInv, IInv, StateOK
<1>2. BlankOK'
  <2>1. \A f \in free' .. Frames : f \in free .. Frames
    BY <1>1
  <2>2. QED
    BY <2>1 DEF MInv, MemoryOK, BlankOK
<1>3. CacheOK'
  <2>1. ASSUME NEW p \in DOMAIN tlb PROVE CachedOK(p)'
    <3>1. CachedOK(p) /\ tlb[p] \in 1 .. Frames
      BY DEF MInv, MemoryOK, CacheOK, IInv, StateOK
    <3>2. tlb[p] < free'
      BY <1>1, <3>1 DEF CachedOK
    <3>3. QED
      BY <3>1, <3>2 DEF CachedOK, MovedOK
  <2>2. QED
    BY <2>1 DEF MInv, MemoryOK, CacheOK
<1>4. QED
  BY <1>2, <1>3 DEF MInv, MemoryOK, FaultingOK, AccessOK

(* An access begins. *)
LEMMA MemoryUsed ==
    ASSUME MemoryOK, faults = <<>>, AccessOK',
           UNCHANGED <<tables, data, free, tlb, faults, snapshot>>
    PROVE  MemoryOK'
BY DEF MemoryOK, BlankOK, CacheOK, CachedOK, MovedOK, FaultingOK

(* Between accesses nothing faults. *)
LEMMA IdleFaults ==
    ASSUME IInv, access = Idle
    PROVE  faults = <<>>
BY EmptySequence DEF IInv, FaultsOK

(* A word begins at a multiple of its length and does not reach beyond its   *)
(* page.                                                                     *)
LEMMA WordInPage ==
    ASSUME NEW a \in Nat, a % Word = 0
    PROVE  (a % PageSize) % Word = 0 /\ (a % PageSize) + Word <= PageSize
<1>1. PageSize \in Nat \ {0} /\ Word \in Nat \ {0} /\ PageSize % Word = 0
  BY ShapeOK, AccessesFit
<1>2. PICK d \in Nat : PageSize = d * Word
  <2>1. PageSize = (PageSize \div Word) * Word /\ PageSize \div Word \in Nat
    BY <1>1
  <2>2. QED
    BY <2>1
<1>3. PICK c \in Nat : a = c * Word
  <2>1. a = (a \div Word) * Word /\ a \div Word \in Nat
    BY <1>1
  <2>2. QED
    BY <2>1
<1>4. d # 0
  BY <1>1, <1>2
<1>5. /\ c = (c \div d) * d + (c % d) /\ c % d \in 0 .. d - 1
      /\ c \div d \in Nat
  BY <1>4
<1> DEFINE q == c \div d
           r == c % d
<1> HIDE DEF q, r
<1>6. q \in Nat /\ r \in 0 .. d - 1 /\ c = q * d + r
  BY <1>5 DEF q, r
<1>7. a = q * PageSize + r * Word
  BY <1>1, <1>2, <1>3, <1>6
<1>8. r * Word \in Nat /\ r * Word + Word <= PageSize
  <2>1. (r + 1) * Word <= d * Word
    BY <1>1, <1>6
  <2>2. QED
    BY <1>1, <1>2, <1>6, <2>1
<1>9. a % PageSize = r * Word
  <2>1. \A x \in Nat : x < PageSize => (q * PageSize + x) % PageSize = x
    BY <1>1, <1>6
  <2>2. r * Word \in Nat /\ r * Word < PageSize
    BY <1>1, <1>8
  <2>3. QED
    BY <1>7, <2>1, <2>2
<1>10. (r * Word) % Word = 0
  BY <1>1, <1>6
<1>11. QED
  BY <1>8, <1>9, <1>10

(* The word that copyBytes is at, and where it goes. *)
WordCells == SubSeq(Segments[seg].bytes, word * Word + 1, word * Word + Word)
WordAddr == Segments[seg].addr + word * Word

(* It is a word of the program header, at a multiple of its length. *)
LEMMA WordOfSegment ==
    ASSUME LoaderOK, word < Words(seg)
    PROVE  /\ seg \in 1 .. Len(Segments) /\ word \in Nat
           /\ Segments[seg].addr \in Nat /\ Segments[seg].size \in Nat
           /\ word * Word + Word <= Segments[seg].size
           /\ WordAddr \in Nat /\ WordAddr % Word = 0
           /\ Len(WordCells) = Word
           /\ \A i \in 1 .. Word : WordCells[i] = Segments[seg].bytes[word * Word + i]
<1>1. seg \in 1 .. Len(Segments) /\ word \in Nat
  <2>1. seg \in 0 .. Len(Segments) /\ word \in 0 .. Words(seg)
    BY DEF LoaderOK
  <2>2. seg # 0
    BY <2>1 DEF Words
  <2>3. Words(seg) \in Nat
    BY <2>1, WordsType
  <2>4. QED
    BY <2>1, <2>2, <2>3
<1>2. /\ Segments[seg].addr \in Nat /\ Segments[seg].size \in Nat
      /\ Segments[seg].addr % Word = 0
  BY <1>1, VmasFit, AccessesFit DEF InSpace
<1>3. PICK b : b = Segments[seg].bytes
  OBVIOUS
<1>4. b = [i \in 1 .. Segments[seg].size |-> b[i]]
  BY <1>1, <1>3, AccessesFit
<1>5. Word \in Nat \ {0}
  BY ShapeOK
<1> DEFINE n == Segments[seg].size
           w == word * Word
<1>6. w \in Nat /\ w + Word <= n
  <2>1. word + 1 <= n \div Word
    BY <1>1, <1>2, <1>5 DEF Words
  <2>2. (n \div Word) * Word <= n
    BY <1>2, <1>5
  <2>3. (word + 1) * Word <= (n \div Word) * Word
    BY <1>1, <1>2, <1>5, <2>1
  <2>4. (word + 1) * Word = w + Word
    BY <1>1, <1>5
  <2>5. QED
    BY <1>1, <1>2, <1>5, <2>2, <2>3, <2>4
<1>7. (Segments[seg].addr + w) % Word = 0 /\ Segments[seg].addr + w \in Nat
  <2>1. ASSUME NEW a \in Nat, NEW k \in Nat, a % Word = 0
        PROVE  (a + k * Word) % Word = 0
    <3>1. PICK c \in Nat : a = c * Word
      <4>1. a = (a \div Word) * Word /\ a \div Word \in Nat
        BY <1>5, <2>1
      <4>2. QED
        BY <4>1
    <3>2. a + k * Word = (c + k) * Word /\ c + k \in Nat
      BY <1>5, <3>1
    <3>3. \A m \in Nat : (m * Word) % Word = 0
      BY <1>5
    <3>4. QED
      BY <3>2, <3>3
  <2>2. QED
    BY <1>1, <1>2, <1>6, <2>1
<1> HIDE DEF n, w
<1>8. /\ Len(SubSeq(b, w + 1, w + Word)) = Word
      /\ \A i \in 1 .. Word : SubSeq(b, w + 1, w + Word)[i] = b[w + i]
  <2> DEFINE S == {b[i] : i \in 1 .. n}
  <2>1. n \in Nat
    BY <1>2 DEF n
  <2>2. b \in Seq(S)
    BY <1>4, <2>1 DEF n
  <2>3. \A i \in w + 1 .. w + Word : b[i] \in S
    BY <1>5, <1>6, <2>1
  <2> HIDE DEF S
  <2>4. w + 1 \in Int /\ w + Word \in Int /\ w + 1 <= w + Word
    BY <1>5, <1>6
  <2>5. /\ Len(SubSeq(b, w + 1, w + Word)) = (w + Word) - (w + 1) + 1
        /\ \A i \in 1 .. (w + Word) - (w + 1) + 1 :
              SubSeq(b, w + 1, w + Word)[i] = b[w + 1 + i - 1]
    BY <2>2, <2>3, <2>4, SubSeqProperties
  <2>6. (w + Word) - (w + 1) + 1 = Word /\ \A i \in Nat : w + 1 + i - 1 = w + i
    BY <1>5, <1>6
  <2>7. ASSUME NEW i \in 1 .. Word PROVE SubSeq(b, w + 1, w + Word)[i] = b[w + i]
    <3>1. i \in Nat /\ w + 1 + i - 1 = w + i
      BY <1>5, <1>6
    <3>2. SubSeq(b, w + 1, w + Word)[i] = b[w + 1 + i - 1]
      BY <2>5, <2>6
    <3>3. QED
      BY <3>1, <3>2
  <2>8. QED
    BY <2>5, <2>6, <2>7
<1>9. QED
  BY <1>1, <1>2, <1>3, <1>6, <1>7, <1>8 DEF n, w, WordCells, WordAddr

(* The loader's word goes to one page. *)
LEMMA CopyWordMemory ==
    ASSUME MInv, CopyWord
    PROVE  MemoryOK'
<1>1. /\ access = Idle /\ word < Words(seg)
      /\ access' = [addr |-> WordAddr, cells |-> WordCells]
      /\ UNCHANGED <<tables, data, free, tlb, faults, snapshot>>
  BY DEF CopyWord, Running, kernel, WordAddr, WordCells
<1>2. WordAddr \in Nat /\ WordAddr % Word = 0 /\ Len(WordCells) = Word
  BY <1>1, WordOfSegment DEF MInv, IInv
<1>3. AccessOK'
  BY <1>1, <1>2, WordInPage, ShapeOK DEF AccessOK
<1>4. QED
  BY <1>1, <1>3, IdleFaults, MemoryUsed DEF MInv

(* The program's access goes to one page. *)
LEMMA IssueMemory ==
    ASSUME MInv, NEW a \in Accesses, Issue(a)
    PROVE  MemoryOK'
<1>1. /\ access = Idle /\ access' = a
      /\ UNCHANGED <<tables, data, free, tlb, faults, snapshot>>
  BY DEF Issue, Running, kernel
<1>2. AccessOK'
  BY <1>1, AccessesFit DEF AccessOK
<1>3. QED
  BY <1>1, <1>2, IdleFaults, MemoryUsed DEF MInv

(* A store changes no frame that is not granted and no frame of a moved page *)
(* in the tables.                                                            *)
LEMMA PerformMemory ==
    ASSUME MInv, Perform
    PROVE  MemoryOK'
<1>a. PICK p : p = Page(access.addr)
  OBVIOUS
<1>b. PICK f : f = Translation(p)
  OBVIOUS
<1>1. /\ access # Idle /\ faults = <<>> /\ Present(p)
      /\ tlb' = With(tlb, p, f) /\ access' = Idle
      /\ \A g \in DOMAIN data : g # f => data'[g] = data[g]
      /\ UNCHANGED <<tables, free, faults, snapshot>>
  BY <1>a, <1>b DEF Perform, kernel
<1>2. IInv /\ BlankOK /\ CacheOK
  BY DEF MInv, MemoryOK
<1>3. p \in Nat
  <2>1. access.addr \in Nat
    BY <1>1, <1>2 DEF IInv, StateOK
  <2>2. QED
    BY <2>1, <1>a, ShapeOK DEF Page
<1>4. f \in 1 .. Frames /\ f < free
  BY <1>1, <1>2, <1>b, TranslationGranted
<1>5. /\ free \in 1 .. Frames + 1 /\ Frames \in Nat /\ DOMAIN data = 1 .. Frames
      /\ DOMAIN snapshot \subseteq DOMAIN tlb
      /\ \A n \in DOMAIN tables : tables[n].frame \in 1 .. Frames
  BY <1>2, ShapeOK DEF IInv, StateOK, TreesOK, Tree, IsTables, Entry
<1>6. /\ DOMAIN tlb' = DOMAIN tlb \cup {p} /\ tlb'[p] = f
      /\ \A q \in DOMAIN tlb : q # p => tlb'[q] = tlb[q]
      /\ p \in DOMAIN tlb => f = tlb[p]
      /\ p \notin DOMAIN tlb => Leaf(p) \in DOMAIN tables /\ f = tables[Leaf(p)].frame
  BY <1>1, <1>b DEF With, Present, Translation
<1>7. BlankOK'
  <2>1. ASSUME NEW g \in free .. Frames PROVE data'[g] = Blank
    <3>1. g \in 1 .. Frames /\ g # f
      BY <1>4, <1>5
    <3>2. QED
      BY <1>1, <1>2, <1>5, <3>1 DEF BlankOK
  <2>2. QED
    BY <1>1, <2>1 DEF BlankOK
<1>8. ASSUME NEW q \in DOMAIN tlb PROVE CachedOK(q)'
  <2>1. CachedOK(q) /\ tlb'[q] = tlb[q]
    BY <1>2, <1>6 DEF CacheOK
  <2>2. CASE q \in DOMAIN snapshot
    <3>1. MovedOK(q) /\ Leaf(q) \in DOMAIN tables
      BY <2>1, <2>2 DEF CachedOK
    <3>2. tables[Leaf(q)].frame # f
      <4>1. CASE p \in DOMAIN tlb
        <5>1. CASE p = q
          BY <1>6, <3>1, <5>1 DEF MovedOK, Spare
        <5>2. CASE p # q
          <6>1. Leaf(p) # Leaf(q)
            BY <1>3, <2>1, <5>2, TableEnds DEF CachedOK
          <6>2. QED
            BY <1>2, <1>6, <3>1, <4>1, <6>1, OthersFrames
        <5>3. QED
          BY <5>1, <5>2
      <4>2. CASE p \notin DOMAIN tlb
        <5>1. Leaf(p) # Leaf(q)
          BY <1>3, <2>1, <4>2, TableEnds DEF CachedOK
        <5>2. QED
          BY <1>2, <1>6, <3>1, <4>2, <5>1 DEF IInv, TreesOK, Own
      <4>3. QED
        BY <4>1, <4>2
    <3>3. tables[Leaf(q)].frame \in DOMAIN data
      BY <1>5, <3>1
    <3>4. MovedOK(q)'
      BY <1>1, <2>1, <3>1, <3>2, <3>3 DEF MovedOK
    <3>5. QED
      BY <1>1, <2>1, <2>2, <3>4 DEF CachedOK
  <2>3. CASE q \notin DOMAIN snapshot
    BY <1>1, <2>1, <2>3 DEF CachedOK
  <2>4. QED
    BY <2>2, <2>3
<1>9. ASSUME p \notin DOMAIN tlb PROVE CachedOK(p)'
  <2>1. p \notin DOMAIN snapshot
    BY <1>5, <1>9
  <2>2. QED
    BY <1>1, <1>3, <1>4, <1>6, <1>9, <2>1 DEF CachedOK
<1>10. \A q \in DOMAIN tlb' : CachedOK(q)'
  BY <1>6, <1>8, <1>9
<1>11. ASSUME NEW q \in DOMAIN tlb, NEW r \in DOMAIN tlb' \ {q}
       PROVE  tlb'[q] # tlb'[r]
  <2>1. CASE r \in DOMAIN tlb
    BY <1>2, <1>6, <1>11, <2>1 DEF CacheOK
  <2>2. CASE r \notin DOMAIN tlb
    <3>1. r = p /\ Leaf(p) # Leaf(q)
      <4>1. r = p
        BY <1>6, <2>2
      <4>2. q \in Nat
        BY <1>2 DEF CacheOK, CachedOK
      <4>3. QED
        BY <1>3, <1>11, <4>1, <4>2, TableEnds
    <3>2. QED
      BY <1>2, <1>6, <2>2, <3>1, OthersFrames
  <2>3. QED
    BY <2>1, <2>2
<1>12. \A q, r \in DOMAIN tlb' : tlb'[q] = tlb'[r] => q = r
  BY <1>6, <1>11
<1>13. CacheOK'
  BY <1>1, <1>10, <1>12 DEF CacheOK
<1>14. QED
  BY <1>1, <1>7, <1>13 DEF MemoryOK, FaultingOK, AccessOK

(* A dropped translation leaves the others as they are. *)
LEMMA EvictMemory ==
    ASSUME MInv, NEW p \in DOMAIN tlb, Evict(p)
    PROVE  MemoryOK'
<1>1. /\ tlb' = [q \in DOMAIN tlb \ {p} |-> tlb[q]]
      /\ snapshot' = [q \in DOMAIN snapshot \ {p} |-> snapshot[q]]
      /\ UNCHANGED <<tables, data, free, access, faults>>
  BY DEF Evict, kernel
<1>2. ASSUME NEW q \in DOMAIN tlb' PROVE CachedOK(q)'
  <2>1. q \in DOMAIN tlb /\ q # p /\ tlb'[q] = tlb[q] /\ CachedOK(q)
    BY <1>1 DEF MInv, MemoryOK, CacheOK
  <2>2. CASE q \in DOMAIN snapshot
    <3>1. q \in DOMAIN snapshot' /\ snapshot'[q] = snapshot[q]
      BY <1>1, <2>1, <2>2
    <3>2. QED
      BY <1>1, <2>1, <2>2, <3>1 DEF CachedOK, MovedOK
  <2>3. CASE q \notin DOMAIN snapshot
    BY <1>1, <2>1, <2>3 DEF CachedOK
  <2>4. QED
    BY <2>2, <2>3
<1>3. /\ DOMAIN tlb' \subseteq DOMAIN tlb
      /\ \A q \in DOMAIN tlb' : tlb'[q] = tlb[q]
  BY <1>1
<1>4. CacheOK'
  BY <1>1, <1>2, <1>3 DEF MInv, MemoryOK, CacheOK
<1>5. QED
  BY <1>1, <1>3, <1>4
  DEF MInv, MemoryOK, BlankOK, FaultingOK, Copying, AccessOK

(* Exception 14: the page of the access has no translation. *)
LEMMA FaultMemory ==
    ASSUME MInv, Fault
    PROVE  MemoryOK'
<1>1. /\ access # Idle /\ (faults = <<>> \/ Copying)
      /\ ~ Present(Page(Current))
      /\ faults' = Append(faults, [addr |-> Current, copy |-> 0])
      /\ UNCHANGED <<tables, data, free, tlb, access, snapshot>>
  BY DEF Fault, kernel
<1> DEFINE new == [addr |-> Current, copy |-> 0]
<1>2. IsSequence(faults) /\ IInv /\ CacheOK /\ FaultingOK
  BY DEF MInv, MemoryOK, IInv, FaultsOK
<1>3. new.addr = Current /\ new.copy = 0
  OBVIOUS
<1> HIDE DEF new
<1>4. /\ IsSequence(faults') /\ Len(faults') = Len(faults) + 1
      /\ \A i \in 1 .. Len(faults) : faults'[i] = faults[i]
      /\ faults'[Len(faults) + 1] = new
  BY <1>1, <1>2, AppendSequence DEF new
<1>5. /\ faults'[1].addr = access.addr
      /\ Page(Current) = Page(access.addr)
      /\ faults # <<>> => faults'[1] = faults[1]
      /\ faults = <<>> => faults'[1].copy = 0
      /\ faults'[Len(faults')].copy = 0
  <2>1. CASE faults = <<>>
    <3>1. Len(faults) = 0 /\ Current = access.addr
      BY <2>1, EmptySequence DEF Current, Copying
    <3>2. QED
      BY <1>3, <1>4, <2>1, <3>1
  <2>2. CASE Copying
    <3>1. Len(faults) = 1 /\ Top = Outer /\ Outer.addr \in Nat /\ faults # <<>>
      BY <1>2, <2>2, TopCopies DEF IInv, Copying
    <3>2. Current = NestedFault(Outer).addr
      BY <2>2, <3>1 DEF Current, NestedFault, Outer
    <3>3. Page(Current) = Page(Outer.addr)
      BY <3>1, <3>2, NestedPage
    <3>4. Outer.addr = access.addr
      BY <1>2, <3>1, FaultingPage
    <3>5. QED
      BY <1>3, <1>4, <3>1, <3>3, <3>4 DEF Outer
  <2>3. QED
    BY <1>1, <2>1, <2>2
<1>6. /\ Page(access.addr) \notin DOMAIN tlb
      /\ Leaf(Page(access.addr)) \notin DOMAIN tables
  BY <1>1, <1>5 DEF Present
<1>7. FaultingOK'
  BY <1>1, <1>5, <1>6 DEF FaultingOK
<1>8. \A p \in DOMAIN tlb : tlb[p] # faults'[1].copy
  <2>1. CASE faults = <<>>
    BY <1>2, <1>5, <2>1 DEF IInv, StateOK
  <2>2. CASE faults # <<>>
    BY <1>2, <1>5, <2>2 DEF CacheOK
  <2>3. QED
    BY <2>1, <2>2
<1>9. CacheOK'
  BY <1>1, <1>2, <1>8 DEF CacheOK, CachedOK, MovedOK
<1>10. QED
  BY <1>1, <1>7, <1>9 DEF MInv, MemoryOK, BlankOK, AccessOK

(* The copy gets a frame that no page has. *)
LEMMA BeginCopyMemory ==
    ASSUME MInv, BeginCopy
    PROVE  MemoryOK'
<1>1. /\ faults # <<>> /\ ~ Copying /\ cowBitSet(Top.addr)
      /\ free' = free + 1
      /\ faults' = [faults EXCEPT ![Len(faults)].copy = free]
      /\ UNCHANGED <<tables, data, tlb, access, snapshot>>
  BY DEF BeginCopy, Handling
<1>2. IInv /\ BlankOK /\ CacheOK /\ FaultingOK
  BY DEF MInv, MemoryOK
<1>3. Len(faults) = 1 /\ FaultOK(faults[1])
  BY <1>1, <1>2, TopHandles DEF IInv, Outer
<1>4. /\ free \in 1 .. Frames + 1 /\ Frames \in Nat
      /\ \A p \in DOMAIN tlb : tlb[p] \in 1 .. Frames
  BY <1>2, ShapeOK DEF IInv, StateOK
<1>5. DOMAIN faults = 1 .. 1 /\ Len(faults') = 1
  <2>1. faults = [i \in 1 .. 1 |-> faults[i]]
    BY <1>2, <1>3 DEF IInv, FaultsOK, IsSequence
  <2>2. faults \in Seq({faults[1]})
    BY <2>1
  <2>3. faults' = [faults EXCEPT ![1] = [faults[1] EXCEPT !.copy = free]]
    BY <1>1, <1>3
  <2>4. PICK g : g = [faults[1] EXCEPT !.copy = free]
    OBVIOUS
  <2>5. faults' = [i \in 1 .. 1 |-> g]
    <3>1. DOMAIN faults = 1 .. 1
      BY <2>1
    <3>2. faults' = [faults EXCEPT ![1] = g]
      BY <2>3, <2>4
    <3>3. faults' = [i \in 1 .. 1 |-> IF i = 1 THEN g ELSE faults[i]]
      BY <3>1, <3>2
    <3>4. QED
      BY <3>3
  <2>6. faults' \in Seq({g}) /\ Len(faults') = 1
    BY <2>5
  <2>7. QED
    BY <2>1, <2>6
<1>6. faults'[1].addr = faults[1].addr /\ faults'[1].copy = free
  <2>1. faults[1] \in [addr : Nat, copy : 0 .. Frames]
    BY <1>3 DEF FaultOK
  <2>2. faults'[1] = [faults[1] EXCEPT !.copy = free]
    BY <1>1, <1>3, <1>5
  <2>3. QED
    BY <2>1, <2>2
<1>7. FaultingOK'
  <2>1. faults'[Len(faults')].copy # 0
    BY <1>4, <1>5, <1>6
  <2>2. Copying'
    <3>1. faults' # <<>>
      BY <1>5, EmptySequence
    <3>2. QED
      BY <2>1, <3>1 DEF Copying
  <2>3. QED
    BY <1>1, <1>2, <1>6, <2>2 DEF FaultingOK
<1>8. ASSUME NEW p \in DOMAIN tlb PROVE CachedOK(p)' /\ tlb[p] # free
  <2>1. CachedOK(p)
    BY <1>2 DEF CacheOK
  <2>2. tlb[p] < free /\ tlb[p] < free'
    BY <1>1, <1>4, <2>1 DEF CachedOK
  <2>3. QED
    BY <1>1, <1>4, <2>1, <2>2 DEF CachedOK, MovedOK
<1>9. CacheOK'
  BY <1>1, <1>2, <1>6, <1>8 DEF CacheOK
<1>10. BlankOK'
  <2>1. \A f \in free' .. Frames : f \in free .. Frames
    BY <1>1, <1>4
  <2>2. QED
    BY <1>1, <1>2, <2>1 DEF BlankOK
<1>11. QED
  BY <1>1, <1>7, <1>9, <1>10 DEF MInv, MemoryOK, AccessOK

(* A page with a translation in the TLB is as before when another page is    *)
(* mapped to a frame it does not have there.                                 *)
LEMMA CachedStays ==
    ASSUME IInv, NEW q \in DOMAIN tlb, CachedOK(q), NEW p \in Nat, p # q,
           NEW frame \in Nat, NEW top \in 1 .. Levels,
           Extends(tables, tables', p, free, frame, top),
           frame # tlb[q], tlb'[q] = tlb[q], free' \in Nat, free <= free',
           q \in DOMAIN snapshot' <=> q \in DOMAIN snapshot,
           q \in DOMAIN snapshot => snapshot'[q] = snapshot[q],
           data'[tables[Leaf(q)].frame] = data[tables[Leaf(q)].frame]
    PROVE  CachedOK(q)'
<1>1. q \in Nat /\ Leaf(q) \in DOMAIN tables /\ tlb[q] < free
  BY DEF CachedOK
<1>2. Leaf(q) # Leaf(p)
  BY <1>1, TableEnds
<1>3. /\ Leaf(q) \in DOMAIN tables'
      /\ tables'[Leaf(q)] = tables[Leaf(q)]
  BY <1>1, <1>2 DEF Extends
<1>4. free \in Nat /\ tlb[q] \in Nat
  BY ShapeOK DEF IInv, StateOK
<1>5. CASE q \in DOMAIN snapshot
  <2>1. Spare(tlb[q], tables) /\ data[tables[Leaf(q)].frame] = snapshot[q]
    BY <1>5 DEF CachedOK, MovedOK
  <2>2. Spare(tlb[q], tables')
    BY <1>1, <1>4, <2>1, ExtendsSpare
  <2>3. MovedOK(q)'
    BY <1>3, <1>5, <2>1, <2>2 DEF MovedOK
  <2>4. QED
    BY <1>1, <1>3, <1>4, <1>5, <2>3 DEF CachedOK
<1>6. CASE q \notin DOMAIN snapshot
  BY <1>1, <1>3, <1>4, <1>6 DEF CachedOK
<1>7. QED
  BY <1>5, <1>6

(* mapVirtualAddress maps the page of the access, which had no frame.        *)
LEMMA MapPageExtends ==
    ASSUME MInv, MapPage
    PROVE  LET p == Page(access.addr)
               n == Cardinality(Missing(p))
           IN  /\ p \in PagesOfSpace /\ p \notin DOMAIN tlb
               /\ Leaf(p) \notin DOMAIN tables
               /\ n \in Nat /\ free + n \in free .. Frames
               /\ free' = free + n + 1 /\ free' <= Frames + 1
               /\ \E top \in 1 .. Levels :
                     Extends(tables, tables', p, free, free + n, top)
               /\ UNCHANGED <<data, tlb, access, snapshot>>
<1> DEFINE p == Page(access.addr)
           n == Cardinality(Missing(p))
<1>1. /\ faults # <<>> /\ ~ Copying /\ isValidAddress(Top.addr)
      /\ ~ Exhausted(Cardinality(Missing(Page(Top.addr))) + 1)
      /\ Install(Page(Top.addr), free, free + Cardinality(Missing(Page(Top.addr))))
      /\ free' = free + Cardinality(Missing(Page(Top.addr))) + 1
      /\ UNCHANGED <<data, tlb, access, snapshot>>
  BY DEF MapPage, Handling
<1>2. Top.addr \in Nat /\ Page(Top.addr) = Page(Outer.addr)
  BY <1>1, TopHandles DEF MInv, IInv
<1>3. Page(Outer.addr) = p /\ p \notin DOMAIN tlb
  BY <1>1, FaultingPage DEF MInv, MemoryOK
<1>4. Leaf(p) \notin DOMAIN tables
  BY <1>1 DEF MInv, MemoryOK, FaultingOK
<1>5. p \in PagesOfSpace
  BY <1>1, <1>2, <1>3, PageInSpace DEF MInv, IInv
<1>6. n \in Nat
  BY MissingCounts
<1>7. ~ Exhausted(n + 1) /\ Install(p, free, free + n) /\ free' = free + n + 1
  BY <1>1, <1>2, <1>3
<1> HIDE DEF p, n
<1>8. free \in 1 .. Frames + 1 /\ Frames \in Nat /\ Tree(tables)
  BY ShapeOK DEF MInv, IInv, StateOK, TreesOK
<1>9. free + n \in free .. Frames /\ free' <= Frames + 1
  BY <1>6, <1>7, <1>8 DEF Exhausted
<1>10. PICK top \in 1 .. Levels :
          Extends(tables, tables', p, free, free + n, top)
  BY <1>5, <1>7, <1>8, InstallExtends
<1>11. QED
  BY <1>1, <1>3, <1>4, <1>5, <1>6, <1>7, <1>9, <1>10 DEF p, n

(* The activation returns to the first one, which copies, or to none.        *)
LEMMA MapPageReturns ==
    ASSUME IInv, MapPage, faults' # <<>>
    PROVE  /\ faults # <<>> /\ faults'[1] = faults[1]
           /\ faults'[Len(faults')].copy # 0
<1>1. /\ faults # <<>> /\ ~ Copying
      /\ faults' = SubSeq(faults, 1, Len(faults) - 1)
  BY DEF MapPage, Handling, Return
<1>2. IsSequence(faults)
  BY DEF IInv, FaultsOK
<1>3. Len(faults) = 1 \/ (Len(faults) = 2 /\ faults[1].copy # 0)
  BY <1>1, TopHandles DEF IInv, Outer
<1>4. Len(faults) > 0
  BY <1>3
<1>5. /\ IsSequence(faults') /\ Len(faults') = Len(faults) - 1
      /\ \A i \in 1 .. Len(faults) - 1 : faults'[i] = faults[i]
  BY <1>1, <1>2, <1>4, PopSequence
<1>6. Len(faults') # 0
  BY <1>5, EmptySequence
<1>7. Len(faults) = 2 /\ faults[1].copy # 0
  BY <1>3, <1>5, <1>6
<1>8. Len(faults') = 1 /\ faults'[1] = faults[1]
  BY <1>5, <1>7
<1>9. QED
  BY <1>1, <1>7, <1>8

(* A page is mapped to a blank frame. *)
LEMMA MapPageMemory ==
    ASSUME MInv, MapPage
    PROVE  MemoryOK'
<1>1. PICK p : p = Page(access.addr)
  OBVIOUS
<1>2. PICK n : n = Cardinality(Missing(p))
  OBVIOUS
<1>3. /\ p \in PagesOfSpace /\ p \notin DOMAIN tlb
      /\ n \in Nat /\ free + n \in free .. Frames
      /\ free' = free + n + 1 /\ free' <= Frames + 1
      /\ UNCHANGED <<data, tlb, access, snapshot>>
  BY <1>1, <1>2, MapPageExtends
<1>4. PICK top \in 1 .. Levels :
         Extends(tables, tables', p, free, free + n, top)
  BY <1>1, <1>2, MapPageExtends
<1>5. IInv /\ BlankOK /\ CacheOK /\ FaultingOK /\ AccessOK
  BY DEF MInv, MemoryOK
<1>6. free \in 1 .. Frames + 1 /\ Frames \in Nat
  BY <1>5, ShapeOK DEF IInv, StateOK
<1>7. p \in Nat /\ free + n \in Nat /\ free' \in Nat /\ free <= free'
  BY <1>3, <1>6, TableEnds
<1>8. ASSUME NEW q \in DOMAIN tlb PROVE CachedOK(q)'
  <2>1. CachedOK(q) /\ tlb[q] \in 1 .. Frames /\ p # q
    BY <1>3, <1>5 DEF CacheOK, IInv, StateOK
  <2>2. free + n # tlb[q]
    BY <1>3, <1>6, <2>1 DEF CachedOK
  <2>3. QED
    BY <1>3, <1>4, <1>5, <1>7, <2>1, <2>2, CachedStays
<1>9. CacheOK'
  BY <1>3, <1>5, <1>8, MapPageReturns DEF CacheOK
<1>10. BlankOK'
  <2>1. \A f \in free' .. Frames : f \in free .. Frames
    BY <1>3, <1>6
  <2>2. QED
    BY <1>3, <1>5, <2>1 DEF BlankOK
<1>11. FaultingOK'
  <2>1. faults' # <<>> => Copying'
    BY <1>5, MapPageReturns DEF Copying
  <2>2. QED
    BY <1>3, <1>5, <2>1, MapPageReturns DEF FaultingOK
<1>12. QED
  BY <1>3, <1>5, <1>9, <1>10, <1>11 DEF MemoryOK, AccessOK

(* The page of the access is mapped to its copy. *)
LEMMA FinishCopyExtends ==
    ASSUME MInv, FinishCopy
    PROVE  LET p == Page(access.addr)
               f == Translation(p)
               frame == Outer.copy
           IN  /\ p \in PagesOfSpace /\ p \notin DOMAIN tlb
               /\ Leaf(p) \in DOMAIN tables /\ f = tables[Leaf(p)].frame
               /\ f \in 1 .. Frames /\ f < free
               /\ frame \in 1 .. Frames /\ frame < free
               /\ Spare(frame, tables)
               /\ free' \in Nat /\ free <= free' /\ free' <= Frames + 1
               /\ \E top \in 1 .. Levels :
                     Extends(tables, tables', p, free, frame, top)
               /\ data' = [data EXCEPT ![frame] = data[f]]
               /\ tlb' = With(tlb, p, f)
               /\ snapshot' = With(snapshot, p, data[f])
               /\ faults' = <<>> /\ faults # <<>> /\ UNCHANGED access
<1> DEFINE p == Page(access.addr)
           n == Cardinality(Missing(p))
           f == Translation(p)
           frame == Outer.copy
<1>1. Copying /\ faults # <<>>
  BY DEF FinishCopy, Copying
<1>2. /\ Len(faults) = 1 /\ Top = Outer /\ CopyOK(Outer) /\ frame \in 1 .. Frames
  BY <1>1, TopCopies DEF MInv, IInv
<1>3. Page(Outer.addr) = p /\ p \notin DOMAIN tlb
  BY <1>1, FaultingPage DEF MInv, MemoryOK
<1>4. Page(Top.addr) = p
  BY <1>2, <1>3
<1>5. /\ Present(p) /\ ~ Exhausted(n)
      /\ data' = [data EXCEPT ![frame] = data[f]]
      /\ tlb' = With(tlb, p, f)
      /\ Install(p, free, frame) /\ free' = free + n
      /\ faults' = SubSeq(faults, 1, Len(faults) - 1)
      /\ snapshot' = With(snapshot, p, data[f])
      /\ UNCHANGED access
  BY <1>2, <1>4 DEF FinishCopy, Return
<1>6. p \in PagesOfSpace /\ frame < free /\ Spare(frame, tables)
  BY <1>2, <1>3 DEF CopyOK
<1>7. n \in Nat
  BY MissingCounts
<1>8. Leaf(p) \in DOMAIN tables /\ f = tables[Leaf(p)].frame
  BY <1>3, <1>5 DEF Present, Translation
<1>9. f \in 1 .. Frames /\ f < free
  BY <1>5, TranslationGranted DEF MInv, MemoryOK
<1>10. faults' = <<>>
  <2>1. IsSequence(faults) /\ Len(faults) > 0 /\ Len(faults) - 1 = 0
    BY <1>2 DEF MInv, IInv, FaultsOK
  <2>2. IsSequence(faults') /\ Len(faults') = Len(faults) - 1
    BY <1>5, <2>1, PopSequence
  <2>3. QED
    BY <2>1, <2>2, EmptySequence
<1> HIDE DEF p, n, f, frame
<1>11. free \in 1 .. Frames + 1 /\ Frames \in Nat /\ Tree(tables)
  BY ShapeOK DEF MInv, IInv, StateOK, TreesOK
<1>12. free' \in Nat /\ free <= free' /\ free' <= Frames + 1
  BY <1>5, <1>7, <1>11 DEF Exhausted
<1>13. PICK top \in 1 .. Levels : Extends(tables, tables', p, free, frame, top)
  BY <1>2, <1>5, <1>6, <1>11, InstallExtends
<1>14. QED
  BY <1>1, <1>2, <1>3, <1>5, <1>6, <1>8, <1>9, <1>10, <1>12, <1>13
  DEF p, f, frame

(* The old frame stays in the TLB and is in no table any more. *)
LEMMA FinishCopyMemory ==
    ASSUME MInv, FinishCopy
    PROVE  MemoryOK'
<1>1. PICK p : p = Page(access.addr)
  OBVIOUS
<1>2. PICK f : f = Translation(p)
  OBVIOUS
<1>3. PICK frame : frame = Outer.copy
  OBVIOUS
<1>4. /\ p \in PagesOfSpace /\ p \notin DOMAIN tlb
      /\ Leaf(p) \in DOMAIN tables /\ f = tables[Leaf(p)].frame
      /\ f \in 1 .. Frames /\ f < free
      /\ frame \in 1 .. Frames /\ frame < free
      /\ Spare(frame, tables)
      /\ free' \in Nat /\ free <= free' /\ free' <= Frames + 1
      /\ data' = [data EXCEPT ![frame] = data[f]]
      /\ tlb' = With(tlb, p, f)
      /\ snapshot' = With(snapshot, p, data[f])
      /\ faults' = <<>> /\ faults # <<>> /\ UNCHANGED access
  BY <1>1, <1>2, <1>3, FinishCopyExtends
<1>5. PICK top \in 1 .. Levels : Extends(tables, tables', p, free, frame, top)
  BY <1>1, <1>3, FinishCopyExtends
<1>6. IInv /\ BlankOK /\ CacheOK /\ AccessOK
  BY DEF MInv, MemoryOK
<1>7. /\ free \in 1 .. Frames + 1 /\ Frames \in Nat /\ DOMAIN data = 1 .. Frames
      /\ \A n \in DOMAIN tables : tables[n].frame \in 1 .. Frames
      /\ DOMAIN snapshot \subseteq DOMAIN tlb
  BY <1>6, ShapeOK DEF IInv, StateOK, TreesOK, Tree, IsTables, Entry
<1>8. p \in Nat /\ frame \in Nat
  BY <1>4, TableEnds
<1>9. /\ DOMAIN tlb' = DOMAIN tlb \cup {p} /\ tlb'[p] = f
      /\ \A q \in DOMAIN tlb : tlb'[q] = tlb[q]
      /\ DOMAIN snapshot' = DOMAIN snapshot \cup {p} /\ snapshot'[p] = data[f]
      /\ \A q \in DOMAIN snapshot : q # p => snapshot'[q] = snapshot[q]
  BY <1>4 DEF With
<1>10. /\ data'[frame] = data[f]
       /\ \A g \in DOMAIN data : g # frame => data'[g] = data[g]
  BY <1>4, <1>7
<1>11. ASSUME NEW q \in DOMAIN tlb PROVE CachedOK(q)'
  <2>1. CachedOK(q) /\ p # q /\ Leaf(q) \in DOMAIN tables
    BY <1>4, <1>6 DEF CacheOK, CachedOK
  <2>2. frame # tlb[q]
    BY <1>3, <1>4, <1>6 DEF CacheOK, Outer
  <2>3. data'[tables[Leaf(q)].frame] = data[tables[Leaf(q)].frame]
    BY <1>4, <1>7, <1>10, <2>1 DEF Spare
  <2>4. /\ q \in DOMAIN snapshot' <=> q \in DOMAIN snapshot
        /\ q \in DOMAIN snapshot => snapshot'[q] = snapshot[q]
    BY <1>9, <2>1
  <2>5. QED
    BY <1>4, <1>5, <1>6, <1>8, <1>9, <2>1, <2>2, <2>3, <2>4, CachedStays
<1>12. CachedOK(p)'
  <2>1. /\ Leaf(p) \in DOMAIN tables'
        /\ tables'[Leaf(p)] = [frame |-> frame, flags |-> RW]
    BY <1>4, <1>5 DEF Extends
  <2>2. Spare(f, tables')
    <3>1. SUFFICES ASSUME NEW n \in DOMAIN tables' PROVE tables'[n].frame # f
      BY DEF Spare
    <3>2. FrameOf(tables, tables', p, free, frame, top, n)
      BY <1>5, ExtendsFrames, Zenon
    <3>3. CASE tables'[n].frame = frame /\ n = Leaf(p)
      BY <1>4, <3>3 DEF Spare
    <3>4. CASE \E k \in top .. Levels - 1 :
                  n = Table(k, p) /\ tables'[n].frame = free + k - top
      BY <1>4, <1>7, <3>4, ShapeOK
    <3>5. CASE n \in DOMAIN tables /\ n # Leaf(p) /\ tables'[n].frame = tables[n].frame
      BY <1>4, <1>6, <3>5 DEF IInv, TreesOK, Own
    <3>6. QED
      BY <3>2, <3>3, <3>4, <3>5 DEF FrameOf
  <2>3. tables'[Leaf(p)].frame = frame
    BY <2>1
  <2>4. MovedOK(p)'
    BY <1>9, <1>10, <2>2, <2>3 DEF MovedOK
  <2>5. f < free'
    BY <1>4, <1>7
  <2>6. QED
    BY <1>8, <1>9, <2>1, <2>4, <2>5 DEF CachedOK
<1>13. \A q \in DOMAIN tlb' : CachedOK(q)'
  BY <1>9, <1>11, <1>12
<1>14. \A q, r \in DOMAIN tlb' : tlb'[q] = tlb'[r] => q = r
  <2>1. ASSUME NEW q \in DOMAIN tlb PROVE tlb[q] # f
    <3>1. Leaf(p) # Leaf(q)
      <4>1. q \in Nat /\ q # p
        BY <1>4, <1>6 DEF CacheOK, CachedOK
      <4>2. QED
        BY <1>8, <4>1, TableEnds
    <3>2. QED
      BY <1>4, <1>6, <3>1, OthersFrames
  <2>2. QED
    BY <1>6, <1>9, <2>1 DEF CacheOK
<1>15. CacheOK'
  BY <1>4, <1>13, <1>14 DEF CacheOK
<1>16. BlankOK'
  <2>1. ASSUME NEW g \in free' .. Frames PROVE data'[g] = Blank
    <3>1. g \in free .. Frames /\ g \in 1 .. Frames /\ g # frame
      BY <1>4, <1>7
    <3>2. QED
      BY <1>6, <1>7, <1>10, <3>1 DEF BlankOK
  <2>2. QED
    BY <2>1 DEF BlankOK
<1>17. QED
  BY <1>4, <1>6, <1>15, <1>16 DEF MemoryOK, FaultingOK, AccessOK

(* The child's tables take frames, and the parent's memory stays. *)
LEMMA ForkMemory ==
    ASSUME MInv, Fork
    PROVE  MemoryOK'
<1>1. /\ access = Idle
      /\ \/ UNCHANGED free
         \/ free' = free + (1 + Cardinality(Tables))
      /\ UNCHANGED <<tables, data, tlb, access, faults, snapshot>>
  BY DEF Fork, Running
<1>2. Cardinality(Tables) \in Nat
  <2>1. IsFiniteSet(DOMAIN tables) /\ Tables \in SUBSET DOMAIN tables
    BY DEF MInv, IInv, TreesOK, Tree, Tables
  <2>2. IsFiniteSet(Tables)
    BY <2>1, FS_Subset
  <2>3. QED
    BY <2>2, FS_CardinalityType
<1>3. free' \in Nat /\ free <= free'
  BY <1>1, <1>2, ShapeOK DEF MInv, IInv, StateOK
<1>4. faults = <<>>
  BY <1>1, IdleFaults DEF MInv
<1>5. QED
  BY <1>1, <1>3, <1>4, MemoryLater

(* Memory and the TLB stay as they are while the loader and the handler do   *)
(* something else.                                                           *)
LEMMA OtherMemory ==
    ASSUME MInv, \/ NextSegment \/ EnterProgram \/ RejectAddress \/ RunOut
                 \/ UNCHANGED vars
    PROVE  MemoryOK'
<1>1. UNCHANGED <<tables, data, free, tlb, access, faults, snapshot>>
  BY DEF NextSegment, EnterProgram, RejectAddress, RunOut, kernel, vars
<1>2. QED
  BY <1>1, MemoryStays DEF MInv

(* The invariant of memory is inductive with that of the tables. *)
LEMMA MInvKept == MInv /\ [Next]_vars => MInv'
<1> SUFFICES ASSUME MInv, [Next]_vars PROVE MemoryOK'
  BY NextKeeps DEF MInv
<1>1. CASE Load
  BY <1>1, OtherMemory, CopyWordMemory DEF Load
<1>2. CASE Handle
  BY <1>2, OtherMemory, MapPageMemory, BeginCopyMemory, FinishCopyMemory
  DEF Handle
<1>3. CASE Perform
  BY <1>3, PerformMemory
<1>4. CASE Fault
  BY <1>4, FaultMemory
<1>5. CASE Fork
  BY <1>5, ForkMemory
<1>6. ASSUME NEW a \in Accesses, Issue(a) PROVE MemoryOK'
  BY <1>6, IssueMemory
<1>7. ASSUME NEW p \in DOMAIN tlb, Evict(p) PROVE MemoryOK'
  BY <1>7, EvictMemory
<1>8. CASE UNCHANGED vars
  BY <1>8, OtherMemory
<1>9. QED
  BY <1>1, <1>2, <1>3, <1>4, <1>5, <1>6, <1>7, <1>8 DEF Next

(* It holds in every state of the system. *)
LEMMA AlwaysMInv == Spec => []MInv
<1>1. Init => MInv
  BY InitHolds, InitMemory DEF MInv
<1>2. QED
  BY <1>1, MInvKept, PTL DEF Spec

-----------------------------------------------------------------------------
(* What the program sees *)

(* Byte o of page p. *)
Holds(p, o) == IF Present(p) THEN data[Translation(p)][o] ELSE Zero

(* An address is a page and an offset. *)
LEMMA AddressParts ==
    ASSUME NEW a \in Addresses
    PROVE  /\ a \in Nat /\ Page(a) \in PagesOfSpace /\ Page(a) \in Nat
           /\ a % PageSize \in 0 .. PageSize - 1
           /\ a = Page(a) * PageSize + (a % PageSize)
<1>1. Pages[Levels] \in Nat \ {0} /\ PageSize \in Nat \ {0}
  BY PagesDef, ShapeOK
<1>2. a \in Nat /\ a < PageSize * Pages[Levels]
  BY <1>1 DEF Addresses
<1>3. a \div PageSize \in Nat /\ a \div PageSize < Pages[Levels]
  BY <1>1, <1>2
<1>4. a % PageSize \in 0 .. PageSize - 1
      /\ a = (a \div PageSize) * PageSize + (a % PageSize)
  BY <1>1, <1>2
<1>5. QED
  BY <1>1, <1>2, <1>3, <1>4 DEF Page, PagesOfSpace

(* Memory, page by page. *)
LEMMA MemoryIs ==
    Memory = [a \in Addresses |-> Holds(Page(a), a % PageSize)]
BY DEF Memory, Holds

(* The cells of a page are the addresses whose page it is. *)
LEMMA CellsOfPage ==
    ASSUME NEW p \in PagesOfSpace
    PROVE  Cells(p) = {b \in Addresses : Page(b) = p}
<1>1. Pages[Levels] \in Nat \ {0} /\ PageSize \in Nat \ {0}
  BY PagesDef, ShapeOK
<1>2. p \in Nat /\ p + 1 <= Pages[Levels]
  BY <1>1 DEF PagesOfSpace
<1>3. ASSUME NEW a \in Cells(p) PROVE a \in Addresses /\ Page(a) = p
  <2>1. p * PageSize \in Nat
    BY <1>1, <1>2
  <2>2. a \in Nat /\ a >= p * PageSize /\ a <= p * PageSize + PageSize - 1
    BY <1>1, <2>1 DEF Cells
  <2>3. (p + 1) * PageSize <= Pages[Levels] * PageSize
    BY <1>1, <1>2
  <2>4. (p + 1) * PageSize = p * PageSize + PageSize
        /\ Pages[Levels] * PageSize = PageSize * Pages[Levels]
    BY <1>1, <1>2
  <2>5. a \in Addresses
    BY <1>1, <2>1, <2>2, <2>3, <2>4 DEF Addresses
  <2>6. PICK o \in Nat : o < PageSize /\ a = p * PageSize + o
    <3>1. a - p * PageSize \in Nat /\ a - p * PageSize < PageSize
      BY <1>1, <2>1, <2>2
    <3>2. a = p * PageSize + (a - p * PageSize)
      BY <2>1, <2>2
    <3>3. QED
      BY <3>1, <3>2
  <2>7. (p * PageSize + o) \div PageSize = p
    BY <1>1, <1>2, <2>6
  <2>8. QED
    BY <2>5, <2>6, <2>7 DEF Page
<1>4. ASSUME NEW b \in Addresses, Page(b) = p PROVE b \in Cells(p)
  <2>1. b % PageSize \in 0 .. PageSize - 1 /\ b = p * PageSize + (b % PageSize)
    BY <1>4, AddressParts
  <2>2. p * PageSize \in Nat
    BY <1>1, <1>2
  <2>3. QED
    BY <1>1, <2>1, <2>2 DEF Cells
<1>5. QED
  BY <1>3, <1>4

(* Memory is the same when every byte of every page is. *)
LEMMA SameMemory ==
    ASSUME \A p \in PagesOfSpace, o \in 0 .. PageSize - 1 :
              Holds(p, o)' = Holds(p, o)
    PROVE  Memory' = Memory
<1>1. Memory' = [a \in Addresses |-> Holds(Page(a), a % PageSize)']
  BY DEF Memory, Holds, Page, Addresses
<1>2. ASSUME NEW a \in Addresses
      PROVE  Holds(Page(a), a % PageSize)' = Holds(Page(a), a % PageSize)
  <2>1. Page(a) \in PagesOfSpace /\ a % PageSize \in 0 .. PageSize - 1
    BY AddressParts
  <2>2. QED
    BY <2>1
<1>3. QED
  BY <1>1, <1>2, MemoryIs

(* Nothing happens to what the program sees. *)
LEMMA MemoryUnseen ==
    ASSUME UNCHANGED <<tables, data, tlb>>
    PROVE  Memory' = Memory
BY DEF Memory, Present, Translation

(* An access of length n at b that lies in one page is about the bytes of    *)
(* that page.                                                                *)
LEMMA AccessOfPage ==
    ASSUME NEW b \in Nat, NEW n \in Nat, (b % PageSize) + n <= PageSize,
           NEW a \in Nat
    PROVE  /\ Page(a) = Page(b) => a - b = (a % PageSize) - (b % PageSize)
           /\ Page(a) # Page(b) => a - b \notin 0 .. n - 1
<1>1. PageSize \in Nat \ {0}
  BY ShapeOK
<1>2. /\ b = Page(b) * PageSize + (b % PageSize) /\ Page(b) \in Nat
      /\ a = Page(a) * PageSize + (a % PageSize) /\ Page(a) \in Nat
      /\ b % PageSize \in Nat /\ a % PageSize \in Nat
  BY <1>1 DEF Page
<1>3. ASSUME Page(a) = Page(b) PROVE a - b = (a % PageSize) - (b % PageSize)
  <2>1. a = Page(b) * PageSize + (a % PageSize)
    BY <1>2, <1>3
  <2>2. \A x, u, v \in Nat : (x + v) - (x + u) = v - u
    OBVIOUS
  <2>3. Page(b) * PageSize \in Nat
    BY <1>1, <1>2
  <2>4. (Page(b) * PageSize + (a % PageSize)) - (Page(b) * PageSize + (b % PageSize))
           = (a % PageSize) - (b % PageSize)
    BY <1>2, <2>2, <2>3
  <2>5. QED
    BY <1>2, <2>1, <2>4
<1>4. ASSUME a - b \in 0 .. n - 1 PROVE Page(a) = Page(b)
  <2>1. PICK x \in Nat : a = b + x /\ x < n
    <3>1. a - b \in Nat /\ a = b + (a - b) /\ a - b < n
      BY <1>4
    <3>2. QED
      BY <3>1
  <2>2. Page(b) * PageSize \in Nat
    BY <1>1, <1>2
  <2>3. PICK o \in Nat : o = (b % PageSize) + x
    BY <1>2, <2>1
  <2>4. a = Page(b) * PageSize + o /\ o < PageSize
    BY <1>1, <1>2, <2>1, <2>2, <2>3
  <2>5. \A p \in Nat : (p * PageSize + o) \div PageSize = p
    BY <1>1, <2>4
  <2>6. a \div PageSize = Page(b)
    BY <1>2, <2>4, <2>5
  <2>7. QED
    BY <2>6 DEF Page
<1>5. QED
  BY <1>3, <1>4

(* An access takes effect at its addresses and nowhere else. *)
LEMMA PerformSeen ==
    ASSUME MInv, Perform, NEW a \in Addresses
    PROVE  Memory'[a] = IF a - access.addr \in 0 .. Len(access.cells) - 1
                        THEN access.cells[a - access.addr + 1] ELSE Memory[a]
<1>1. PICK p : p = Page(access.addr)
  OBVIOUS
<1>2. PICK f : f = Translation(p)
  OBVIOUS
<1>3. PICK at : at = access.addr % PageSize
  OBVIOUS
<1>4. PICK n : n = Len(access.cells)
  OBVIOUS
<1> DEFINE stored == [o \in 0 .. PageSize - 1 |->
                        IF o - at \in 0 .. n - 1
                        THEN access.cells[o - at + 1] ELSE data[f][o]]
<1>5. /\ access # Idle /\ Present(p) /\ tlb' = With(tlb, p, f)
      /\ data' = [data EXCEPT ![f] = stored] /\ UNCHANGED tables
  BY <1>1, <1>2, <1>3, <1>4 DEF Perform, kernel
<1> HIDE DEF stored
<1>6. IInv /\ CacheOK /\ AccessOK
  BY DEF MInv, MemoryOK
<1>7. access.addr \in Nat /\ n \in Nat /\ at + n <= PageSize
  BY <1>3, <1>4, <1>5, <1>6 DEF IInv, StateOK, AccessOK
<1>8. p \in Nat /\ f \in 1 .. Frames /\ DOMAIN data = 1 .. Frames
  <2>1. p \in Nat
    BY <1>1, <1>7, ShapeOK DEF Page
  <2>2. QED
    BY <1>2, <1>5, <1>6, <2>1, TranslationGranted DEF IInv, StateOK
<1>9. data'[f] = stored /\ \A g \in DOMAIN data : g # f => data'[g] = data[g]
  BY <1>5, <1>8
<1>10. /\ DOMAIN tlb' = DOMAIN tlb \cup {p} /\ tlb'[p] = f
       /\ \A r \in DOMAIN tlb : r # p => tlb'[r] = tlb[r]
  BY <1>5 DEF With
<1>11. PICK q : q = Page(a)
  OBVIOUS
<1>12. PICK o : o = a % PageSize
  OBVIOUS
<1>13. a \in Nat /\ q \in Nat /\ o \in 0 .. PageSize - 1
  BY <1>11, <1>12, AddressParts
<1>14. Memory[a] = Holds(q, o)
  BY <1>11, <1>12, MemoryIs
<1>15. Memory'[a] = Holds(q, o)'
  BY <1>11, <1>12 DEF Memory, Holds, Addresses, Page
<1>16. CASE q = p
  <2>1. a - access.addr = o - at
    BY <1>1, <1>3, <1>4, <1>7, <1>11, <1>12, <1>13, <1>16, AccessOfPage
  <2>2. Holds(q, o)' = stored[o]
    BY <1>9, <1>10, <1>16 DEF Holds, Present, Translation
  <2>3. stored[o] = IF o - at \in 0 .. n - 1
                    THEN access.cells[o - at + 1] ELSE data[f][o]
    BY <1>13 DEF stored
  <2>4. Holds(q, o) = data[f][o]
    BY <1>2, <1>5, <1>16 DEF Holds
  <2>5. QED
    BY <1>4, <1>14, <1>15, <2>1, <2>2, <2>3, <2>4
<1>17. CASE q # p
  <2>1. a - access.addr \notin 0 .. n - 1
    BY <1>1, <1>3, <1>4, <1>7, <1>11, <1>13, <1>17, AccessOfPage
  <2>2. Present(q)' <=> Present(q)
    BY <1>5, <1>10, <1>17 DEF Present
  <2>3. Translation(q)' = Translation(q)
    BY <1>5, <1>10, <1>17 DEF Translation
  <2>4. ASSUME Present(q) PROVE data'[Translation(q)] = data[Translation(q)]
    <3>1. Translation(q) # f
      BY <1>2, <1>5, <1>6, <1>8, <1>13, <1>17, <2>4, TranslationsDiffer
    <3>2. Translation(q) \in DOMAIN data
      BY <1>6, <1>8, <2>4, TranslationGranted
    <3>3. QED
      BY <1>9, <3>1, <3>2
  <2>5. Holds(q, o)' = Holds(q, o)
    BY <2>2, <2>3, <2>4 DEF Holds
  <2>6. QED
    BY <1>4, <1>14, <1>15, <2>1, <2>5
<1>18. QED
  BY <1>16, <1>17

(* A page that appears is zero, as the program saw it before. *)
LEMMA MapPageSeen ==
    ASSUME MInv, MapPage
    PROVE  Memory' = Memory
<1>1. PICK p : p = Page(access.addr)
  OBVIOUS
<1>2. PICK n : n = Cardinality(Missing(p))
  OBVIOUS
<1>3. /\ p \in PagesOfSpace /\ p \notin DOMAIN tlb
      /\ Leaf(p) \notin DOMAIN tables
      /\ n \in Nat /\ free + n \in free .. Frames
      /\ UNCHANGED <<data, tlb>>
  BY <1>1, <1>2, MapPageExtends
<1>4. PICK top \in 1 .. Levels :
         Extends(tables, tables', p, free, free + n, top)
  BY <1>1, <1>2, MapPageExtends
<1>5. SUFFICES ASSUME NEW q \in PagesOfSpace, NEW o \in 0 .. PageSize - 1
               PROVE  Holds(q, o)' = Holds(q, o)
  BY SameMemory
<1>6. CASE q = p
  <2>1. /\ Leaf(p) \in DOMAIN tables'
        /\ tables'[Leaf(p)] = [frame |-> free + n, flags |-> RW]
    <3>1. Levels \in top .. Levels
      BY ShapeOK
    <3>2. QED
      BY <1>4, <3>1 DEF Extends, Leaf
  <2>2. Holds(p, o)' = data[free + n][o]
    BY <1>3, <2>1 DEF Holds, Present, Translation
  <2>3. data[free + n] = Blank
    BY <1>3 DEF MInv, MemoryOK, BlankOK
  <2>4. Holds(p, o) = Zero
    BY <1>3 DEF Holds, Present
  <2>5. QED
    BY <1>6, <2>2, <2>3, <2>4 DEF Blank
<1>7. CASE q # p
  <2>1. p \in Nat /\ q \in Nat /\ Leaf(q)[1] = Levels /\ Leaf(q) # Leaf(p)
    BY <1>3, <1>7, TableEnds
  <2>2. ASSUME Leaf(q) \in DOMAIN tables' PROVE Leaf(q) \in DOMAIN tables
    <3>1. \A k \in top .. Levels : Leaf(q) = Table(k, p) => k = Levels
      BY <2>1 DEF Table
    <3>2. QED
      BY <1>4, <2>1, <2>2, <3>1 DEF Extends, Leaf
  <2>3. Leaf(q) \in DOMAIN tables =>
           Leaf(q) \in DOMAIN tables' /\ tables'[Leaf(q)] = tables[Leaf(q)]
    BY <1>4, <2>1 DEF Extends
  <2>4. QED
    BY <1>3, <2>2, <2>3 DEF Holds, Present, Translation
<1>8. QED
  BY <1>6, <1>7

(* A page that is moved keeps its contents; the TLB still leads to the old   *)
(* frame.                                                                    *)
LEMMA FinishCopySeen ==
    ASSUME MInv, FinishCopy
    PROVE  Memory' = Memory
<1>1. PICK p : p = Page(access.addr)
  OBVIOUS
<1>2. PICK f : f = Translation(p)
  OBVIOUS
<1>3. PICK frame : frame = Outer.copy
  OBVIOUS
<1>4. /\ p \in PagesOfSpace /\ p \notin DOMAIN tlb
      /\ Leaf(p) \in DOMAIN tables /\ f = tables[Leaf(p)].frame
      /\ frame \in 1 .. Frames /\ f \in 1 .. Frames
      /\ Spare(frame, tables)
      /\ data' = [data EXCEPT ![frame] = data[f]]
      /\ tlb' = With(tlb, p, f) /\ faults # <<>>
  BY <1>1, <1>2, <1>3, FinishCopyExtends
<1>5. PICK top \in 1 .. Levels : Extends(tables, tables', p, free, frame, top)
  BY <1>1, <1>3, FinishCopyExtends
<1>6. IInv /\ CacheOK /\ DOMAIN data = 1 .. Frames
  BY DEF MInv, MemoryOK, IInv, StateOK
<1>7. /\ DOMAIN tlb' = DOMAIN tlb \cup {p} /\ tlb'[p] = f
      /\ \A q \in DOMAIN tlb : tlb'[q] = tlb[q]
  BY <1>4 DEF With
<1>8. /\ data'[frame] = data[f]
      /\ \A g \in DOMAIN data : g # frame => data'[g] = data[g]
  BY <1>4, <1>6
<1>9. SUFFICES ASSUME NEW q \in PagesOfSpace, NEW o \in 0 .. PageSize - 1
               PROVE  Holds(q, o)' = Holds(q, o)
  BY SameMemory
<1>10. CASE q = p
  <2>1. f # frame
    BY <1>4 DEF Spare
  <2>2. Holds(p, o)' = data[f][o]
    BY <1>4, <1>6, <1>7, <1>8, <2>1 DEF Holds, Present, Translation
  <2>3. Holds(p, o) = data[f][o]
    BY <1>4 DEF Holds, Present, Translation
  <2>4. QED
    BY <1>10, <2>2, <2>3
<1>11. CASE q # p
  <2>1. p \in Nat /\ q \in Nat /\ Leaf(q)[1] = Levels /\ Leaf(q) # Leaf(p)
    BY <1>4, <1>11, TableEnds
  <2>2. ASSUME Leaf(q) \in DOMAIN tables' PROVE Leaf(q) \in DOMAIN tables
    <3>1. \A k \in top .. Levels : Leaf(q) = Table(k, p) => k = Levels
      BY <2>1 DEF Table
    <3>2. QED
      BY <1>5, <2>1, <2>2, <3>1 DEF Extends, Leaf
  <2>3. Leaf(q) \in DOMAIN tables =>
           Leaf(q) \in DOMAIN tables' /\ tables'[Leaf(q)] = tables[Leaf(q)]
    BY <1>5, <2>1 DEF Extends
  <2>4. (Present(q)' <=> Present(q)) /\ (Present(q) => Translation(q)' = Translation(q))
    BY <1>7, <1>11, <2>2, <2>3 DEF Present, Translation
  <2>5. ASSUME Present(q) PROVE data'[Translation(q)] = data[Translation(q)]
    <3>1. CASE q \in DOMAIN tlb
      BY <1>3, <1>4, <1>6, <1>8, <2>5, <3>1, TranslationGranted
      DEF Translation, CacheOK, Outer
    <3>2. CASE q \notin DOMAIN tlb
      BY <1>4, <1>6, <1>8, <2>5, <3>2, TranslationGranted
      DEF Translation, Present, Spare
    <3>3. QED
      BY <3>1, <3>2
  <2>6. QED
    BY <2>4, <2>5 DEF Holds
<1>12. QED
  BY <1>10, <1>11

(* A page that was not moved is the same without the TLB. *)
LEMMA EvictSeen ==
    ASSUME MInv, NEW p \in DOMAIN tlb, Evict(p), NEW q \in PagesOfSpace,
           NEW o \in 0 .. PageSize - 1, q # p \/ p \notin DOMAIN snapshot
    PROVE  Holds(q, o)' = Holds(q, o)
<1>1. /\ tlb' = [r \in DOMAIN tlb \ {p} |-> tlb[r]]
      /\ UNCHANGED <<tables, data>>
  BY DEF Evict, kernel
<1>2. CASE q = p
  <2>1. Leaf(p) \in DOMAIN tables /\ tlb[p] = tables[Leaf(p)].frame
    BY <1>2 DEF MInv, MemoryOK, CacheOK, CachedOK
  <2>2. Holds(p, o)' = data[tables[Leaf(p)].frame][o]
    BY <1>1, <2>1 DEF Holds, Present, Translation
  <2>3. Holds(p, o) = data[tables[Leaf(p)].frame][o]
    BY <2>1 DEF Holds, Present, Translation
  <2>4. QED
    BY <1>2, <2>2, <2>3
<1>3. CASE q # p
  BY <1>1, <1>3 DEF Holds, Present, Translation
<1>4. QED
  BY <1>2, <1>3

(* A page that was moved is what it was then. *)
LEMMA EvictMovedSeen ==
    ASSUME MInv, NEW p \in DOMAIN tlb, Evict(p), p \in DOMAIN snapshot,
           NEW o
    PROVE  Holds(p, o)' = snapshot[p][o]
<1>1. /\ tlb' = [r \in DOMAIN tlb \ {p} |-> tlb[r]]
      /\ UNCHANGED <<tables, data>>
  BY DEF Evict, kernel
<1>2. Leaf(p) \in DOMAIN tables /\ data[tables[Leaf(p)].frame] = snapshot[p]
  BY DEF MInv, MemoryOK, CacheOK, CachedOK, MovedOK
<1>3. QED
  BY <1>1, <1>2 DEF Holds, Present, Translation

-----------------------------------------------------------------------------
(* The refinement of VirtualMemory *)

Moved == [p \in DOMAIN snapshot |->
            [a \in Cells(p) |-> snapshot[p][a % PageSize]]]

(* Nothing is mapped at first, so that all of memory is zero. *)
LEMMA FlatInit == Init => Flat!Init
<1> SUFFICES ASSUME Init PROVE Flat!Init
  OBVIOUS
<1>1. /\ tables = [n \in {<<0, 0>>} |-> [frame |-> 1, flags |-> RW]]
      /\ tlb = <<>> /\ snapshot = <<>> /\ access = Idle
  BY DEF Init
<1>2. DOMAIN tlb = {} /\ DOMAIN snapshot = {}
  BY <1>1
<1>3. ASSUME NEW a \in Addresses PROVE Memory[a] = Zero
  <2>1. Page(a) \in Nat
    BY AddressParts
  <2>2. Leaf(Page(a)) # <<0, 0>>
    BY <2>1, TableEnds, ShapeOK
  <2>3. ~ Present(Page(a))
    BY <1>1, <1>2, <2>2 DEF Present
  <2>4. QED
    BY <2>3 DEF Memory
<1>4. Memory = [a \in Addresses |-> Zero]
  BY <1>3 DEF Memory
<1>5. Moved = <<>>
  <2>1. Moved = [p \in {} |-> [a \in Cells(p) |-> snapshot[p][a % PageSize]]]
    BY <1>2 DEF Moved
  <2>2. Moved \in Seq({}) /\ Len(Moved) = 0
    BY <2>1
  <2>3. QED
    BY <2>2
<1>6. QED
  BY <1>1, <1>4, <1>5 DEF Flat!Init, Moved

(* An access that begins is a request. *)
LEMMA FlatRequest ==
    ASSUME access = Idle, access' # Idle,
           UNCHANGED <<tables, data, tlb, snapshot>>
    PROVE  Flat!Request
<1>1. Memory' = Memory
  BY MemoryUnseen
<1>2. QED
  BY <1>1 DEF Flat!Request, Cells

(* Perform serves it. *)
LEMMA FlatServe ==
    ASSUME MInv, Perform
    PROVE  Flat!Serve
<1>1. access # Idle /\ access' = Idle /\ UNCHANGED snapshot
  BY DEF Perform
<1>2. Memory' = [a \in Addresses |->
                   IF a - access.addr \in 0 .. Len(access.cells) - 1
                   THEN access.cells[a - access.addr + 1] ELSE Memory[a]]
  <2>1. Memory' = [a \in Addresses |-> Memory'[a]]
    BY DEF Memory, Addresses
  <2>2. QED
    BY <2>1, PerformSeen
<1>3. QED
  BY <1>1, <1>2 DEF Flat!Serve, Cells

(* FinishCopy moves the page of the access. *)
LEMMA FlatMove ==
    ASSUME MInv, FinishCopy
    PROVE  Flat!Move
<1>1. PICK p : p = Page(access.addr)
  OBVIOUS
<1>2. PICK f : f = Translation(p)
  OBVIOUS
<1>3. /\ p \in PagesOfSpace /\ Leaf(p) \in DOMAIN tables
      /\ snapshot' = With(snapshot, p, data[f])
      /\ faults # <<>> /\ UNCHANGED access
  BY <1>1, <1>2, FinishCopyExtends
<1>4. access # Idle
  BY <1>3, FaultingPage DEF MInv, MemoryOK
<1>5. Memory' = Memory
  BY FinishCopySeen
<1>6. /\ DOMAIN snapshot' = DOMAIN snapshot \cup {p}
      /\ snapshot'[p] = data[f]
      /\ \A q \in DOMAIN snapshot : q # p => snapshot'[q] = snapshot[q]
  BY <1>3 DEF With
<1>7. [a \in Cells(p) |-> snapshot'[p][a % PageSize]]
        = [a \in {b \in Addresses : Page(b) = p} |-> Memory[a]]
  <2>1. Cells(p) = {b \in Addresses : Page(b) = p}
    BY <1>3, CellsOfPage
  <2>2. ASSUME NEW a \in Addresses, Page(a) = p
        PROVE  Memory[a] = snapshot'[p][a % PageSize]
    BY <1>2, <1>3, <1>6, <2>2 DEF Memory, Present
  <2>3. QED
    BY <2>1, <2>2
<1>8. DOMAIN Moved = DOMAIN snapshot
      /\ \A q \in DOMAIN snapshot :
            Moved[q] = [a \in Cells(q) |-> snapshot[q][a % PageSize]]
  BY DEF Moved
<1>9. Moved' = [q \in DOMAIN Moved \cup {p} |->
                  IF q = p
                  THEN [a \in {b \in Addresses : Page(b) = p} |-> Memory[a]]
                  ELSE Moved[q]]
  <2>1. Moved' = [q \in DOMAIN snapshot' |->
                    [a \in Cells(q) |-> snapshot'[q][a % PageSize]]]
    BY DEF Moved, Cells
  <2>2. ASSUME NEW q \in DOMAIN snapshot'
        PROVE  [a \in Cells(q) |-> snapshot'[q][a % PageSize]]
                 = IF q = p
                   THEN [a \in {b \in Addresses : Page(b) = p} |-> Memory[a]]
                   ELSE Moved[q]
    BY <1>6, <1>7, <1>8
  <2>3. QED
    BY <1>6, <1>8, <2>1, <2>2
<1>10. QED
  BY <1>1, <1>3, <1>4, <1>5, <1>9 DEF Flat!Move, Flat!PageOf, Page, Moved

(* Evict forgets a page that was moved, and nothing of another. *)
LEMMA FlatForget ==
    ASSUME MInv, NEW p \in DOMAIN tlb, Evict(p)
    PROVE  Flat!Next \/ UNCHANGED <<access, Memory, Moved>>
<1>1. /\ snapshot' = [q \in DOMAIN snapshot \ {p} |-> snapshot[q]]
      /\ UNCHANGED access
  BY DEF Evict
<1>2. CASE p \in DOMAIN snapshot
  <2>1. ASSUME NEW a \in Addresses
        PROVE  Memory'[a] = IF Page(a) = p THEN Moved[p][a] ELSE Memory[a]
    <3>1. PICK q : q = Page(a)
      OBVIOUS
    <3>2. PICK o : o = a % PageSize
      OBVIOUS
    <3>3. q \in PagesOfSpace /\ o \in 0 .. PageSize - 1
      BY <3>1, <3>2, AddressParts
    <3>4. Memory[a] = Holds(q, o)
      BY <3>1, <3>2, MemoryIs
    <3>5. Memory'[a] = Holds(q, o)'
      BY <3>1, <3>2 DEF Memory, Holds, Addresses, Page
    <3>6. CASE q = p
      <4>1. a \in Cells(p)
        BY <3>1, <3>3, <3>6, CellsOfPage
      <4>2. Moved[p][a] = snapshot[p][o]
        BY <1>2, <3>2, <4>1 DEF Moved
      <4>3. Holds(p, o)' = snapshot[p][o]
        BY <1>2, EvictMovedSeen
      <4>4. QED
        BY <3>1, <3>5, <3>6, <4>2, <4>3
    <3>7. CASE q # p
      <4>1. Holds(q, o)' = Holds(q, o)
        BY <3>3, <3>7, EvictSeen
      <4>2. QED
        BY <3>1, <3>4, <3>5, <3>7, <4>1
    <3>8. QED
      BY <3>6, <3>7
  <2>2. Memory' = [a \in Addresses |->
                     IF Page(a) = p THEN Moved[p][a] ELSE Memory[a]]
    <3>1. Memory' = [a \in Addresses |-> Memory'[a]]
      BY DEF Memory, Addresses
    <3>2. QED
      BY <2>1, <3>1
  <2>3. Moved' = [q \in DOMAIN Moved \ {p} |-> Moved[q]]
    <3>1. Moved' = [q \in DOMAIN snapshot' |->
                      [a \in Cells(q) |-> snapshot'[q][a % PageSize]]]
      BY DEF Moved, Cells
    <3>2. DOMAIN Moved = DOMAIN snapshot
          /\ \A q \in DOMAIN snapshot :
                Moved[q] = [a \in Cells(q) |-> snapshot[q][a % PageSize]]
      BY DEF Moved
    <3>3. DOMAIN snapshot' = DOMAIN snapshot \ {p}
          /\ \A q \in DOMAIN snapshot' : snapshot'[q] = snapshot[q]
      BY <1>1
    <3>4. QED
      BY <3>1, <3>2, <3>3
  <2>4. p \in DOMAIN Moved
    BY <1>2 DEF Moved
  <2>5. Flat!Forget(p)
    BY <1>1, <2>2, <2>3, <2>4 DEF Flat!Forget, Flat!PageOf, Page, Moved
  <2>6. QED
    BY <2>4, <2>5 DEF Flat!Next, Moved
<1>3. CASE p \notin DOMAIN snapshot
  <2>1. Memory' = Memory
    <3>1. \A q \in PagesOfSpace, o \in 0 .. PageSize - 1 :
             Holds(q, o)' = Holds(q, o)
      BY <1>3, EvictSeen
    <3>2. QED
      BY <3>1, SameMemory
  <2>2. DOMAIN snapshot' = DOMAIN snapshot
        /\ \A q \in DOMAIN snapshot : snapshot'[q] = snapshot[q]
    BY <1>1, <1>3
  <2>3. Moved' = Moved
    BY <2>2 DEF Moved, Cells
  <2>4. QED
    BY <1>1, <2>1, <2>3
<1>4. QED
  BY <1>2, <1>3

(* Nothing else changes what the program sees. *)
LEMMA FlatStutters ==
    ASSUME MInv, \/ NextSegment \/ EnterProgram \/ RejectAddress \/ RunOut
                 \/ BeginCopy \/ MapPage \/ Fault \/ Fork \/ UNCHANGED vars
    PROVE  UNCHANGED <<access, Memory, Moved>>
<1>1. UNCHANGED <<access, snapshot>>
  BY DEF NextSegment, EnterProgram, RejectAddress, RunOut, BeginCopy, MapPage,
         Fault, Fork, vars, kernel, loader
<1>2. Memory' = Memory
  <2>1. CASE MapPage
    BY <2>1, MapPageSeen
  <2>2. CASE ~ MapPage
    <3>1. UNCHANGED <<tables, data, tlb>>
      BY <2>2 DEF NextSegment, EnterProgram, RejectAddress, RunOut, BeginCopy,
                  Fault, Fork, vars, kernel, loader
    <3>2. QED
      BY <3>1, MemoryUnseen
  <2>3. QED
    BY <2>1, <2>2
<1>3. Moved' = Moved
  BY <1>1 DEF Moved, Cells
<1>4. QED
  BY <1>1, <1>2, <1>3

(* Each step is a step of the flat memory or changes nothing of it. *)
LEMMA StepOfMemory ==
    ASSUME MInv, [Next]_vars
    PROVE  Flat!Next \/ UNCHANGED <<access, Memory, Moved>>
<1>1. CASE Load
  <2>1. ASSUME CopyWord PROVE Flat!Request
    <3>1. /\ access = Idle /\ word < Words(seg)
          /\ access'.addr = WordAddr
          /\ UNCHANGED <<tables, data, tlb, snapshot>>
      BY <2>1 DEF CopyWord, Running, kernel, WordAddr
    <3>2. WordAddr \in Nat
      BY <3>1, WordOfSegment DEF MInv, IInv
    <3>3. access' # Idle
      BY <3>1, <3>2 DEF Idle
    <3>4. QED
      BY <3>1, <3>3, FlatRequest
  <2>2. QED
    BY <1>1, <2>1, FlatStutters DEF Load, Flat!Next
<1>2. CASE Handle
  BY <1>2, FlatMove, FlatStutters DEF Handle, Flat!Next
<1>3. CASE Perform
  BY <1>3, FlatServe DEF Flat!Next
<1>4. CASE Fault \/ Fork \/ UNCHANGED vars
  BY <1>4, FlatStutters
<1>5. ASSUME NEW a \in Accesses, Issue(a) PROVE Flat!Request
  <2>1. /\ access = Idle /\ access' = a
        /\ UNCHANGED <<tables, data, tlb, snapshot>>
    BY <1>5 DEF Issue, Running, kernel
  <2>2. a # Idle
    BY ShapeOK
  <2>3. QED
    BY <2>1, <2>2, FlatRequest
<1>6. ASSUME NEW p \in DOMAIN tlb, Evict(p)
      PROVE  Flat!Next \/ UNCHANGED <<access, Memory, Moved>>
  BY <1>6, FlatForget
<1>7. QED
  BY <1>1, <1>2, <1>3, <1>4, <1>5, <1>6 DEF Next, Flat!Next

(* Demand paging, forks and evictions are invisible to the one program that  *)
(* runs, but for a page that the copying branch moved while the TLB kept its *)
(* old frame, which may once go back to what it held then.                   *)
THEOREM VirtualMemoryImplemented == Spec => ImplementsVirtualMemory
<1>1. Init => Flat!Init
  BY FlatInit
<1>2. MInv /\ [Next]_vars => [Flat!Next]_<<access, Memory, Moved>>
  BY StepOfMemory
<1>3. Moved = [p \in DOMAIN snapshot |->
                 [a \in Cells(p) |-> snapshot[p][a % PageSize]]]
  BY DEF Moved
<1>4. QED
  BY <1>1, <1>2, AlwaysMInv, PTL
  DEF Spec, ImplementsVirtualMemory, Flat!Spec, Moved

-----------------------------------------------------------------------------
(* What the loader has copied *)

(* While the loader runs no page is moved, memory holds what was copied, and *)
(* the access under way is that of the word.                                 *)
LoadingOK ==
    stage = "load" =>
       /\ DOMAIN snapshot = {}
       /\ faults # <<>> => faults[1].copy = 0
       /\ access # Idle => access = [addr |-> WordAddr, cells |-> WordCells]
       /\ LoadedExactly

(* The last of some program headers, and the byte it has for an address. *)
Latest(C) == CHOOSE s \in C : \A r \in C : r <= s
ByteOf(s, a) == Segments[s].bytes[a - Segments[s].addr + 1]
LoadedByte(C, a) == IF C = {} THEN Zero ELSE ByteOf(Latest(C), a)

(* Memory while the loader runs. *)
LEMMA LoadedIs ==
    LoadedExactly <=>
       (stage = "load" => \A a \in Addresses : Memory[a] = LoadedByte(Copied(a), a))
BY DEF LoadedExactly, LoadedByte, ByteOf, Latest

(* Nothing was copied. *)
LEMMA LoadedStays ==
    ASSUME LoadedExactly, stage = "load", Memory' = Memory,
           \A a \in Addresses : Copied(a)' = Copied(a)
    PROVE  LoadedExactly'
<1>1. \A a \in Addresses : Memory'[a] = LoadedByte(Copied(a)', a)
  BY LoadedIs
<1>2. LoadedExactly' <=>
         (stage' = "load" => \A a \in Addresses : Memory'[a] = LoadedByte(Copied(a)', a))
  BY DEF LoadedExactly, LoadedByte, ByteOf, Latest, Addresses
<1>3. QED
  BY <1>1, <1>2

(* Before the first program header nothing is loaded. *)
LEMMA InitLoading == Init => LoadingOK
<1> SUFFICES ASSUME Init PROVE LoadingOK
  OBVIOUS
<1>1. snapshot = <<>> /\ faults = <<>> /\ access = Idle /\ seg = 0
  BY DEF Init
<1>2. \A a \in Addresses : Memory[a] = Zero
  BY FlatInit DEF Flat!Init
<1>3. \A a \in Addresses : Copied(a) = {}
  BY <1>1 DEF Copied
<1>4. LoadedExactly
  BY <1>2, <1>3 DEF LoadedExactly
<1>5. DOMAIN snapshot = {}
  BY <1>1
<1>6. QED
  BY <1>1, <1>4, <1>5 DEF LoadingOK

(* The next program header has no word yet, and the last one has all. *)
LEMMA NextSegmentLoads ==
    ASSUME MInv, LoadingOK, NextSegment
    PROVE  LoadingOK'
<1>1. /\ access = Idle /\ stage = "load"
      /\ word = Words(seg) /\ seg < Len(Segments)
      /\ seg' = seg + 1 /\ word' = 0
      /\ UNCHANGED <<tables, data, tlb, access, faults, stage, snapshot>>
  BY DEF NextSegment, Running
<1>2. seg \in Nat /\ Word \in Nat
  BY VmasFit, ShapeOK DEF MInv, IInv, LoaderOK
<1>3. ASSUME NEW a \in Addresses PROVE Copied(a)' = Copied(a)
  <2>1. ASSUME NEW s \in 1 .. seg
        PROVE  s # seg + 1 /\ (s = seg => word = Segments[s].size \div Word)
    BY <1>1, <1>2 DEF Words
  <2>2. 0 .. 0 * Word - 1 = {}
    BY <1>2
  <2>3. 1 .. seg + 1 = (1 .. seg) \cup {seg + 1}
    BY <1>2
  <2>4. Copied(a)' =
          {s \in 1 .. seg + 1 : a - Segments[s].addr \in
             0 .. (IF s = seg + 1 THEN 0 ELSE Segments[s].size \div Word) * Word - 1}
    BY <1>1 DEF Copied
  <2>5. Copied(a)' = {s \in 1 .. seg : a - Segments[s].addr \in
                         0 .. (Segments[s].size \div Word) * Word - 1}
    BY <2>1, <2>2, <2>3, <2>4
  <2>6. Copied(a) = {s \in 1 .. seg : a - Segments[s].addr \in
                         0 .. (Segments[s].size \div Word) * Word - 1}
    BY <2>1 DEF Copied
  <2>7. QED
    BY <2>5, <2>6
<1>4. Memory' = Memory
  BY <1>1, MemoryUnseen
<1>5. LoadedExactly'
  BY <1>1, <1>3, <1>4, LoadedStays DEF LoadingOK
<1>6. QED
  BY <1>1, <1>5 DEF LoadingOK

(* A word arrives: it is the last that was copied to its addresses. *)
LEMMA PerformLoads ==
    ASSUME MInv, LoadingOK, Perform, stage = "load"
    PROVE  LoadingOK'
<1>1. /\ access # Idle /\ faults = <<>> /\ access' = Idle
      /\ word' = word + 1 /\ UNCHANGED <<faults, stage, seg, snapshot>>
  BY DEF Perform
<1>2. access.addr = WordAddr /\ access.cells = WordCells
  BY <1>1 DEF LoadingOK
<1>3. word < Words(seg)
  BY <1>1 DEF MInv, IInv, LoaderOK
<1>4. /\ seg \in 1 .. Len(Segments) /\ word \in Nat
      /\ Segments[seg].addr \in Nat
      /\ WordAddr \in Nat /\ Len(WordCells) = Word
      /\ \A i \in 1 .. Word : WordCells[i] = Segments[seg].bytes[word * Word + i]
  BY <1>3, WordOfSegment DEF MInv, IInv
<1>5. seg \in Nat \ {0} /\ Word \in Nat \ {0} /\ word * Word \in Nat
  BY <1>4, VmasFit, ShapeOK
<1>6. PICK w : w = word * Word
  OBVIOUS
<1>7. PICK b : b = Segments[seg].addr
  OBVIOUS
<1>8. w \in Nat /\ b \in Nat /\ WordAddr = b + w /\ (word + 1) * Word = w + Word
  BY <1>4, <1>5, <1>6, <1>7 DEF WordAddr
<1>9. ASSUME NEW a \in Addresses
      PROVE  Memory'[a] = LoadedByte(Copied(a)', a)
  <2>1. a \in Nat
    BY AddressParts
  <2>2. Memory'[a] = IF a - (b + w) \in 0 .. Word - 1
                     THEN WordCells[a - (b + w) + 1] ELSE Memory[a]
    BY <1>2, <1>4, <1>8, PerformSeen
  <2>3. Copied(a)' =
          {s \in 1 .. seg : a - Segments[s].addr \in
             0 .. (IF s = seg THEN word + 1 ELSE Segments[s].size \div Word) * Word - 1}
    BY <1>1 DEF Copied
  <2>4. CASE a - (b + w) \in 0 .. Word - 1
    <3>1. a - b \in 0 .. (w + Word) - 1
      BY <1>5, <1>8, <2>1, <2>4
    <3>2. seg \in Copied(a)'
      <4>1. seg \in 1 .. seg
        BY <1>5
      <4>2. a - Segments[seg].addr \in 0 .. (word + 1) * Word - 1
        BY <1>7, <1>8, <3>1
      <4>3. QED
        BY <2>3, <4>1, <4>2
    <3>3. \A s \in Copied(a)' : s \in Nat /\ s <= seg
      BY <1>5, <2>3
    <3>4. Latest(Copied(a)') = seg
      <4>1. PICK C : C = Copied(a)'
        OBVIOUS
      <4>2. \E s \in C : \A r \in C : r <= s
        BY <3>2, <3>3, <4>1
      <4>3. Latest(C) \in C /\ \A r \in C : r <= Latest(C)
        BY <4>2 DEF Latest
      <4>4. /\ Latest(C) \in Nat /\ Latest(C) <= seg
            /\ seg <= Latest(C)
        BY <3>2, <3>3, <4>1, <4>3
      <4>5. Latest(C) = seg
        BY <1>5, <4>4
      <4>6. QED
        BY <4>1, <4>5, Zenon
    <3>5. LoadedByte(Copied(a)', a) = Segments[seg].bytes[a - b + 1]
      BY <1>7, <3>2, <3>4 DEF LoadedByte, ByteOf
    <3>6. PICK i \in 1 .. Word : i = a - (b + w) + 1
      BY <1>5, <1>8, <2>1, <2>4
    <3>7. w + i = a - b + 1
      BY <1>8, <2>1, <3>6
    <3>8. WordCells[i] = Segments[seg].bytes[a - b + 1]
      BY <1>4, <1>6, <3>7
    <3>9. QED
      BY <2>2, <2>4, <3>5, <3>6, <3>8
  <2>5. CASE a - (b + w) \notin 0 .. Word - 1
    <3>1. a - b \in 0 .. (w + Word) - 1 <=> a - b \in 0 .. w - 1
      BY <1>5, <1>8, <2>1, <2>5
    <3>2. Copied(a) =
            {s \in 1 .. seg : a - Segments[s].addr \in
               0 .. (IF s = seg THEN word ELSE Segments[s].size \div Word) * Word - 1}
      BY DEF Copied
    <3>3. ASSUME NEW s \in 1 .. seg PROVE s \in Copied(a)' <=> s \in Copied(a)
      <4>1. CASE s = seg
        BY <1>6, <1>7, <1>8, <2>3, <3>1, <3>2, <4>1
      <4>2. CASE s # seg
        BY <2>3, <3>2, <4>2
      <4>3. QED
        BY <4>1, <4>2
    <3>4. Copied(a)' = Copied(a)
      BY <2>3, <3>2, <3>3
    <3>5. Memory[a] = LoadedByte(Copied(a), a)
      BY LoadedIs DEF LoadingOK
    <3>6. QED
      BY <2>2, <2>5, <3>4, <3>5
  <2>6. QED
    BY <2>4, <2>5
<1>10. LoadedExactly'
  <2>1. LoadedExactly' <=>
           (stage' = "load" => \A a \in Addresses : Memory'[a] = LoadedByte(Copied(a)', a))
    BY DEF LoadedExactly, LoadedByte, ByteOf, Latest, Addresses
  <2>2. QED
    BY <1>9, <2>1
<1>11. QED
  BY <1>1, <1>10 DEF LoadingOK

(* A word never looks marked for copying. *)
LEMMA LoaderNeverCopies ==
    ASSUME MInv, LoadingOK, stage = "load"
    PROVE  ~ BeginCopy /\ ~ FinishCopy
<1>1. ~ Copying
  <2> SUFFICES ASSUME Copying PROVE FALSE
    OBVIOUS
  <2>1. Outer.copy \in 1 .. Frames /\ faults # <<>>
    BY TopCopies DEF MInv, IInv, Copying
  <2>2. QED
    BY <2>1 DEF LoadingOK, Outer
<1>2. ASSUME BeginCopy PROVE FALSE
  <2>1. faults # <<>> /\ cowBitSet(Top.addr)
    BY <1>2 DEF BeginCopy, Handling
  <2>2. Top = Outer
    BY <1>1, <2>1, TopHandles DEF MInv, IInv
  <2>3. Outer.addr = access.addr /\ access # Idle
    BY <2>1, FaultingPage DEF MInv, MemoryOK
  <2>4. access.addr = WordAddr /\ word < Words(seg)
    BY <2>3 DEF LoadingOK, MInv, IInv, LoaderOK
  <2>5. WordAddr \in Nat /\ WordAddr % Word = 0
    BY <2>4, WordOfSegment DEF MInv, IInv
  <2>6. (WordAddr % PageSize) % Word = 0
    BY <2>5, WordInPage
  <2>7. WordAddr % PageSize \in CowOffsets
    BY <2>1, <2>2, <2>3, <2>4 DEF cowBitSet
  <2>8. QED
    BY <2>6, <2>7, AccessesFit
<1>3. QED
  BY <1>1, <1>2 DEF FinishCopy

(* Faults, mapping and evictions do not disturb the loader.                  *)
LEMMA OthersLoad ==
    ASSUME MInv, LoadingOK, stage = "load",
           \/ CopyWord \/ MapPage \/ Fault \/ UNCHANGED vars
           \/ \E p \in DOMAIN tlb : Evict(p)
    PROVE  LoadingOK'
<1>1. UNCHANGED <<stage, seg, word>>
  BY DEF CopyWord, MapPage, Fault, Evict, loader, vars
<1>2. DOMAIN snapshot' = {}
  BY DEF LoadingOK, CopyWord, MapPage, Fault, Evict, vars
<1>3. faults' # <<>> => faults'[1].copy = 0
  <2>1. CASE UNCHANGED faults
    BY <2>1 DEF LoadingOK
  <2>2. CASE MapPage
    BY <2>2, MapPageReturns DEF MInv, LoadingOK
  <2>3. CASE Fault
    <3>1. ~ Copying
      <4>1. SUFFICES ASSUME Copying PROVE FALSE
        OBVIOUS
      <4>2. Outer.copy \in 1 .. Frames /\ faults # <<>>
        BY <4>1, TopCopies DEF MInv, IInv, Copying
      <4>3. QED
        BY <4>2 DEF LoadingOK, Outer
    <3>2. faults = <<>> /\ faults' = Append(faults, [addr |-> Current, copy |-> 0])
      BY <2>3, <3>1 DEF Fault
    <3>3. PICK f : f = [addr |-> Current, copy |-> 0]
      OBVIOUS
    <3>4. faults'[1] = f
      BY <3>2, <3>3, EmptySequence, AppendSequence
    <3>5. QED
      BY <3>3, <3>4
  <2>4. QED
    BY <2>1, <2>2, <2>3 DEF CopyWord, Evict, vars
<1>4. access' # Idle => access' = [addr |-> WordAddr, cells |-> WordCells]
  <2>1. CASE CopyWord
    BY <2>1 DEF CopyWord, WordAddr, WordCells
  <2>2. CASE ~ CopyWord
    <3>1. UNCHANGED access
      BY <2>2 DEF MapPage, Fault, Evict, vars
    <3>2. QED
      BY <3>1 DEF LoadingOK
  <2>3. QED
    BY <2>1, <2>2
<1>5. Memory' = Memory
  <2>1. CASE MapPage
    BY <2>1, MapPageSeen
  <2>2. ASSUME NEW p \in DOMAIN tlb, Evict(p) PROVE Memory' = Memory
    <3>1. p \notin DOMAIN snapshot
      BY DEF LoadingOK
    <3>2. \A q \in PagesOfSpace, o \in 0 .. PageSize - 1 :
             Holds(q, o)' = Holds(q, o)
      BY <2>2, <3>1, EvictSeen
    <3>3. QED
      BY <3>2, SameMemory
  <2>3. CASE CopyWord \/ Fault \/ UNCHANGED vars
    <3>1. UNCHANGED <<tables, data, tlb>>
      BY <2>3 DEF CopyWord, Fault, vars, kernel
    <3>2. QED
      BY <3>1, MemoryUnseen
  <2>4. QED
    BY <2>1, <2>2, <2>3
<1>6. \A a \in Addresses : Copied(a)' = Copied(a)
  BY <1>1 DEF Copied
<1>7. LoadedExactly'
  BY <1>5, <1>6, LoadedStays DEF LoadingOK
<1>8. WordAddr' = WordAddr /\ WordCells' = WordCells
  BY <1>1 DEF WordAddr, WordCells
<1>9. QED
  BY <1>1, <1>2, <1>3, <1>4, <1>7, <1>8 DEF LoadingOK

(* The invariant of the loader is inductive with that of memory. *)
LEMMA LoadingKept == MInv /\ LoadingOK /\ [Next]_vars => LoadingOK'
<1> SUFFICES ASSUME MInv, LoadingOK, [Next]_vars, stage = "load", stage' = "load"
             PROVE  LoadingOK'
  <2>1. ASSUME MInv, [Next]_vars, stage' = "load" PROVE stage = "load"
    BY <2>1 DEF Next, Load, Handle, NextSegment, CopyWord, EnterProgram,
                RejectAddress, MapPage, BeginCopy, FinishCopy, RunOut, Perform,
                Fault, Fork, Issue, Evict, loader, vars
  <2>2. QED
    BY <2>1 DEF LoadingOK
<1>1. CASE Load
  BY <1>1, NextSegmentLoads, OthersLoad DEF Load, EnterProgram
<1>2. CASE Handle
  BY <1>2, LoaderNeverCopies, OthersLoad DEF Handle, RejectAddress, RunOut
<1>3. CASE Perform
  BY <1>3, PerformLoads
<1>4. CASE Fault \/ UNCHANGED vars \/ \E p \in DOMAIN tlb : Evict(p)
  BY <1>4, OthersLoad
<1>5. ~ Fork /\ ~ \E a \in Accesses : Issue(a)
  BY DEF Fork, Issue
<1>6. QED
  BY <1>1, <1>2, <1>3, <1>4, <1>5 DEF Next

(* Up to its last instruction the loader has put exactly the whole words of  *)
(* the program headers into memory, p_memsz bytes of the file each, whatever *)
(* pages it faulted in on the way; the bytes behind the last word are zero.  *)
THEOREM LoaderIsExact == Spec => []LoadedExactly
<1>1. Init => LoadingOK
  BY InitLoading
<1>2. MInv /\ LoadingOK /\ [Next]_vars => LoadingOK'
  BY LoadingKept
<1>3. LoadingOK => LoadedExactly
  BY DEF LoadingOK, LoadedExactly
<1>4. QED
  BY <1>1, <1>2, <1>3, AlwaysMInv, PTL DEF Spec
=============================================================================

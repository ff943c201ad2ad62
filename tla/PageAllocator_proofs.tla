------------------------- MODULE PageAllocator_proofs -------------------------
(***************************************************************************)
(* For every memory map that meets LayoutOK: type correctness of the page  *)
(* allocator; and, with AlignmentOK, what it hands out.                    *)
(*                                                                         *)
(* Next to TypeOK the first inductive invariant, BootInv, counts what the  *)
(* populating loops have covered, because the later phases index the table *)
(* up to the descriptor at newPhysfree.                                    *)
(*                                                                         *)
(* The second, SafeInv, follows the free list.  Its descriptors, from the  *)
(* first free one to the last remapped one, stay as populating made them   *)
(* although frames are cleared, because every frame on the list lies       *)
(* behind newPhysfree and they lie before it; descriptor i of the list is  *)
(* that of Frame(i), so that the list is an arithmetic progression; and    *)
(* the answers are its initial segments, one behind the other, up to the   *)
(* descriptor at the head.                                                 *)
(***************************************************************************)
EXTENDS PageAllocator, WellFoundedInduction, FiniteSetTheorems, TLAPS

Populating == pc \in {"available", "hole", "last"}

F == firstFreeLocation
LM == LastMapped
N == Len(descs)

(* Ragged ends of regions and holes lose at most one descriptor each. *)
Lost == IF pc = "hole" THEN 2 * region - 1 ELSE 2 * region - 2

(* The cursor of the populating loops: which call it is in, how many         *)
(* descriptors it has made, and that the first free one is met before the    *)
(* end of the last region.                                                   *)
PopulateInv ==
    Populating =>
        /\ (region = LastRegion) <=> (pc = "last")
        /\ s - layout.start[1] <= PageSize * (N + Lost)
        /\ pc = "last" /\ F = 0 => s <= Limit + PageSize

(* The table reaches beyond the descriptor at newPhysfree, and the loops of  *)
(* mapKernel and mapEntireMemory stay within it and within a page table.     *)
TableInv ==
    /\ F \in 0 .. N
    /\ ~Populating => F # 0 /\ N > LM
    /\ Populating \/ pc \in {"exclude", "pagingSetup"} => va = 0 /\ pteOff = 0
    /\ pc = "mapKernel" => ptr = PhysBase + va /\ va = PageSize * pteOff
    /\ pc = "mapEntireMemory" => ptr >= 1

BootInv == TypeOK /\ PopulateInv /\ TableInv

-----------------------------------------------------------------------------
(* Arithmetic the prover needs one step at a time                            *)

(* Multiplication by a natural number is monotone. *)
LEMMA MulMonotone ==
    ASSUME NEW k \in Int, NEW a \in Int, NEW b \in Int, k >= 0, a <= b
    PROVE  k * a <= k * b
<1>1. PICK d \in Nat : b = a + d
  <2>1. b - a \in Nat /\ b = a + (b - a)
    OBVIOUS
  <2> QED BY <2>1
<1>2. k * b = k * a + k * d
  BY <1>1
<1>3. k * d >= 0
  BY <1>1
<1> QED BY <1>2, <1>3

(* It can be cancelled. *)
LEMMA MulCancel ==
    ASSUME NEW k \in Int, NEW a \in Int, NEW b \in Int, k >= 1, k * a < k * b
    PROVE  a < b
<1> SUFFICES ASSUME b <= a PROVE FALSE
  OBVIOUS
<1>1. k * b <= k * a
  BY MulMonotone
<1> QED BY <1>1

(* What an integer quotient is. *)
LEMMA DivisionFloors ==
    ASSUME NEW a \in Nat, NEW b \in Nat \ {0}
    PROVE  a \div b \in Nat /\ b * (a \div b) <= a
OBVIOUS

(* What LayoutOK says of the layout in use. *)
LayoutFacts ==
    /\ LastRegion \in Nat \ {0}
    /\ layout.start \in [1 .. LastRegion -> Nat]
    /\ layout.end \in [1 .. LastRegion -> Nat]
    /\ layout.start[1] \in Nat
    /\ \A i \in 1 .. LastRegion :
          layout.start[i] <= layout.end[i] /\ layout.start[i] <= PhysBase
    /\ \A i \in 1 .. LastRegion - 1 :
          layout.end[i] <= layout.start[i + 1] /\ layout.end[i] <= PhysBase
    /\ Limit \in Nat /\ PhysBase < Limit
    /\ Limit + 2 * PageSize <= layout.end[LastRegion]
    /\ layout.physfree \in Nat
    /\ layout.physfree <= Limit /\ PhysBase <= layout.physfree
    /\ LM \in Nat /\ LM = Limit - layout.physfree + 1

(* A table that covers all but the tail of the last region, with two         *)
(* descriptors lost per earlier region, is longer than the image is large.   *)
Covering(n) ==
    layout.end[LastRegion] - PageSize - layout.start[1]
        < PageSize * (n + (2 * LastRegion - 2))

(* What LayoutOK says of the layout in use. *)
LEMMA LayoutInUse ==
    ASSUME TypeOK
    PROVE  /\ LayoutFacts
           /\ Limit - PhysBase < PtEntries * PageSize
           /\ Limit - layout.start[1] <= PageSize * (LM - 14)
           /\ \A n \in Nat : Covering(n) => n > LM
<1> DEFINE last == LastRegion
           total == layout.end[last] - layout.start[1]
<1>1. LayoutOK(layout)
  BY LayoutsOK DEF TypeOK
<1> HIDE DEF last, total
<1>2. /\ last \in Nat \ {0}
      /\ layout.start \in [1 .. last -> Nat] /\ layout.end \in [1 .. last -> Nat]
      /\ Len(layout.end) = last
      /\ layout.start[1] <= PhysBase
      /\ layout.physfree \in Nat
      /\ PhysBase + 2 * last + 2 <= layout.physfree
      /\ layout.physfree <= Limit
      /\ Limit + 2 * PageSize <= layout.end[last]
  BY <1>1 DEF LayoutOK, LastRegion, Limit, last
<1>a. /\ PageSize \in Nat \ {0} /\ PhysBase \in Nat
      /\ layout.start[1] \in Nat /\ layout.end[last] \in Nat
  BY <1>2, ConstantsOK DEF ConstantsOK
<1>b. total \in Int /\ total = layout.end[last] - layout.start[1]
  BY <1>a DEF total
<1>c. Limit = PhysBase + (total \div PageSize) + 1
  BY <1>2 DEF Limit, NewPhysfree, total
<1>d. Limit \in Int
  BY <1>a, <1>b, <1>c
<1>3. total \in Nat
  <2>1. PICK first \in Nat, end \in Nat :
            first = layout.start[1] /\ end = layout.end[last]
    BY <1>a
  <2>2. first <= Limit
    <3>1. PICK pf \in Nat : pf = layout.physfree
      BY <1>2
    <3>2. last \in Nat /\ first <= PhysBase /\ PhysBase + 2 * last + 2 <= pf
          /\ pf <= Limit
      BY <1>2, <2>1, <3>1
    <3> QED BY <3>2, <1>a, <1>d
  <2>3. Limit + 2 * PageSize <= end
    BY <1>2, <2>1
  <2>4. first <= end
    BY <2>2, <2>3, <1>a, <1>d
  <2> QED BY <1>b, <2>1, <2>4
<1>4. total \div PageSize \in Nat /\ PageSize * (total \div PageSize) <= total
  BY <1>a, <1>3, DivisionFloors
<1>5. LM = Limit - layout.physfree + 1
  BY DEF LM, LastMapped, Mapped, Limit
<1>6. ASSUME NEW n \in Nat, Covering(n)
      PROVE  n > LM
  <2>1. PICK q \in Nat : q = total \div PageSize
    BY <1>4
  <2>2. PageSize * q <= total /\ PageSize * (q - 1) = PageSize * q - PageSize
    BY <2>1, <1>a, <1>4
  <2>3. PICK m \in Int : m = n + (2 * last - 2)
    BY <1>2
  <2>4. layout.end[last] - PageSize - layout.start[1] < PageSize * m
    BY <1>6, <2>3 DEF Covering, last
  <2>5. PageSize * (q - 1) < PageSize * m
    BY <2>2, <2>4, <1>a, <1>b
  <2>6. q - 1 < m
    BY <2>5, <1>a, MulCancel
  <2>7. Limit = PhysBase + q + 1
    BY <2>1, <1>c
  <2>8. layout.physfree \in Nat /\ PhysBase \in Nat
    BY <1>2, <1>a
  <2>9. LM = PhysBase + q + 2 - layout.physfree
    BY <2>7, <2>8, <1>5
  <2> QED BY <2>3, <2>6, <2>9, <1>a, <1>2
<1>7. LM \in Nat /\ Limit \in Nat /\ PhysBase < Limit
  <2>1. PICK free \in Nat : free = layout.physfree
    BY <1>2
  <2>2. PICK lim \in Int : lim = Limit
    BY <1>d
  <2>3. PhysBase < free /\ free <= lim
    BY <2>1, <2>2, <1>2, <1>a
  <2>4. LM = lim - free + 1
    BY <2>1, <2>2, <1>5
  <2> QED BY <2>2, <2>3, <2>4, <1>a
<1>8. /\ \A i \in 1 .. last :
            layout.start[i] <= layout.end[i] /\ layout.start[i] <= PhysBase
      /\ \A i \in 1 .. last - 1 :
            layout.end[i] <= layout.start[i + 1] /\ layout.end[i] <= PhysBase
  BY <1>1 DEF LayoutOK, LastRegion, last
<1>9. PhysBase <= layout.physfree
  BY <1>2, <1>a
<1>10. LayoutFacts
  BY <1>2, <1>a, <1>5, <1>7, <1>8, <1>9 DEF LayoutFacts, last
<1>11. /\ Limit - PhysBase < PtEntries * PageSize
       /\ Limit - layout.start[1] <= PageSize * (LM - 14)
  BY <1>1 DEF LayoutOK, Limit, LM, LastMapped
<1> QED
  BY <1>6, <1>10, <1>11

-----------------------------------------------------------------------------
(* Boot: the descriptor table                                                *)

(* The invariant holds before the first descriptor is made. *)
LEMMA InitBootInv == Init => BootInv
<1> SUFFICES ASSUME Init PROVE BootInv
  OBVIOUS
<1> USE ConstantsOK DEF ConstantsOK
<1>1. TypeOK
  <2>1. LayoutOK(layout)
    BY LayoutsOK DEF Init
  <2>2. region \in 1 .. LastRegion /\ s \in Nat
    BY <2>1 DEF Init, LayoutOK, LastRegion
  <2>3. descs \in Seq(Descriptor) /\ granted \in Seq(Answer)
    BY DEF Init
  <2>4. DOMAIN kpt \subseteq Int /\ \A o \in DOMAIN kpt : kpt[o] \in Nat
    BY DEF Init
  <2>5. request \in [head : Nat, count : Nat, walked : Nat]
    BY DEF Init, NoRequest
  <2>6. /\ layout \in {Layout(b) : b \in BootInfos}
        /\ pc \in {"last", "available"}
    BY DEF Init
  <2>7. /\ freeListHead \in Nat /\ headVirt \in BOOLEAN
        /\ firstFreeLocation \in Nat /\ ptr \in Nat /\ va \in Nat
        /\ pteOff \in 0 .. PtEntries
    <3>1. /\ freeListHead = 0 /\ headVirt = FALSE /\ firstFreeLocation = 0
          /\ ptr = 0 /\ pteOff = 0 /\ va = 0
      BY DEF Init
    <3>2. /\ freeListHead \in Nat /\ firstFreeLocation \in Nat
          /\ ptr \in Nat /\ va \in Nat /\ pteOff \in 0 .. PtEntries
      BY <3>1
    <3>3. headVirt \in BOOLEAN
      BY <3>1
    <3> QED BY <3>2, <3>3
  <2> QED BY <2>2, <2>3, <2>4, <2>5, <2>6, <2>7 DEF TypeOK
<1>2. N = 0 /\ F = 0 /\ Lost = 0 /\ Populating
  BY DEF Init, N, F, Lost, Populating
<1>3. PopulateInv
  <2>0. LayoutFacts
    BY <1>1, LayoutInUse
  <2>1. layout.start[1] \in Nat /\ layout.start[1] <= PhysBase /\ PhysBase < Limit
    BY <2>0 DEF LayoutFacts
  <2>2. (region = LastRegion) <=> (pc = "last")
    BY DEF Init, LastRegion
  <2>3. s - layout.start[1] = 0 /\ PageSize * (N + Lost) = 0
    BY <1>2, <2>1 DEF Init
  <2>4. Limit \in Nat /\ s = layout.start[1]
    BY <2>0 DEF LayoutFacts, Init
  <2>5. s <= Limit + PageSize
    BY <2>1, <2>4
  <2> QED BY <2>2, <2>3, <2>5 DEF PopulateInv
<1>4. TableInv
  BY <1>2 DEF Init, TableInv
<1> QED BY <1>1, <1>3, <1>4 DEF BootInv

(* The numbers of the invariant. *)
LEMMA Numbers ==
    ASSUME BootInv
    PROVE  /\ TypeOK /\ LayoutFacts
           /\ F \in 0 .. N /\ N \in Nat /\ s \in Nat
           /\ region \in 1 .. LastRegion /\ LastRegion \in Nat \ {0}
           /\ layout.start[1] \in Nat /\ Limit \in Nat /\ LM \in Nat
           /\ PageSize \in Nat \ {0} /\ PhysBase \in Nat
<1>1. TypeOK /\ LayoutFacts /\ F \in 0 .. N
  BY LayoutInUse DEF BootInv, TableInv
<1>2. N \in Nat /\ s \in Nat /\ region \in 1 .. LastRegion
  BY <1>1 DEF TypeOK, N
<1>3. /\ LastRegion \in Nat \ {0}
      /\ layout.start[1] \in Nat /\ Limit \in Nat /\ LM \in Nat
  BY <1>1 DEF LayoutFacts
<1>4. PageSize \in Nat \ {0} /\ PhysBase \in Nat
  BY ConstantsOK DEF ConstantsOK
<1> QED BY <1>1, <1>2, <1>3, <1>4

(* One descriptor more brings the cursor one page on. *)
LEMMA PopulateKeepsBootInv ==
    ASSUME BootInv, PopulatePageDescriptor
    PROVE  BootInv'
<1> USE ConstantsOK DEF ConstantsOK
<1> DEFINE d == [startAddress |-> s, isAvailable |-> pc # "hole",
                 isfree |-> s > Limit, nextFree |-> N + 2, virt |-> FALSE]
<1>1. /\ TypeOK /\ LayoutFacts /\ Populating /\ F \in 0 .. N
      /\ s \in Nat /\ N \in Nat /\ region \in Nat \ {0} /\ PageSize \in Nat
  <2>1. Populating
    BY DEF PopulatePageDescriptor, Populating
  <2>2. region \in Nat \ {0}
    BY Numbers
  <2> QED BY <2>1, <2>2, Numbers
<1>2. /\ s' = s + PageSize
      /\ F' = IF s > Limit /\ F = 0 THEN N + 1 ELSE F
      /\ freeListHead' = IF s > Limit /\ F = 0 THEN N + 1 ELSE freeListHead
  BY DEF PopulatePageDescriptor, F, N
<1>3. descs' = Append(descs, d)
  BY DEF PopulatePageDescriptor, N
<1>4. d \in Descriptor
  BY <1>1 DEF Descriptor
<1>5. descs' \in Seq(Descriptor) /\ N' = N + 1
  <2>1. descs \in Seq(Descriptor)
    BY <1>1 DEF TypeOK
  <2> HIDE DEF d
  <2> QED BY <2>1, <1>3, <1>4 DEF N
<1>6. TypeOK'
  <2>1. s' \in Nat /\ freeListHead' \in Nat /\ F' \in Nat
    BY <1>1, <1>2 DEF TypeOK
  <2>2. firstFreeLocation' \in Nat
    BY <2>1 DEF F
  <2> QED BY <1>1, <1>5, <2>1, <2>2 DEF TypeOK, PopulatePageDescriptor, LastRegion
<1>7. PopulateInv'
  <2>1. (region' = LastRegion') <=> (pc' = "last")
    BY <1>1 DEF BootInv, PopulateInv, PopulatePageDescriptor, LastRegion
  <2>2. s' - layout'.start[1] <= PageSize * (N' + Lost')
    <3>1. Lost' = Lost /\ Lost \in Int /\ layout' = layout
      BY <1>1 DEF PopulatePageDescriptor, Lost
    <3>2. s - layout.start[1] <= PageSize * (N + Lost)
      BY <1>1 DEF BootInv, PopulateInv
    <3>3. PICK k \in Int : k = N + Lost
      BY <1>1, <3>1
    <3>4. N' + Lost' = k + 1
      BY <1>1, <1>5, <3>1, <3>3
    <3>5. PageSize * (k + 1) = PageSize * k + PageSize
      BY <3>3
    <3>6. layout.start[1] \in Nat
      BY <1>1 DEF LayoutFacts
    <3> QED BY <1>1, <1>2, <3>1, <3>2, <3>3, <3>4, <3>5, <3>6
  <2>3. pc' = "last" /\ F' = 0 => s' <= Limit' + PageSize
    <3>1. Limit' = Limit /\ Limit \in Nat
      BY <1>1 DEF PopulatePageDescriptor, Limit, LayoutFacts
    <3>2. F' = 0 => s <= Limit
      BY <1>1, <1>2, <3>1
    <3> QED BY <1>1, <1>2, <3>1, <3>2
  <2> QED BY <2>1, <2>2, <2>3 DEF PopulateInv
<1>8. TableInv'
  <2>1. F' \in 0 .. N'
    BY <1>1, <1>2, <1>5
  <2>2. /\ pc' = pc /\ va' = va /\ pteOff' = pteOff
    BY DEF PopulatePageDescriptor
  <2>3. va = 0 /\ pteOff = 0
    BY <1>1 DEF BootInv, TableInv
  <2> QED BY <1>1, <2>1, <2>2, <2>3 DEF TableInv, Populating
<1> QED BY <1>6, <1>7, <1>8 DEF BootInv

(* From a region to the hole behind it, and to the next region. *)
LEMMA NextCallKeepsBootInv ==
    ASSUME BootInv, NextCall
    PROVE  BootInv'
<1> USE ConstantsOK DEF ConstantsOK
<1>1. /\ TypeOK /\ LayoutFacts /\ Populating /\ F \in 0 .. N
      /\ s \in Nat /\ N \in Nat /\ region \in 1 .. LastRegion
      /\ PageSize \in Nat /\ LastRegion \in Nat \ {0}
      /\ va = 0 /\ pteOff = 0
      /\ layout.start[1] \in Nat
  <2>1. Populating
    BY DEF NextCall, Populating
  <2>2. va = 0 /\ pteOff = 0
    BY <2>1 DEF BootInv, TableInv
  <2> QED BY <2>1, <2>2, Numbers
<1>2. /\ layout' = layout /\ LastRegion' = LastRegion /\ Limit' = Limit
      /\ N' = N /\ F' = F /\ LM' = LM /\ va' = va /\ pteOff' = pteOff
  BY DEF NextCall, LastRegion, Limit, N, F, LM, LastMapped
<1>3. /\ (region = LastRegion) <=> (pc = "last")
      /\ s - layout.start[1] <= PageSize * (N + Lost)
      /\ pc = "last" /\ F = 0 => s <= Limit + PageSize
  BY <1>1 DEF BootInv, PopulateInv
<1>4. ASSUME s' \in Nat, region' \in 1 .. LastRegion,
             pc' \in {"available", "hole", "last", "exclude"}
      PROVE  TypeOK'
  BY <1>1, <1>2, <1>4 DEF TypeOK, NextCall
<1>5. PICK k \in Int : k = N + Lost
  BY <1>1 DEF Lost
<1>6. PageSize * (k + 1) = PageSize * k + PageSize
  BY <1>5
<1>7. CASE pc = "available"
  <2>1. pc' = "hole" /\ s' = layout.end[region] /\ region' = region
    BY <1>7 DEF NextCall
  <2>2. region < LastRegion
    BY <1>1, <1>3, <1>7
  <2>3. layout.end[region] \in Nat
    BY <1>1 DEF LayoutFacts
  <2>4. s + PageSize > layout.end[region]
    BY <1>1, <1>7, <2>3 DEF NextCall, MorePages
  <2>5. N' + Lost' = k + 1
    BY <1>1, <1>2, <1>5, <1>7, <2>1 DEF Lost
  <2>6. s' - layout'.start[1] <= PageSize * (N' + Lost')
    BY <1>1, <1>2, <1>3, <1>5, <1>6, <2>1, <2>3, <2>4, <2>5
  <2>7. PopulateInv'
    BY <1>2, <2>1, <2>2, <2>6, <1>1 DEF PopulateInv
  <2>8. TableInv'
    BY <1>1, <1>2, <2>1 DEF TableInv, Populating
  <2> QED BY <1>1, <1>4, <2>1, <2>3, <2>7, <2>8 DEF BootInv
<1>8. CASE pc = "hole"
  <2>1. /\ pc' = IF region + 1 = LastRegion THEN "last" ELSE "available"
        /\ region' = region + 1 /\ s' = layout.start[region + 1]
    BY <1>8 DEF NextCall
  <2>2. region < LastRegion
    BY <1>1, <1>3, <1>8
  <2>3. layout.start[region + 1] \in Nat /\ layout.start[region + 1] < Limit
    <3>1. region + 1 \in 1 .. LastRegion
      BY <1>1, <2>2
    <3>2. /\ layout.start[region + 1] \in Nat
          /\ layout.start[region + 1] <= PhysBase
      BY <1>1, <3>1 DEF LayoutFacts
    <3>3. PhysBase < Limit /\ Limit \in Nat
      BY <1>1 DEF LayoutFacts
    <3> QED BY <3>2, <3>3
  <2>4. s + PageSize >= layout.start[region + 1]
    BY <1>1, <1>8, <2>3 DEF NextCall, MorePages
  <2>5. N' + Lost' = k + 1
    BY <1>1, <1>2, <1>5, <1>8, <2>1 DEF Lost
  <2>6. s' - layout'.start[1] <= PageSize * (N' + Lost')
    BY <1>1, <1>2, <1>3, <1>5, <1>6, <2>1, <2>3, <2>4, <2>5
  <2>7. s' <= Limit' + PageSize
    BY <1>1, <1>2, <2>1, <2>3 DEF LayoutFacts
  <2>8. PopulateInv'
    BY <1>2, <2>1, <2>6, <2>7 DEF PopulateInv
  <2>9. TableInv'
    BY <1>1, <1>2, <2>1 DEF TableInv, Populating
  <2> QED BY <1>1, <1>4, <2>1, <2>2, <2>3, <2>8, <2>9 DEF BootInv
<1>9. CASE pc = "last"
  <2>1. pc' = "exclude" /\ s' = s /\ region' = region
    BY <1>9 DEF NextCall
  <2>2. region = LastRegion
    BY <1>3, <1>9
  <2>3. layout.end[LastRegion] \in Nat
    BY <1>1 DEF LayoutFacts
  <2>4. s + PageSize > layout.end[LastRegion]
    BY <1>1, <1>9, <2>2, <2>3 DEF NextCall, MorePages
  <2>5. F # 0
    <3>1. Limit \in Nat /\ Limit + 2 * PageSize <= layout.end[LastRegion]
      BY <1>1 DEF LayoutFacts
    <3> QED BY <1>1, <1>3, <1>9, <2>3, <2>4, <3>1
  <2>6. Covering(N)
    <3>1. k = N + (2 * LastRegion - 2)
      BY <1>5, <1>9, <2>2 DEF Lost
    <3>2. s - layout.start[1] <= PageSize * k
      BY <1>3, <1>5
    <3> QED BY <1>1, <1>5, <2>3, <2>4, <3>1, <3>2 DEF Covering
  <2>7. N > LM
    BY <1>1, <2>6, LayoutInUse
  <2>8. PopulateInv'
    BY <2>1 DEF PopulateInv, Populating
  <2>9. TableInv'
    BY <1>1, <1>2, <2>1, <2>5, <2>7 DEF TableInv, Populating
  <2> QED BY <1>1, <1>4, <2>1, <2>8, <2>9 DEF BootInv
<1> QED BY <1>1, <1>7, <1>8, <1>9 DEF Populating

(* The actions after populating leave the loop's variables alone. *)
Settled == /\ ~Populating /\ ~Populating'
           /\ UNCHANGED <<layout, region, s, firstFreeLocation>>
           /\ N' = N

(* A step that leaves the size of the table alone keeps what is said of it. *)
LEMMA SettledKeeps ==
    ASSUME BootInv, Settled
    PROVE  /\ PopulateInv'
           /\ layout' \in {Layout(b) : b \in BootInfos}
           /\ region' \in 1 .. LastRegion' /\ s' \in Nat
           /\ firstFreeLocation' \in Nat /\ F' \in 0 .. N'
           /\ F' # 0 /\ N' > LM'
           /\ Limit' = Limit /\ LM' = LM
<1>1. PopulateInv'
  BY DEF PopulateInv, Settled
<1>2. LM' = LM /\ LastRegion' = LastRegion /\ F' = F /\ Limit' = Limit
  BY DEF Settled, LM, LastMapped, LastRegion, F, Limit
<1>3. F # 0 /\ N > LM /\ F \in 0 .. N
  BY DEF BootInv, TableInv, Settled
<1>4. N' > LM' /\ F' # 0 /\ F' \in 0 .. N'
  BY <1>2, <1>3 DEF Settled
<1> QED BY <1>1, <1>2, <1>4 DEF BootInv, TypeOK, Settled

(* A set of natural numbers has a least element. *)
LEMMA Least ==
    ASSUME NEW T, T \subseteq Nat, T # {}
    PROVE  \E j \in T : \A k \in T : j <= k
<1>1. IsWellFoundedOn(OpToRel(<, Nat), Nat)
  BY NatLessThanWellFounded
<1>2. PICK j \in T : \A k \in T : ~(<<k, j>> \in OpToRel(<, Nat))
  BY <1>1, WFMin
<1>3. \A k \in T : ~(k < j)
  BY <1>2 DEF OpToRel
<1> QED BY <1>3

(* The second pass changes no address. *)
LEMMA ExcludeKeepsBootInv ==
    ASSUME BootInv, ExcludeUnavailableMemory
    PROVE  BootInv'
<1>1. /\ pc = "exclude" /\ pc' = "pagingSetup"
      /\ UNCHANGED <<layout, region, s, firstFreeLocation>>
      /\ UNCHANGED <<freeListHead, headVirt, ptr, pteOff, va, kpt, request, granted>>
  BY DEF ExcludeUnavailableMemory
<1>2. \A i \in Nat : NextAvailable(i) \in Nat
  <2> TAKE i \in Nat
  <2> DEFINE later == {j \in i + 1 .. N : descs[j].isAvailable}
  <2>1. NextAvailable(i) =
           IF later = {} THEN 0 ELSE CHOOSE j \in later : \A k \in later : j <= k
    BY DEF NextAvailable, N
  <2>2. later \subseteq Nat
    BY Numbers
  <2>3. later # {} => \E j \in later : \A k \in later : j <= k
    <3> HIDE DEF later
    <3> QED BY <2>2, Least
  <2>4. ASSUME later # {} PROVE NextAvailable(i) \in later
    <3>1. NextAvailable(i) = CHOOSE j \in later : \A k \in later : j <= k
      BY <2>1, <2>4
    <3> HIDE DEF later
    <3> QED BY <3>1, <2>3, <2>4
  <2> QED BY <2>1, <2>2, <2>4
<1>3. descs' \in Seq(Descriptor) /\ N' = N
  <2>1. DOMAIN descs = 1 .. N /\ N \in Nat
        /\ \A i \in 1 .. N : descs[i] \in Descriptor
    <3>1. descs \in Seq(Descriptor)
      BY Numbers DEF TypeOK
    <3> QED BY <3>1 DEF N
  <2>2. \A i \in 1 .. N :
           [descs[i] EXCEPT !.nextFree = NextAvailable(i)] \in Descriptor
    <3>1. \A r \in Descriptor, n \in Nat : [r EXCEPT !.nextFree = n] \in Descriptor
      BY DEF Descriptor
    <3> QED BY <2>1, <1>2, <3>1
  <2>3. descs' \in [1 .. N -> Descriptor]
    BY <2>1, <2>2 DEF ExcludeUnavailableMemory
  <2> QED BY <2>1, <2>3 DEF N
<1>4. Settled
  BY <1>1, <1>3 DEF Settled, Populating
<1>5. va = 0 /\ pteOff = 0
  BY <1>1 DEF BootInv, TableInv
<1>6. TableInv'
  BY <1>1, <1>4, <1>5, SettledKeeps DEF TableInv, Settled
<1>7. TypeOK'
  BY <1>1, <1>3, <1>4, SettledKeeps, Numbers DEF TypeOK
<1> QED BY <1>4, <1>6, <1>7, SettledKeeps DEF BootInv

(* Clearing leaves descriptors. *)
LEMMA ClearTyped ==
    ASSUME NEW ds \in Seq(Descriptor), NEW frames
    PROVE  Clear(ds, frames) \in Seq(Descriptor) /\ Len(Clear(ds, frames)) = Len(ds)
<1>1. Zeroed \in Descriptor
  BY DEF Zeroed, Descriptor
<1>2. Len(ds) \in Nat /\ DOMAIN ds = 1 .. Len(ds)
      /\ \A i \in 1 .. Len(ds) : ds[i] \in Descriptor
  OBVIOUS
<1>3. /\ DOMAIN Clear(ds, frames) = 1 .. Len(ds)
      /\ \A i \in 1 .. Len(ds) : Clear(ds, frames)[i] \in Descriptor
  BY <1>1, <1>2 DEF Clear
<1>4. Clear(ds, frames) \in [1 .. Len(ds) -> Descriptor]
  <2>1. Clear(ds, frames) = [i \in 1 .. Len(ds) |-> Clear(ds, frames)[i]]
    BY <1>2 DEF Clear
  <2> HIDE DEF Clear
  <2> QED BY <1>3, <2>1
<1> QED BY <1>2, <1>4

(* So does unlinking the head. *)
LEMMA HeadTakenTyped ==
    ASSUME descs \in Seq(Descriptor), freeListHead \in DOMAIN descs
    PROVE  HeadTaken \in Seq(Descriptor) /\ Len(HeadTaken) = Len(descs)
<1> DEFINE d == descs[freeListHead]
<1>1. d \in Descriptor
  OBVIOUS
<1>2. [d EXCEPT !.isfree = FALSE] \in Descriptor
  BY <1>1 DEF Descriptor
<1>3. HeadTaken = [descs EXCEPT ![freeListHead] = [d EXCEPT !.isfree = FALSE]]
  BY DEF HeadTaken
<1> QED BY <1>2, <1>3

(* What is noted of an answer. *)
LEMMA GrantTyped ==
    ASSUME TypeOK, NEW head \in Nat, NEW n \in Nat, Writable(head, n)
    PROVE  Grant(head, n) \in Answer
<1>1. PageSize \in Nat /\ PhysBase \in Nat
  BY ConstantsOK DEF ConstantsOK
<1>2. Offsets(head, n) \subseteq Int
  BY <1>1 DEF Offsets
<1>3. \A o \in Offsets(head, n) : Paged => kpt[o] \in Int
  BY DEF TypeOK, Writable
<1>4. Cleared(head, n) \subseteq Int
  BY <1>1, <1>2, <1>3 DEF Cleared
<1> QED BY <1>4 DEF Grant, Answer

(* getFreePage leaves table, head and answers well typed. *)
LEMMA GetFreePageTyped ==
    ASSUME TypeOK, GetFreePage
    PROVE  /\ descs' \in Seq(Descriptor) /\ N' = N
           /\ freeListHead' \in Nat /\ headVirt' \in BOOLEAN
           /\ granted' \in Seq(Answer)
<1> DEFINE d == descs[freeListHead]
<1>1. freeListHead \in 1 .. N /\ descs \in Seq(Descriptor)
  BY DEF GetFreePage, HeadUsable, TypeOK, N
<1>2. d \in Descriptor
  BY <1>1 DEF N
<1>3. /\ d.startAddress \in Nat /\ d.nextFree \in Nat /\ d.virt \in BOOLEAN
  BY <1>2 DEF Descriptor
<1>4. freeListHead' \in Nat /\ headVirt' \in BOOLEAN
  BY <1>3 DEF GetFreePage
<1>5. HeadTaken \in Seq(Descriptor) /\ Len(HeadTaken) = N
  BY <1>1, HeadTakenTyped DEF N
<1>6. descs' \in Seq(Descriptor) /\ N' = N
  BY <1>5, ClearTyped DEF GetFreePage, N
<1>7. PageSize \in Nat /\ PhysBase \in Nat
  BY ConstantsOK DEF ConstantsOK
<1>8. Grant(d.startAddress, 1) \in Answer
  BY <1>3, GrantTyped DEF GetFreePage
<1> QED
  <2>1. granted \in Seq(Answer)
    BY DEF TypeOK
  <2>2. granted' = Append(granted, Grant(d.startAddress, 1))
    BY DEF GetFreePage
  <2> QED BY <1>4, <1>6, <1>8, <2>1, <2>2

-----------------------------------------------------------------------------
(* The kernel's page tables and the requests: the table keeps its length.    *)

(* The paging pages. *)
LEMMA PagingSetupKeepsBootInv ==
    ASSUME BootInv, PagingSetup
    PROVE  BootInv'
<1>1. /\ pc = "pagingSetup" /\ pc' \in {"pagingSetup", "mapKernel"}
      /\ pc' = "mapKernel" => ptr' = PhysBase
      /\ pc' = "pagingSetup" => ptr' = ptr
      /\ UNCHANGED <<layout, region, s, firstFreeLocation, pteOff, va, kpt,
                     request>>
      /\ GetFreePage
  BY DEF PagingSetup
<1>2. /\ descs' \in Seq(Descriptor) /\ N' = N
      /\ freeListHead' \in Nat /\ headVirt' \in BOOLEAN
      /\ granted' \in Seq(Answer)
  BY <1>1, GetFreePageTyped DEF BootInv
<1>3. Settled
  BY <1>1, <1>2 DEF Settled, Populating
<1>4. va = 0 /\ pteOff = 0
  BY <1>1 DEF BootInv, TableInv
<1>5. ptr' \in Nat
  BY <1>1, Numbers DEF TypeOK
<1>6. TypeOK'
  BY <1>1, <1>2, <1>3, <1>5, SettledKeeps, Numbers DEF TypeOK
<1>7. TableInv'
  <2>1. PhysBase = PhysBase + 0 /\ 0 = PageSize * 0
    BY Numbers
  <2> QED BY <1>1, <1>3, <1>4, <2>1, SettledKeeps DEF TableInv, Settled
<1> QED BY <1>3, <1>6, <1>7, SettledKeeps DEF BootInv

(* The mapping maps offsets to addresses. *)
LEMMA MapToTyped ==
    ASSUME TypeOK, NEW o \in Int, NEW p \in Nat, MapTo(o, p)
    PROVE  DOMAIN kpt' \subseteq Int /\ \A x \in DOMAIN kpt' : kpt'[x] \in Nat
BY DEF TypeOK, MapTo

(* mapKernel stays inside its page table. *)
LEMMA MapKernelKeepsBootInv ==
    ASSUME BootInv, MapKernel
    PROVE  BootInv'
<1>1. /\ pc = "mapKernel" /\ pc' \in {"mapKernel", "mapVideoCard"}
      /\ UNCHANGED <<layout, region, s, descs, freeListHead, headVirt,
                     firstFreeLocation, request, granted>>
  BY DEF MapKernel
<1>2. Settled
  BY <1>1 DEF Settled, Populating, N
<1>3. /\ ptr = PhysBase + va /\ va = PageSize * pteOff
      /\ ptr \in Nat /\ va \in Nat /\ pteOff \in 0 .. PtEntries
  BY <1>1 DEF BootInv, TableInv, TypeOK
<1>4. CASE ptr <= Limit
  <2>1. /\ MapTo(va, ptr) /\ va' = va + PageSize /\ pteOff' = pteOff + 1
        /\ ptr' = ptr + PageSize /\ pc' = pc
    BY <1>4 DEF MapKernel
  <2>2. pteOff < PtEntries
    <3>1. Limit - PhysBase < PageSize * PtEntries
      BY LayoutInUse, Numbers, ConstantsOK DEF ConstantsOK
    <3>2. PtEntries \in Int /\ pteOff \in Int
      BY <1>3, ConstantsOK DEF ConstantsOK
    <3>3. PageSize * pteOff < PageSize * PtEntries
      BY <1>3, <1>4, <3>1, <3>2, Numbers
    <3> QED BY <3>2, <3>3, MulCancel, Numbers
  <2>3. ptr' \in Nat /\ va' \in Nat /\ pteOff' \in 0 .. PtEntries
    BY <1>3, <2>1, <2>2, Numbers, ConstantsOK DEF ConstantsOK
  <2>4. DOMAIN kpt' \subseteq Int /\ \A x \in DOMAIN kpt' : kpt'[x] \in Nat
    BY <1>3, <2>1, MapToTyped, Numbers
  <2>5. TypeOK'
    BY <1>1, <1>2, <2>3, <2>4, SettledKeeps, Numbers DEF TypeOK
  <2>6. ptr' = PhysBase + va' /\ va' = PageSize * pteOff'
    <3>1. PageSize * (pteOff + 1) = PageSize * pteOff + PageSize
      BY <1>3, Numbers
    <3> QED BY <1>3, <2>1, <3>1, Numbers
  <2>7. TableInv'
    BY <1>1, <1>2, <2>1, <2>6, SettledKeeps DEF TableInv, Settled
  <2> QED BY <1>2, <2>5, <2>7, SettledKeeps DEF BootInv
<1>5. CASE ~(ptr <= Limit)
  <2>1. pc' = "mapVideoCard" /\ UNCHANGED <<va, pteOff, ptr, kpt>>
    BY <1>5 DEF MapKernel
  <2>2. TypeOK'
    BY <1>1, <1>2, <2>1, SettledKeeps, Numbers DEF TypeOK
  <2>3. TableInv'
    BY <1>1, <1>2, <2>1, SettledKeeps DEF TableInv, Settled
  <2> QED BY <1>2, <2>2, <2>3, SettledKeeps DEF BootInv
<1> QED BY <1>4, <1>5

(* One entry for the video memory. *)
LEMMA MapVideoCardKeepsBootInv ==
    ASSUME BootInv, MapVideoCard
    PROVE  BootInv'
<1>1. /\ pc = "mapVideoCard" /\ pc' = "mapEntireMemory"
      /\ UNCHANGED <<layout, region, s, firstFreeLocation, pteOff, va, request>>
      /\ ptr' = firstFreeLocation
      /\ GetFreePage /\ MapTo(VideoMemory - PhysBase, VideoMemory)
  BY DEF MapVideoCard
<1>2. /\ descs' \in Seq(Descriptor) /\ N' = N
      /\ freeListHead' \in Nat /\ headVirt' \in BOOLEAN
      /\ granted' \in Seq(Answer)
  BY <1>1, GetFreePageTyped DEF BootInv
<1>3. Settled
  BY <1>1, <1>2 DEF Settled, Populating
<1>4. DOMAIN kpt' \subseteq Int /\ \A x \in DOMAIN kpt' : kpt'[x] \in Nat
  <2>1. VideoMemory - PhysBase \in Int /\ VideoMemory \in Nat
    BY ConstantsOK DEF ConstantsOK
  <2> QED BY <1>1, <2>1, MapToTyped, Numbers
<1>5. ptr' \in Nat /\ ptr' >= 1
  <2>1. ptr' = F /\ F # 0 /\ F \in 0 .. N /\ N \in Nat
    BY <1>1, <1>3, Numbers DEF F, BootInv, TableInv, Settled
  <2> QED BY <2>1
<1>6. TypeOK'
  BY <1>1, <1>2, <1>3, <1>4, <1>5, SettledKeeps, Numbers DEF TypeOK
<1>7. TableInv'
  BY <1>1, <1>3, <1>5, SettledKeeps DEF TableInv, Settled
<1> QED BY <1>3, <1>6, <1>7, SettledKeeps DEF BootInv

(* A new page table starts with its first entry. *)
LEMMA NewPageTableKeepsBootInv ==
    ASSUME BootInv, NewPageTable
    PROVE  BootInv'
<1>1. /\ pc = "mapEntireMemory" /\ pc' = pc
      /\ UNCHANGED <<layout, region, s, firstFreeLocation, ptr, va, kpt, request>>
      /\ pteOff' = 0 /\ GetFreePage
  BY DEF NewPageTable
<1>2. /\ descs' \in Seq(Descriptor) /\ N' = N
      /\ freeListHead' \in Nat /\ headVirt' \in BOOLEAN
      /\ granted' \in Seq(Answer)
  BY <1>1, GetFreePageTyped DEF BootInv
<1>3. Settled
  BY <1>1, <1>2 DEF Settled, Populating
<1>4. pteOff' \in 0 .. PtEntries
  BY <1>1, ConstantsOK DEF ConstantsOK
<1>5. TypeOK'
  BY <1>1, <1>2, <1>3, <1>4, SettledKeeps, Numbers DEF TypeOK
<1>6. TableInv'
  BY <1>1, <1>3, SettledKeeps DEF TableInv, Settled, BootInv
<1> QED BY <1>3, <1>5, <1>6, SettledKeeps DEF BootInv

(* The next entry is inside the page table. *)
LEMMA MapFrameKeepsBootInv ==
    ASSUME BootInv, MapFrame
    PROVE  BootInv'
<1>1. /\ pc = "mapEntireMemory" /\ pc' = pc
      /\ UNCHANGED <<layout, region, s, descs, freeListHead, headVirt,
                     firstFreeLocation, request, granted>>
      /\ Slot(ptr) <= Limit /\ pteOff # PtEntries
      /\ MapTo(va, descs[ptr].startAddress)
      /\ va' = va + PageSize /\ pteOff' = pteOff + 1 /\ ptr' = ptr + 1
  BY DEF MapFrame
<1>2. Settled
  BY <1>1 DEF Settled, Populating, N
<1>3. /\ ptr \in Nat /\ ptr >= 1 /\ va \in Nat /\ pteOff \in 0 .. PtEntries
      /\ descs \in Seq(Descriptor)
  BY <1>1 DEF BootInv, TableInv, TypeOK
<1>4. ptr \in 1 .. N
  <2>1. Slot(ptr) = layout.physfree + ptr - 1 /\ layout.physfree \in Nat
    BY Numbers DEF Slot, LayoutFacts
  <2>2. LM = Limit - layout.physfree + 1
    BY Numbers DEF LayoutFacts
  <2>3. N > LM
    BY <1>2 DEF Settled, BootInv, TableInv
  <2>4. Slot(ptr) <= Limit
    BY <1>1
  <2>5. Limit \in Nat /\ N \in Nat /\ LM \in Nat
    BY Numbers
  <2>6. ptr <= LM
    BY <1>3, <2>1, <2>2, <2>4, <2>5
  <2> QED BY <1>3, <2>3, <2>5, <2>6
<1>5. descs[ptr].startAddress \in Nat
  <2>1. descs[ptr] \in Descriptor
    BY <1>3, <1>4 DEF N
  <2> QED BY <2>1 DEF Descriptor
<1>6. DOMAIN kpt' \subseteq Int /\ \A x \in DOMAIN kpt' : kpt'[x] \in Nat
  <2>1. TypeOK /\ va \in Int /\ MapTo(va, descs[ptr].startAddress)
    BY <1>1, <1>3, Numbers
  <2> QED BY <1>5, <2>1, MapToTyped
<1>7. /\ va' \in Nat /\ ptr' \in Nat /\ ptr' >= 1 /\ pteOff' \in 0 .. PtEntries
  <2>1. va' = va + PageSize /\ pteOff' = pteOff + 1 /\ ptr' = ptr + 1
    BY <1>1
  <2>2. pteOff # PtEntries /\ PtEntries \in Nat /\ PageSize \in Nat
    BY <1>1, ConstantsOK DEF ConstantsOK
  <2> QED BY <1>3, <2>1, <2>2
<1>8. TypeOK'
  BY <1>1, <1>2, <1>6, <1>7, SettledKeeps, Numbers DEF TypeOK
<1>9. TableInv'
  BY <1>1, <1>2, <1>7, SettledKeeps DEF TableInv, Settled
<1> QED BY <1>2, <1>8, <1>9, SettledKeeps DEF BootInv

(* The pass over the table stays inside it. *)
LEMMA RemapKeepsBootInv ==
    ASSUME BootInv, RemapNextPointers
    PROVE  BootInv'
<1>1. /\ pc = "mapEntireMemory" /\ pc' = "ready"
      /\ UNCHANGED <<layout, region, s, freeListHead, firstFreeLocation, ptr,
                     pteOff, va, kpt, request, granted>>
      /\ headVirt' = TRUE
  BY DEF RemapNextPointers
<1>2. descs' \in Seq(Descriptor) /\ N' = N
  <2>1. descs \in Seq(Descriptor)
    BY Numbers DEF TypeOK
  <2>2. /\ DOMAIN descs = 1 .. N /\ N \in Nat
        /\ \A i \in 1 .. N : descs[i] \in Descriptor
    BY <2>1 DEF N
  <2>3. \A r \in Descriptor, b \in BOOLEAN : [r EXCEPT !.virt = b] \in Descriptor
    BY DEF Descriptor
  <2>4. descs' = [i \in 1 .. N |-> [descs[i] EXCEPT !.virt = Slot(i) <= Limit]]
    BY <2>2 DEF RemapNextPointers
  <2>5. \A i \in 1 .. N : [descs[i] EXCEPT !.virt = Slot(i) <= Limit] \in Descriptor
    <3>1. \A i \in 1 .. N : (Slot(i) <= Limit) \in BOOLEAN
      OBVIOUS
    <3> QED BY <2>2, <2>3, <3>1
  <2>6. descs' \in [1 .. N -> Descriptor]
    BY <2>4, <2>5
  <2> QED BY <2>2, <2>6 DEF N
<1>3. Settled
  BY <1>1, <1>2 DEF Settled, Populating
<1>4. TypeOK'
  BY <1>1, <1>2, <1>3, SettledKeeps, Numbers DEF TypeOK
<1>5. TableInv'
  BY <1>1, <1>3, SettledKeeps DEF TableInv, Settled
<1> QED BY <1>3, <1>4, <1>5, SettledKeeps DEF BootInv

-----------------------------------------------------------------------------
(* Requests.  Serving == the phases in which the running kernel asks.        *)

Serving == {"ready", "walk", "hang"}

(* A request changes neither the table nor the mapping in size. *)
LEMMA ServingKeeps ==
    ASSUME BootInv, Settled, pc \in Serving, pc' \in Serving,
           UNCHANGED <<ptr, pteOff, va, kpt>>,
           descs' \in Seq(Descriptor), granted' \in Seq(Answer),
           freeListHead' \in Nat, headVirt' \in BOOLEAN,
           request' \in [head : Nat, count : Nat, walked : Nat]
    PROVE  BootInv'
<1>1. TypeOK'
  BY SettledKeeps, Numbers DEF TypeOK, Serving
<1>2. TableInv'
  BY SettledKeeps DEF TableInv, Settled, Serving
<1> QED BY <1>1, <1>2, SettledKeeps DEF BootInv

(* What a request works with. *)
LEMMA RequestTypes ==
    ASSUME BootInv
    PROVE  /\ descs \in Seq(Descriptor) /\ granted \in Seq(Answer)
           /\ freeListHead \in Nat /\ headVirt \in BOOLEAN
           /\ request \in [head : Nat, count : Nat, walked : Nat]
BY DEF BootInv, TypeOK

(* kmalloc asks for a number of pages. *)
LEMMA NoPagesNat ==
    ASSUME NEW size \in KmallocSizes
    PROVE  NoPages(size) \in Nat
<1>1. size \in Nat /\ PageSize \in Nat \ {0}
  BY ConstantsOK DEF ConstantsOK
<1>2. size \div PageSize \in Nat
  BY <1>1, DivisionFloors
<1> QED BY <1>2 DEF NoPages

(* getFreePage, *)
LEMMA GetFreePageCallKeepsBootInv ==
    ASSUME BootInv, GetFreePageCall
    PROVE  BootInv'
<1>1. /\ pc = "ready" /\ pc' = pc /\ GetFreePage
      /\ UNCHANGED <<layout, region, s, firstFreeLocation, ptr, pteOff, va,
                     kpt, request>>
  BY DEF GetFreePageCall
<1>2. /\ descs' \in Seq(Descriptor) /\ N' = N
      /\ freeListHead' \in Nat /\ headVirt' \in BOOLEAN
      /\ granted' \in Seq(Answer)
  BY <1>1, GetFreePageTyped DEF BootInv
<1>3. Settled
  BY <1>1, <1>2 DEF Settled, Populating
<1> QED BY <1>1, <1>2, <1>3, ServingKeeps, RequestTypes DEF Serving

(* the loop of the page-fault handler, *)
LEMMA HangKeepsBootInv ==
    ASSUME BootInv, pc \in Serving, NEW count \in Nat, Hang(count)
    PROVE  BootInv'
<1>1. Settled
  BY DEF Hang, Settled, Populating, Serving, N
<1>2. request' \in [head : Nat, count : Nat, walked : Nat]
  BY RequestTypes DEF Hang
<1>3. /\ descs' \in Seq(Descriptor) /\ granted' \in Seq(Answer)
      /\ freeListHead' \in Nat /\ headVirt' \in BOOLEAN
  BY RequestTypes DEF Hang
<1> QED BY <1>1, <1>2, <1>3, ServingKeeps DEF Hang, Serving

(* kmalloc, *)
LEMMA KmallocKeepsBootInv ==
    ASSUME BootInv, NEW size \in KmallocSizes, Kmalloc(size)
    PROVE  BootInv'
<1>1. /\ pc = "ready" /\ pc' = "walk"
      /\ UNCHANGED <<layout, region, s, descs, freeListHead, headVirt,
                     firstFreeLocation, ptr, pteOff, va, kpt, granted>>
      /\ freeListHead \in DOMAIN descs
      /\ request' = [head |-> descs[freeListHead].startAddress,
                     count |-> NoPages(size), walked |-> 0]
  BY DEF Kmalloc, HeadUsable
<1>2. Settled
  BY <1>1 DEF Settled, Populating, N
<1>3. descs[freeListHead].startAddress \in Nat
  <2>1. descs[freeListHead] \in Descriptor
    BY <1>1, RequestTypes
  <2> QED BY <2>1 DEF Descriptor
<1>4. request' \in [head : Nat, count : Nat, walked : Nat]
  BY <1>1, <1>3, NoPagesNat
<1>5. /\ descs' \in Seq(Descriptor) /\ granted' \in Seq(Answer)
      /\ freeListHead' \in Nat /\ headVirt' \in BOOLEAN
  BY <1>1, RequestTypes
<1> QED BY <1>1, <1>2, <1>4, <1>5, ServingKeeps DEF Serving

(* a step of its walk, *)
LEMMA WalkKeepsBootInv ==
    ASSUME BootInv, GetFreePagesWalk
    PROVE  BootInv'
<1> DEFINE d == descs[freeListHead]
<1>1. /\ pc = "walk" /\ pc' = pc
      /\ UNCHANGED <<layout, region, s, firstFreeLocation, ptr, pteOff, va,
                     kpt, granted>>
      /\ freeListHead \in DOMAIN descs
      /\ freeListHead' = d.nextFree /\ headVirt' = d.virt
      /\ descs' = HeadTaken
      /\ request' = [request EXCEPT !.walked = @ + 1]
  BY DEF GetFreePagesWalk, HeadUsable
<1>2. d \in Descriptor
  BY <1>1, RequestTypes
<1>3. freeListHead' \in Nat /\ headVirt' \in BOOLEAN
  BY <1>1, <1>2 DEF Descriptor
<1>4. descs' \in Seq(Descriptor) /\ N' = N
  BY <1>1, HeadTakenTyped, RequestTypes DEF N
<1>5. request' \in [head : Nat, count : Nat, walked : Nat]
  BY <1>1, RequestTypes
<1>6. Settled
  BY <1>1, <1>4 DEF Settled, Populating
<1>7. granted' \in Seq(Answer)
  BY <1>1, RequestTypes
<1> QED BY <1>1, <1>3, <1>4, <1>5, <1>6, <1>7, ServingKeeps DEF Serving

(* its answer, *)
LEMMA ReturnKeepsBootInv ==
    ASSUME BootInv, GetFreePagesReturn
    PROVE  BootInv'
<1> DEFINE cleared == Cleared(request.head, request.count)
<1>1. /\ pc = "walk" /\ pc' = "ready"
      /\ UNCHANGED <<layout, region, s, freeListHead, headVirt,
                     firstFreeLocation, ptr, pteOff, va, kpt>>
      /\ Writable(request.head, request.count)
      /\ descs' = Clear(descs, cleared)
      /\ granted' = Append(granted, Grant(request.head, request.count))
      /\ request' = NoRequest
  BY DEF GetFreePagesReturn
<1>2. descs' \in Seq(Descriptor) /\ N' = N
  <2> HIDE DEF cleared
  <2> QED BY <1>1, ClearTyped, RequestTypes DEF N
<1>3. request.head \in Nat /\ request.count \in Nat
  BY RequestTypes
<1>4. Grant(request.head, request.count) \in Answer
  BY <1>1, <1>3, GrantTyped DEF BootInv
<1>5. granted' \in Seq(Answer)
  BY <1>1, <1>4, RequestTypes
<1>6. request' \in [head : Nat, count : Nat, walked : Nat]
  BY <1>1 DEF NoRequest
<1>7. Settled
  BY <1>1, <1>2 DEF Settled, Populating
<1>8. freeListHead' \in Nat /\ headVirt' \in BOOLEAN
  BY <1>1, RequestTypes
<1> QED BY <1>1, <1>2, <1>5, <1>6, <1>7, <1>8, ServingKeeps DEF Serving

(* and so every step keep the invariant. *)
LEMMA NextKeepsBootInv ==
    ASSUME BootInv, [Next]_vars
    PROVE  BootInv'
<1>1. CASE PopulatePageDescriptor \/ NextCall \/ ExcludeUnavailableMemory
  BY <1>1, PopulateKeepsBootInv, NextCallKeepsBootInv, ExcludeKeepsBootInv
<1>2. CASE PagingSetup \/ MapKernel \/ MapVideoCard
  BY <1>2, PagingSetupKeepsBootInv, MapKernelKeepsBootInv,
     MapVideoCardKeepsBootInv
<1>3. CASE NewPageTable \/ MapFrame \/ RemapNextPointers
  BY <1>3, NewPageTableKeepsBootInv, MapFrameKeepsBootInv, RemapKeepsBootInv
<1>4. CASE GetFreePageCall
  BY <1>4, GetFreePageCallKeepsBootInv
<1>5. CASE GetFreePageFaults
  BY <1>5, HangKeepsBootInv DEF GetFreePageFaults, Serving
<1>6. CASE \E size \in KmallocSizes : Kmalloc(size)
  BY <1>6, KmallocKeepsBootInv
<1>7. CASE GetFreePagesWalk \/ GetFreePagesReturn
  BY <1>7, WalkKeepsBootInv, ReturnKeepsBootInv
<1>8. CASE GetFreePagesFaults
  <2>1. pc = "walk" /\ Hang(request.count)
    BY <1>8 DEF GetFreePagesFaults
  <2>2. request.count \in Nat
    BY RequestTypes
  <2> QED BY <2>1, <2>2, HangKeepsBootInv DEF Serving
<1>9. CASE UNCHANGED vars
  BY <1>9 DEF vars, BootInv, TypeOK, PopulateInv, TableInv, Populating, Lost,
              F, LM, N, Limit, LastMapped, LastRegion
<1>10. CASE HangForever
  BY <1>9, <1>10 DEF HangForever
<1> QED
  BY <1>1, <1>2, <1>3, <1>4, <1>5, <1>6, <1>7, <1>8, <1>9, <1>10 DEF Next

(* Every state of the allocator is well typed: no loop of the boot code      *)
(* reads behind the table it built or writes behind the page table it fills, *)
(* and every answer starts at an address, on every machine LayoutOK admits.  *)
THEOREM TypeCorrect == Spec => []TypeOK
<1>1. BootInv => TypeOK
  BY DEF BootInv
<1> QED BY <1>1, InitBootInv, NextKeepsBootInv, PTL DEF Spec


-----------------------------------------------------------------------------
(* What the allocator hands out                                              *)

H == freeListHead
LastEnd == layout.end[LastRegion]

Building == Populating \/ pc = "exclude"

Aligned(a) == \E k \in 0 .. a : a = PageSize * k

(* The first page behind newPhysfree, and the frame of descriptor i of the   *)
(* free list.                                                                *)
FirstFrame == PageSize * (Limit \div PageSize + 1)
Frame(i) == FirstFrame + PageSize * (i - F)

Entry(i) == /\ descs[i].startAddress = Frame(i)
            /\ descs[i].isAvailable
            /\ descs[i].nextFree = i + 1

-----------------------------------------------------------------------------
(* The invariant                                                             *)

(* The cursor stays within its call; no frame is covered twice; and the      *)
(* first free descriptor is that of FirstFrame.                              *)
CursorInv ==
    Populating =>
        /\ s <= IF pc = "hole" THEN layout.start[region + 1]
                               ELSE layout.end[region]
        /\ PageSize * N <= s - layout.start[1]
        /\ F = 0 => PageSize * N <= Limit + PageSize - layout.start[1]
        /\ pc = "last" => Aligned(s)
        /\ F # 0 => pc = "last" /\ s = Frame(N + 1)

BuildInv ==
    Building => /\ granted = <<>> /\ DOMAIN kpt = {}
                /\ F # 0 => /\ H = F
                            /\ \A i \in F .. N : Entry(i) /\ descs[i].isfree

(* What clearing frames leaves of the table.                                 *)
TableLeft == /\ \A i \in F .. LM : Entry(i)
             /\ descs[LM + 1].startAddress \in {0, Frame(LM + 1)}

(* What never changes once the table is built.                               *)
ListInv ==
    /\ F # 0 => F + 12 <= LM
    /\ ~Populating => Frame(N + 1) <= LastEnd
    /\ ~Building => TableLeft
    /\ Paged => \A i \in F .. LM : descs[i].virt

(* The kernel's page tables map an offset o below va to PhysBase + o.        *)
MapInv ==
    /\ \A o \in DOMAIN kpt : \/ o = VideoMemory - PhysBase
                             \/ o >= 0 /\ o < va /\ kpt[o] = PhysBase + o
    /\ pc = "mapKernel" => ptr <= Limit + PageSize
    /\ pc = "mapVideoCard" => va = FirstFrame - PhysBase
    /\ pc = "mapEntireMemory" \/ Paged =>
          /\ ptr \in F .. LM + 1
          /\ va = Frame(ptr) - PhysBase
          /\ \A i \in F .. ptr - 1 : Frame(i) - PhysBase \in DOMAIN kpt
    /\ Paged => ptr = LM + 1

(* The answers are runs of frames of the list, in order and without a gap,   *)
(* up to descriptor e.                                                       *)
AnswersUpTo(e) ==
    /\ \A i \in DOMAIN granted :
          /\ \E a \in F .. e - 1 : /\ granted[i].head = Frame(a)
                                   /\ granted[i].pages \in 1 .. e - a
          /\ granted[i].cleared =
                {granted[i].head + k * PageSize : k \in 0 .. granted[i].pages - 1}
    /\ \A i, j \in DOMAIN granted : i < j => EndOf(granted[i]) <= granted[j].head
    /\ \A k \in F .. e - 1 : \E i \in DOMAIN granted :
          granted[i].head <= Frame(k) /\ Frame(k) < EndOf(granted[i])

FreeFrom(h) == \A i \in h .. LM : descs[i].isfree

(* A request has unlinked the descriptors from e on; or it asks for more     *)
(* than there are, and will not get past memset.                             *)
Walked(e) == /\ e <= LM /\ H = e + request.walked /\ H <= LM + 1 /\ headVirt
             /\ request.head = Frame(e) /\ FreeFrom(H)
Doomed(e) == /\ e + request.count > LM + 1
             /\ ~Writable(request.head, request.count)

(* How far boot has come down the list (page tables may take at most every   *)
(* second frame they map), and where the head is.                            *)
HeadAt(e) ==
    /\ pc \notin {"walk", "hang"} => H = e /\ FreeFrom(e)
    /\ pc = "pagingSetup" => e = F + Len(granted) /\ Len(granted) <= 3
    /\ pc \in {"mapKernel", "mapVideoCard"} => e = F + 4
    /\ pc = "mapEntireMemory" =>
          \/ e = F + 5
          \/ e > F + 5 /\ 2 * (e - F - 6) + pteOff <= ptr - F
    /\ pc = "ready" => headVirt
    /\ pc = "walk" => /\ request.walked <= request.count /\ request.count >= 1
                      /\ Walked(e) \/ Doomed(e)
    /\ pc = "hang" => e + request.count > LM + 1

AnswerInv == ~Building => \E e \in F .. LM + 1 : AnswersUpTo(e) /\ HeadAt(e)

SafeInv == CursorInv /\ BuildInv /\ ListInv /\ MapInv /\ AnswerInv

-----------------------------------------------------------------------------
(* Arithmetic of frames                                                      *)

(* Quotient and remainder by an unknown n. *)
LEMMA DivisionIs ==
    ASSUME NEW n \in Nat \ {0}, NEW a \in Nat
    PROVE  \E q \in Nat, r \in 0 .. n - 1 :
              a \div n = q /\ a % n = r /\ a = n * q + r
<1>1. PICK q \in Nat : q = a \div n
  <2>1. a \div n \in Nat
    BY DivisionFloors
  <2> QED BY <2>1
<1>2. a % n = a - n * q
  BY <1>1
<1>3. a % n \in 0 .. n - 1
  BY SMT
<1>4. PICK m \in Int : m = n * q
  BY <1>1
<1>5. PICK r \in 0 .. n - 1 : r = a % n
  BY <1>3
<1>6. a = m + r
  BY <1>2, <1>4, <1>5
<1> QED BY <1>1, <1>4, <1>5, <1>6

(* Multiplication distributes over a sum. *)
LEMMA AddMul ==
    ASSUME NEW k \in Int, NEW a \in Int, NEW b \in Int
    PROVE  k * (a + b) = k * a + k * b
OBVIOUS

(* Frames are a page apart, in the order of their descriptors. *)
LEMMA FrameIs ==
    ASSUME BootInv
    PROVE  /\ FirstFrame \in Nat /\ Limit < FirstFrame
           /\ FirstFrame <= Limit + PageSize
           /\ Aligned(FirstFrame)
           /\ F \in Int /\ \A i \in Int : Frame(i) \in Int
           /\ Frame(F) = FirstFrame
           /\ \A i, n \in Int : Frame(i + n) = Frame(i) + PageSize * n
           /\ \A i \in Int : Frame(i + 1) = Frame(i) + PageSize
           /\ \A i, j \in Int : i <= j => Frame(i) <= Frame(j)
           /\ \A i, j \in Int : i < j => Frame(i) + PageSize <= Frame(j)
           /\ \A i \in Int : i >= F => Frame(i) > Limit
<1>1. /\ PageSize \in Nat \ {0} /\ PageSize \in Int /\ Limit \in Nat
      /\ F \in Int
  <2>1. N \in Nat /\ F \in 0 .. N
    BY Numbers
  <2> QED BY <2>1, Numbers
<1>2. PICK q \in Nat, r \in 0 .. PageSize - 1 :
         q = Limit \div PageSize /\ Limit = PageSize * q + r
  BY <1>1, DivisionIs
<1>3. FirstFrame = PageSize * (q + 1)
  BY <1>2 DEF FirstFrame
<1>4. PageSize * (q + 1) = PageSize * q + PageSize
  BY <1>1, <1>2
<1>5. PageSize * q \in Nat
  BY <1>1, <1>2
<1>6. FirstFrame \in Nat /\ Limit < FirstFrame /\ FirstFrame <= Limit + PageSize
  BY <1>1, <1>2, <1>3, <1>4, <1>5
<1>7. Aligned(FirstFrame)
  <2>1. q + 1 <= FirstFrame
    <3>1. (q + 1) * 1 <= (q + 1) * PageSize
      BY <1>1, <1>2, MulMonotone
    <3>2. (q + 1) * 1 = q + 1 /\ (q + 1) * PageSize = PageSize * (q + 1)
      BY <1>1, <1>2
    <3> QED BY <3>1, <3>2, <1>3
  <2>2. q + 1 \in 0 .. FirstFrame
    BY <2>1, <1>6
  <2> QED BY <1>3, <2>2 DEF Aligned
<1>8. \A i \in Int : Frame(i) \in Int
  BY <1>1, <1>6 DEF Frame
<1>9. Frame(F) = FirstFrame
  BY <1>1, <1>6 DEF Frame
<1>10. ASSUME NEW i \in Int, NEW n \in Int
       PROVE  Frame(i + n) = Frame(i) + PageSize * n
  <2>1. (i + n) - F = (i - F) + n /\ i - F \in Int
    BY <1>1
  <2>2. PageSize * ((i + n) - F) = PageSize * (i - F) + PageSize * n
    BY <1>1, <2>1, AddMul
  <2>3. PageSize * (i - F) \in Int /\ PageSize * n \in Int
    BY <1>1, <2>1
  <2> QED BY <2>2, <2>3, <1>6 DEF Frame
<1>11. ASSUME NEW i \in Int PROVE Frame(i + 1) = Frame(i) + PageSize
  BY <1>1, <1>10
<1>12. ASSUME NEW i \in Int, NEW j \in Int, i <= j PROVE Frame(i) <= Frame(j)
  <2>1. Frame(i + (j - i)) = Frame(i) + PageSize * (j - i)
    BY <1>10
  <2>2. PageSize * (j - i) >= PageSize * 0
    BY <1>1, <1>12, MulMonotone
  <2>3. i + (j - i) = j /\ PageSize * 0 = 0 /\ PageSize * (j - i) \in Int
    BY <1>1
  <2> QED BY <2>1, <2>2, <2>3, <1>8
<1>13. ASSUME NEW i \in Int, NEW j \in Int, i < j
       PROVE  Frame(i) + PageSize <= Frame(j)
  <2>1. Frame(i + 1) <= Frame(j)
    BY <1>12, <1>13
  <2> QED BY <2>1, <1>11
<1>14. ASSUME NEW i \in Int, i >= F PROVE Frame(i) > Limit
  <2>1. Frame(F) <= Frame(i)
    BY <1>1, <1>12, <1>14
  <2> QED BY <2>1, <1>1, <1>6, <1>8, <1>9
<1> QED BY <1>1, <1>6, <1>7, <1>8, <1>9, <1>10, <1>11, <1>12, <1>13, <1>14

(* Exactly one page starts in (newPhysfree, newPhysfree + PageSize].         *)
LEMMA FirstFrameIsTheOne ==
    ASSUME BootInv, NEW a \in Nat, Aligned(a), Limit < a, a <= Limit + PageSize
    PROVE  a = FirstFrame
<1>1. /\ PageSize \in Nat \ {0} /\ Limit \in Nat /\ FirstFrame \in Nat
      /\ Limit < FirstFrame /\ FirstFrame <= Limit + PageSize
  BY Numbers, FrameIs
<1>2. PICK m \in Nat : a = PageSize * m
  BY DEF Aligned
<1>3. PICK n \in Nat : FirstFrame = PageSize * n
  <2>1. Aligned(FirstFrame)
    BY FrameIs
  <2> QED BY <1>1, <2>1 DEF Aligned
<1>4. m < n + 1
  <2>1. PageSize * (n + 1) = PageSize * n + PageSize
    BY <1>1
  <2>2. PageSize * m < PageSize * (n + 1)
    BY <1>1, <1>2, <1>3, <2>1
  <2> QED BY <1>1, <2>2, MulCancel
<1>5. n < m + 1
  <2>1. PageSize * (m + 1) = PageSize * m + PageSize
    BY <1>1
  <2>2. PageSize * n < PageSize * (m + 1)
    BY <1>1, <1>2, <1>3, <2>1
  <2> QED BY <1>1, <2>2, MulCancel
<1>6. m = n
  BY <1>4, <1>5
<1> QED BY <1>2, <1>3, <1>6

(* initializeMemory rounds the start of every region up to a page boundary. *)
LEMMA RegionsAreAligned ==
    ASSUME TypeOK, NEW i \in 1 .. LastRegion
    PROVE  Aligned(layout.start[i])
<1>1. PageSize \in Nat \ {0}
  BY ConstantsOK DEF ConstantsOK
<1>2. PICK b \in BootInfos : layout = Layout(b)
  BY DEF TypeOK
<1> DEFINE use == Usable(b.smap)
<1>3. /\ layout.start = [j \in DOMAIN use |-> RoundUp(use[j].base)]
      /\ \A j \in DOMAIN use : use[j].base \in Nat
  BY <1>2, AlignmentOK DEF Layout, AlignmentOK
<1> HIDE DEF use
<1>4. i \in DOMAIN layout.start /\ layout.start[i] \in Nat
  <2>1. layout.start \in [1 .. LastRegion -> Nat]
    BY LayoutInUse DEF LayoutFacts
  <2> QED BY <2>1
<1>5. i \in DOMAIN use /\ layout.start[i] = RoundUp(use[i].base)
  BY <1>3, <1>4
<1>6. PICK a \in Nat : a = use[i].base
  BY <1>3, <1>5
<1>7. PICK k \in Nat : layout.start[i] = PageSize * k
  <2>1. PICK q \in Nat, r \in 0 .. PageSize - 1 :
            q = a \div PageSize /\ r = a % PageSize /\ a = PageSize * q + r
    BY <1>1, DivisionIs
  <2>2. CASE a % PageSize = 0
    <3>1. PageSize * q \in Nat
      BY <1>1
    <3>2. a = PageSize * q
      BY <2>1, <2>2, <3>1
    <3> QED BY <1>5, <1>6, <2>2, <3>2 DEF RoundUp
  <2>3. CASE a % PageSize # 0
    <3>1. layout.start[i] = (q + 1) * PageSize
      BY <1>5, <1>6, <2>1, <2>3 DEF RoundUp
    <3>2. (q + 1) * PageSize = PageSize * (q + 1)
      BY <1>1
    <3> QED BY <3>1, <3>2
  <2> QED BY <2>2, <2>3
<1>8. k <= PageSize * k
  <2>1. k * 1 <= k * PageSize
    BY <1>1, MulMonotone
  <2> QED BY <2>1, <1>1
<1> QED BY <1>4, <1>7, <1>8 DEF Aligned

(* The page after an aligned one is aligned. *)
LEMMA AlignedNext ==
    ASSUME NEW a \in Nat, Aligned(a)
    PROVE  Aligned(a + PageSize)
<1>1. PageSize \in Nat \ {0}
  BY ConstantsOK DEF ConstantsOK
<1>2. PICK k \in 0 .. a : a = PageSize * k
  BY DEF Aligned
<1>3. PageSize * (k + 1) = PageSize * k + PageSize
  BY <1>1, <1>2
<1>4. k + 1 \in 0 .. a + PageSize
  BY <1>1, <1>2
<1> QED BY <1>2, <1>3, <1>4 DEF Aligned

-----------------------------------------------------------------------------
(* Clearing and answering                                                    *)

Run(a, n) == {Frame(a) + k * PageSize : k \in 0 .. n - 1}

(* Through the kernel's mapping memset reaches the frames it is meant for.   *)
LEMMA ClearsTheRun ==
    ASSUME BootInv, MapInv, NEW a \in Int, a >= F, NEW n \in Nat,
           Writable(Frame(a), n)
    PROVE  Cleared(Frame(a), n) = Run(a, n)
<1>1. /\ PageSize \in Nat /\ PhysBase \in Nat /\ Limit \in Nat /\ PhysBase < Limit
      /\ VideoMemory \in Int /\ VideoMemory < PhysBase
  <2>1. LayoutFacts
    BY Numbers
  <2> QED BY <2>1, ConstantsOK DEF ConstantsOK, LayoutFacts
<1>2. Frame(a) \in Int /\ Frame(a) > Limit
  BY FrameIs
<1>3. ASSUME NEW k \in 0 .. n - 1
      PROVE  (IF Paged THEN kpt[Frame(a) - PhysBase + k * PageSize]
              ELSE PhysBase + (Frame(a) - PhysBase + k * PageSize))
             = Frame(a) + k * PageSize
  <2>1. PICK o \in Int : o = Frame(a) - PhysBase + k * PageSize
    BY <1>1, <1>2
  <2>2. k * PageSize >= 0 /\ k * PageSize \in Int
    BY <1>1
  <2>3. o > 0 /\ PhysBase + o = Frame(a) + k * PageSize
    BY <1>1, <1>2, <2>1, <2>2
  <2>4. CASE Paged
    <3>1. o \in DOMAIN kpt
      BY <2>1, <2>4 DEF Writable, Offsets
    <3>2. o # VideoMemory - PhysBase
      BY <1>1, <2>1, <2>3
    <3>3. kpt[o] = PhysBase + o
      BY <3>1, <3>2 DEF MapInv
    <3> QED BY <2>1, <2>3, <2>4, <3>3
  <2> QED BY <2>1, <2>3, <2>4
<1>4. Cleared(Frame(a), n) =
        {IF Paged THEN kpt[Frame(a) - PhysBase + k * PageSize]
         ELSE PhysBase + (Frame(a) - PhysBase + k * PageSize) : k \in 0 .. n - 1}
  BY DEF Cleared, Offsets
<1> HIDE DEF Cleared
<1> QED BY <1>3, <1>4 DEF Run

(* Descriptors of the list lie before every frame of the list. *)
LEMMA ClearingKeeps ==
    ASSUME BootInv, NEW ds \in Seq(Descriptor), NEW a \in Int, a >= F, NEW n \in Nat,
           NEW i \in 1 .. Len(ds)
    PROVE  /\ i <= LM => Clear(ds, Run(a, n))[i] = ds[i]
           /\ Clear(ds, Run(a, n))[i] \in {ds[i], Zeroed}
<1>1. Clear(ds, Run(a, n))[i] =
         IF \E f \in Run(a, n) : f <= Slot(i) /\ Slot(i) < f + PageSize
         THEN Zeroed ELSE ds[i]
  BY DEF Clear
<1>2. ASSUME i <= LM, NEW f \in Run(a, n), f <= Slot(i) PROVE FALSE
  <2>1. /\ LM = Limit - layout.physfree + 1 /\ layout.physfree \in Nat
        /\ Limit \in Nat /\ LM \in Nat /\ PageSize \in Nat
    BY Numbers DEF LayoutFacts
  <2>2. Slot(i) <= Limit
    BY <1>2, <2>1 DEF Slot
  <2>3. Frame(a) \in Int /\ Frame(a) > Limit
    BY FrameIs
  <2>4. PICK k \in 0 .. n - 1 : f = Frame(a) + k * PageSize
    BY DEF Run
  <2>5. k * PageSize >= 0 /\ k * PageSize \in Int
    BY <2>1, <2>4
  <2>6. Slot(i) \in Int
    BY <2>1 DEF Slot
  <2> QED BY <1>2, <2>1, <2>2, <2>3, <2>4, <2>5, <2>6
<1> QED BY <1>1, <1>2

(* What stays the same in every step after populating. *)
Kept == UNCHANGED <<layout, firstFreeLocation>>

(* The places of the list hang on the layout and the first free descriptor. *)
LEMMA KeptFrames ==
    ASSUME Kept
    PROVE  /\ LM' = LM /\ F' = F /\ Limit' = Limit /\ LastRegion' = LastRegion
           /\ LastEnd' = LastEnd
           /\ FirstFrame' = FirstFrame /\ \A i : Frame(i)' = Frame(i)
BY DEF Kept, LM, LastMapped, F, Limit, LastRegion, LastEnd, FirstFrame, Frame

(* Answers stay where they are. *)
LEMMA KeptAnswers ==
    ASSUME Kept, UNCHANGED granted, NEW e, AnswersUpTo(e)
    PROVE  AnswersUpTo(e)'
BY KeptFrames DEF AnswersUpTo, EndOf

(* One answer more: the next frames of the list. *)
LEMMA NextAnswer ==
    ASSUME BootInv, Kept, NEW e \in F .. LM, AnswersUpTo(e),
           NEW n \in Nat \ {0}, NEW d \in Int, d = e + n, d <= LM + 1,
           granted' = Append(granted, [head |-> Frame(e), pages |-> n,
                                       cleared |-> Run(e, n)])
    PROVE  AnswersUpTo(d)'
<1> DEFINE g == [head |-> Frame(e), pages |-> n, cleared |-> Run(e, n)]
           l == Len(granted)
<1>1. F \in Int /\ e \in Int /\ n \in Int /\ LM \in Nat /\ e >= F
      /\ d \in Int /\ d = e + n /\ PageSize \in Nat \ {0}
  BY Numbers, FrameIs
<1>2. granted \in Seq(Answer) /\ l \in Nat
  BY Numbers DEF TypeOK
<1>3. /\ DOMAIN granted = 1 .. l /\ DOMAIN granted' = 1 .. l + 1
      /\ \A i \in 1 .. l : granted'[i] = granted[i]
      /\ granted'[l + 1] = g
  BY <1>2
<1>4. EndOf(g) = Frame(d) /\ g.head = Frame(e) /\ g.pages = n
      /\ g.cleared = Run(e, n)
  <2>1. Frame(d) = Frame(e) + PageSize * n
    BY <1>1, FrameIs
  <2>2. PageSize * n = n * PageSize
    BY <1>1
  <2> QED BY <2>1, <2>2 DEF EndOf
<1>5. ASSUME NEW i \in 1 .. l
      PROVE  /\ \E a \in F .. e - 1 : /\ granted[i].head = Frame(a)
                                       /\ granted[i].pages \in 1 .. e - a
             /\ granted[i].cleared =
                  {granted[i].head + k * PageSize : k \in 0 .. granted[i].pages - 1}
             /\ EndOf(granted[i]) <= Frame(e)
  <2>1. PICK a \in F .. e - 1 : /\ granted[i].head = Frame(a)
                                /\ granted[i].pages \in 1 .. e - a
    BY <1>3 DEF AnswersUpTo
  <2>2. PICK m \in 1 .. e - a : m = granted[i].pages
    BY <2>1
  <2>3. a \in Int /\ m \in Int /\ a + m <= e
    BY <1>1, <2>1, <2>2
  <2>4. Frame(a + m) = Frame(a) + PageSize * m
    BY <2>3, FrameIs
  <2>7. PageSize * m = m * PageSize
    BY <1>1, <2>3
  <2>5. Frame(a + m) <= Frame(e)
    BY <1>1, <2>3, FrameIs
  <2>6. EndOf(granted[i]) <= Frame(e)
    BY <2>1, <2>2, <2>4, <2>5, <2>7 DEF EndOf
  <2> QED BY <2>1, <2>6, <1>3 DEF AnswersUpTo
<1> HIDE DEF g, l
<1>6. ASSUME NEW i \in DOMAIN granted'
      PROVE  /\ \E a \in F .. d - 1 : /\ granted'[i].head = Frame(a)
                                            /\ granted'[i].pages \in 1 .. d - a
             /\ granted'[i].cleared =
                  {granted'[i].head + k * PageSize : k \in 0 .. granted'[i].pages - 1}
  <2>1. CASE i \in 1 .. l
    <3>1. PICK a \in F .. e - 1 : /\ granted[i].head = Frame(a)
                                  /\ granted[i].pages \in 1 .. e - a
      BY <1>5, <2>1
    <3>2. a \in F .. d - 1 /\ granted[i].pages \in 1 .. d - a
      <4>1. PICK m \in 1 .. e - a : m = granted[i].pages
        BY <3>1
      <4>2. a \in F .. d - 1 /\ m \in 1 .. d - a
        BY <1>1
      <4> QED BY <4>1, <4>2
    <3>3. granted'[i] = granted[i]
      BY <1>3, <2>1
    <3>4. granted[i].cleared =
            {granted[i].head + k * PageSize : k \in 0 .. granted[i].pages - 1}
      BY <1>5, <2>1
    <3> QED BY <3>1, <3>2, <3>3, <3>4
  <2>2. CASE i = l + 1
    <3>1. e \in F .. d - 1 /\ n \in 1 .. d - e
      BY <1>1
    <3> QED BY <1>3, <1>4, <2>2, <3>1 DEF Run
  <2> QED BY <1>2, <1>3, <2>1, <2>2
<1>7. ASSUME NEW i \in DOMAIN granted', NEW j \in DOMAIN granted', i < j
      PROVE  EndOf(granted'[i]) <= granted'[j].head
  <2>1. i \in 1 .. l
    BY <1>2, <1>3, <1>7
  <2>2. CASE j \in 1 .. l
    BY <1>3, <1>7, <2>1, <2>2 DEF AnswersUpTo
  <2>3. CASE j = l + 1
    BY <1>3, <1>4, <1>5, <2>1, <2>3
  <2> QED BY <1>2, <1>3, <2>2, <2>3
<1>8. ASSUME NEW k \in F .. d - 1
      PROVE  \E i \in DOMAIN granted' :
                granted'[i].head <= Frame(k) /\ Frame(k) < EndOf(granted'[i])
  <2>1. CASE k \in F .. e - 1
    <3>1. PICK i \in 1 .. l :
             granted[i].head <= Frame(k) /\ Frame(k) < EndOf(granted[i])
      BY <1>3, <2>1 DEF AnswersUpTo
    <3>2. i \in DOMAIN granted' /\ granted'[i] = granted[i]
      BY <1>2, <1>3
    <3> QED BY <3>1, <3>2
  <2>2. CASE k \in e .. d - 1
    <3>a. k \in Int /\ e <= k /\ k < d /\ d \in Int
      BY <1>1, <2>2
    <3>1. Frame(e) <= Frame(k) /\ Frame(k) + PageSize <= Frame(d)
          /\ Frame(k) \in Int /\ Frame(d) \in Int
      BY <1>1, <3>a, FrameIs
    <3>2. Frame(k) < EndOf(g) /\ g.head <= Frame(k)
      BY <1>1, <1>4, <3>1
    <3>3. l + 1 \in DOMAIN granted'
      BY <1>2, <1>3
    <3> QED BY <1>3, <3>2, <3>3
  <2> QED BY <1>1, <2>1, <2>2
<1>9. /\ \A i, j \in DOMAIN granted' :
            i < j => granted'[i].head + granted'[i].pages * PageSize <= granted'[j].head
      /\ \A k \in F .. d - 1 : \E i \in DOMAIN granted' :
            /\ granted'[i].head <= Frame(k)
            /\ Frame(k) < granted'[i].head + granted'[i].pages * PageSize
  BY <1>7, <1>8 DEF EndOf
<1>10. F' = F /\ FirstFrame' = FirstFrame
  BY KeptFrames
<1>11. \A i : Frame(i)' = Frame(i)
  BY KeptFrames
<1>12. (\A i \in DOMAIN granted :
          /\ \E a \in F .. d - 1 : /\ granted[i].head = Frame(a)
                                        /\ granted[i].pages \in 1 .. d - a
          /\ granted[i].cleared =
                {granted[i].head + k * PageSize : k \in 0 .. granted[i].pages - 1})'
  BY <1>6, <1>10, <1>11
<1>13. (\A i, j \in DOMAIN granted :
          i < j => EndOf(granted[i]) <= granted[j].head)'
  BY <1>9 DEF EndOf
<1>14. (\A k \in F .. d - 1 : \E i \in DOMAIN granted :
          granted[i].head <= Frame(k) /\ Frame(k) < EndOf(granted[i]))'
  <2>1. ASSUME NEW k \in F .. d - 1
        PROVE  (\E i \in DOMAIN granted :
                  granted[i].head <= Frame(k) /\ Frame(k) < EndOf(granted[i]))'
    <3>1. PICK i \in DOMAIN granted' :
             /\ granted'[i].head <= Frame(k)
             /\ Frame(k) < granted'[i].head + granted'[i].pages * PageSize
      BY <1>9
    <3>2. (granted[i].head <= Frame(k) /\ Frame(k) < EndOf(granted[i]))'
      BY <1>11, <3>1 DEF EndOf
    <3> QED BY <3>2
  <2> QED BY <1>10, <2>1 DEF Frame
<1> QED BY <1>12, <1>13, <1>14 DEF AnswersUpTo

(* The numbers the invariant speaks of are integers. *)
LEMMA Indices ==
    ASSUME BootInv, ~Populating
    PROVE  /\ F \in Nat /\ F >= 1 /\ LM \in Nat /\ LM + 1 \in 1 .. N
           /\ F .. LM \subseteq 1 .. N /\ N \in Nat
           /\ F .. LM \subseteq Int
           /\ descs \in Seq(Descriptor) /\ DOMAIN descs = 1 .. N
<1>1. /\ F \in 0 .. N /\ N \in Nat /\ LM \in Nat
      /\ F # 0 /\ N > LM
  BY Numbers DEF BootInv, TableInv
<1>2. descs \in Seq(Descriptor) /\ DOMAIN descs = 1 .. N
  BY Numbers DEF TypeOK, N
<1> QED BY <1>1, <1>2

(* Descriptors that differ from those of descs in isfree only, cleared or    *)
(* not, are still a good table.                                              *)
LEMMA TableStays ==
    ASSUME BootInv, TableLeft, ~Populating, Kept,
           NEW ds \in Seq(Descriptor), Len(ds) = N,
           \A i \in 1 .. N : /\ ds[i].startAddress = descs[i].startAddress
                             /\ ds[i].isAvailable = descs[i].isAvailable
                             /\ ds[i].nextFree = descs[i].nextFree,
           NEW a \in Int, a >= F, NEW n \in Nat,
           descs' = ds \/ descs' = Clear(ds, Run(a, n))
    PROVE  /\ TableLeft'
           /\ \A i \in F .. LM : descs'[i] = ds[i]
<1>1. /\ F .. LM \subseteq 1 .. N /\ LM + 1 \in 1 .. N /\ LM \in Nat
      /\ F .. LM \subseteq Int
  BY Indices
<1>2. ASSUME NEW i \in F .. LM PROVE descs'[i] = ds[i]
  <2>1. i \in 1 .. Len(ds) /\ i <= LM
    BY <1>1
  <2> QED BY <2>1, ClearingKeeps
<1>3. descs'[LM + 1] \in {ds[LM + 1], Zeroed}
  BY <1>1, ClearingKeeps
<1>4. ASSUME NEW i \in F .. LM PROVE Entry(i)'
  <2>1. Entry(i) /\ i \in 1 .. N
    BY <1>1 DEF TableLeft
  <2> QED BY <1>2, <2>1, KeptFrames DEF Entry
<1>5. (descs[LM + 1].startAddress \in {0, Frame(LM + 1)})'
  <2>1. ds[LM + 1].startAddress \in {0, Frame(LM + 1)} /\ Zeroed.startAddress = 0
    BY <1>1 DEF TableLeft, Zeroed
  <2> QED BY <1>3, <2>1, KeptFrames DEF Frame
<1>6. LM' = LM /\ F' = F
  BY KeptFrames
<1> QED BY <1>2, <1>4, <1>5, <1>6 DEF TableLeft

(* Unlinking the head changes its isfree only. *)
LEMMA HeadTakenKeeps ==
    ASSUME descs \in Seq(Descriptor), H \in 1 .. N
    PROVE  \A i \in 1 .. N : /\ HeadTaken[i].startAddress = descs[i].startAddress
                             /\ HeadTaken[i].isAvailable = descs[i].isAvailable
                             /\ HeadTaken[i].nextFree = descs[i].nextFree
                             /\ HeadTaken[i].virt = descs[i].virt
                             /\ i # H => HeadTaken[i].isfree = descs[i].isfree
<1>1. descs[H] \in Descriptor /\ DOMAIN descs = 1 .. N
  BY DEF N
<1>2. \A r \in Descriptor :
        /\ [r EXCEPT !.isfree = FALSE].startAddress = r.startAddress
        /\ [r EXCEPT !.isfree = FALSE].isAvailable = r.isAvailable
        /\ [r EXCEPT !.isfree = FALSE].nextFree = r.nextFree
        /\ [r EXCEPT !.isfree = FALSE].virt = r.virt
  BY DEF Descriptor
<1>3. \A i \in 1 .. N : HeadTaken[i] =
         IF i = H THEN [descs[H] EXCEPT !.isfree = FALSE] ELSE descs[i]
  BY <1>1 DEF HeadTaken, H
<1>4. ASSUME NEW i \in 1 .. N
      PROVE  /\ HeadTaken[i].startAddress = descs[i].startAddress
             /\ HeadTaken[i].isAvailable = descs[i].isAvailable
             /\ HeadTaken[i].nextFree = descs[i].nextFree
             /\ HeadTaken[i].virt = descs[i].virt
             /\ i # H => HeadTaken[i].isfree = descs[i].isfree
  <2>1. CASE i = H
    BY <1>1, <1>2, <1>3, <2>1
  <2>2. CASE i # H
    BY <1>3, <2>2
  <2> QED BY <2>1, <2>2
<1> QED BY <1>4

(* getFreePage gives the frame of the descriptor at the head. *)
LEMMA FreePageTaken ==
    ASSUME BootInv, MapInv, TableLeft, ~Populating, Kept, GetFreePage,
           NEW e \in F .. LM, AnswersUpTo(e), H = e, FreeFrom(e),
           NEW d \in Int, d = e + 1
    PROVE  /\ AnswersUpTo(d)' /\ H' = d /\ FreeFrom(d)' /\ TableLeft'
           /\ headVirt' = descs[e].virt /\ Len(granted') = Len(granted) + 1
           /\ \A i \in F .. LM : descs'[i].virt = descs[i].virt
<1>1. /\ F .. LM \subseteq 1 .. N /\ e \in 1 .. N /\ LM \in Nat /\ F \in Nat
      /\ descs \in Seq(Descriptor) /\ DOMAIN descs = 1 .. N /\ e \in Int
      /\ e >= F /\ e <= LM /\ F .. LM \subseteq Int
  BY Indices
<1>2. /\ descs[e].startAddress = Frame(e) /\ descs[e].nextFree = e + 1
  BY DEF TableLeft, Entry
<1>3. /\ Writable(Frame(e), 1)
      /\ H' = d /\ headVirt' = descs[e].virt
      /\ descs' = Clear(HeadTaken, Cleared(Frame(e), 1))
      /\ granted' = Append(granted, Grant(Frame(e), 1))
  BY <1>2 DEF GetFreePage, H
<1>4. Cleared(Frame(e), 1) = Run(e, 1)
  BY <1>1, <1>3, ClearsTheRun
<1>5. HeadTaken \in Seq(Descriptor) /\ Len(HeadTaken) = N
  BY <1>1, HeadTakenTyped DEF H, N
<1>6. \A i \in 1 .. N : /\ HeadTaken[i].startAddress = descs[i].startAddress
                        /\ HeadTaken[i].isAvailable = descs[i].isAvailable
                        /\ HeadTaken[i].nextFree = descs[i].nextFree
                        /\ HeadTaken[i].virt = descs[i].virt
                        /\ i # e => HeadTaken[i].isfree = descs[i].isfree
  BY <1>1, HeadTakenKeeps
<1>7. TableLeft' /\ \A i \in F .. LM : descs'[i] = HeadTaken[i]
  BY <1>1, <1>3, <1>4, <1>5, <1>6, TableStays
<1>8. \A i \in F .. LM : descs'[i].virt = descs[i].virt
  BY <1>1, <1>6, <1>7
<1>9. FreeFrom(d)'
  <2>1. ASSUME NEW i \in d .. LM PROVE descs'[i].isfree
    <3>1. i \in e .. LM /\ i \in F .. LM /\ i \in 1 .. N /\ i # e
      BY <1>1
    <3> QED BY <1>6, <1>7, <3>1 DEF FreeFrom
  <2> QED BY <2>1, KeptFrames DEF FreeFrom
<1>10. AnswersUpTo(d)'
  <2>1. granted' = Append(granted, [head |-> Frame(e), pages |-> 1,
                                    cleared |-> Run(e, 1)])
    BY <1>3, <1>4 DEF Grant
  <2> QED BY <1>1, <2>1, NextAnswer
<1>11. Len(granted') = Len(granted) + 1
  <2>1. granted \in Seq(Answer)
    BY Numbers DEF TypeOK
  <2> QED BY <1>3, <2>1
<1> QED BY <1>3, <1>7, <1>8, <1>9, <1>10, <1>11

-----------------------------------------------------------------------------
(* Boot: the descriptor table                                                *)

(* The invariant holds before the first descriptor is made. *)
LEMMA InitSafe == Init => SafeInv
<1> SUFFICES ASSUME Init PROVE SafeInv
  OBVIOUS
<1>1. BootInv
  BY InitBootInv
<1>2. /\ pc = IF LastRegion = 1 THEN "last" ELSE "available"
      /\ region = 1 /\ s = layout.start[1] /\ N = 0 /\ F = 0
      /\ granted = <<>> /\ DOMAIN kpt = {}
  BY DEF Init, LastRegion, N, F
<1>3. /\ LayoutFacts /\ TypeOK /\ PageSize \in Nat /\ LastRegion \in Nat \ {0}
      /\ layout.start[1] \in Nat /\ Limit \in Nat
  BY <1>1, Numbers
<1>4. CursorInv
  <2>1. layout.start[1] <= layout.end[1]
    BY <1>3 DEF LayoutFacts
  <2>2. PageSize * N = 0 /\ s - layout.start[1] = 0
    BY <1>2, <1>3
  <2>3. layout.start[1] <= Limit
    <3>1. layout.start[1] <= PhysBase /\ PhysBase < Limit
      BY <1>3 DEF LayoutFacts
    <3> QED BY <3>1, <1>3, ConstantsOK DEF ConstantsOK
  <2>4. Aligned(s)
    BY <1>2, <1>3, RegionsAreAligned
  <2>5. 0 <= Limit + PageSize - layout.start[1]
    BY <1>3, <2>3
  <2>6. s <= IF pc = "hole" THEN layout.start[region + 1] ELSE layout.end[region]
    BY <1>2, <2>1
  <2> QED BY <1>2, <2>2, <2>4, <2>5, <2>6 DEF CursorInv
<1>5. BuildInv
  BY <1>2 DEF BuildInv
<1>6. Populating /\ Building /\ ~Paged
  BY <1>2 DEF Building, Populating, Paged
<1>7. ListInv
  BY <1>2, <1>6 DEF ListInv
<1>8. MapInv
  BY <1>2 DEF MapInv, Paged
<1>9. AnswerInv
  BY <1>6 DEF AnswerInv
<1> QED BY <1>4, <1>5, <1>7, <1>8, <1>9 DEF SafeInv

(* While the table is built nothing is mapped or answered. *)
LEMMA BuildingIsQuiet ==
    ASSUME BuildInv, Building, Building', UNCHANGED <<kpt, ptr, pteOff, va>>
    PROVE  MapInv' /\ AnswerInv'
<1>1. DOMAIN kpt' = {}
  BY DEF BuildInv
<1>2. /\ pc' \notin {"mapKernel", "mapVideoCard", "mapEntireMemory"} /\ ~Paged'
  BY DEF Building, Populating, Paged
<1> QED BY <1>1, <1>2 DEF MapInv, AnswerInv, Paged

(* One descriptor more, for the page behind the last. *)
LEMMA PopulateKeepsSafe ==
    ASSUME BootInv, SafeInv, PopulatePageDescriptor
    PROVE  SafeInv'
<1> DEFINE d == [startAddress |-> s, isAvailable |-> pc # "hole",
                 isfree |-> s > Limit, nextFree |-> N + 2, virt |-> FALSE]
<1>1. /\ Populating /\ Building /\ Populating' /\ Building' /\ pc' = pc
      /\ UNCHANGED <<layout, region, kpt, granted, ptr, pteOff, va>>
      /\ MorePages /\ s' = s + PageSize
      /\ F' = IF s > Limit /\ F = 0 THEN N + 1 ELSE F
      /\ H' = IF s > Limit /\ F = 0 THEN N + 1 ELSE H
      /\ descs' = Append(descs, d)
  BY DEF PopulatePageDescriptor, Populating, Building, F, H, N
<1>2. /\ LayoutFacts /\ PageSize \in Nat \ {0} /\ Limit \in Nat /\ N \in Nat
      /\ F \in 0 .. N /\ s \in Nat /\ region \in 1 .. LastRegion
      /\ layout.start[1] \in Nat /\ PhysBase \in Nat /\ LM \in Nat
      /\ LastRegion \in Nat
  BY Numbers
<1>3. /\ N' = N + 1 /\ \A i \in 1 .. N : descs'[i] = descs[i]
      /\ descs'[N + 1] = d
  <2>1. descs \in Seq(Descriptor)
    BY Numbers DEF TypeOK
  <2> HIDE DEF d
  <2> QED BY <1>1, <2>1 DEF N
<1>4. /\ Limit' = Limit /\ LM' = LM /\ LastRegion' = LastRegion
      /\ FirstFrame' = FirstFrame /\ layout' = layout
  BY <1>1 DEF Limit, LM, LastMapped, LastRegion, FirstFrame
<1>5. /\ s <= IF pc = "hole" THEN layout.start[region + 1] ELSE layout.end[region]
      /\ PageSize * N <= s - layout.start[1]
      /\ F = 0 => PageSize * N <= Limit + PageSize - layout.start[1]
      /\ pc = "last" => Aligned(s)
      /\ F # 0 => pc = "last" /\ s = Frame(N + 1)
  BY <1>1 DEF SafeInv, CursorInv
<1>6. /\ (region = LastRegion) <=> (pc = "last")
      /\ pc = "last" /\ F = 0 => s <= Limit + PageSize
  BY <1>1 DEF BootInv, PopulateInv
<1>7. s' <= IF pc' = "hole" THEN layout'.start[region' + 1] ELSE layout'.end[region']
  <2>1. CASE pc = "hole"
    <3>1. region + 1 \in 1 .. LastRegion
      BY <1>2, <1>6, <2>1
    <3>2. layout.start[region + 1] \in Nat
      BY <1>2, <3>1 DEF LayoutFacts
    <3>3. s + PageSize < layout.start[region + 1]
      BY <2>1, <1>1 DEF MorePages
    <3> QED BY <1>1, <1>2, <2>1, <3>2, <3>3
  <2>2. CASE pc # "hole"
    <3>1. s + PageSize <= layout.end[region]
      BY <2>2, <1>1 DEF MorePages, Populating
    <3> QED BY <1>1, <2>2, <3>1
  <2> QED BY <2>1, <2>2
<1>8. s > Limit => pc = "last"
  <2>1. ASSUME pc # "last" PROVE s <= Limit
    <3>1. region \in 1 .. LastRegion - 1 /\ region + 1 \in 1 .. LastRegion
      BY <1>2, <1>6, <2>1
    <3>2. /\ layout.end[region] <= PhysBase /\ layout.start[region + 1] <= PhysBase
          /\ PhysBase < Limit
          /\ layout.end[region] \in Nat /\ layout.start[region + 1] \in Nat
      BY <1>2, <3>1 DEF LayoutFacts
    <3> QED BY <1>2, <1>5, <3>2
  <2>2. CASE pc = "last"
    BY <2>2
  <2>3. CASE pc # "last"
    <3>1. ~(s > Limit)
      BY <1>2, <2>1, <2>3
    <3> QED BY <3>1
  <2> QED BY <2>2, <2>3
<1>9. PageSize * N' = PageSize * N + PageSize /\ PageSize * N \in Int
  <2>1. PageSize * (N + 1) = PageSize * N + PageSize
    BY <1>2
  <2> QED BY <1>2, <1>3, <2>1
<1>10. pc = "last" => Aligned(s')
  BY <1>1, <1>2, <1>5, AlignedNext
<1>a. PageSize * N' <= s' - layout'.start[1]
  <2>1. PICK a \in Int : a = PageSize * N
    BY <1>9
  <2>2. a <= s - layout.start[1] /\ PageSize * N' = a + PageSize
    BY <1>5, <1>9, <2>1
  <2> QED BY <1>1, <1>2, <2>2
<1>11. CASE F = 0 /\ s <= Limit
  <2>1. F' = 0
    BY <1>1, <1>2, <1>11
  <2>2. PageSize * N' <= Limit' + PageSize - layout'.start[1]
    <3>1. PICK a \in Int : a = PageSize * N'
      BY <1>2, <1>9
    <3>2. a <= s + PageSize - layout.start[1]
      BY <1>1, <1>2, <1>4, <1>a, <3>1
    <3>3. a <= Limit + PageSize - layout.start[1]
      BY <1>2, <1>11, <3>2
    <3> QED BY <1>4, <3>1, <3>3
  <2>3. CursorInv'
    BY <1>1, <1>4, <1>7, <1>10, <1>a, <2>1, <2>2 DEF CursorInv, Aligned
  <2>4. BuildInv'
    BY <1>1, <2>1 DEF SafeInv, BuildInv
  <2>5. ListInv'
    BY <1>1, <2>1 DEF ListInv, Paged, Populating, Building
  <2> QED BY <1>1, <2>3, <2>4, <2>5, BuildingIsQuiet DEF SafeInv
<1>12. CASE F = 0 /\ s > Limit
  <2>1. F' = N + 1 /\ H' = N + 1 /\ pc = "last" /\ F' # 0
    BY <1>1, <1>2, <1>8, <1>12
  <2>2. s = FirstFrame
    BY <1>2, <1>5, <1>6, <1>12, <2>1, FirstFrameIsTheOne
  <2>3. Frame(N + 1)' = s' /\ \A i : i = N + 1 => Frame(i)' = s
    <3>1. N' + 1 - F' = 1 /\ N + 1 - F' = 0 /\ FirstFrame \in Nat
      BY <1>2, <1>3, <2>1, FrameIs
    <3>2. PageSize * 0 = 0 /\ PageSize * 1 = PageSize
      BY <1>2
    <3>3. ASSUME NEW i, i = N + 1 PROVE Frame(i)' = FirstFrame + PageSize * 0
      <4>1. i - F' = 0
        BY <1>2, <2>1, <3>3
      <4>2. Frame(i)' = FirstFrame' + PageSize * (i - F')
        BY DEF Frame
      <4> QED BY <1>4, <4>1, <4>2
    <3>4. Frame(N + 1)' = FirstFrame + PageSize * 1
      <4>1. Frame(N + 1)' = FirstFrame' + PageSize * (N' + 1 - F')
        BY <1>2, <1>3, <2>1 DEF Frame
      <4> QED BY <1>4, <3>1, <4>1
    <3> QED BY <1>1, <2>2, <3>1, <3>2, <3>3, <3>4
  <2>4. CursorInv'
    BY <1>1, <1>7, <1>10, <1>a, <2>1, <2>3 DEF CursorInv, Aligned
  <2>5. BuildInv'
    <3>1. ASSUME NEW i \in F' .. N' PROVE Entry(i)' /\ descs'[i].isfree
      <4>1. i = N + 1
        BY <1>2, <1>3, <2>1
      <4>2. descs'[i] = d
        BY <1>3, <4>1
      <4>3. d.startAddress = Frame(i)' /\ d.isAvailable /\ d.isfree
        BY <1>12, <2>1, <2>3, <4>1
      <4>4. d.nextFree = i + 1
        BY <1>2, <4>1
      <4> QED BY <4>2, <4>3, <4>4 DEF Entry
    <3> QED BY <1>1, <2>1, <3>1 DEF SafeInv, BuildInv
  <2>6. F' + 12 <= LM'
    <3>1. PICK a \in Int, b \in Int :
             a = PageSize * N /\ b = PageSize * (LM - 14)
      BY <1>2
    <3>2. Limit - layout.start[1] <= b /\ a <= Limit + PageSize - layout.start[1]
      BY <1>5, <1>12, <3>1, LayoutInUse, Numbers
    <3>3. PageSize * (LM - 12) = b + 2 * PageSize
      <4>1. (LM - 14) + 2 = LM - 12
        BY <1>2
      <4>2. PageSize * ((LM - 14) + 2) = PageSize * (LM - 14) + PageSize * 2
        BY <1>2, AddMul
      <4> QED BY <1>2, <3>1, <4>1, <4>2
    <3>4. a < PageSize * (LM - 12)
      BY <1>2, <3>2, <3>3
    <3>5. N < LM - 12
      BY <1>2, <3>1, <3>4, MulCancel
    <3> QED BY <1>2, <1>4, <2>1, <3>5
  <2>7. ListInv'
    BY <1>1, <2>6 DEF ListInv, Paged, Populating, Building
  <2> QED BY <1>1, <2>4, <2>5, <2>7, BuildingIsQuiet DEF SafeInv
<1>13. CASE F # 0
  <2>1. /\ F' = F /\ H' = H /\ pc = "last" /\ s = Frame(N + 1) /\ Kept
        /\ firstFreeLocation' = firstFreeLocation
    BY <1>1, <1>5, <1>13 DEF Kept, F
  <2>2. s > Limit
    BY <1>2, <2>1, FrameIs
  <2>3. Frame(N + 1)' = s' /\ \A i : Frame(i)' = Frame(i)
    <3>1. \A i : Frame(i)' = Frame(i)
      BY <2>1, KeptFrames
    <3>2. Frame(N + 1)' = Frame(N' + 1)
      BY <2>1, <1>4 DEF Frame
    <3>3. Frame((N + 1) + 1) = Frame(N + 1) + PageSize /\ (N + 1) + 1 = N' + 1
      BY <1>2, <1>3, FrameIs
    <3> QED BY <1>1, <2>1, <3>1, <3>2, <3>3
  <2>4. CursorInv'
    BY <1>1, <1>7, <1>10, <1>a, <1>13, <2>1, <2>3 DEF CursorInv, Aligned
  <2>5. BuildInv'
    <3>1. ASSUME NEW i \in F' .. N' PROVE Entry(i)' /\ descs'[i].isfree
      <4>1. CASE i \in F .. N
        <5>1. Entry(i) /\ descs[i].isfree
          BY <1>1, <1>13, <4>1 DEF SafeInv, BuildInv
        <5>2. i \in 1 .. N
          BY <1>2, <1>13, <4>1
        <5> QED BY <1>3, <2>3, <5>1, <5>2 DEF Entry
      <4>2. CASE i = N + 1
        <5>1. descs'[i] = d
          BY <1>3, <4>2
        <5>2. d.startAddress = Frame(i) /\ d.isAvailable /\ d.isfree
          BY <2>1, <2>2, <4>2
        <5>3. d.nextFree = i + 1
          BY <1>2, <4>2
        <5> QED BY <2>3, <5>1, <5>2, <5>3 DEF Entry
      <4> QED BY <1>2, <1>3, <2>1, <4>1, <4>2
    <3>2. H = F
      BY <1>1, <1>13 DEF SafeInv, BuildInv
    <3> QED BY <1>1, <2>1, <3>1, <3>2 DEF SafeInv, BuildInv
  <2>6. ListInv'
    BY <1>1, <1>4, <1>13, <2>1 DEF SafeInv, ListInv, Paged, Populating, Building
  <2> QED BY <1>1, <2>4, <2>5, <2>6, BuildingIsQuiet DEF SafeInv
<1> QED BY <1>2, <1>11, <1>12, <1>13

(* From one region to the hole behind it, and to the next. *)
LEMMA NextCallKeepsSafe ==
    ASSUME BootInv, SafeInv, NextCall
    PROVE  SafeInv'
<1>1. /\ Populating /\ Building /\ Building'
      /\ UNCHANGED <<layout, descs, freeListHead, firstFreeLocation, kpt,
                     granted, ptr, pteOff, va>>
  BY DEF NextCall, Populating, Building
<1>2. /\ LayoutFacts /\ PageSize \in Nat \ {0} /\ Limit \in Nat /\ N \in Nat
      /\ F \in 0 .. N /\ s \in Nat /\ region \in 1 .. LastRegion
      /\ layout.start[1] \in Nat /\ LastRegion \in Nat /\ TypeOK
  BY Numbers
<1>3. /\ Kept /\ F' = F /\ N' = N /\ H' = H /\ Limit' = Limit /\ LM' = LM
      /\ LastRegion' = LastRegion /\ LastEnd' = LastEnd
      /\ \A i : Frame(i)' = Frame(i)
  <2>1. Kept
    BY <1>1 DEF Kept
  <2> QED BY <1>1, <2>1, KeptFrames DEF N, H
<1>4. /\ s <= IF pc = "hole" THEN layout.start[region + 1] ELSE layout.end[region]
      /\ PageSize * N <= s - layout.start[1]
      /\ F = 0 => PageSize * N <= Limit + PageSize - layout.start[1]
      /\ F # 0 => pc = "last" /\ s = Frame(N + 1)
  BY <1>1 DEF SafeInv, CursorInv
<1>5. (region = LastRegion) <=> (pc = "last")
  BY <1>1 DEF BootInv, PopulateInv
<1>6. PageSize * N \in Int
  BY <1>2
<1>7. BuildInv'
  <2>1. F' # 0 => \A i \in F' .. N' : Entry(i)' /\ descs'[i].isfree
    <3>1. ASSUME F' # 0, NEW i \in F' .. N' PROVE Entry(i)' /\ descs'[i].isfree
      <4>1. Entry(i) /\ descs[i].isfree
        BY <1>1, <1>3, <3>1 DEF SafeInv, BuildInv
      <4> QED BY <1>1, <1>3, <4>1 DEF Entry
    <3> QED BY <3>1
  <2> QED BY <1>1, <1>3, <2>1 DEF SafeInv, BuildInv
<1>8. F' # 0 => F' + 12 <= LM'
  BY <1>3 DEF SafeInv, ListInv
<1>9. ~Paged'
  BY <1>1 DEF Building, Populating, Paged
<1>10. CASE pc = "last"
  <2>1. pc' = "exclude" /\ ~Populating' /\ region = LastRegion
    BY <1>5, <1>10 DEF NextCall, Populating
  <2>2. F # 0
    BY <1>3, <2>1, NextCallKeepsBootInv DEF BootInv, TableInv
  <2>3. (Frame(N + 1) <= LastEnd)'
    <3>1. Frame(N + 1)' = Frame(N' + 1)
      BY <1>2, <1>3, KeptFrames DEF Frame
    <3> QED BY <1>3, <1>4, <1>10, <2>1, <2>2, <3>1 DEF LastEnd
  <2>4. ListInv'
    BY <1>1, <1>8, <1>9, <2>3 DEF ListInv
  <2>5. CursorInv'
    BY <2>1 DEF CursorInv
  <2> QED BY <1>1, <1>7, <2>4, <2>5, BuildingIsQuiet DEF SafeInv
<1>11. CASE pc # "last"
  <2>1. region \in 1 .. LastRegion - 1 /\ region + 1 \in 1 .. LastRegion
    BY <1>2, <1>5, <1>11
  <2>2. /\ layout.end[region] <= layout.start[region + 1]
        /\ layout.start[region + 1] <= layout.end[region + 1]
        /\ layout.end[region] \in Nat /\ layout.start[region + 1] \in Nat
    BY <1>2, <2>1 DEF LayoutFacts
  <2>3. F = 0 /\ F' = 0
    BY <1>3, <1>4, <1>11
  <2>4. /\ Populating' /\ s' \in Nat /\ s <= s'
        /\ s' <= IF pc' = "hole" THEN layout'.start[region' + 1]
                                 ELSE layout'.end[region']
        /\ pc' = "last" => Aligned(s')
    <3>1. CASE pc = "available"
      <4>1. pc' = "hole" /\ s' = layout.end[region] /\ region' = region
        BY <3>1 DEF NextCall
      <4> QED BY <1>1, <1>4, <2>2, <3>1, <4>1 DEF Populating
    <3>2. CASE pc = "hole"
      <4>1. /\ pc' \in {"last", "available"} /\ s' = layout.start[region + 1]
            /\ region' = region + 1
        BY <3>2 DEF NextCall
      <4>2. Aligned(s')
        BY <1>2, <2>1, <4>1, RegionsAreAligned
      <4> QED BY <1>1, <1>4, <2>2, <3>2, <4>1, <4>2 DEF Populating
    <3> QED BY <1>1, <1>11, <3>1, <3>2 DEF Populating
  <2>5. PageSize * N' <= s' - layout'.start[1]
    <3>1. PICK a \in Int : a = PageSize * N
      BY <1>6
    <3> QED BY <1>1, <1>2, <1>3, <1>4, <2>4, <3>1
  <2>6. PageSize * N' <= Limit' + PageSize - layout'.start[1]
    BY <1>1, <1>3, <1>4, <2>3
  <2>7. CursorInv'
    BY <2>3, <2>4, <2>5, <2>6 DEF CursorInv, Aligned
  <2>8. ListInv'
    BY <1>1, <1>8, <1>9, <2>4 DEF ListInv
  <2> QED BY <1>1, <1>7, <2>7, <2>8, BuildingIsQuiet DEF SafeInv
<1> QED BY <1>10, <1>11

-----------------------------------------------------------------------------
(* After the build: the parts that no step disturbs, and the answers. *)

(* What holds of the list once the table is built. *)
LEMMA Built ==
    ASSUME BootInv, SafeInv, ~Building
    PROVE  /\ MapInv /\ TableLeft /\ ~Populating
           /\ F + 12 <= LM /\ Frame(N + 1) <= LastEnd
           /\ Paged => \A i \in F .. LM : descs[i].virt
           /\ \E e \in F .. LM + 1 : AnswersUpTo(e) /\ HeadAt(e)
           /\ F \in Nat /\ LM \in Nat /\ N \in Nat /\ F >= 1
<1>1. ~Populating
  BY DEF Building
<1>2. F # 0 /\ F \in Nat /\ LM \in Nat /\ N \in Nat /\ F >= 1
  BY <1>1, Indices
<1> QED BY <1>1, <1>2 DEF SafeInv, ListInv, AnswerInv

(* To keep the invariant from then on, keep table, mapping and answers. *)
LEMMA StaysBuilt ==
    ASSUME BootInv, SafeInv, ~Populating, ~Building', Kept, Len(descs') = N,
           TableLeft', (Paged => \A i \in F .. LM : descs[i].virt)',
           MapInv', NEW e \in F .. LM + 1, AnswersUpTo(e)', HeadAt(e)'
    PROVE  SafeInv'
<1>1. ~Populating'
  BY DEF Building
<1>2. F' = F /\ LM' = LM /\ LastEnd' = LastEnd
  BY KeptFrames
<1>3. CursorInv' /\ BuildInv'
  BY <1>1 DEF CursorInv, BuildInv
<1>4. F' # 0 => F' + 12 <= LM'
  BY <1>2 DEF SafeInv, ListInv
<1>5. (Frame(N + 1) <= LastEnd)'
  <2>1. N' = N /\ N \in Nat
    BY Numbers DEF N
  <2>2. Frame(N + 1)' = Frame(N' + 1)
    BY <2>1, KeptFrames DEF Frame
  <2> QED BY <1>2, <2>1, <2>2 DEF SafeInv, ListInv
<1>6. ListInv'
  BY <1>4, <1>5 DEF ListInv
<1>7. AnswerInv'
  BY <1>2 DEF AnswerInv
<1> QED BY <1>3, <1>6, <1>7 DEF SafeInv

(* The second pass marks holes, none of which is on the list. *)
LEMMA ExcludeKeepsSafe ==
    ASSUME BootInv, SafeInv, ExcludeUnavailableMemory
    PROVE  SafeInv'
<1>1. /\ pc = "exclude" /\ pc' = "pagingSetup" /\ ~Populating /\ Building
      /\ ~Building' /\ ~Paged' /\ Kept
      /\ UNCHANGED <<layout, freeListHead, firstFreeLocation, kpt, granted>>
  BY DEF ExcludeUnavailableMemory, Populating, Building, Paged, Kept
<1>2. /\ F \in Nat /\ F >= 1 /\ LM \in Nat /\ LM + 1 \in 1 .. N /\ N \in Nat
      /\ F .. LM \subseteq 1 .. N /\ DOMAIN descs = 1 .. N
      /\ descs \in Seq(Descriptor)
  BY <1>1, Indices
<1>3. /\ H = F /\ granted = <<>> /\ DOMAIN kpt = {}
      /\ \A i \in F .. N : Entry(i) /\ descs[i].isfree
  BY <1>1, <1>2 DEF SafeInv, BuildInv
<1>4. /\ F' = F /\ LM' = LM /\ \A i : Frame(i)' = Frame(i)
  BY <1>1, KeptFrames
<1>5. ASSUME NEW i \in F .. N PROVE descs'[i] = descs[i]
  <2>1. i \in 1 .. N
    BY <1>2
  <2>2. i < N => descs[i + 1].isAvailable
    <3>1. i < N => i + 1 \in F .. N
      BY <1>2
    <3> QED BY <1>3, <3>1 DEF Entry
  <2>3. descs'[i] = IF /\ descs[i].isAvailable
                       /\ i < Len(descs) /\ ~descs[i + 1].isAvailable
                    THEN [descs[i] EXCEPT !.nextFree = NextAvailable(i)]
                    ELSE descs[i]
    BY <1>2, <2>1 DEF ExcludeUnavailableMemory
  <2> QED BY <2>2, <2>3 DEF N
<1>6. Len(descs') = N
  <2>1. DOMAIN descs' = 1 .. N
    BY <1>2 DEF ExcludeUnavailableMemory
  <2>2. descs' \in Seq(Descriptor)
    BY ExcludeKeepsBootInv DEF BootInv, TypeOK
  <2> QED BY <1>2, <2>1, <2>2
<1>7. TableLeft'
  <2>1. ASSUME NEW i \in F .. LM PROVE Entry(i)'
    <3>1. i \in F .. N
      BY <1>2
    <3>2. Entry(i) /\ descs'[i] = descs[i]
      BY <1>3, <1>5, <3>1
    <3> QED BY <1>4, <3>2 DEF Entry
  <2>2. (descs[LM + 1].startAddress \in {0, Frame(LM + 1)})'
    <3>1. F + 12 <= LM
      BY <1>1, <1>2 DEF SafeInv, ListInv
    <3>2. LM + 1 \in F .. N
      BY <1>2, <3>1
    <3>3. descs'[LM + 1].startAddress = Frame(LM + 1)
      BY <1>3, <1>5, <3>2 DEF Entry
    <3> QED BY <1>1, <1>4, <3>3, KeptFrames DEF Frame
  <2> QED BY <1>4, <2>1, <2>2 DEF TableLeft
<1>8. MapInv'
  BY <1>1, <1>3 DEF MapInv, Paged
<1>9. PICK e \in F .. LM + 1 : e = F
  <2>1. F + 12 <= LM
    BY <1>1, <1>2 DEF SafeInv, ListInv
  <2> QED BY <1>2, <2>1
<1>10. AnswersUpTo(e)'
  <2>1. DOMAIN granted' = {}
    BY <1>1, <1>3
  <2>2. F' .. e - 1 = {}
    BY <1>2, <1>4, <1>9
  <2> QED BY <2>1, <2>2 DEF AnswersUpTo
<1>11. HeadAt(e)'
  <2>1. H' = e /\ Len(granted') = 0 /\ e = F' + 0
    BY <1>1, <1>2, <1>3, <1>4, <1>9 DEF H
  <2>2. FreeFrom(e)'
    <3>1. ASSUME NEW i \in e .. LM PROVE descs'[i].isfree
      <4>1. i \in F .. N
        BY <1>2, <1>9
      <4> QED BY <1>3, <1>5, <4>1
    <3> QED BY <1>4, <3>1 DEF FreeFrom
  <2> QED BY <1>1, <2>1, <2>2 DEF HeadAt
<1> QED BY <1>1, <1>6, <1>7, <1>8, <1>10, <1>11, StaysBuilt

-----------------------------------------------------------------------------
(* Boot: the kernel's page tables *)

(* The first four frames become the paging pages. *)
LEMMA PagingSetupKeepsSafe ==
    ASSUME BootInv, SafeInv, PagingSetup
    PROVE  SafeInv'
<1>1. /\ pc = "pagingSetup" /\ GetFreePage /\ Kept /\ ~Building /\ ~Populating
      /\ UNCHANGED <<kpt, va>>
      /\ IF Len(granted) = 3 THEN pc' = "mapKernel" /\ ptr' = PhysBase
         ELSE pc' = pc
      /\ ~Building' /\ ~Paged'
  BY DEF PagingSetup, Kept, Building, Populating, Paged
<1>2. /\ MapInv /\ TableLeft /\ F + 12 <= LM
      /\ F \in Nat /\ LM \in Nat
  BY <1>1, Built
<1>3. PICK e \in F .. LM + 1 : AnswersUpTo(e) /\ HeadAt(e)
  BY <1>1, Built
<1>4. /\ H = e /\ FreeFrom(e) /\ e = F + Len(granted) /\ Len(granted) <= 3
  BY <1>1, <1>3 DEF HeadAt
<1>5. e \in F .. LM
  BY <1>2, <1>3, <1>4
<1>6. PICK d \in F .. LM + 1 : d = e + 1
  BY <1>2, <1>5
<1>7. /\ AnswersUpTo(d)' /\ H' = d /\ FreeFrom(d)' /\ TableLeft'
      /\ Len(granted') = Len(granted) + 1
  <2>1. d \in Int
    BY <1>2, <1>6
  <2> QED BY <1>1, <1>2, <1>3, <1>4, <1>5, <1>6, <2>1, FreePageTaken
<1>8. Len(descs') = N
  BY <1>1, GetFreePageTyped DEF BootInv, N
<1>9. HeadAt(d)'
  <2>1. PICK n \in Nat : n = Len(granted)
    <3>1. Len(granted) \in Nat
      BY Numbers DEF TypeOK
    <3> QED BY <3>1
  <2>2. F' = F /\ e = F + n /\ n <= 3 /\ d = F + n + 1 /\ Len(granted') = n + 1
    BY <1>1, <1>2, <1>4, <1>6, <1>7, <2>1, KeptFrames
  <2>3. pc' = "pagingSetup" => d = F' + Len(granted') /\ Len(granted') <= 3
    <3>1. pc' = "pagingSetup" => n # 3
      BY <1>1, <2>1
    <3> QED BY <1>2, <2>1, <2>2, <3>1
  <2>4. pc' = "mapKernel" => d = F' + 4
    <3>1. pc' = "mapKernel" => n = 3
      BY <1>1, <2>1
    <3>2. F \in Int /\ n = 3 => F + n + 1 = F + 4
      BY <2>1
    <3> QED BY <1>2, <2>2, <3>1, <3>2
  <2>5. pc' \in {"pagingSetup", "mapKernel"}
    BY <1>1
  <2> QED BY <1>7, <2>3, <2>4, <2>5 DEF HeadAt
<1>10. MapInv'
  <2>1. pc' = "mapKernel" => ptr' <= Limit' + PageSize
    <3>1. /\ Limit' = Limit /\ PhysBase < Limit /\ Limit \in Nat
          /\ PhysBase \in Nat /\ PageSize \in Nat
      BY <1>1, KeptFrames, Numbers DEF LayoutFacts
    <3> QED BY <1>1, <3>1
  <2>2. pc' \in {"pagingSetup", "mapKernel"}
    BY <1>1
  <2> QED BY <1>1, <1>2, <2>1, <2>2 DEF MapInv
<1> QED BY <1>1, <1>6, <1>7, <1>8, <1>9, <1>10, StaysBuilt

(* What MapTo(o, PhysBase + o) adds to the kernel's mapping. *)
LEMMA MapToKeeps ==
    ASSUME BootInv, MapInv, va' = va + PageSize, MapTo(va, PhysBase + va)
    PROVE  /\ \A o \in DOMAIN kpt' : \/ o = VideoMemory - PhysBase
                                     \/ o >= 0 /\ o < va' /\ kpt'[o] = PhysBase + o
           /\ DOMAIN kpt' = DOMAIN kpt \cup {va}
<1>1. /\ va \in Nat /\ PageSize \in Nat \ {0} /\ DOMAIN kpt \subseteq Int
  BY Numbers DEF TypeOK
<1>2. /\ DOMAIN kpt' = DOMAIN kpt \cup {va}
      /\ \A o \in DOMAIN kpt' : kpt'[o] = IF o = va THEN PhysBase + va ELSE kpt[o]
  BY DEF MapTo
<1>3. ASSUME NEW o \in DOMAIN kpt'
      PROVE  \/ o = VideoMemory - PhysBase
             \/ o >= 0 /\ o < va' /\ kpt'[o] = PhysBase + o
  <2>1. CASE o = va
    BY <1>1, <1>2, <2>1
  <2>2. CASE o # va
    <3>1. o \in DOMAIN kpt /\ o \in Int /\ kpt'[o] = kpt[o]
      BY <1>1, <1>2, <2>2
    <3>2. \/ o = VideoMemory - PhysBase
          \/ o >= 0 /\ o < va /\ kpt[o] = PhysBase + o
      BY <3>1 DEF MapInv
    <3> QED BY <1>1, <3>1, <3>2
  <2> QED BY <2>1, <2>2
<1> QED BY <1>2, <1>3

(* Steps that leave the list alone leave its descriptors and answers. *)
LEMMA ListUntouched ==
    ASSUME BootInv, TableLeft, ~Populating, Kept,
           UNCHANGED <<descs, freeListHead, granted>>,
           NEW e \in F .. LM + 1, AnswersUpTo(e)
    PROVE  /\ AnswersUpTo(e)' /\ TableLeft' /\ Len(descs') = N /\ H' = H
           /\ FreeFrom(e) => FreeFrom(e)'
<1>1. /\ LM' = LM /\ F' = F /\ \A i : Frame(i)' = Frame(i)
  BY KeptFrames
<1>2. TableLeft'
  <2>1. (descs[LM + 1].startAddress \in {0, Frame(LM + 1)})'
    BY KeptFrames DEF TableLeft, Frame
  <2>2. ASSUME NEW i \in F .. LM PROVE Entry(i)'
    BY <1>1 DEF TableLeft, Entry
  <2> QED BY <1>1, <2>1, <2>2 DEF TableLeft
<1>3. AnswersUpTo(e)'
  BY KeptAnswers
<1>4. FreeFrom(e) => FreeFrom(e)'
  BY <1>1 DEF FreeFrom
<1> QED BY <1>2, <1>3, <1>4 DEF N, H

(* mapKernel maps the image, and stops at FirstFrame. *)
LEMMA MapKernelKeepsSafe ==
    ASSUME BootInv, SafeInv, MapKernel
    PROVE  SafeInv'
<1>1. /\ pc = "mapKernel" /\ Kept /\ ~Building /\ ~Populating
      /\ UNCHANGED <<descs, freeListHead, granted, layout>>
      /\ pc' \in {"mapKernel", "mapVideoCard"}
      /\ ~Building' /\ ~Paged' /\ ~Paged
  BY DEF MapKernel, Kept, Building, Populating, Paged
<1>2. /\ MapInv /\ TableLeft /\ F \in Nat /\ LM \in Nat
  BY <1>1, Built
<1>3. PICK e \in F .. LM + 1 : AnswersUpTo(e) /\ HeadAt(e)
  BY <1>1, Built
<1>4. /\ AnswersUpTo(e)' /\ TableLeft' /\ Len(descs') = N /\ H' = H
      /\ FreeFrom(e) => FreeFrom(e)'
  BY <1>1, <1>2, <1>3, ListUntouched
<1>5. HeadAt(e)'
  <2>1. F' = F
    BY <1>1, KeptFrames
  <2> QED BY <1>1, <1>3, <1>4, <2>1 DEF HeadAt
<1>6. /\ ptr = PhysBase + va /\ va = PageSize * pteOff
      /\ ptr \in Nat /\ va \in Nat /\ pteOff \in Nat
      /\ PhysBase \in Nat /\ PageSize \in Nat \ {0} /\ Limit \in Nat
  BY <1>1, Numbers, ConstantsOK DEF BootInv, TableInv, TypeOK, ConstantsOK
<1>7. Limit' = Limit /\ FirstFrame' = FirstFrame
  BY <1>1, KeptFrames
<1>8. ptr <= Limit + PageSize
  BY <1>1, <1>2 DEF MapInv
<1>9. CASE ptr <= Limit
  <2>1. /\ MapTo(va, ptr) /\ va' = va + PageSize /\ ptr' = ptr + PageSize
        /\ pc' = pc
    BY <1>9 DEF MapKernel
  <2>2. \A o \in DOMAIN kpt' : \/ o = VideoMemory - PhysBase
                               \/ o >= 0 /\ o < va' /\ kpt'[o] = PhysBase + o
    BY <1>2, <1>6, <2>1, MapToKeeps
  <2>3. ptr' <= Limit' + PageSize
    BY <1>6, <1>7, <1>9, <2>1
  <2>4. MapInv'
    BY <1>1, <2>1, <2>2, <2>3 DEF MapInv
  <2> QED BY <1>1, <1>4, <1>5, <2>4, StaysBuilt
<1>10. CASE ~(ptr <= Limit)
  <2>1. pc' = "mapVideoCard" /\ UNCHANGED <<va, ptr, kpt>>
    BY <1>10 DEF MapKernel
  <2>2. Aligned(ptr)
    <3>1. PICK q \in Nat : PhysBase = PageSize * q
      <4>1. PICK q \in Nat, r \in 0 .. PageSize - 1 :
               PhysBase \div PageSize = q /\ PhysBase % PageSize = r
               /\ PhysBase = PageSize * q + r
        BY <1>6, DivisionIs
      <4>2. r = 0
        BY <4>1, AlignmentOK DEF AlignmentOK
      <4>3. PageSize * q \in Nat
        BY <1>6
      <4> QED BY <4>1, <4>2, <4>3
    <3>2. PageSize * (q + pteOff) = PageSize * q + PageSize * pteOff
      BY <1>6, AddMul
    <3>3. ptr = PageSize * (q + pteOff)
      BY <1>6, <3>1, <3>2
    <3>4. PICK m \in Nat : m = q + pteOff
      BY <1>6
    <3>5. m * 1 <= m * PageSize
      BY <1>6, MulMonotone
    <3>6. m \in 0 .. ptr
      BY <1>6, <3>3, <3>4, <3>5
    <3> QED BY <3>3, <3>4, <3>6 DEF Aligned
  <2>3. ptr = FirstFrame
    BY <1>6, <1>8, <1>10, <2>2, FirstFrameIsTheOne
  <2>4. va' = FirstFrame' - PhysBase
    BY <1>6, <1>7, <2>1, <2>3
  <2>5. MapInv'
    BY <1>1, <1>2, <2>1, <2>4 DEF MapInv
  <2> QED BY <1>1, <1>4, <1>5, <2>5, StaysBuilt
<1> QED BY <1>9, <1>10

(* The video memory is mapped below the image. *)
LEMMA MapVideoCardKeepsSafe ==
    ASSUME BootInv, SafeInv, MapVideoCard
    PROVE  SafeInv'
<1>1. /\ pc = "mapVideoCard" /\ pc' = "mapEntireMemory" /\ GetFreePage /\ Kept
      /\ ~Building /\ ~Populating /\ ~Building' /\ ~Paged'
      /\ va' = va /\ ptr' = F /\ MapTo(VideoMemory - PhysBase, VideoMemory)
  BY DEF MapVideoCard, Kept, Building, Populating, Paged, F
<1>2. /\ MapInv /\ TableLeft /\ F + 12 <= LM
      /\ F \in Nat /\ LM \in Nat
  BY <1>1, Built
<1>3. PICK e \in F .. LM + 1 : AnswersUpTo(e) /\ HeadAt(e)
  BY <1>1, Built
<1>4. H = e /\ FreeFrom(e) /\ e = F + 4
  BY <1>1, <1>3 DEF HeadAt
<1>5. e \in F .. LM
  BY <1>2, <1>3, <1>4
<1>6. PICK d \in F .. LM + 1 : d = e + 1
  BY <1>2, <1>5
<1>7. AnswersUpTo(d)' /\ H' = d /\ FreeFrom(d)' /\ TableLeft'
  <2>1. d \in Int
    BY <1>2, <1>6
  <2> QED BY <1>1, <1>2, <1>3, <1>4, <1>5, <1>6, <2>1, FreePageTaken
<1>8. Len(descs') = N
  BY <1>1, GetFreePageTyped DEF BootInv, N
<1>9. F' = F /\ LM' = LM /\ FirstFrame' = FirstFrame /\ \A i : Frame(i)' = Frame(i)
  BY <1>1, KeptFrames
<1>10. HeadAt(d)'
  <2>1. d = F' + 5
    BY <1>2, <1>4, <1>6, <1>9
  <2> QED BY <1>1, <1>7, <2>1 DEF HeadAt
<1>11. MapInv'
  <2>1. ASSUME NEW o \in DOMAIN kpt'
        PROVE  \/ o = VideoMemory - PhysBase
               \/ o >= 0 /\ o < va' /\ kpt'[o] = PhysBase + o
    <3>1. /\ DOMAIN kpt' = DOMAIN kpt \cup {VideoMemory - PhysBase}
          /\ o # VideoMemory - PhysBase => kpt'[o] = kpt[o]
      BY <1>1 DEF MapTo
    <3> QED BY <1>1, <1>2, <3>1 DEF MapInv
  <2>2. va' = Frame(F) - PhysBase
    <3>1. va = FirstFrame - PhysBase /\ Frame(F) = FirstFrame
      BY <1>1, <1>2, FrameIs DEF MapInv
    <3> QED BY <1>1, <3>1
  <2>3. va' = Frame(ptr)' - PhysBase
    BY <1>1, <1>9, <2>2, KeptFrames DEF Frame
  <2>4. ptr' \in F' .. LM' + 1
    BY <1>1, <1>2, <1>9
  <2>5. F' .. ptr' - 1 = {}
    BY <1>1, <1>2, <1>9
  <2> QED BY <1>1, <2>1, <2>3, <2>4, <2>5 DEF MapInv
<1> QED BY <1>1, <1>6, <1>7, <1>8, <1>10, <1>11, StaysBuilt

(* Where a descriptor lies. *)
LEMMA SlotIs ==
    ASSUME BootInv, NEW i \in Int
    PROVE  Slot(i) <= Limit <=> i <= LM
<1>1. LM = Limit - layout.physfree + 1 /\ layout.physfree \in Nat /\ Limit \in Nat
  BY Numbers DEF LayoutFacts
<1> QED BY <1>1 DEF Slot

(* A page table is taken at most once in PtEntries frames. *)
LEMMA NewPageTableKeepsSafe ==
    ASSUME BootInv, SafeInv, NewPageTable
    PROVE  SafeInv'
<1>1. /\ pc = "mapEntireMemory" /\ pc' = pc /\ GetFreePage /\ Kept
      /\ ~Building /\ ~Populating /\ ~Building' /\ ~Paged'
      /\ UNCHANGED <<va, ptr, kpt>> /\ pteOff = PtEntries /\ pteOff' = 0
      /\ Slot(ptr) <= Limit
  BY DEF NewPageTable, Kept, Building, Populating, Paged
<1>2. /\ MapInv /\ TableLeft /\ F + 12 <= LM
      /\ F \in Nat /\ LM \in Nat
  BY <1>1, Built
<1>3. PICK e \in F .. LM + 1 : AnswersUpTo(e) /\ HeadAt(e)
  BY <1>1, Built
<1>4. /\ H = e /\ FreeFrom(e)
      /\ e = F + 5 \/ (e > F + 5 /\ 2 * (e - F - 6) + pteOff <= ptr - F)
  BY <1>1, <1>3 DEF HeadAt
<1>5. ptr \in F .. LM /\ ptr \in Int /\ PtEntries \in Nat /\ PtEntries >= 2
  <2>1. ptr \in F .. LM + 1
    BY <1>1, <1>2 DEF MapInv
  <2>2. ptr \in Int
    BY <1>2, <2>1
  <2>3. ptr <= LM
    BY <1>1, <2>2, SlotIs
  <2>4. PtEntries \in Nat /\ PtEntries # 0 /\ PtEntries # 1
    BY ConstantsOK DEF ConstantsOK
  <2> QED BY <1>2, <2>1, <2>2, <2>3, <2>4
<1>6. /\ e \in F .. LM /\ e >= F + 5
      /\ e > F + 5 => 2 * (e + 1 - F - 6) <= ptr - F
  <2>1. e \in Int /\ F \in Int /\ LM \in Int /\ ptr \in Int
    BY <1>2, <1>3, <1>5
  <2>2. e > F + 5 => 2 * (e - F - 6) + 2 <= ptr - F
    BY <1>1, <1>4, <1>5, <2>1
  <2> QED BY <1>2, <1>3, <1>4, <1>5, <2>1, <2>2
<1>7. PICK d \in F .. LM + 1 : d = e + 1
  BY <1>2, <1>6
<1>8. AnswersUpTo(d)' /\ H' = d /\ FreeFrom(d)' /\ TableLeft'
  <2>1. d \in Int
    BY <1>2, <1>7
  <2> QED BY <1>1, <1>2, <1>3, <1>4, <1>6, <1>7, <2>1, FreePageTaken
<1>9. Len(descs') = N
  BY <1>1, GetFreePageTyped DEF BootInv, N
<1>10. HeadAt(d)'
  <2>1. F' = F
    BY <1>1, KeptFrames
  <2>2. d > F + 5 /\ 2 * (d - F - 6) + 0 <= ptr - F
    BY <1>2, <1>5, <1>6, <1>7
  <2>3. d > F' + 5 /\ 2 * (d - F' - 6) + pteOff' <= ptr' - F'
    BY <1>1, <2>1, <2>2
  <2> QED BY <1>1, <1>8, <2>3 DEF HeadAt
<1>11. MapInv'
  <2>1. F' = F /\ LM' = LM /\ Frame(ptr)' = Frame(ptr) /\ \A i : Frame(i)' = Frame(i)
    BY <1>1, KeptFrames DEF Frame
  <2> QED BY <1>1, <1>2, <2>1 DEF MapInv
<1> QED BY <1>1, <1>7, <1>8, <1>9, <1>10, <1>11, StaysBuilt

(* One frame of the list more is mapped. *)
LEMMA MapFrameKeepsSafe ==
    ASSUME BootInv, SafeInv, MapFrame
    PROVE  SafeInv'
<1>1. /\ pc = "mapEntireMemory" /\ pc' = pc /\ Kept
      /\ ~Building /\ ~Populating /\ ~Building' /\ ~Paged'
      /\ UNCHANGED <<descs, freeListHead, granted, layout>>
      /\ MapTo(va, descs[ptr].startAddress)
      /\ va' = va + PageSize /\ pteOff' = pteOff + 1 /\ ptr' = ptr + 1
      /\ Slot(ptr) <= Limit
  BY DEF MapFrame, Kept, Building, Populating, Paged
<1>2. /\ MapInv /\ TableLeft /\ F \in Nat /\ LM \in Nat
  BY <1>1, Built
<1>3. PICK e \in F .. LM + 1 : AnswersUpTo(e) /\ HeadAt(e)
  BY <1>1, Built
<1>4. /\ AnswersUpTo(e)' /\ TableLeft' /\ Len(descs') = N /\ H' = H
      /\ FreeFrom(e) => FreeFrom(e)'
  BY <1>1, <1>2, <1>3, ListUntouched
<1>5. ptr \in F .. LM /\ ptr \in Int /\ pteOff \in Int /\ va \in Nat
  <2>1. ptr \in F .. LM + 1
    BY <1>1, <1>2 DEF MapInv
  <2>2. ptr \in Int
    BY <1>2, <2>1
  <2>3. ptr <= LM
    BY <1>1, <2>2, SlotIs
  <2>4. pteOff \in 0 .. PtEntries /\ va \in Nat /\ PtEntries \in Nat
    BY Numbers, ConstantsOK DEF TypeOK, ConstantsOK
  <2> QED BY <1>2, <2>1, <2>2, <2>3, <2>4
<1>6. /\ F' = F /\ LM' = LM /\ FirstFrame' = FirstFrame
      /\ \A i : Frame(i)' = Frame(i)
  BY <1>1, KeptFrames
<1>7. HeadAt(e)'
  <2>1. e \in Int /\ F \in Int
    BY <1>2, <1>3
  <2>2. /\ H = e /\ FreeFrom(e)
        /\ e = F + 5 \/ (e > F + 5 /\ 2 * (e - F - 6) + pteOff <= ptr - F)
    BY <1>1, <1>3 DEF HeadAt
  <2>3. e = F' + 5 \/ (e > F' + 5 /\ 2 * (e - F' - 6) + pteOff' <= ptr' - F')
    BY <1>1, <1>5, <1>6, <2>1, <2>2
  <2> QED BY <1>1, <1>4, <2>2, <2>3 DEF HeadAt
<1>8. MapInv'
  <2>1. descs[ptr].startAddress = Frame(ptr) /\ va = Frame(ptr) - PhysBase
    BY <1>1, <1>2, <1>5 DEF TableLeft, Entry, MapInv
  <2>2. /\ Frame(ptr) \in Int /\ PhysBase \in Nat /\ PageSize \in Nat
        /\ Frame(ptr + 1) = Frame(ptr) + PageSize
    BY <1>5, FrameIs, Numbers
  <2>3. descs[ptr].startAddress = PhysBase + va
    BY <2>1, <2>2
  <2>4. /\ \A o \in DOMAIN kpt' : \/ o = VideoMemory - PhysBase
                                  \/ o >= 0 /\ o < va' /\ kpt'[o] = PhysBase + o
        /\ DOMAIN kpt' = DOMAIN kpt \cup {va}
    BY <1>1, <1>2, <2>3, MapToKeeps
  <2>5. ptr' \in F' .. LM' + 1
    BY <1>1, <1>2, <1>5, <1>6
  <2>6. va' = Frame(ptr)' - PhysBase
    <3>1. va' = Frame(ptr + 1) - PhysBase
      BY <1>1, <2>1, <2>2
    <3>2. Frame(ptr)' = Frame(ptr')
      BY <1>6 DEF Frame
    <3> QED BY <1>1, <3>1, <3>2
  <2>7. ASSUME NEW i \in F' .. ptr' - 1 PROVE (Frame(i) - PhysBase \in DOMAIN kpt)'
    <3>1. CASE i = ptr
      BY <1>6, <2>1, <2>4, <3>1
    <3>2. CASE i # ptr
      <4>1. i \in F .. ptr - 1
        BY <1>1, <1>2, <1>5, <1>6, <3>2
      <4>2. Frame(i) - PhysBase \in DOMAIN kpt
        BY <1>1, <1>2, <4>1 DEF MapInv
      <4> QED BY <1>6, <2>4, <4>2
    <3> QED BY <3>1, <3>2
  <2> QED BY <1>1, <2>4, <2>5, <2>6, <2>7 DEF MapInv
<1> QED BY <1>1, <1>4, <1>7, <1>8, StaysBuilt

(* The pass over the table makes every link virtual. *)
LEMMA RemapKeepsSafe ==
    ASSUME BootInv, SafeInv, RemapNextPointers
    PROVE  SafeInv'
<1>1. /\ pc = "mapEntireMemory" /\ pc' = "ready" /\ Kept
      /\ ~Building /\ ~Populating /\ ~Building' /\ ~Populating'
      /\ UNCHANGED <<freeListHead, granted, layout, kpt, va, ptr>>
      /\ headVirt' = TRUE /\ ~(Slot(ptr) <= Limit)
  <2>1. Slot(ptr) > Limit
    BY DEF RemapNextPointers
  <2>2. ~(Slot(ptr) <= Limit)
    <3>1. Slot(ptr) \in Int /\ Limit \in Int
      <4>1. layout.physfree \in Nat /\ ptr \in Nat /\ Limit \in Nat
        BY Numbers DEF TypeOK, LayoutFacts
      <4> QED BY <4>1 DEF Slot
    <3> QED BY <2>1, <3>1
  <2> QED BY <2>2 DEF RemapNextPointers, Kept, Building, Populating
<1>2. /\ MapInv /\ TableLeft /\ F \in Nat /\ LM \in Nat
  BY <1>1, Built
<1>3. PICK e \in F .. LM + 1 : AnswersUpTo(e) /\ HeadAt(e)
  BY <1>1, Built
<1>4. /\ F .. LM \subseteq 1 .. N /\ LM + 1 \in 1 .. N /\ DOMAIN descs = 1 .. N
      /\ descs \in Seq(Descriptor) /\ F .. LM \subseteq Int
  BY <1>1, Indices
<1>5. /\ F' = F /\ LM' = LM /\ FirstFrame' = FirstFrame
      /\ \A i : Frame(i)' = Frame(i)
  BY <1>1, KeptFrames
<1>6. ASSUME NEW i \in 1 .. N
      PROVE  /\ descs'[i].startAddress = descs[i].startAddress
             /\ descs'[i].isAvailable = descs[i].isAvailable
             /\ descs'[i].nextFree = descs[i].nextFree
             /\ descs'[i].isfree = descs[i].isfree
             /\ descs'[i].virt = (Slot(i) <= Limit)
  <2>1. descs[i] \in Descriptor
    BY <1>4 DEF N
  <2>2. descs'[i] = [descs[i] EXCEPT !.virt = Slot(i) <= Limit]
    BY <1>4 DEF RemapNextPointers
  <2>3. \A r \in Descriptor, b \in BOOLEAN :
           LET q == [r EXCEPT !.virt = b]
           IN  /\ q.startAddress = r.startAddress /\ q.isAvailable = r.isAvailable
               /\ q.nextFree = r.nextFree /\ q.isfree = r.isfree /\ q.virt = b
    BY DEF Descriptor
  <2>4. (Slot(i) <= Limit) \in BOOLEAN
    OBVIOUS
  <2> QED BY <2>1, <2>2, <2>3, <2>4
<1>7. Len(descs') = N
  <2>1. DOMAIN descs' = 1 .. N
    BY <1>4 DEF RemapNextPointers
  <2>2. descs' \in Seq(Descriptor)
    BY RemapKeepsBootInv DEF BootInv, TypeOK
  <2>3. N \in Nat
    BY Numbers
  <2> QED BY <2>1, <2>2, <2>3
<1>8. TableLeft'
  <2>1. ASSUME NEW i \in F .. LM PROVE Entry(i)'
    <3>1. i \in 1 .. N /\ Entry(i)
      BY <1>2, <1>4 DEF TableLeft
    <3> QED BY <1>5, <1>6, <3>1 DEF Entry
  <2>2. (descs[LM + 1].startAddress \in {0, Frame(LM + 1)})'
    BY <1>1, <1>2, <1>4, <1>6, KeptFrames DEF TableLeft, Frame
  <2> QED BY <1>5, <2>1, <2>2 DEF TableLeft
<1>9. ASSUME NEW i \in F' .. LM' PROVE descs'[i].virt
  <2>1. i \in 1 .. N /\ i \in Int /\ i <= LM
    BY <1>2, <1>4, <1>5
  <2> QED BY <1>6, <2>1, SlotIs
<1>10. AnswersUpTo(e)'
  BY <1>1, <1>3, KeptAnswers
<1>11. HeadAt(e)'
  <2>1. H' = e
    BY <1>1, <1>3 DEF HeadAt, H
  <2>2. ASSUME NEW i \in e .. LM PROVE descs'[i].isfree
    <3>1. i \in 1 .. N
      BY <1>2, <1>3, <1>4
    <3> QED BY <1>1, <1>3, <1>6, <3>1 DEF HeadAt, FreeFrom
  <2>3. FreeFrom(e)'
    BY <1>5, <2>2 DEF FreeFrom
  <2> QED BY <1>1, <2>1, <2>3 DEF HeadAt
<1>12. MapInv'
  <2>1. ptr \in F .. LM + 1 /\ ptr \in Int
    BY <1>1, <1>2 DEF MapInv
  <2>2. ptr = LM + 1
    <3>1. ~(ptr <= LM)
      BY <1>1, <2>1, SlotIs
    <3> QED BY <1>2, <2>1, <3>1
  <2>3. Frame(ptr)' = Frame(ptr)
    BY <1>1, <1>5 DEF Frame
  <2> QED BY <1>1, <1>2, <1>5, <2>2, <2>3 DEF MapInv
<1> QED BY <1>1, <1>3, <1>7, <1>8, <1>9, <1>10, <1>11, <1>12, StaysBuilt

-----------------------------------------------------------------------------
(* Requests of the running kernel *)

(* The kernel reaches the frames of the list, and nothing behind them. *)
LEMMA Reach ==
    ASSUME BootInv, SafeInv, Paged
    PROVE  /\ MapInv /\ TableLeft /\ ~Populating /\ ~Building
           /\ \A i \in F .. LM : descs[i].virt
           /\ F \in Nat /\ F >= 1 /\ LM \in Nat /\ LM + 1 \in 1 .. N
           /\ F .. LM \subseteq 1 .. N /\ F .. LM + 1 \subseteq Int
           /\ DOMAIN descs = 1 .. N /\ descs \in Seq(Descriptor)
           /\ \A e \in F .. LM, n \in Nat : n >= 1 =>
                 (Writable(Frame(e), n) <=> e + n <= LM + 1)
           /\ \A n \in Nat : n >= 1 => ~Writable(descs[LM + 1].startAddress, n)
<1>1. ~Populating /\ ~Building
  BY DEF Paged, Populating, Building
<1>2. /\ MapInv /\ TableLeft /\ \A i \in F .. LM : descs[i].virt
  BY <1>1, Built
<1>3. /\ F \in Nat /\ F >= 1 /\ LM \in Nat /\ LM + 1 \in 1 .. N
      /\ F .. LM \subseteq 1 .. N /\ F .. LM + 1 \subseteq Int
      /\ DOMAIN descs = 1 .. N /\ descs \in Seq(Descriptor)
  BY <1>1, Indices
<1>4. /\ ptr = LM + 1
      /\ va = Frame(ptr) - PhysBase
      /\ \A i \in F .. ptr - 1 : Frame(i) - PhysBase \in DOMAIN kpt
      /\ \A o \in DOMAIN kpt : o = VideoMemory - PhysBase \/ (o >= 0 /\ o < va)
  BY <1>2 DEF MapInv
<1>5. /\ \A i \in F .. LM : Frame(i) - PhysBase \in DOMAIN kpt
      /\ va = Frame(LM + 1) - PhysBase
  <2>1. F .. LM = F .. ptr - 1
    BY <1>3, <1>4
  <2> QED BY <1>4, <2>1
<1>6. /\ PhysBase \in Nat /\ VideoMemory \in 1 .. PhysBase - 1 /\ PageSize \in Nat
      /\ Limit \in Nat /\ PhysBase < Limit
  BY Numbers, ConstantsOK DEF ConstantsOK, LayoutFacts
<1>7. Frame(LM + 1) - PhysBase \notin DOMAIN kpt
  <2>1. Frame(LM + 1) \in Int /\ Frame(LM + 1) > Limit
    <3>1. F <= LM + 1
      <4>1. ptr \in F .. LM + 1
        BY <1>2 DEF MapInv
      <4> QED BY <1>3, <1>4, <4>1
    <3> QED BY <1>3, <3>1, FrameIs
  <2>2. SUFFICES ASSUME Frame(LM + 1) - PhysBase \in DOMAIN kpt PROVE FALSE
    OBVIOUS
  <2>3. \/ Frame(LM + 1) - PhysBase = VideoMemory - PhysBase
        \/ Frame(LM + 1) - PhysBase < va
    BY <1>4, <2>2
  <2> QED BY <1>5, <1>6, <2>1, <2>3
<1>8. 0 - PhysBase \notin DOMAIN kpt
  <2>1. SUFFICES ASSUME 0 - PhysBase \in DOMAIN kpt PROVE FALSE
    OBVIOUS
  <2>2. 0 - PhysBase = VideoMemory - PhysBase \/ 0 - PhysBase >= 0
    BY <1>4, <2>1
  <2> QED BY <1>6, <2>2
<1>9. ASSUME NEW e \in F .. LM, NEW n \in Nat, n >= 1
      PROVE  Writable(Frame(e), n) <=> e + n <= LM + 1
  <2>1. ASSUME NEW k \in 0 .. n - 1
        PROVE  Frame(e) - PhysBase + k * PageSize = Frame(e + k) - PhysBase
    <3>1. Frame(e + k) = Frame(e) + PageSize * k /\ Frame(e) \in Int
      <4>1. e \in Int /\ k \in Int
        BY <1>3
      <4> QED BY <4>1, FrameIs
    <3>2. PageSize * k = k * PageSize /\ k * PageSize \in Int
      BY <1>6
    <3> QED BY <1>6, <3>1, <3>2
  <2>2. ASSUME e + n <= LM + 1 PROVE Writable(Frame(e), n)
    <3>1. ASSUME NEW k \in 0 .. n - 1
          PROVE  Frame(e) - PhysBase + k * PageSize \in DOMAIN kpt
      <4>1. e + k \in F .. LM
        BY <1>3, <2>2
      <4> QED BY <1>5, <2>1, <4>1
    <3> QED BY <3>1 DEF Writable, Offsets
  <2>3. ASSUME ~(e + n <= LM + 1) PROVE ~Writable(Frame(e), n)
    <3>1. PICK k \in 0 .. n - 1 : e + k = LM + 1
      <4>1. LM + 1 - e \in 0 .. n - 1 /\ e + (LM + 1 - e) = LM + 1
        BY <1>3, <2>3
      <4> QED BY <4>1
    <3>2. Frame(e) - PhysBase + k * PageSize \notin DOMAIN kpt
      BY <1>7, <2>1, <3>1
    <3> QED BY <3>2 DEF Writable, Offsets
  <2> QED BY <2>2, <2>3
<1>10. ASSUME NEW n \in Nat, n >= 1
       PROVE  ~Writable(descs[LM + 1].startAddress, n)
  <2>1. PICK h \in Int : h = descs[LM + 1].startAddress /\ h \in {0, Frame(LM + 1)}
    <3>1. descs[LM + 1].startAddress \in {0, Frame(LM + 1)}
      BY <1>2 DEF TableLeft
    <3>2. Frame(LM + 1) \in Int
      BY <1>3, FrameIs
    <3> QED BY <3>1, <3>2
  <2>2. h - PhysBase + 0 * PageSize = h - PhysBase
    BY <1>6
  <2>3. h - PhysBase + 0 * PageSize \notin DOMAIN kpt
    BY <1>7, <1>8, <2>1, <2>2
  <2>4. 0 \in 0 .. n - 1
    BY <1>10
  <2> QED BY <2>1, <2>3, <2>4 DEF Writable, Offsets
<1> QED BY <1>1, <1>2, <1>3, <1>9, <1>10

(* A request changes nothing of the kernel's mapping. *)
LEMMA MapStays ==
    ASSUME MapInv, Kept, Paged, Paged', UNCHANGED <<kpt, va, ptr>>
    PROVE  MapInv' /\ \A h, n : Writable(h, n)' <=> Writable(h, n)
<1>1. /\ F' = F /\ LM' = LM /\ FirstFrame' = FirstFrame
      /\ \A i : Frame(i)' = Frame(i)
  BY KeptFrames
<1>2. Frame(ptr)' = Frame(ptr)
  BY <1>1 DEF Frame
<1>3. pc' \notin {"mapKernel", "mapVideoCard"}
  BY DEF Paged
<1>4. MapInv'
  BY <1>1, <1>2, <1>3 DEF MapInv
<1> QED BY <1>4 DEF Writable, Offsets

(* getFreePage takes the frame at the head. *)
LEMMA GetFreePageCallKeepsSafe ==
    ASSUME BootInv, SafeInv, GetFreePageCall
    PROVE  SafeInv'
<1>1. /\ pc = "ready" /\ pc' = pc /\ GetFreePage /\ Kept /\ Paged /\ Paged'
      /\ ~Building' /\ UNCHANGED <<va, ptr, kpt>>
  BY DEF GetFreePageCall, Kept, Building, Populating, Paged
<1>2. PICK e \in F .. LM + 1 : AnswersUpTo(e) /\ HeadAt(e)
  BY <1>1, Reach, Built
<1>3. H = e /\ FreeFrom(e)
  BY <1>1, <1>2 DEF HeadAt
<1>4. e \in F .. LM
  <2>1. Writable(descs[e].startAddress, 1)
    BY <1>1, <1>3 DEF GetFreePage, H
  <2>2. e # LM + 1
    BY <1>1, <2>1, Reach
  <2> QED BY <1>1, <1>2, <2>2, Reach
<1>5. PICK d \in F .. LM + 1 : d = e + 1 /\ d \in Int
  BY <1>1, <1>4, Reach
<1>6. /\ AnswersUpTo(d)' /\ H' = d /\ FreeFrom(d)' /\ TableLeft'
      /\ headVirt' = descs[e].virt
      /\ \A i \in F .. LM : descs'[i].virt = descs[i].virt
  BY <1>1, <1>2, <1>3, <1>4, <1>5, Reach, FreePageTaken
<1>7. Len(descs') = N
  BY <1>1, GetFreePageTyped DEF BootInv, N
<1>8. /\ headVirt' = TRUE /\ (\A i \in F .. LM : descs[i].virt)'
  <2>1. F' = F /\ LM' = LM
    BY <1>1, KeptFrames
  <2>2. \A i \in F .. LM : descs[i].virt
    BY <1>1, Reach
  <2>3. headVirt' \in BOOLEAN
    BY <1>1, GetFreePageTyped DEF BootInv
  <2> QED BY <1>4, <1>6, <2>1, <2>2, <2>3
<1>9. HeadAt(d)'
  BY <1>1, <1>6, <1>8 DEF HeadAt
<1>10. MapInv'
  BY <1>1, Reach, MapStays
<1> QED BY <1>1, <1>5, <1>6, <1>7, <1>8, <1>9, <1>10, StaysBuilt, Reach

(* Requests that change neither the list nor the answers. *)
LEMMA RequestKeepsSafe ==
    ASSUME BootInv, SafeInv, Paged, Paged',
           UNCHANGED <<layout, firstFreeLocation, descs, freeListHead, headVirt,
                       granted, kpt, va, ptr>>,
           NEW e \in F .. LM + 1, AnswersUpTo(e), HeadAt(e)'
    PROVE  SafeInv'
<1>1. Kept /\ ~Building'
  BY DEF Kept, Building, Populating, Paged
<1>2. AnswersUpTo(e)' /\ TableLeft' /\ Len(descs') = N
  BY <1>1, Reach, ListUntouched
<1>3. (\A i \in F .. LM : descs[i].virt)'
  <2>1. F' = F /\ LM' = LM
    BY <1>1, KeptFrames
  <2> QED BY <2>1, Reach
<1>4. MapInv'
  BY <1>1, Reach, MapStays
<1> QED BY <1>1, <1>2, <1>3, <1>4, StaysBuilt, Reach

(* getFreePage faults only with the list used up. *)
LEMMA GetFreePageFaultsKeepsSafe ==
    ASSUME BootInv, SafeInv, GetFreePageFaults
    PROVE  SafeInv'
<1>1. /\ pc = "ready" /\ pc' = "hang" /\ Paged /\ Paged' /\ Kept
      /\ UNCHANGED <<layout, firstFreeLocation, descs, freeListHead, headVirt,
                     granted, kpt, va, ptr>>
      /\ request' = [request EXCEPT !.count = 1]
      /\ ~(HeadUsable /\ Writable(descs[freeListHead].startAddress, 1))
  BY DEF GetFreePageFaults, Hang, Paged, Kept
<1>2. PICK e \in F .. LM + 1 : AnswersUpTo(e) /\ HeadAt(e)
  BY <1>1, Reach, Built
<1>3. freeListHead = e /\ headVirt
  BY <1>1, <1>2 DEF HeadAt, H
<1>4. e = LM + 1
  <2>1. SUFFICES ASSUME e \in F .. LM PROVE FALSE
    BY <1>1, <1>2, Reach
  <2>2. e \in 1 .. N /\ e + 1 <= LM + 1
    BY <1>1, <2>1, Reach
  <2>3. HeadUsable
    BY <1>1, <1>3, <2>2, Reach DEF HeadUsable
  <2>4. descs[e].startAddress = Frame(e)
    BY <1>1, <2>1, Reach DEF TableLeft, Entry
  <2>5. Writable(Frame(e), 1)
    <3>1. 1 \in Nat /\ 1 >= 1
      OBVIOUS
    <3> QED BY <1>1, <2>1, <2>2, <3>1, Reach
  <2> QED BY <1>1, <1>3, <2>3, <2>4, <2>5
<1>5. HeadAt(e)'
  <2>1. request'.count = 1
    BY <1>1, RequestTypes
  <2>2. e + request'.count > LM' + 1
    <3>1. LM' = LM /\ LM \in Nat
      BY <1>1, KeptFrames, Reach
    <3> QED BY <1>4, <2>1, <3>1
  <2> QED BY <1>1, <2>2 DEF HeadAt
<1> QED BY <1>1, <1>2, <1>5, RequestKeepsSafe

(* kmalloc starts its walk at the head. *)
LEMMA KmallocKeepsSafe ==
    ASSUME BootInv, SafeInv, NEW size \in KmallocSizes, Kmalloc(size)
    PROVE  SafeInv'
<1>1. /\ pc = "ready" /\ pc' = "walk" /\ Paged /\ Paged' /\ Kept
      /\ UNCHANGED <<layout, firstFreeLocation, descs, freeListHead, headVirt,
                     granted, kpt, va, ptr>>
      /\ request' = [head |-> descs[freeListHead].startAddress,
                     count |-> NoPages(size), walked |-> 0]
  BY DEF Kmalloc, Paged, Kept
<1>2. PICK e \in F .. LM + 1 : AnswersUpTo(e) /\ HeadAt(e)
  BY <1>1, Reach, Built
<1>3. H = e /\ headVirt /\ FreeFrom(e)
  BY <1>1, <1>2 DEF HeadAt
<1>4. PICK n \in Nat : n = NoPages(size) /\ n >= 1
  <2>1. /\ size \in Nat \ {0} /\ PageSize \in Nat \ {0}
    BY ConstantsOK DEF ConstantsOK
  <2>2. PICK q \in Nat, r \in 0 .. PageSize - 1 :
           size \div PageSize = q /\ size % PageSize = r /\ size = PageSize * q + r
    BY <2>1, DivisionIs
  <2>3. NoPages(size) = IF r = 0 THEN q ELSE q + 1
    BY <2>2 DEF NoPages
  <2>4. r = 0 => q # 0
    <3>1. PageSize * 0 = 0
      BY <2>1
    <3> QED BY <2>1, <2>2, <3>1
  <2>5. NoPages(size) \in Nat /\ NoPages(size) >= 1
    BY <2>2, <2>3, <2>4
  <2> QED BY <2>5
<1>5. /\ request'.head = descs[e].startAddress /\ request'.count = n
      /\ request'.walked = 0
  BY <1>1, <1>3, <1>4 DEF H
<1>6. /\ LM' = LM /\ \A i : Frame(i)' = Frame(i)
      /\ H' = H /\ FreeFrom(H)' = FreeFrom(H)
  <2>1. LM' = LM /\ H' = H /\ \A i : Frame(i)' = Frame(i)
    BY <1>1, KeptFrames DEF H
  <2> QED BY <1>1, <2>1 DEF FreeFrom
<1>7. Walked(e)' \/ Doomed(e)'
  <2>1. CASE e \in F .. LM
    <3>1. descs[e].startAddress = Frame(e)
      BY <1>1, <2>1, Reach DEF TableLeft, Entry
    <3>2. e \in Int /\ LM \in Int /\ e <= LM
      BY <1>1, <2>1, Reach
    <3> QED BY <1>1, <1>3, <1>5, <1>6, <3>1, <3>2 DEF Walked
  <2>2. CASE e = LM + 1
    <3>1. ~Writable(descs[e].startAddress, n)
      BY <1>1, <1>4, <2>2, Reach
    <3>2. ~Writable(request.head, request.count)'
      BY <1>1, <1>5, <3>1 DEF Writable, Offsets
    <3>3. e + request'.count > LM' + 1
      <4>1. LM \in Nat
        BY <1>1, Reach
      <4> QED BY <1>4, <1>5, <1>6, <2>2, <4>1
    <3> QED BY <3>2, <3>3 DEF Doomed
  <2> QED BY <1>1, <1>2, <2>1, <2>2, Reach
<1>8. HeadAt(e)'
  BY <1>1, <1>4, <1>5, <1>7 DEF HeadAt
<1> QED BY <1>1, <1>2, <1>8, RequestKeepsSafe

(* One descriptor more of the run is unlinked. *)
LEMMA WalkKeepsSafe ==
    ASSUME BootInv, SafeInv, GetFreePagesWalk
    PROVE  SafeInv'
<1>1. /\ pc = "walk" /\ pc' = pc /\ Kept /\ Paged /\ Paged' /\ ~Building'
      /\ UNCHANGED <<layout, granted, va, ptr, kpt>>
      /\ request.walked < request.count /\ HeadUsable
      /\ H' = descs[H].nextFree /\ headVirt' = descs[H].virt
      /\ descs' = HeadTaken
      /\ request' = [request EXCEPT !.walked = @ + 1]
  BY DEF GetFreePagesWalk, Kept, Building, Populating, Paged, H
<1>2. PICK e \in F .. LM + 1 : AnswersUpTo(e) /\ HeadAt(e)
  BY <1>1, Reach, Built
<1>3. /\ F \in Nat /\ LM \in Nat /\ LM + 1 \in 1 .. N
      /\ F .. LM \subseteq 1 .. N /\ F .. LM + 1 \subseteq Int
      /\ DOMAIN descs = 1 .. N /\ descs \in Seq(Descriptor)
      /\ H \in 1 .. N /\ ~Populating /\ TableLeft
  BY <1>1, Reach DEF HeadUsable, H
<1>4. \A i \in 1 .. N : /\ descs'[i].startAddress = descs[i].startAddress
                        /\ descs'[i].isAvailable = descs[i].isAvailable
                        /\ descs'[i].nextFree = descs[i].nextFree
                        /\ descs'[i].virt = descs[i].virt
                        /\ i # H => descs'[i].isfree = descs[i].isfree
  BY <1>1, <1>3, HeadTakenKeeps
<1>5. descs' \in Seq(Descriptor) /\ Len(descs') = N
  BY <1>1, <1>3, HeadTakenTyped DEF H, N
<1>6. /\ F' = F /\ LM' = LM /\ FirstFrame' = FirstFrame
      /\ \A i : Frame(i)' = Frame(i)
  BY <1>1, KeptFrames
<1>7. TableLeft'
  <2>1. ASSUME NEW i \in F .. LM PROVE Entry(i)'
    <3>1. i \in 1 .. N /\ Entry(i)
      BY <1>3 DEF TableLeft
    <3> QED BY <1>4, <1>6, <3>1 DEF Entry
  <2>2. (descs[LM + 1].startAddress \in {0, Frame(LM + 1)})'
    BY <1>1, <1>3, <1>4, <1>6, KeptFrames DEF TableLeft, Frame
  <2> QED BY <1>6, <2>1, <2>2 DEF TableLeft
<1>8. (\A i \in F .. LM : descs[i].virt)'
  BY <1>1, <1>3, <1>4, <1>6, Reach
<1>9. MapInv' /\ \A h, n : Writable(h, n)' <=> Writable(h, n)
  BY <1>1, Reach, MapStays
<1>10. AnswersUpTo(e)'
  BY <1>1, <1>2, KeptAnswers
<1>11. /\ request'.head = request.head /\ request'.count = request.count
       /\ request'.walked = request.walked + 1
       /\ request.walked \in Nat /\ request.count \in Nat
  BY <1>1, RequestTypes
<1>12. Walked(e) \/ Doomed(e)
  BY <1>1, <1>2 DEF HeadAt
<1>13. Doomed(e) => Doomed(e)'
  BY <1>1, <1>6, <1>11 DEF Doomed, Writable, Offsets
<1>14. ASSUME Walked(e) PROVE Walked(e)' \/ Doomed(e)'
  <2>1. /\ e <= LM /\ H = e + request.walked /\ H <= LM + 1 /\ headVirt
        /\ request.head = Frame(e) /\ FreeFrom(H) /\ e \in Int /\ e \in F .. LM
    BY <1>2, <1>3, <1>14 DEF Walked
  <2>2. CASE H <= LM
    <3>1. H \in F .. LM
      BY <1>3, <1>11, <2>1, <2>2
    <3>2. H' = H + 1 /\ headVirt'
      BY <1>1, <1>3, <3>1, Reach DEF TableLeft, Entry
    <3>3. FreeFrom(H)'
      <4>1. ASSUME NEW i \in H + 1 .. LM PROVE descs'[i].isfree
        <5>1. i \in H .. LM /\ i \in 1 .. N /\ i # H
          BY <1>3, <3>1
        <5> QED BY <1>4, <2>1, <5>1 DEF FreeFrom
      <4>2. H' .. LM' = H + 1 .. LM
        BY <1>6, <3>2
      <4> QED BY <4>1, <4>2 DEF FreeFrom
    <3>4. H' = e + request'.walked /\ H' <= LM' + 1 /\ e <= LM'
      <4>1. PICK w \in Nat, h \in Int : w = request.walked /\ h = H
        BY <1>3, <1>11
      <4>2. h = e + w /\ h + 1 <= LM + 1 /\ e <= LM /\ h + 1 = e + (w + 1)
        BY <1>3, <2>1, <2>2, <4>1
      <4>3. H' = h + 1 /\ request'.walked = w + 1 /\ LM' = LM
        BY <1>6, <1>11, <3>2, <4>1
      <4> QED BY <4>2, <4>3
    <3> QED BY <1>6, <1>11, <2>1, <3>2, <3>3, <3>4 DEF Walked
  <2>3. CASE H = LM + 1
    <3>1. e + request.count > LM + 1
      BY <1>1, <1>3, <1>11, <2>1, <2>3
    <3>2. ~Writable(Frame(e), request.count)
      <4>1. request.count \in Nat /\ request.count >= 1
        BY <1>1, <1>11
      <4>2. ~(e + request.count <= LM + 1)
        BY <1>3, <1>11, <2>1, <3>1
      <4> QED BY <1>1, <2>1, <4>1, <4>2, Reach
    <3>3. Doomed(e)
      BY <2>1, <3>1, <3>2 DEF Doomed
    <3> QED BY <1>13, <3>3
  <2> QED BY <1>3, <2>1, <2>2, <2>3
<1>15. HeadAt(e)'
  <2>1. request'.walked <= request'.count /\ request'.count >= 1
    BY <1>1, <1>11
  <2> QED BY <1>1, <1>12, <1>13, <1>14, <2>1 DEF HeadAt
<1> QED BY <1>1, <1>2, <1>3, <1>5, <1>7, <1>8, <1>9, <1>10, <1>15, StaysBuilt

(* getFreePages clears the run it walked and answers with it. *)
LEMMA ReturnKeepsSafe ==
    ASSUME BootInv, SafeInv, GetFreePagesReturn
    PROVE  SafeInv'
<1>1. /\ pc = "walk" /\ pc' = "ready" /\ Kept /\ Paged /\ Paged' /\ ~Building'
      /\ UNCHANGED <<layout, freeListHead, headVirt, va, ptr, kpt>>
      /\ request.walked = request.count
      /\ Writable(request.head, request.count)
      /\ descs' = Clear(descs, Cleared(request.head, request.count))
      /\ granted' = Append(granted, Grant(request.head, request.count))
  BY DEF GetFreePagesReturn, Kept, Building, Populating, Paged
<1>2. PICK e \in F .. LM + 1 : AnswersUpTo(e) /\ HeadAt(e)
  BY <1>1, Reach, Built
<1>3. /\ F \in Nat /\ LM \in Nat /\ F .. LM \subseteq 1 .. N
      /\ F .. LM + 1 \subseteq Int /\ descs \in Seq(Descriptor)
      /\ ~Populating /\ TableLeft /\ MapInv
  BY <1>1, Reach
<1>4. PICK n \in Nat : n = request.count /\ n >= 1
  BY <1>1, <1>2, RequestTypes DEF HeadAt
<1>5. /\ e \in F .. LM /\ e \in Int /\ e >= F /\ H = e + n /\ H <= LM + 1
      /\ headVirt /\ request.head = Frame(e) /\ FreeFrom(H)
  <2>1. Walked(e)
    BY <1>1, <1>2 DEF HeadAt, Doomed
  <2> QED BY <1>1, <1>2, <1>3, <1>4, <2>1 DEF Walked
<1>6. PICK d \in F .. LM + 1 : d = e + n /\ d = H /\ d \in Int
  BY <1>3, <1>4, <1>5
<1>7. Cleared(Frame(e), n) = Run(e, n)
  BY <1>1, <1>3, <1>4, <1>5, ClearsTheRun
<1>8. descs' = Clear(descs, Run(e, n)) /\ Len(descs) = N /\ Len(descs') = N
  <2>1. Len(descs') = N
    BY <1>1, <1>3, ClearTyped DEF N
  <2> QED BY <1>1, <1>4, <1>5, <1>7, <2>1 DEF N
<1>9. TableLeft' /\ \A i \in F .. LM : descs'[i] = descs[i]
  BY <1>1, <1>3, <1>4, <1>5, <1>8, TableStays
<1>10. AnswersUpTo(d)'
  <2>1. granted' = Append(granted, [head |-> Frame(e), pages |-> n,
                                    cleared |-> Run(e, n)])
    BY <1>1, <1>4, <1>5, <1>7 DEF Grant
  <2>2. n \in Nat \ {0} /\ d <= LM + 1
    BY <1>4, <1>5, <1>6
  <2> QED BY <1>1, <1>2, <1>5, <1>6, <2>1, <2>2, NextAnswer
<1>11. F' = F /\ LM' = LM /\ H' = H
  BY <1>1, KeptFrames DEF H
<1>12. HeadAt(d)'
  <2>1. FreeFrom(d)'
    <3>1. ASSUME NEW i \in d .. LM PROVE descs'[i].isfree
      <4>1. i \in F .. LM /\ i \in H .. LM
        BY <1>3, <1>6
      <4> QED BY <1>5, <1>9, <4>1 DEF FreeFrom
    <3> QED BY <1>11, <3>1 DEF FreeFrom
  <2> QED BY <1>1, <1>5, <1>6, <1>11, <2>1 DEF HeadAt
<1>13. (\A i \in F .. LM : descs[i].virt)'
  BY <1>1, <1>9, <1>11, Reach
<1>14. MapInv'
  BY <1>1, <1>3, MapStays
<1> QED BY <1>1, <1>3, <1>6, <1>8, <1>9, <1>10, <1>12, <1>13, <1>14, StaysBuilt

(* A walk or a memset faults only if frames are lacking. *)
LEMMA GetFreePagesFaultsKeepsSafe ==
    ASSUME BootInv, SafeInv, GetFreePagesFaults
    PROVE  SafeInv'
<1>1. /\ pc = "walk" /\ pc' = "hang" /\ Paged /\ Paged' /\ Kept
      /\ UNCHANGED <<layout, firstFreeLocation, descs, freeListHead, headVirt,
                     granted, kpt, va, ptr>>
      /\ request' = [request EXCEPT !.count = request.count]
      /\ IF request.walked < request.count
         THEN ~HeadUsable
         ELSE ~Writable(request.head, request.count)
  BY DEF GetFreePagesFaults, Hang, Paged, Kept
<1>2. PICK e \in F .. LM + 1 : AnswersUpTo(e) /\ HeadAt(e)
  BY <1>1, Reach, Built
<1>3. PICK n \in Nat, w \in Nat :
         n = request.count /\ w = request.walked /\ w <= n /\ n >= 1
  BY <1>1, <1>2, RequestTypes DEF HeadAt
<1>4. F \in Nat /\ LM \in Nat /\ e \in Int
  BY <1>1, <1>2, Reach
<1>5. e + n > LM + 1
  <2>1. CASE Doomed(e)
    BY <1>3, <2>1 DEF Doomed
  <2>2. CASE Walked(e)
    <3>1. /\ e \in F .. LM /\ H = e + w /\ H <= LM + 1 /\ headVirt
          /\ request.head = Frame(e)
      BY <1>2, <1>3, <1>4, <2>2 DEF Walked
    <3>2. CASE w < n
      <4>1. H \in F .. LM + 1
        BY <1>3, <1>4, <3>1
      <4>2. H \in DOMAIN descs
        <5>1. CASE H = LM + 1
          BY <1>1, <5>1, Reach
        <5>2. CASE H # LM + 1
          <6>1. H \in F .. LM
            BY <1>4, <4>1, <5>2
          <6> QED BY <1>1, <6>1, Reach
        <5> QED BY <5>1, <5>2
      <4>3. HeadUsable
        BY <3>1, <4>2 DEF HeadUsable, H
      <4> QED BY <1>1, <1>3, <3>2, <4>3
    <3>3. CASE ~(w < n)
      <4>1. ~Writable(Frame(e), n)
        BY <1>1, <1>3, <3>1, <3>3
      <4>2. ~(e + n <= LM + 1)
        BY <1>1, <1>3, <3>1, <4>1, Reach
      <4> QED BY <1>3, <1>4, <4>2
    <3> QED BY <3>2, <3>3
  <2> QED BY <1>1, <1>2, <2>1, <2>2 DEF HeadAt
<1>6. HeadAt(e)'
  <2>1. request'.count = n /\ LM' = LM
    BY <1>1, <1>3, RequestTypes, KeptFrames
  <2> QED BY <1>1, <1>5, <2>1 DEF HeadAt
<1> QED BY <1>1, <1>2, <1>6, RequestKeepsSafe

(* A step that changes nothing keeps the invariant. *)
LEMMA StutterKeepsSafe ==
    ASSUME BootInv, SafeInv, UNCHANGED vars
    PROVE  SafeInv'
<1>1. /\ UNCHANGED <<layout, pc, region, s, descs, freeListHead, headVirt,
                     firstFreeLocation, ptr, pteOff, va, kpt, request, granted>>
      /\ Kept
  BY DEF vars, Kept
<1>2. /\ F' = F /\ LM' = LM /\ N' = N /\ H' = H /\ Limit' = Limit
      /\ LastRegion' = LastRegion /\ LastEnd' = LastEnd /\ FirstFrame' = FirstFrame
      /\ \A i : Frame(i)' = Frame(i)
      /\ Frame(N + 1)' = Frame(N + 1) /\ Frame(ptr)' = Frame(ptr)
  BY <1>1, KeptFrames DEF N, H, Frame
<1>3. /\ (Populating' <=> Populating) /\ (Building' <=> Building)
      /\ (Paged' <=> Paged) /\ (Aligned(s)' <=> Aligned(s))
      /\ \A i : Entry(i)' <=> Entry(i)
  BY <1>1, <1>2 DEF Populating, Building, Paged, Aligned, Entry
<1>4. CursorInv'
  BY <1>1, <1>2, <1>3 DEF SafeInv, CursorInv
<1>5. BuildInv'
  BY <1>1, <1>2, <1>3 DEF SafeInv, BuildInv
<1>6. TableLeft => TableLeft'
  <2>1. Frame(LM + 1)' = Frame(LM + 1)
    BY <1>2 DEF Frame
  <2> QED BY <1>1, <1>2, <1>3, <2>1 DEF TableLeft
<1>7. ListInv'
  BY <1>1, <1>2, <1>3, <1>6 DEF SafeInv, ListInv
<1>8. MapInv'
  BY <1>1, <1>2, <1>3 DEF SafeInv, MapInv
<1>9. AnswerInv'
  <2>1. ASSUME NEW e \in F .. LM + 1, AnswersUpTo(e), HeadAt(e)
        PROVE  AnswersUpTo(e)' /\ HeadAt(e)'
    <3>1. AnswersUpTo(e)'
      BY <1>1, <2>1, KeptAnswers
    <3>2. \A h : FreeFrom(h)' <=> FreeFrom(h)
      BY <1>1, <1>2 DEF FreeFrom
    <3>3. FreeFrom(H)' <=> FreeFrom(H)
      BY <1>1, <1>2 DEF FreeFrom
    <3>4. (Walked(e)' <=> Walked(e)) /\ (Doomed(e)' <=> Doomed(e))
      BY <1>1, <1>2, <1>3, <3>3 DEF Walked, Doomed, Writable, Offsets
    <3>5. HeadAt(e)'
      BY <1>1, <1>2, <2>1, <3>2, <3>4 DEF HeadAt
    <3> QED BY <3>1, <3>5
  <2> QED BY <1>2, <1>3, <2>1 DEF SafeInv, AnswerInv
<1> QED BY <1>4, <1>5, <1>7, <1>8, <1>9 DEF SafeInv

(* Every step keeps the invariant. *)
LEMMA NextKeepsSafe ==
    ASSUME BootInv, SafeInv, [Next]_vars
    PROVE  SafeInv'
<1>1. CASE PopulatePageDescriptor \/ NextCall \/ ExcludeUnavailableMemory
  BY <1>1, PopulateKeepsSafe, NextCallKeepsSafe, ExcludeKeepsSafe
<1>2. CASE PagingSetup \/ MapKernel \/ MapVideoCard
  BY <1>2, PagingSetupKeepsSafe, MapKernelKeepsSafe, MapVideoCardKeepsSafe
<1>3. CASE NewPageTable \/ MapFrame \/ RemapNextPointers
  BY <1>3, NewPageTableKeepsSafe, MapFrameKeepsSafe, RemapKeepsSafe
<1>4. CASE GetFreePageCall \/ GetFreePageFaults
  BY <1>4, GetFreePageCallKeepsSafe, GetFreePageFaultsKeepsSafe
<1>5. CASE \E size \in KmallocSizes : Kmalloc(size)
  BY <1>5, KmallocKeepsSafe
<1>6. CASE GetFreePagesWalk \/ GetFreePagesReturn \/ GetFreePagesFaults
  BY <1>6, WalkKeepsSafe, ReturnKeepsSafe, GetFreePagesFaultsKeepsSafe
<1>7. CASE HangForever \/ UNCHANGED vars
  BY <1>7, StutterKeepsSafe DEF HangForever
<1> QED BY <1>1, <1>2, <1>3, <1>4, <1>5, <1>6, <1>7 DEF Next

-----------------------------------------------------------------------------
(* The properties *)

(* The invariant holds always. *)
LEMMA Safe == Spec => [](BootInv /\ SafeInv)
<1>1. Init => BootInv /\ SafeInv
  BY InitBootInv, InitSafe
<1>2. BootInv /\ SafeInv /\ [Next]_vars => (BootInv /\ SafeInv)'
  BY NextKeepsBootInv, NextKeepsSafe
<1> QED BY <1>1, <1>2, PTL DEF Spec

(* Where an answer lies: frames of the list, before the descriptor e. *)
LEMMA AnswerIs ==
    ASSUME BootInv, SafeInv, NEW i \in DOMAIN granted
    PROVE  /\ granted[i].head \in Int /\ EndOf(granted[i]) \in Int
           /\ granted[i].head > Limit /\ EndOf(granted[i]) <= LastEnd
           /\ granted[i].cleared =
                {granted[i].head + k * PageSize : k \in 0 .. granted[i].pages - 1}
           /\ \A j \in DOMAIN granted : i < j => EndOf(granted[i]) <= granted[j].head
<1>1. ~Building
  BY DEF SafeInv, BuildInv
<1>2. PICK e \in F .. LM + 1 : AnswersUpTo(e)
  BY <1>1, Built
<1>3. PICK a \in F .. e - 1 : /\ granted[i].head = Frame(a)
                              /\ granted[i].pages \in 1 .. e - a
  BY <1>2 DEF AnswersUpTo
<1>4. PICK m \in 1 .. e - a : m = granted[i].pages
  BY <1>3
<1>5. /\ F \in Int /\ LM \in Int /\ N \in Int /\ LM + 1 <= N /\ PageSize \in Nat
      /\ Frame(N + 1) <= LastEnd /\ LastEnd \in Nat /\ Limit \in Nat
  <2>1. LM + 1 \in 1 .. N
    BY <1>1, Built, Indices
  <2>2. layout.end[LastRegion] \in Nat
    <3>1. LayoutFacts
      BY Numbers
    <3>2. LastRegion \in 1 .. LastRegion
      BY <3>1 DEF LayoutFacts
    <3> QED BY <3>1, <3>2 DEF LayoutFacts
  <2>3. F \in Nat /\ LM \in Nat /\ N \in Nat /\ Frame(N + 1) <= LastEnd
    BY <1>1, Built
  <2>4. PageSize \in Nat /\ Limit \in Nat
    BY Numbers
  <2> QED BY <2>1, <2>2, <2>3, <2>4 DEF LastEnd
<1>6. e \in Int /\ a \in Int /\ m \in Int /\ a >= F /\ a + m <= N + 1
  BY <1>2, <1>3, <1>4, <1>5
<1>7. Frame(a) \in Int /\ Frame(a) > Limit
  BY <1>6, FrameIs
<1>8. EndOf(granted[i]) = Frame(a + m)
  <2>1. Frame(a + m) = Frame(a) + PageSize * m
    BY <1>6, FrameIs
  <2>2. PageSize * m = m * PageSize
    BY <1>5, <1>6
  <2> QED BY <1>3, <1>4, <2>1, <2>2 DEF EndOf
<1>9. Frame(a + m) \in Int /\ Frame(N + 1) \in Int /\ Frame(a + m) <= Frame(N + 1)
  <2>1. a + m \in Int /\ N + 1 \in Int
    BY <1>5, <1>6
  <2> QED BY <1>6, <2>1, FrameIs
<1>10. EndOf(granted[i]) <= LastEnd
  BY <1>5, <1>8, <1>9
<1> QED BY <1>2, <1>3, <1>7, <1>8, <1>9, <1>10 DEF AnswersUpTo

(* On every machine LayoutOK admits, no frame is handed out twice: the free  *)
(* list is never entered twice at the same descriptor, whatever sequence of  *)
(* getFreePage and kmalloc calls the kernel makes, page tables included.     *)
THEOREM GrantsAreDisjoint == Spec => []NoDoubleGrant
<1>1. BootInv /\ SafeInv => NoDoubleGrant
  <2> SUFFICES ASSUME BootInv, SafeInv,
                      NEW i \in DOMAIN granted, NEW j \in DOMAIN granted, i < j
               PROVE  EndOf(granted[i]) <= granted[j].head
    BY DEF NoDoubleGrant
  <2> QED BY AnswerIs
<1> QED BY <1>1, Safe, PTL

(* Every answer is memory of the last region behind newPhysfree, on every    *)
(* machine LayoutOK admits; the kernel image and the video memory lie before. *)
THEOREM GrantsAreAvailable == Spec => []GrantsAreMemory
<1>1. BootInv /\ SafeInv => GrantsAreMemory
  <2> SUFFICES ASSUME BootInv, SafeInv, NEW i \in DOMAIN granted
               PROVE  /\ \E r \in 1 .. LastRegion :
                            /\ layout.start[r] <= granted[i].head
                            /\ EndOf(granted[i]) <= layout.end[r]
                      /\ granted[i].head >= layout.physfree
                      /\ granted[i].head > VideoMemory
    BY DEF GrantsAreMemory
  <2>1. PICK h \in Int : h = granted[i].head /\ h > Limit
    BY AnswerIs
  <2>2. EndOf(granted[i]) <= layout.end[LastRegion]
    BY AnswerIs DEF LastEnd
  <2>3. /\ LastRegion \in 1 .. LastRegion /\ layout.start[LastRegion] \in Nat
        /\ layout.start[LastRegion] <= PhysBase /\ PhysBase < Limit
        /\ layout.physfree <= Limit /\ layout.physfree \in Nat
    <3>1. LayoutFacts
      BY Numbers
    <3>2. LastRegion \in 1 .. LastRegion
      BY <3>1 DEF LayoutFacts
    <3> QED BY <3>1, <3>2 DEF LayoutFacts
  <2>4. PhysBase \in Nat /\ Limit \in Nat /\ VideoMemory \in 1 .. PhysBase - 1
    BY Numbers, ConstantsOK DEF ConstantsOK
  <2>5. layout.start[LastRegion] <= h /\ h >= layout.physfree /\ h > VideoMemory
    BY <2>1, <2>3, <2>4
  <2> QED BY <2>1, <2>2, <2>3, <2>5
<1> QED BY <1>1, Safe, PTL

(* memset reaches exactly the frames of the answer: the kernel's mapping of  *)
(* the list is linear, and the list links adjacent frames only.              *)
THEOREM ClearedAreGranted == Spec => []ClearsWhatItGrants
<1>1. BootInv /\ SafeInv => ClearsWhatItGrants
  BY AnswerIs DEF ClearsWhatItGrants
<1> QED BY <1>1, Safe, PTL

(* Clearing a frame never damages the part of the list still to be used,     *)
(* although the end of the table lies in frames that are handed out.         *)
THEOREM ListStaysIntact == Spec => []FreeListIntact
<1>1. BootInv /\ SafeInv => FreeListIntact
  <2> SUFFICES ASSUME BootInv, SafeInv, pc = "ready", NEW i \in freeListHead .. LM
               PROVE  /\ descs[i].isfree /\ descs[i].isAvailable /\ descs[i].virt
                      /\ descs[i].nextFree = i + 1
                      /\ i < LM => descs[i + 1].startAddress
                                     = descs[i].startAddress + PageSize
    BY DEF FreeListIntact, LM
  <2>1. Paged
    BY DEF Paged
  <2>2. PICK e \in F .. LM + 1 : AnswersUpTo(e) /\ HeadAt(e)
    BY <2>1, Reach, Built
  <2>3. freeListHead = e /\ FreeFrom(e)
    BY <2>2 DEF HeadAt, H
  <2>4. /\ i \in F .. LM /\ i \in e .. LM /\ i \in Int
        /\ i < LM => i + 1 \in F .. LM
    BY <2>1, <2>2, <2>3, Reach
  <2>5. descs[i].isfree /\ descs[i].virt /\ Entry(i)
    BY <2>1, <2>3, <2>4, Reach DEF FreeFrom, TableLeft
  <2>6. i < LM => Entry(i + 1)
    BY <2>1, <2>4, Reach DEF TableLeft
  <2>7. Frame(i + 1) = Frame(i) + PageSize
    BY <2>4, FrameIs
  <2> QED BY <2>5, <2>6, <2>7 DEF Entry
<1> QED BY <1>1, Safe, PTL

(* A request that hangs the kernel asked for more frames than were left.     *)
THEOREM HangsAreExhaustion == Spec => []HangsOnlyWhenExhausted
<1>1. BootInv /\ SafeInv => HangsOnlyWhenExhausted
  <2> SUFFICES ASSUME BootInv, SafeInv, pc = "hang"
               PROVE  Cardinality(FreeFrames) < request.count
    BY DEF HangsOnlyWhenExhausted
  <2>1. Paged
    BY DEF Paged
  <2>2. PICK e \in F .. LM + 1 : AnswersUpTo(e) /\ HeadAt(e)
    BY <2>1, Reach, Built
  <2>3. /\ F \in Nat /\ F # 0 /\ LM \in Nat /\ e \in Int /\ e + request.count > LM + 1
        /\ request.count \in Nat
    BY <2>1, <2>2, Reach, RequestTypes DEF HeadAt
  <2> DEFINE left == {Frame(k) : k \in e .. LM}
             f == [k \in e .. LM |-> Frame(k)]
  <2>4. FreeFrames \subseteq left
    <3> SUFFICES ASSUME NEW x \in FreeFrames PROVE x \in left
      OBVIOUS
    <3>1. PICK i \in F .. Len(descs) :
             /\ Slot(i) <= Limit /\ x = descs[i].startAddress
             /\ \A j \in DOMAIN granted :
                   x < granted[j].head \/ x >= EndOf(granted[j])
      BY <2>3 DEF FreeFrames, F
    <3>2. i \in F .. LM /\ i \in Int
      <4>1. i \in Int /\ i >= F
        BY <2>3, Numbers DEF N
      <4> QED BY <2>3, <4>1, <3>1, SlotIs
    <3>3. x = Frame(i) /\ x \in Int
      <4>1. Frame(i) \in Int
        BY <3>2, FrameIs
      <4> QED BY <2>1, <3>1, <3>2, <4>1, Reach DEF TableLeft, Entry
    <3>4. i >= e
      <4>1. SUFFICES ASSUME i < e PROVE FALSE
        BY <2>3, <3>2
      <4>2. i \in F .. e - 1
        BY <2>3, <3>2, <4>1
      <4>3. PICK j \in DOMAIN granted :
               granted[j].head <= Frame(i) /\ Frame(i) < EndOf(granted[j])
        BY <2>2, <4>2 DEF AnswersUpTo
      <4>4. granted[j].head \in Int /\ EndOf(granted[j]) \in Int
        BY AnswerIs
      <4> QED BY <3>1, <3>3, <4>3, <4>4
    <3>5. i \in e .. LM
      BY <2>3, <3>2, <3>4
    <3> QED BY <3>3, <3>5
  <2>5. IsFiniteSet(e .. LM) /\ Cardinality(e .. LM) = IF e > LM THEN 0 ELSE LM - e + 1
    <3>1. LM \in Int /\ e \in Int
      BY <2>3
    <3> QED BY <3>1, FS_Interval
  <2>6. f \in Surjection(e .. LM, left)
    BY DEF Surjection
  <2>7. IsFiniteSet(left) /\ Cardinality(left) <= Cardinality(e .. LM)
    <3> HIDE DEF left, f
    <3> QED BY <2>5, <2>6, FS_Surjection
  <2>8. Cardinality(FreeFrames) \in Nat /\ Cardinality(FreeFrames) <= Cardinality(left)
        /\ Cardinality(left) \in Nat
    <3> HIDE DEF left
    <3>1. IsFiniteSet(FreeFrames) /\ Cardinality(FreeFrames) <= Cardinality(left)
      BY <2>4, <2>7, FS_Subset
    <3> QED BY <2>7, <3>1, FS_CardinalityType
  <2>9. Cardinality(e .. LM) < request.count /\ Cardinality(e .. LM) \in Nat
    BY <2>2, <2>3, <2>5
  <2> HIDE DEF left
  <2> QED BY <2>3, <2>7, <2>8, <2>9
<1> QED BY <1>1, Safe, PTL

-----------------------------------------------------------------------------
(* The page allocator implements FramePool on every machine that meets      *)
(* LayoutOK.  The pool holds the frames of the free list that are in no     *)
(* answer: populating donates one frame per descriptor behind newPhysfree,  *)
(* each answer removes the run it names, and no other step changes it.      *)

(* Frame f is in no answer. *)
InNone(f) ==
    \A i \in DOMAIN granted : f < granted[i].head \/ f >= EndOf(granted[i])

(* The descriptors of the list populated so far. *)
Populated(j) == Populating => j <= N

(* FreeFrames in terms of the list. *)
FreeIs ==
    FreeFrames = IF F = 0 THEN {}
                 ELSE {Frame(k) : k \in {j \in F .. LM :
                                            Populated(j) /\ InNone(Frame(j))}}

(* Where the answers are, in terms of the list. *)
AnswersAre ==
    /\ \A i \in DOMAIN granted : \E a \in F .. LM :
          /\ granted[i].head = Frame(a)
          /\ granted[i].pages \in 1 .. LM + 1 - a
    /\ \A i, j \in DOMAIN granted : i < j => EndOf(granted[i]) <= granted[j].head

Answers == [i \in DOMAIN granted |->
               [head |-> granted[i].head, pages |-> granted[i].pages]]

PoolInv == BootInv /\ SafeInv /\ (pc = "walk" => request.count \in RequestLengths)

(* FreeFrames, defined by descriptors, are the frames Frame(k) of the list
   that no answer covers. *)
LEMMA FreeFramesAre == BootInv /\ SafeInv => FreeIs
<1> SUFFICES ASSUME BootInv, SafeInv PROVE FreeIs
  OBVIOUS
<1>1. CASE F = 0
  BY <1>1 DEF FreeIs, FreeFrames, F
<1>2. CASE F # 0
  <2>1. F \in Nat /\ F \in Int /\ N \in Int /\ LM \in Int
    <3>1. F \in 0 .. N /\ N \in Nat /\ LM \in Nat
      BY Numbers
    <3> QED BY <3>1
  <2>2. FreeFrames = {f \in {descs[i].startAddress : i \in {j \in F .. N : Slot(j) <= Limit}} :
                         InNone(f)}
    BY <1>2 DEF FreeFrames, F, N, InNone
  <2>3. ASSUME NEW j
        PROVE  j \in F .. N /\ Slot(j) <= Limit <=> j \in F .. LM /\ Populated(j)
    <3>1. j \in F .. N => (Slot(j) <= Limit <=> j <= LM)
      BY <2>1, SlotIs
    <3>2. ~Populating => LM < N
      BY <2>1 DEF BootInv, TableInv
    <3> QED BY <2>1, <3>1, <3>2 DEF Populated
  <2>4. ASSUME NEW j \in F .. LM, Populated(j)
        PROVE  descs[j].startAddress = Frame(j)
    <3>1. CASE Building
      <4>1. j \in F .. N
        BY <2>3, <2>4
      <4> QED BY <1>2, <3>1, <4>1 DEF SafeInv, BuildInv, Entry
    <3>2. CASE ~Building
      BY <3>2, Built DEF TableLeft, Entry
    <3> QED BY <3>1, <3>2
  <2>5. FreeFrames \subseteq {Frame(k) : k \in {j \in F .. LM : Populated(j) /\ InNone(Frame(j))}}
    BY <2>2, <2>3, <2>4
  <2>6. {Frame(k) : k \in {j \in F .. LM : Populated(j) /\ InNone(Frame(j))}} \subseteq FreeFrames
    BY <2>2, <2>3, <2>4
  <2> QED BY <1>2, <2>5, <2>6 DEF FreeIs
<1> QED BY <1>1, <1>2

(* Answers start at a frame of the list, end on it, and follow one another. *)
LEMMA AnswersAreRuns == BootInv /\ SafeInv => AnswersAre
<1> SUFFICES ASSUME BootInv, SafeInv PROVE AnswersAre
  OBVIOUS
<1>1. CASE Building
  <2>1. DOMAIN granted = {}
    BY <1>1 DEF SafeInv, BuildInv
  <2> QED BY <2>1 DEF AnswersAre
<1>2. CASE ~Building
  <2>1. F \in Int /\ LM \in Int
    BY <1>2, Built
  <2>2. PICK e \in F .. LM + 1 : AnswersUpTo(e)
    BY <1>2, Built
  <2>3. ASSUME NEW i \in DOMAIN granted
        PROVE  \E a \in F .. LM : /\ granted[i].head = Frame(a)
                                  /\ granted[i].pages \in 1 .. LM + 1 - a
    <3>1. PICK a \in F .. e - 1 : /\ granted[i].head = Frame(a)
                                  /\ granted[i].pages \in 1 .. e - a
      BY <2>2 DEF AnswersUpTo
    <3>2. PICK m \in 1 .. e - a : m = granted[i].pages
      BY <3>1
    <3>3. a \in F .. LM /\ m \in 1 .. LM + 1 - a
      BY <2>1
    <3> QED BY <3>1, <3>2, <3>3
  <2> QED BY <2>2, <2>3 DEF AnswersUpTo, AnswersAre
<1> QED BY <1>1, <1>2

(* Before the table is built the pool is empty. *)
LEMMA PoolStarts == Init => Pool!Init
<1> SUFFICES ASSUME Init PROVE Pool!Init
  OBVIOUS
<1>1. FreeFrames = {}
  BY DEF Init, FreeFrames
<1>2. Answers = <<>>
  BY DEF Init, Answers
<1> QED BY <1>1, <1>2 DEF Pool!Init, Answers

(* With no answer made, no frame is in one. *)
LEMMA NothingAnswered ==
    ASSUME granted = <<>>
    PROVE  Answers = <<>> /\ \A f : InNone(f)
BY DEF Answers, InNone

(* populatePageDescriptor donates the frame of a descriptor of the list. *)
LEMMA PopulateDonates ==
    ASSUME BootInv, SafeInv, BootInv', SafeInv', FreeIs, FreeIs',
           PopulatePageDescriptor
    PROVE  \/ Pool!Next
           \/ FreeFrames' = FreeFrames /\ Answers' = Answers
<1>1. /\ Populating /\ Building /\ Populating' /\ Building'
      /\ UNCHANGED <<layout, granted>>
      /\ F' = IF s > Limit /\ F = 0 THEN N + 1 ELSE F
  BY DEF PopulatePageDescriptor, Populating, Building, F, N
<1>2. /\ N \in Nat /\ F \in 0 .. N /\ LM \in Nat /\ F \in Nat
  <2>1. N \in Nat /\ F \in 0 .. N /\ LM \in Nat
    BY Numbers
  <2> QED BY <2>1
<1>3. N' = N + 1
  <2>1. descs \in Seq(Descriptor)
    BY Numbers DEF TypeOK
  <2> QED BY <2>1 DEF PopulatePageDescriptor, N
<1>4. granted = <<>> /\ granted' = <<>>
  BY <1>1 DEF SafeInv, BuildInv
<1>5. /\ Answers = <<>> /\ Answers' = <<>>
      /\ \A f : InNone(f) /\ InNone(f)'
  <2>1. Answers' = <<>> /\ \A f : InNone(f)'
    BY <1>4 DEF Answers, InNone
  <2> QED BY <1>4, <2>1, NothingAnswered
<1>6. /\ FirstFrame' = FirstFrame /\ LM' = LM
  BY <1>1 DEF FirstFrame, LM, LastMapped, Limit
<1>7. ASSUME NEW f, f \notin FreeFrames, FreeFrames' = FreeFrames \cup {f}
      PROVE  Pool!Next
  BY <1>5, <1>7 DEF Pool!Next, Pool!Donate, Answers
<1>8. CASE F' = 0
  <2>1. F = 0
    BY <1>1, <1>2, <1>8
  <2> QED BY <1>5, <1>8, <2>1 DEF FreeIs
<1>9. CASE F = 0 /\ F' # 0
  <2>1. F' = N + 1
    BY <1>1, <1>9
  <2>2. F' + 12 <= LM'
    BY <1>9 DEF SafeInv, ListInv
  <2>3. {j \in F' .. LM' : Populated(j)' /\ InNone(Frame(j))'} = {N + 1}
    <3>1. \A j \in F' .. LM' : Populated(j)' <=> j <= N'
      BY <1>1 DEF Populated
    <3>2. \A j : InNone(Frame(j))'
      BY <1>4 DEF InNone
    <3> QED BY <1>2, <1>3, <1>6, <2>1, <2>2, <3>1, <3>2
  <2>4. PICK f : FreeFrames' = {f}
    BY <1>9, <2>3 DEF FreeIs
  <2>5. FreeFrames = {}
    BY <1>9 DEF FreeIs
  <2> QED BY <1>7, <2>4, <2>5
<1>10. CASE F # 0
  <2>1. F' = F /\ Kept /\ \A i : Frame(i)' = Frame(i)
    <3>1. F' = F
      BY <1>1, <1>10
    <3> QED BY <1>1, <3>1, KeptFrames DEF Kept, F
  <2>2. FreeFrames = {Frame(k) : k \in {j \in F .. LM : j <= N}}
    BY <1>1, <1>5, <1>10 DEF FreeIs, Populated
  <2>3. FreeFrames' = {Frame(k) : k \in {j \in F .. LM : j <= N + 1}}
    <3>1. \A j : InNone(Frame(j))'
      BY <1>4 DEF InNone
    <3>2. {j \in F' .. LM' : Populated(j)' /\ InNone(Frame(j))'}
             = {j \in F .. LM : j <= N + 1}
      BY <1>1, <1>3, <1>6, <2>1, <3>1 DEF Populated
    <3> QED BY <1>10, <2>1, <3>2 DEF FreeIs
  <2>4. CASE N + 1 <= LM
    <3>1. FreeFrames' = FreeFrames \cup {Frame(N + 1)}
      <4>1. {j \in F .. LM : j <= N + 1} = {j \in F .. LM : j <= N} \cup {N + 1}
        BY <1>2, <2>4
      <4> QED BY <2>2, <2>3, <4>1
    <3>2. Frame(N + 1) \notin FreeFrames
      <4>1. SUFFICES ASSUME NEW k \in {j \in F .. LM : j <= N}, Frame(N + 1) = Frame(k)
                     PROVE  FALSE
        BY <2>2
      <4>2. k \in Int /\ k < N + 1 /\ N + 1 \in Int
        BY <1>2
      <4>3. Frame(k) + PageSize <= Frame(N + 1) /\ Frame(k) \in Int
        BY <4>2, FrameIs
      <4> QED BY <4>1, <4>3, Numbers
    <3> QED BY <1>7, <3>1, <3>2
  <2>5. CASE ~(N + 1 <= LM)
    <3>1. {j \in F .. LM : j <= N + 1} = {j \in F .. LM : j <= N}
      BY <1>2, <2>5
    <3> QED BY <1>5, <2>2, <2>3, <3>1
  <2> QED BY <2>4, <2>5
<1> QED BY <1>8, <1>9, <1>10

(* Steps without an answer leave the pool alone. *)
LEMMA QuietStep ==
    ASSUME FreeIs, FreeIs', Kept, UNCHANGED granted,
           \A j \in F .. LM : Populated(j)' <=> Populated(j)
    PROVE  FreeFrames' = FreeFrames /\ Answers' = Answers
<1>1. F' = F /\ LM' = LM /\ \A i : Frame(i)' = Frame(i)
  BY KeptFrames
<1>2. \A j \in F .. LM : InNone(Frame(j))' <=> InNone(Frame(j))
  BY <1>1 DEF InNone, EndOf
<1>3. {j \in F' .. LM' : Populated(j)' /\ InNone(Frame(j))'}
         = {j \in F .. LM : Populated(j) /\ InNone(Frame(j))}
  BY <1>1, <1>2
<1> QED BY <1>1, <1>3 DEF FreeIs, Answers

(* A function from 1 .. m is a sequence of length m. *)
LEMMA SequenceIs ==
    ASSUME NEW S, NEW m \in Nat, NEW q \in [1 .. m -> S]
    PROVE  q \in Seq(S) /\ Len(q) = m
OBVIOUS

(* Append, element by element. *)
LEMMA AppendIs ==
    ASSUME NEW S, NEW q \in Seq(S), NEW x \in S
    PROVE  Append(q, x) = [i \in 1 .. Len(q) + 1 |-> IF i = Len(q) + 1 THEN x ELSE q[i]]
<1> DEFINE r == Append(q, x)
<1>1. /\ r \in Seq(S) /\ Len(r) = Len(q) + 1 /\ Len(q) \in Nat
      /\ \A i \in 1 .. Len(q) : r[i] = q[i]
      /\ r[Len(q) + 1] = x
  OBVIOUS
<1> HIDE DEF r
<1>2. r = [i \in 1 .. Len(q) + 1 |-> r[i]]
  BY <1>1
<1>3. \A i \in 1 .. Len(q) + 1 : r[i] = IF i = Len(q) + 1 THEN x ELSE q[i]
  <2>1. \A i \in 1 .. Len(q) + 1 : i # Len(q) + 1 => i \in 1 .. Len(q)
    BY <1>1
  <2> QED BY <1>1, <2>1
<1> QED BY <1>2, <1>3 DEF r

(* An answer takes its run out of the pool. *)
LEMMA AnswerGrants ==
    ASSUME BootInv, SafeInv, FreeIs, FreeIs', AnswersAre', TypeOK', Kept,
           ~Building, ~Populating', NEW h, NEW n \in RequestLengths,
           granted' = Append(granted, Grant(h, n))
    PROVE  Pool!Next
<1> DEFINE g == Grant(h, n)
           l == Len(granted)
           R == {h + k * PageSize : k \in 0 .. n - 1}
<1>1. /\ ~Populating /\ F \in Int /\ LM \in Int /\ F # 0 /\ N \in Int
      /\ PageSize \in Nat \ {0}
  <2>1. ~Populating
    BY DEF Building
  <2> QED BY <2>1, Indices, Numbers
<1>2. F' = F /\ LM' = LM /\ FirstFrame' = FirstFrame /\ \A i : Frame(i)' = Frame(i)
  BY KeptFrames
<1>3. granted \in Seq(Answer) /\ granted' \in Seq(Answer) /\ l \in Nat
  BY Numbers DEF TypeOK
<1>4. /\ DOMAIN granted = 1 .. l /\ DOMAIN granted' = 1 .. l + 1
      /\ \A i \in 1 .. l : granted'[i] = granted[i]
      /\ granted'[l + 1] = g
  <2>1. granted' = Append(granted, g)
    OBVIOUS
  <2> HIDE DEF g
  <2> QED BY <1>3, <2>1
<1>5. g.head = h /\ g.pages = n
  BY DEF Grant
<1> HIDE DEF g
<1>6. PICK a \in F .. LM : h = Frame(a) /\ n \in 1 .. LM + 1 - a
  <2>1. l + 1 \in DOMAIN granted'
    BY <1>3, <1>4
  <2>2. \E a \in F .. LM : /\ granted'[l + 1].head = Frame(a)
                           /\ granted'[l + 1].pages \in 1 .. LM + 1 - a
    BY <1>2, <2>1 DEF AnswersAre
  <2> QED BY <1>4, <1>5, <2>2
<1>7. /\ a \in Int /\ n \in Int /\ n >= 1 /\ a >= F /\ a + n <= LM + 1
      /\ h \in Int
  <2>1. a \in Int /\ n \in Int /\ n >= 1 /\ a >= F /\ a + n <= LM + 1
    BY <1>1, <1>6
  <2> QED BY <1>6, <2>1, FrameIs
<1>8. EndOf(g) = Frame(a + n) /\ Frame(a + n) \in Int
  <2>1. Frame(a + n) = Frame(a) + PageSize * n /\ Frame(a + n) \in Int
    BY <1>7, FrameIs
  <2>2. PageSize * n = n * PageSize
    BY <1>1, <1>7
  <2> QED BY <1>5, <1>6, <2>1, <2>2 DEF EndOf
<1>9. \A k \in 0 .. n - 1 : h + k * PageSize = Frame(a + k)
  <2>1. ASSUME NEW k \in 0 .. n - 1 PROVE h + k * PageSize = Frame(a + k)
    <3>1. k \in Int
      BY <1>7
    <3>2. Frame(a + k) = Frame(a) + PageSize * k
      BY <1>7, <3>1, FrameIs
    <3>3. PageSize * k = k * PageSize
      BY <1>1, <3>1
    <3> QED BY <1>6, <3>2, <3>3
  <2> QED BY <2>1
<1>10. \A i \in 1 .. l : EndOf(granted[i]) <= h
  <2>1. ASSUME NEW i \in 1 .. l PROVE EndOf(granted[i]) <= h
    <3>1. i \in DOMAIN granted' /\ l + 1 \in DOMAIN granted' /\ i < l + 1
      BY <1>3, <1>4
    <3>2. \A x, y \in DOMAIN granted' :
             x < y => granted'[x].head + granted'[x].pages * PageSize <= granted'[y].head
      BY DEF AnswersAre, EndOf
    <3>3. granted'[i].head + granted'[i].pages * PageSize <= granted'[l + 1].head
      BY <3>1, <3>2
    <3> QED BY <1>4, <1>5, <3>3 DEF EndOf
  <2> QED BY <2>1
<1>11. ASSUME NEW f
       PROVE  InNone(f)' <=> InNone(f) /\ (f < h \/ f >= Frame(a + n))
  <2>1. InNone(f)' <=> \A i \in 1 .. l + 1 :
           f < granted'[i].head \/ f >= granted'[i].head + granted'[i].pages * PageSize
    BY <1>4 DEF InNone, EndOf
  <2>2. InNone(f) <=> \A i \in 1 .. l :
           f < granted[i].head \/ f >= granted[i].head + granted[i].pages * PageSize
    BY <1>4 DEF InNone, EndOf
  <2>3. \A i \in 1 .. l + 1 : i \in 1 .. l \/ i = l + 1
    BY <1>3
  <2>4. \A i \in 1 .. l : i \in 1 .. l + 1
    BY <1>3
  <2>5. l + 1 \in 1 .. l + 1
    BY <1>3
  <2>6. h + n * PageSize = Frame(a + n)
    BY <1>5, <1>8 DEF EndOf
  <2> QED BY <1>4, <1>5, <2>1, <2>2, <2>3, <2>4, <2>5, <2>6
<1>12. /\ FreeFrames = {Frame(k) : k \in {j \in F .. LM : InNone(Frame(j))}}
       /\ FreeFrames' = {Frame(k) : k \in {j \in F .. LM :
             InNone(Frame(j)) /\ (Frame(j) < h \/ Frame(j) >= Frame(a + n))}}
  <2>1. FreeFrames = {Frame(k) : k \in {j \in F .. LM : InNone(Frame(j))}}
    BY <1>1 DEF FreeIs, Populated
  <2>2. \A j : InNone(Frame(j))'
             <=> InNone(Frame(j)) /\ (Frame(j) < h \/ Frame(j) >= Frame(a + n))
    BY <1>2, <1>11 DEF InNone
  <2>3. {j \in F' .. LM' : Populated(j)' /\ InNone(Frame(j))'}
          = {j \in F .. LM :
               InNone(Frame(j)) /\ (Frame(j) < h \/ Frame(j) >= Frame(a + n))}
    BY <1>2, <2>2 DEF Populated
  <2> QED BY <1>1, <1>2, <2>1, <2>3 DEF FreeIs
<1>13. ASSUME NEW j \in F .. LM
       PROVE  Frame(j) \in R <=> ~(Frame(j) < h \/ Frame(j) >= Frame(a + n))
  <2>1. j \in Int /\ Frame(j) \in Int
    BY <1>1, FrameIs
  <2>2. CASE j < a
    <3>1. Frame(j) + PageSize <= h
      BY <1>6, <1>7, <2>1, <2>2, FrameIs
    <3>2. Frame(j) < h
      BY <1>1, <1>7, <2>1, <3>1
    <3>3. \A k \in 0 .. n - 1 : h <= h + k * PageSize
      BY <1>1, <1>7
    <3>4. Frame(j) \notin R
      BY <1>7, <1>1, <2>1, <3>2, <3>3
    <3> QED BY <3>2, <3>4
  <2>3. CASE a <= j /\ j < a + n
    <3>1. h <= Frame(j) /\ Frame(j) + PageSize <= Frame(a + n)
      <4>1. a + n \in Int
        BY <1>7
      <4> QED BY <1>6, <1>7, <2>1, <2>3, <4>1, FrameIs
    <3>2. j - a \in 0 .. n - 1 /\ a + (j - a) = j
      BY <1>7, <2>1, <2>3
    <3>3. Frame(j) \in R
      BY <1>9, <3>2
    <3>4. ~(Frame(j) < h) /\ ~(Frame(j) >= Frame(a + n))
      BY <1>1, <1>7, <1>8, <2>1, <3>1
    <3> QED BY <3>3, <3>4
  <2>4. CASE a + n <= j
    <3>1. Frame(a + n) <= Frame(j)
      <4>1. a + n \in Int
        BY <1>7
      <4> QED BY <2>1, <2>4, <4>1, FrameIs
    <3>2. ASSUME NEW k \in 0 .. n - 1 PROVE h + k * PageSize < Frame(a + n)
      <4>1. a + k \in Int /\ a + n \in Int /\ a + k < a + n
        BY <1>7
      <4>2. Frame(a + k) + PageSize <= Frame(a + n) /\ Frame(a + k) \in Int
        BY <4>1, FrameIs
      <4>3. h + k * PageSize = Frame(a + k)
        BY <1>9
      <4> QED BY <1>1, <1>8, <4>2, <4>3
    <3>3. Frame(j) \notin R
      <4>1. SUFFICES ASSUME NEW k \in 0 .. n - 1, Frame(j) = h + k * PageSize
                     PROVE  FALSE
        OBVIOUS
      <4>2. Frame(j) < Frame(a + n)
        BY <3>2, <4>1
      <4> QED BY <1>8, <2>1, <3>1, <4>2
    <3>4. Frame(j) >= Frame(a + n)
      BY <1>8, <2>1, <3>1
    <3> QED BY <3>3, <3>4
  <2> QED BY <1>7, <2>1, <2>2, <2>3, <2>4
<1>14. FreeFrames' = FreeFrames \ R
  <2>1. FreeFrames' \subseteq FreeFrames \ R
    BY <1>12, <1>13
  <2>2. FreeFrames \ R \subseteq FreeFrames'
    BY <1>12, <1>13
  <2> QED BY <2>1, <2>2
<1>15. R \subseteq FreeFrames /\ h \in FreeFrames
  <2>1. ASSUME NEW k \in 0 .. n - 1 PROVE h + k * PageSize \in FreeFrames
    <3>1. a + k \in F .. LM /\ a + k \in Int
      BY <1>1, <1>7
    <3>2. h + k * PageSize = Frame(a + k) /\ Frame(a + k) \in Int
      BY <1>9, <3>1, FrameIs
    <3>3. h <= Frame(a + k)
      BY <1>6, <1>7, <3>1, FrameIs
    <3>4. InNone(Frame(a + k))
      <4>1. ASSUME NEW i \in DOMAIN granted PROVE Frame(a + k) >= EndOf(granted[i])
        <5>1. EndOf(granted[i]) <= h
          BY <1>4, <1>10
        <5>2. EndOf(granted[i]) \in Int
          BY AnswerIs
        <5> QED BY <1>7, <3>2, <3>3, <5>1, <5>2
      <4> QED BY <4>1 DEF InNone
    <3> QED BY <1>12, <3>1, <3>2, <3>4
  <2>2. h + 0 * PageSize = h /\ 0 \in 0 .. n - 1
    BY <1>1, <1>7
  <2>3. h \in FreeFrames
    BY <2>1, <2>2
  <2> QED BY <2>1, <2>3
<1>16. Answers' = Append(Answers, [head |-> h, pages |-> n])
  <2> DEFINE p(x) == [head |-> x.head, pages |-> x.pages]
  <2>1. /\ Answers = [i \in 1 .. l |-> p(granted[i])]
        /\ Answers' = [i \in 1 .. l + 1 |-> p(granted'[i])]
    BY <1>4 DEF Answers
  <2>2. p(g) = [head |-> h, pages |-> n]
    BY <1>5
  <2> HIDE DEF p
  <2>3. Append(Answers, p(g)) = [i \in 1 .. l + 1 |-> IF i = l + 1 THEN p(g) ELSE Answers[i]]
    <3> DEFINE S == {p(granted[i]) : i \in 1 .. l} \cup {p(g)}
    <3>1. Answers \in Seq(S) /\ Len(Answers) = l
      <4>1. Answers \in [1 .. l -> S]
        BY <2>1
      <4> HIDE DEF S
      <4> QED BY <1>3, <4>1, SequenceIs
    <3>2. p(g) \in S
      OBVIOUS
    <3> HIDE DEF S
    <3> QED BY <3>1, <3>2, AppendIs
  <2>4. \A i \in 1 .. l + 1 :
           p(granted'[i]) = IF i = l + 1 THEN p(g) ELSE Answers[i]
    <3>1. ASSUME NEW i \in 1 .. l + 1
          PROVE  p(granted'[i]) = IF i = l + 1 THEN p(g) ELSE Answers[i]
      <4>1. CASE i = l + 1
        BY <1>4, <4>1
      <4>2. CASE i # l + 1
        <5>1. i \in 1 .. l
          BY <1>3, <4>2
        <5> QED BY <1>4, <2>1, <4>2, <5>1
      <4> QED BY <4>1, <4>2
    <3> QED BY <3>1
  <2> QED BY <2>1, <2>2, <2>3, <2>4
<1>17. Pool!Grant(h, n)
  BY <1>14, <1>15, <1>16 DEF Pool!Grant, Pool!Run, Answers
<1> QED BY <1>15, <1>17 DEF Pool!Next

-----------------------------------------------------------------------------
(* Every step of the allocator is a step of the pool, or changes nothing. *)
LEMMA StepOfThePool ==
    ASSUME BootInv, SafeInv, BootInv', SafeInv', FreeIs, FreeIs', AnswersAre',
           pc = "walk" => request.count \in RequestLengths, [Next]_vars
    PROVE  Pool!Next \/ (FreeFrames' = FreeFrames /\ Answers' = Answers)
<1>1. CASE PopulatePageDescriptor
  BY <1>1, PopulateDonates
<1>2. CASE NextCall
  <2>1. Kept /\ UNCHANGED <<granted, descs>>
    BY <1>2 DEF NextCall, Kept
  <2>2. \A j \in F .. LM : Populated(j)' <=> Populated(j)
    <3>1. N' = N /\ LM' = LM /\ Populating
      BY <1>2, <2>1, KeptFrames DEF NextCall, Populating, N
    <3>2. ~Populating' => N > LM
      BY <3>1 DEF BootInv, TableInv
    <3>3. N \in Nat /\ LM \in Nat /\ F \in 0 .. N
      BY Numbers
    <3>4. ~Populating' => \A j \in F .. LM : j <= N
      BY <3>2, <3>3
    <3> QED BY <3>1, <3>4 DEF Populated
  <2> QED BY <2>1, <2>2, QuietStep
<1>3. ASSUME Kept, UNCHANGED granted, ~Populating, ~Populating'
      PROVE  FreeFrames' = FreeFrames /\ Answers' = Answers
  <2>1. \A j \in F .. LM : Populated(j)' <=> Populated(j)
    BY <1>3 DEF Populated
  <2> QED BY <1>3, <2>1, QuietStep
<1>4. CASE ExcludeUnavailableMemory \/ MapKernel \/ MapFrame \/ RemapNextPointers
  BY <1>3, <1>4 DEF ExcludeUnavailableMemory, MapKernel, MapFrame,
     RemapNextPointers, Kept, Populating
<1>5. CASE GetFreePageFaults \/ GetFreePagesFaults
  BY <1>3, <1>5 DEF GetFreePageFaults, GetFreePagesFaults, Hang, Kept, Populating
<1>6. CASE \/ \E size \in KmallocSizes : Kmalloc(size)
           \/ GetFreePagesWalk
  BY <1>3, <1>6 DEF Kmalloc, GetFreePagesWalk, Kept, Populating
<1>7. CASE HangForever \/ UNCHANGED vars
  <2>1. Kept /\ UNCHANGED <<granted, descs, pc>>
    BY <1>7 DEF HangForever, vars, Kept
  <2>2. \A j \in F .. LM : Populated(j)' <=> Populated(j)
    BY <2>1 DEF Populated, Populating, N
  <2> QED BY <2>1, <2>2, QuietStep
<1>8. ASSUME Kept, GetFreePage, ~Building, ~Populating'
      PROVE  Pool!Next
  <2>1. PICK h : granted' = Append(granted, Grant(h, 1))
    BY <1>8 DEF GetFreePage
  <2>2. 1 \in RequestLengths
    BY DEF RequestLengths
  <2> QED BY <1>8, <2>1, <2>2, AnswerGrants DEF BootInv
<1>9. CASE PagingSetup \/ MapVideoCard \/ NewPageTable \/ GetFreePageCall
  BY <1>8, <1>9 DEF PagingSetup, MapVideoCard, NewPageTable, GetFreePageCall,
     Kept, Building, Populating
<1>10. CASE GetFreePagesReturn
  <2>1. /\ Kept /\ ~Building /\ ~Populating' /\ request.count \in RequestLengths
        /\ granted' = Append(granted, Grant(request.head, request.count))
    BY <1>10 DEF GetFreePagesReturn, Kept, Building, Populating
  <2> QED BY <2>1, AnswerGrants DEF BootInv
<1> QED
  BY <1>1, <1>2, <1>4, <1>5, <1>6, <1>7, <1>9, <1>10 DEF Next

(* kmalloc asks for the pages of its size until the answer is there. *)
LEMMA CountStays ==
    ASSUME BootInv, pc = "walk" => request.count \in RequestLengths, [Next]_vars
    PROVE  (pc = "walk" => request.count \in RequestLengths)'
<1>1. CASE \E size \in KmallocSizes : Kmalloc(size)
  BY <1>1 DEF Kmalloc, RequestLengths
<1>2. CASE GetFreePagesWalk
  <2>1. request'.count = request.count /\ pc = "walk"
    BY <1>2, RequestTypes DEF GetFreePagesWalk
  <2> QED BY <2>1 DEF RequestLengths
<1>3. CASE UNCHANGED vars \/ HangForever
  BY <1>3 DEF vars, HangForever, RequestLengths
<1> QED
  BY <1>1, <1>2, <1>3 DEF Next, PopulatePageDescriptor, NextCall,
     ExcludeUnavailableMemory, PagingSetup, MapKernel, MapVideoCard,
     NewPageTable, MapFrame, RemapNextPointers, GetFreePageCall,
     GetFreePageFaults, GetFreePagesReturn, GetFreePagesFaults, Hang

(* On every machine LayoutOK admits the allocator is a frame pool: what boot *)
(* takes for the page tables and what getFreePage and kmalloc return are     *)
(* runs of frames of the pool, and nothing but an answer takes a frame out.  *)
THEOREM FramePoolImplemented == Spec => ImplementsFramePool
<1>1. Init => PoolInv /\ Pool!Init
  BY InitBootInv, InitSafe, PoolStarts DEF PoolInv, Init
<1>2. PoolInv /\ [Next]_vars => PoolInv'
  BY NextKeepsBootInv, NextKeepsSafe, CountStays DEF PoolInv
<1>3. PoolInv => FreeIs /\ AnswersAre
  BY FreeFramesAre, AnswersAreRuns DEF PoolInv
<1>4. ASSUME PoolInv, PoolInv', FreeIs, FreeIs', AnswersAre', [Next]_vars
      PROVE  [Pool!Next]_<<FreeFrames, Answers>>
  BY <1>4, StepOfThePool DEF PoolInv
<1>5. Pool!Spec <=> Pool!Init /\ [][Pool!Next]_<<FreeFrames, Answers>>
  BY DEF Pool!Spec, Answers
<1> QED BY <1>1, <1>2, <1>3, <1>4, <1>5, PTL DEF Spec, ImplementsFramePool

=============================================================================

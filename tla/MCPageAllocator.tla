--------------------------- MODULE MCPageAllocator ---------------------------
(* Instances of PageAllocator small enough for TLC: pages of four           *)
(* descriptors and machines of about forty pages.                           *)
EXTENDS PageAllocator

MCPageSize == 4
MCPhysBase == 24
MCVideoMemory == 12
MCPtEntries == 16
MCKmallocSizes == {4, 9, 12}       \* one page, and three pages twice

Ram(b, l) == [base |-> b, length |-> l, type |-> 1]
Reserved(b, l) == [base |-> b, length |-> l, type |-> 2]

(* The map QEMU reports: low memory with a ragged end, a hole, the rest.    *)
Pc(top) == <<Ram(0, 11), Reserved(11, 1), Reserved(14, 2),
             Ram(16, top - 16), Reserved(top, 8)>>

MCBootInfos ==
    {[smap |-> Pc(160), physfree |-> 33],    \* newPhysfree inside a page
     [smap |-> Pc(157), physfree |-> 34],    \* newPhysfree at a page start
     [smap |-> <<Ram(0, 158)>>, physfree |-> 34],        \* one region
     [smap |-> <<Ram(0, 7), Ram(9, 0), Ram(10, 7), Reserved(17, 1),
                 Ram(18, 143)>>, physfree |-> 34]}       \* unaligned bases
=============================================================================

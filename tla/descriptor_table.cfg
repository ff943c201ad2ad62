SPECIFICATION Spec
CONSTANTS
    PageSize <- MCPageSize
    PhysBase <- MCPhysBase
    VideoMemory <- MCVideoMemory
    PtEntries <- MCPtEntries
    BootInfos <- MCBootInfos
    KmallocSizes <- MCKmallocSizes
INVARIANT
    DescriptorTableReserved

SPECIFICATION Spec
CONSTANTS
    PageSize <- MCPageSize
    PhysBase <- MCPhysBase
    VideoMemory <- MCVideoMemory
    PtEntries <- MCPtEntries
    BootInfos <- MCBootInfos
    KmallocSizes <- MCKmallocSizes
INVARIANTS
    TypeOK
    NoDoubleGrant
    GrantsAreMemory
    ClearsWhatItGrants
    FreeListIntact
    HangsOnlyWhenExhausted
PROPERTY
    ImplementsFramePool

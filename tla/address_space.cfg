SPECIFICATION Spec
CONSTANTS
    Levels = 2
    Fanout = 3
    PageSize = 4
    Word = 2
    CowOffsets = {3}
    Frames = 12
    Stack <- MCStack
    Segments <- MCSegments
    Zero = 0
    Accesses <- MCAccesses
    MaxChildren = 2
INVARIANTS
    TypeOK
    FramesAreTrees
    ChildSharesPages
    LoadedExactly
PROPERTIES
    ImplementsVirtualMemory
    AccessCompletes
CHECK_DEADLOCK FALSE

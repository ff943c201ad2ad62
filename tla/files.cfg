SPECIFICATION Spec
CONSTANTS
    Block = 3
    Wrap = 3072
    Archive <- MCArchive
    Contents <- MCContents
    Nul = "nul"
    Slots = 5
    Names <- MCNames
    Counts = {1, 2, 4}
    MaxOpens = 3
INVARIANTS
    TypeOK
    OpenFindsFile
    ReadsFileInOrder
CHECK_DEADLOCK FALSE

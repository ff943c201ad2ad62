SPECIFICATION Spec
CONSTANTS
    Rows = 2
    Width = 3
    Keys <- MCKeys
    kbdus <- MCkbdus
    kbdus_Shift <- MCkbdus_Shift
    Nul = "nul"
    Newline = "newline"
    Foreign = "foreign"
    Lengths = {2, 4}
    MaxKeys = 5
INVARIANTS
    TypeOK
    BacklogIsValid
    FirstRoundIsExact
PROPERTIES
    ImplementsLineQueue
    LineIsRead

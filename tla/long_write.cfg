SPECIFICATION Spec
CONSTANTS
    PcbWords = 1423
    KStackAt = 5
    PageWords = 512
    ListPages = 10
    MAX_PROCESS = 100
    PrintWords = 625
    TestWords = 4
    CallWords = 16
    IntWords = 32
    ProgramPages = 8
    ForkPages = 6
    Contexts = {"u", "v"}
    WriteWords = {625}
    MaxForks = 0
INVARIANT
    SyscallIsTransparent

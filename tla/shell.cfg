SPECIFICATION Spec
CONSTANTS
    Words = 3
    Room = 6
    Char <- MCChar
    Nul = "nul"
    Newline = "newline"
    Space = "blank"
    echo = "e"
    sleep = "s"
    cat = "c"
    ps = "p"
    Lines <- MCLines
    Images <- MCImages
    Openable <- MCOpenable
    MaxLines = 3
INVARIANTS
    TypeOK
    ArgumentIsWord
    ArgumentIsLeft
    HangsOnlyOnBadLine
CHECK_DEADLOCK FALSE

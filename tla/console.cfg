SPECIFICATION Spec
CONSTANTS
    Rows = 2
    Width = 3
    Newline = "newline"
    Return = "return"
    Glyphs = {"p"}
    Keys = {"k", "newline"}
    Blank = "blank"
    Colour = "colour"
    Second = 2
    MaxInt = 3999
    Times = {2500, 5000}
    MaxKeys = 2
    MaxTime = 2
INVARIANTS
    TypeOK
    CursorOnScreen
    NewlineRepairs
    ScreenShowsText
PROPERTIES
    SleepsLongEnough
    SleepEnds

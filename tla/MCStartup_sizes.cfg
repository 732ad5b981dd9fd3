\* RangeIsAccepted is violated: 10000 is in the range that the process names,
\* and refused.
CONSTANTS
    Files <- MCFiles
    Lengths = {0, 1}
    NoFile = NoFile
    Unreadable = Unreadable
    Texts <- MCTexts
    NoText = ""
    Absent = Absent
    Broken = Broken
    Blank = Blank
    Word = Word
    Dangling = Dangling
    Leftover = {0, 640}
    Freed = {"", "pid2", "info", "junk"}
SPECIFICATION Spec
INVARIANT RangeIsAccepted
CHECK_DEADLOCK FALSE

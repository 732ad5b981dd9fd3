\* The reader may leave 0 or 640 in an uninitialised number; freed memory
\* may read as nothing, as it was or as something else.
CONSTANTS
    Files <- MCFiles
    Lengths = {0, 1, 2}
    NoFile = NoFile
    Unreadable = Unreadable
    Texts <- MCTexts
    NoText = ""
    Absent = Absent
    Broken = Broken
    Blank = Blank
    Word = Word
    Dangling = Dangling
    Leftover = {0, 640}
    Freed = {"", "pid2", "info", "junk"}
SPECIFICATION Spec
INVARIANTS
    TypeOK
    OwnProfiles
    OwnStreams
    RefusedForAReason
PROPERTIES
    ServesAllOrNothing
CHECK_DEADLOCK FALSE

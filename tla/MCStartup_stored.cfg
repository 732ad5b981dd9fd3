\* SettingsStored is violated: the texts of the daemon are read from the
\* memory of a file that is closed.
CONSTANTS
    Files <- MCFiles
    Lengths = {0, 1}
    NoFile = NoFile
    Unreadable = Unreadable
    Texts <- MCTexts
    NoText = ""
    Absent = Absent
    Broken = Broken
    Blank = Blank
    Word = Word
    Dangling = Dangling
    Leftover = {640}
    Freed = {"", "pid", "pid2", "info", "junk"}
SPECIFICATION Spec
INVARIANT SettingsStored
CHECK_DEADLOCK FALSE

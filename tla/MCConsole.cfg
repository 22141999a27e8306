CONSTANTS
    Version = 5
    Lines <- ThreeLines
    Names <- ThreeNames
    Stale <- OneTail
    BufLen = 3
    NameLen = 4
    OldGames <- OneGame
    SaveName <- S
    RecordName <- R
    MaxSession = 3
    None = None
SPECIFICATION ConsoleSpec
VIEW MCView
CHECK_DEADLOCK FALSE
INVARIANT ConsoleTypeOK
PROPERTY ReplayRepeats
PROPERTY OldFilesKept
 

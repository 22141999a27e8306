CONSTANTS
    PageSize = 2
    FileSize <- MCFileSize
    DataPages = 1
    Entries = 3
    StoryFile <- MCStoryFile
    Byte <- MCByte
    NewByte = {8}
    Junk = Junk
    StartPC = 4
SPECIFICATION Spec
VIEW MCView
INVARIANT TypeOK
INVARIANT UnusedLast
INVARIANT OneCopy
INVARIANT EntryCoherent
INVARIANT BuffersCoherent
PROPERTY ImplementsStoryMemory

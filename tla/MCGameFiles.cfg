CONSTANTS
    h_restart_size = 6
    StoryFile <- MCStoryFile
    MaxRun = 2
    H_FLAGS = 0
    H_SCREEN_COLUMNS = 5
    screen_cols <- Width
    StoryWrites <- MCWrites
    ForeignChunks <- MCChunks
    AuxTable <- MCTable
    MaxScript = 2
    None = None
SPECIFICATION Spec
VIEW MCView
CONSTRAINT Bounded
INVARIANT TypeOK
 
PROPERTY ScriptingBitKept
PROPERTY TranscriptGoesOn
CHECK_DEADLOCK FALSE

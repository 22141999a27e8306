CONSTANTS
    Version = 5
    Routines <- OneRoutine
    NLocals <- OneLocal
    LocalInit <- OneInit
    Entry <- OneEntry
    Sites <- TwoSites
    ResultVar <- TwoResultVar
    Globals = {16}
    Values = {1}
    StartPC = 2
    MaxArgs = 1
    WordSize = 8192
    StackSize = 18
    PageSize = 4
    UndoAvailable = TRUE
    Opcodes = {"call", "ret", "push", "restart", "save_undo", "restore_undo"}
    Release = 9
    Reserve = 5
    MaxEval = 1
    Counts = {0, 8191}
    BranchReturns = {0}
    None = None
    Layouts <- MCLayouts
SPECIFICATION GameSpec
VIEW GameView
CONSTRAINT OneGame
PROPERTY ImplementsSavedGames
PROPERTY CompleteFilesRestore
CHECK_DEADLOCK FALSE

CONSTANTS
    Version = 5
    Routines <- MCRoutines
    NLocals <- MCNLocals
    LocalInit <- MCLocalInit
    Entry <- MCEntry
    Sites <- TwoSites
    ResultVar <- TwoResultVar
    Globals = {16}
    Values = {7}
    StartPC = 2
    MaxArgs = 1
    WordSize = 8192
    StackSize = 18
    PageSize = 4
    UndoAvailable = TRUE
    Opcodes = {"call", "ret", "catch", "throw", "save_undo", "restore_undo"}
    Release = 9
    Reserve = 5
    MaxEval = 1
    Counts = {0, 8191}
    BranchReturns = {0}
    None = None
SPECIFICATION Spec
VIEW MCView
PROPERTY ThrowReturnsFromCatcher
CHECK_DEADLOCK FALSE

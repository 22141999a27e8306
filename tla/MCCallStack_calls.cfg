CONSTANTS
    Version = 5
    Routines <- MCRoutines
    NLocals <- MCNLocals
    LocalInit <- MCLocalInit
    Entry <- MCEntry
    Sites <- MCSites
    ResultVar <- MCResultVar
    Globals = {16}
    Values = {8191}
    StartPC = 2
    MaxArgs = 2
    WordSize = 8192
    StackSize = 13
    PageSize = 4
    UndoAvailable = FALSE
    Opcodes = {"call", "call_zero", "ret", "load", "store", "push", "pull", "pop", "inc", "inc_chk", "branch", "ret_popped", "quit"}
    Release = 9
    Reserve = 2
    MaxEval = 2
    Counts = {0, 8191}
    BranchReturns = {0}
    None = None
SPECIFICATION Spec
VIEW UndoView
INVARIANT TypeOK
PROPERTY CallersUntouched
PROPERTY ImplementsFrameStack
CHECK_DEADLOCK FALSE

CONSTANTS
    Width = 3
    Letters = {"a", "b"}
    Tables <- ThreeTables
    TableRoom = 2
    Careful = TRUE
SPECIFICATION Spec
VIEW MCView
CONSTRAINT Bounds
INVARIANT TypeOK
PROPERTY ImplementsTextStreams
PROPERTY LinesFit
PROPERTY CopiedAsShown

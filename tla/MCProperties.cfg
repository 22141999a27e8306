CONSTANTS
    data_size <- Size
    StaticBytes <- MCStatic
    Versions = {3, 5}
    Story <- MCStory
    h_objects_offset <- Offset
    PropertyPointer <- Pointer
    PropertyPlace <- MCPlace
    PropertySize <- MCSize
    DefaultOf <- MCDefault
    Ids = {1, 2, 3, 4, 5}
    Values = {2, 259}
    Places <- MCPlaces
    Counts <- MCCounts
    Words <- MCWords
    Shifts <- MCShifts
    Chances = {0, 3, 65535}
SPECIFICATION Spec
VIEW MCView
CONSTRAINT OneAtATime
INVARIANT TypeOK
PROPERTY ImplementsPropertyLists
PROPERTY ArithmeticLaws
PROPERTY CopyIsAsAsked
CHECK_DEADLOCK FALSE

CONSTANTS
    NumObjects = 4
    Attributes = {7}
    StoryKids <- MCStoryKids
    Operands <- Record
    Default <- Words
    ReportIsFatal = TRUE
SPECIFICATION Spec
VIEW MCView
CONSTRAINT OneWithAttributes
CHECK_DEADLOCK FALSE
INVARIANT TypeOK
INVARIANT LinksAgree
INVARIANT WalksEnd
PROPERTY StaysForest
PROPERTY ImplementsForest
 

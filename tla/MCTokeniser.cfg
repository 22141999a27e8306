CONSTANTS
    Columns <- MCColumns
    V1Table <- MCV1Table
    V3Table <- MCV3Table
    Synonyms <- MCSynonyms
    Versions = {1, 2, 3, 4, 5}
    Separators <- MCSeparators
    Inputs <- MCInputs
SPECIFICATION Spec
INVARIANT TypeOK
 
INVARIANT FoundIffThere
 
PROPERTY TokenisingEnds
CHECK_DEADLOCK FALSE

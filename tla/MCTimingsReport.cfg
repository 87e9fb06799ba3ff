SPECIFICATION FairSpec
CONSTANTS
    MaxLines = 3
    LineSet <- MCLines
INVARIANTS
    TypeOK
    TableReflectLines
    SeriesReflectLines
PROPERTIES
    CanonTermination

SPECIFICATION Spec
CONSTANTS
    MaxLines = 2
    LineSet <- MCZeroLines
INVARIANT
    TableReflectLines

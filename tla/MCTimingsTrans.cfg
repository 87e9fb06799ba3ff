SPECIFICATION Spec
CONSTANTS
    MaxLines = 2
    LineSet <- MCTransLines
INVARIANT
    TableReflectLines

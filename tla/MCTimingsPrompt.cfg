\* The report scripts with a line that toString spells differently: the
\* mismatch prompt waits on input(), which nothing obliges the user to answer.
SPECIFICATION FairSpec
CONSTANTS
    MaxLines = 2
    LineSet <- MCLines
    Files <- MCMeasuredFiles
PROPERTY
    Termination

\* Three invocations with one to three rqsizes, full or graphs_only, where
\* the script may be killed between two of its steps or inside a cat.  The behaviour
\* ends when the user stops invoking the script, so a final state is no
\* deadlock.
SPECIFICATION Spec
CONSTANTS
    MaxRuns = 3
    Sizes = {1, 2, 3}
    NumDS <- MCNumDS
    Repeats = 1
    Kills = TRUE
INVARIANTS
    TypeOK
    FamilyFromLastCat
CHECK_DEADLOCK FALSE

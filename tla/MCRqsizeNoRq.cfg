CONSTANTS
    Mega = 4
    Empty = Empty
    NoRetry = NoRetry
    VerlibDS <- MCVerlibDS
    CppDS <- MCCppDS
    JavaDS <- MCJavaDS
    RqSizes <- MCRqSizes
    Repeats = 1
    NumKeys = 10
    UpdateThreads = 2
    RqThreads = 0
    VerlibMeasures <- MCVerlibMeasures
    CppMeasures <- MCCppMeasures
    JavaMeasures <- MCJavaMeasuresNoRqThreads
    Experiments <- MCPlainExperiments
SPECIFICATION Spec
INVARIANTS
    TypeOK
    StoreReflectsTrials
    SeriesReflectTrials

CONSTANTS
    Mega = 4
    Empty = Empty
    NoRetry = NoRetry
    VerlibDS <- MCVerlibDS
    CppDS <- MCCppDS
    JavaDS <- MCJavaDS
    RqSizes <- MCOddRqSizes
    Repeats = 1
    NumKeys = 10
    UpdateThreads = 2
    RqThreads = 2
    VerlibMeasures <- MCVerlibMeasures
    CppMeasures <- MCCppMeasures
    JavaMeasures <- MCJavaMeasures
    Experiments <- MCExperiments
SPECIFICATION Spec
INVARIANT
    StoreReflectsTrials

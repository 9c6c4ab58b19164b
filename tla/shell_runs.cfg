\* Fit runs of two tasks, without projects opened in between.
CONSTANTS
    k1 = k1
    k2 = k2
    b1 = b1
    b2 = b2
    i1 = i1
    i2 = i2
    Keys <- MCKeys
    Bodies = {b1}
    Ids <- MCIds2
    Typed <- TwoTasks
    Template <- MCTemplate
    Projects <- MCProjects
    Queries = {}
    Blank = b1
    AnyKey = AnyKey
    NoKey = NoKey
    NoId = NoId
    NoDoc = NoDoc
    Malformed = Malformed
    Faults = FALSE
    StartFails = TRUE
    Reloads = FALSE
SPECIFICATION FairSpec
INVARIANT TypeOK
INVARIANT FitNeverWaits
INVARIANT NoRunDuringFit
INVARIANT CancelHasTarget
INVARIANT ResultsUnderOwnKey
PROPERTY FitsEnd

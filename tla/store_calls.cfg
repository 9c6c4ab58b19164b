\* Filters that hide documents or that EJDB2 rejects, and a driver that may fail in every call.
CONSTANTS
    k1 = k1
    k2 = k2
    b1 = b1
    b2 = b2
    i1 = i1
    i2 = i2
    Keys <- MCKeys
    Bodies <- MCBodies
    Ids <- MCIds
    Queries <- SomeFilters
    AnyKey = AnyKey
    NoKey = NoKey
    NoId = NoId
    NoDoc = NoDoc
    Malformed = Malformed
    Faults = TRUE
    Blank = b1
    Absent = Absent
    NoAnswer = NoAnswer
SYMMETRY Symmetry
SPECIFICATION Spec
INVARIANT TypeOK
INVARIANT IndexNeverMisleads
INVARIANT IndexMirrorsStore
PROPERTY ImplementsKeyedStore
PROPERTY WritesStayOnKey
PROPERTY RefusedChangesNothing
PROPERTY DuplicatesNeedAGap

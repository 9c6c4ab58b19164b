\* Two tasks in each of two projects, a driver that fails to write and to delete.
CONSTANTS
    k1 = k1
    k2 = k2
    p1 = p1
    p2 = p2
    Keys <- MCKeys
    Projects <- MCProjects
    NoKey = NoKey
    NoTables = NoTables
    NoFit = NoFit
    Faults = {"write", "delete"}
    Switches = FALSE
SYMMETRY MCSymmetry
SPECIFICATION Spec
INVARIANT TypeOK
INVARIANT FitsUnderOwnKey
PROPERTY OrphansAreSaved

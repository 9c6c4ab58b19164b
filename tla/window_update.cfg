\* Every command.
CONSTANTS
    k1 = k1
    k2 = k2
    b1 = b1
    b2 = b2
    i1 = i1
    i2 = i2
    i3 = i3
    Keys <- MCKeys
    Bodies <- MCBodies
    Ids <- MCIds2
    Typed <- MCTyped
    Template <- MCTemplate
    Imports <- MCImports
    Queries <- GoodFilters
    Blank = b1
    AnyKey = AnyKey
    NoKey = NoKey
    NoId = NoId
    NoDoc = NoDoc
    Malformed = Malformed
    Faults = FALSE
SYMMETRY Symmetry
SPECIFICATION Spec
PROPERTY UpdateWritesShown

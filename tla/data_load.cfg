\* Every kind of DataSelect over databases of up to four experiments.
CONSTANTS
    Collections <- MCCollections
    Selections <- MCSelections
    Synonyms <- MCSynonyms
    Garbage <- MCGarbage
    NoNumber = NoNumber
SPECIFICATION LoadSpec
INVARIANT LoadTypeOK
INVARIANT LoadedAreMeant
INVARIANT NamesAreResolved
CHECK_DEADLOCK FALSE

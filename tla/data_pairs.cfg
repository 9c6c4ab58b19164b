\* usepairs does not keep to the pairs it lists.
CONSTANTS
    Collections <- MCCollections
    Selections <- MCSelections
    Synonyms <- MCSynonyms
    Garbage <- MCGarbage
    NoNumber = NoNumber
SPECIFICATION LoadSpec
INVARIANT UsedPairsOnly
CHECK_DEADLOCK FALSE

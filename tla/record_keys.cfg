\* Two documents out of fourteen, two key fields, and 35 filters.
CONSTANTS
    KeySize = 2
    Letters = {"a", "b"}
    Documents <- MCDocuments
    Filters <- MCFilters
    MaxDocs = 2
    NoDoc = NoDoc
SPECIFICATION KeysSpec
INVARIANT KeysTypeOK
INVARIANT UpdatableUnlessColon
PROPERTY OpensUnlessNumber
PROPERTY FilterIsWildcard
CHECK_DEADLOCK FALSE

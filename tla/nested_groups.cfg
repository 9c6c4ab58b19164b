\* Parameters of two groups. The program may exit.
CONSTANTS
    s1 = s1
    s2 = s2
    Samples <- MCSamples
    None = None
    Threads = {t1}
    Functions = 2
    Kind <- PlainKind
    Has <- HasAll
    Parameters <- TwoGroups
    Elected <- NoneElected
    Linked = 0
    Vectors = {o1}
    Values = {1, 2}
    Start = 0
    MaxAsks = 1
    Tasks = {TRUE}
    MaxEvaluations = 1
SPECIFICATION Spec
INVARIANT RecordedIsApplied
CHECK_DEADLOCK FALSE

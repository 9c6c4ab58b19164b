\* One amount, and one linked to it. The program may exit.
CONSTANTS
    s1 = s1
    s2 = s2
    Samples <- MCSamples
    None = None
    Threads = {t1}
    Functions = 1
    Kind <- OnePlain
    Has <- HasAll
    Parameters <- OneAmount
    Elected <- NoneElected
    Linked = 1
    Vectors = {o1}
    Values = {1, 2}
    Start = 1
    MaxAsks = 2
    Tasks = {TRUE}
    MaxEvaluations = 1
SPECIFICATION Spec
INVARIANT LinkedIsLinked
CHECK_DEADLOCK FALSE

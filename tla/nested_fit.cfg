\* Two threads, an ordinary function after one of PpG, and a titration. The program may exit.
CONSTANTS
    s1 = s1
    s2 = s2
    Samples <- MCSamples
    None = None
    Threads = {t1, t2}
    Functions = 3
    Kind <- TitrationKind
    Has <- HasSome
    Parameters <- Amounts3
    Elected <- TitrationElected
    Linked = 0
    Vectors = {o1, o2}
    Values = {1, 2}
    Start = 1
    MaxAsks = 1
    Tasks = {TRUE, FALSE}
    MaxEvaluations = 2
SPECIFICATION FairSpec
INVARIANT TypeOK
INVARIANT SlotsPrivate
INVARIANT RecordedIsApplied
INVARIANT EvaluatedWhole
INVARIANT StopsUnlessAfterPpG
PROPERTY EvaluationEnds
CHECK_DEADLOCK FALSE

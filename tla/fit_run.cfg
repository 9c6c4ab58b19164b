\* Every combination of settings, two Monte Carlo runs. The program ends.
CONSTANTS
    Guesses = {g1, g2, g3}
    Initial = g1
    Coordinates = 2
    MCRuns = 2
    MaxEval = 2
    Settings <- AllSettings
    Real = Real
    Misscaled = Misscaled
    None = None
SPECIFICATION Spec
INVARIANT TypeOK
INVARIANT SharedNorm
INVARIANT EvaluatedIsAsked
INVARIANT NormalizedGradientIsCentral
INVARIANT ResultsReturnToFit
INVARIANT TableMatchesParameters
CHECK_DEADLOCK FALSE

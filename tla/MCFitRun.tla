------------------------------ MODULE MCFitRun ------------------------------
(* Instances of FitRun for TLC.                                            *)
EXTENDS FitRun

\* Every combination of the settings.
AllSettings == Setting

\* Plain optimization with a gradient, parameters as they are.
GradientSettings ==
    {s \in Setting : s.OptDoWhat = 2 /\ s.gradient /\ s.OptEquilibrium /\ ~s.garbage /\ ~s.MCbool}
=============================================================================

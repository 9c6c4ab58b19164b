---------------------------- MODULE MCStoredFits ----------------------------
(* Instances of StoredFits for TLC.                                        *)
EXTENDS StoredFits

CONSTANTS k1, k2, p1, p2

MCKeys == {k1, k2}
MCProjects == {p1, p2}
MCSymmetry == Permutations(MCKeys) \cup Permutations(MCProjects)
=============================================================================

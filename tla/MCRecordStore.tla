--------------------------- MODULE MCRecordStore ----------------------------
(* Instances of RecordStore for TLC.                                       *)
EXTENDS RecordStore, TLC

CONSTANTS k1, k2, b1, b2, i1, i2

MCKeys == {k1, k2}
MCBodies == {b1, b2}
MCIds == {i1, i2}

\* A filter on the body, one on the key, one that selects nothing, and a
\* query EJDB2 rejects.
SomeFilters ==
    {[valid |-> TRUE,  hits |-> [key : {k1, k2}, body : {b1}]],
     [valid |-> TRUE,  hits |-> [key : {k1}, body : {b1, b2}]],
     [valid |-> TRUE,  hits |-> {}],
     [valid |-> FALSE, hits |-> {}]}

Symmetry == Permutations(MCIds)
=============================================================================

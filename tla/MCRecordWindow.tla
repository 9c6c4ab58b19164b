--------------------------- MODULE MCRecordWindow ---------------------------
(* Instances of RecordWindow for TLC.                                      *)
EXTENDS RecordWindow, TLC

CONSTANTS k1, k2, b1, b2, i1, i2, i3

Doc(k, b) == [key |-> k, body |-> b]

MCKeys == {k1, k2}
MCBodies == {b1, b2}
MCIds2 == {i1, i2}
MCIds3 == {i1, i2, i3}

\* Two versions of one record, another record, and a text with a mistake.
MCTyped == {Doc(k1, b1), Doc(k1, b2), Doc(k2, b2), Malformed}
MCTemplate == Doc(k2, b1)

\* One record, and one that is followed by another.
MCImports == {<<Doc(k1, b2)>>, <<Doc(k2, b2), Doc(k1, b1)>>}

\* A filter that hides records, and one that no record passes.
GoodFilters == {[valid |-> TRUE, hits |-> {Doc(k1, b1), Doc(k2, b1)}],
                [valid |-> TRUE, hits |-> {}]}

\* The same, and a query EJDB2 rejects.
AllFilters == GoodFilters \cup {[valid |-> FALSE, hits |-> {}]}

Symmetry == Permutations(MCIds2)
=============================================================================

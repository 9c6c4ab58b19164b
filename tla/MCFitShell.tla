----------------------------- MODULE MCFitShell -----------------------------
(* Instances of FitShell for TLC.                                          *)
EXTENDS FitShell

CONSTANTS k1, k2, b1, b2, i1, i2

Doc(k, b) == [key |-> k, body |-> b]

MCKeys == {k1, k2}
MCBodies == {b1, b2}
MCIds1 == {i1}
MCIds2 == {i1, i2}

\* Two versions of a task.
TwoVersions == {Doc(k1, b1), Doc(k1, b2)}

\* Two tasks and a mistake.
TwoTasks == {Doc(k1, b1), Doc(k2, b1), Malformed}

\* The text of a new record, which has no key.
MCTemplate == EmptyText

\* One experiment, and one task or two.
SmallProject ==
    {[experiments |-> [i \in Ids |-> IF i = i1 THEN Doc(k1, b1) ELSE NoDoc],
      tasks       |-> [i \in Ids |-> IF i = i1 THEN Doc(k1, b1) ELSE NoDoc]]}

BothTasks ==
    {[experiments |-> [i \in Ids |-> IF i = i1 THEN Doc(k1, b1) ELSE NoDoc],
      tasks       |-> [i \in Ids |-> IF i = i1 THEN Doc(k1, b1)
                                                ELSE Doc(k2, b1)]]}

MCProjects == SmallProject \cup BothTasks
=============================================================================

---------------------------- MODULE MCNestedFit -----------------------------
(* Instances of NestedFit for TLC.                                         *)
EXTENDS NestedFit, TLC

CONSTANTS s1, s2

MCSamples == {s1, s2}

P(g, k, f) == [group |-> g, index |-> k, Fndx |-> f]

\* An ordinary function after one of property PpG, in one sample, and a pH
\* titration in the other.
Amounts3 == <<P(1, 1, 1), P(1, 2, 2), P(1, 3, 3)>>
TitrationKind == <<"PpG", "plain", "titration">>
TitrationElected == [i \in Samples |-> {3}]
HasSome == (s1 :> {1, 2}) @@ (s2 :> {3})

\* One amount.
OneAmount == <<P(1, 1, 1)>>

\* An amount and a temperature.
TwoGroups == <<P(1, 1, 1), P(2, 1, 2)>>

PlainKind == <<"plain", "loga">>
OnePlain == <<"plain">>

HasAll == [i \in Samples |-> 1..Functions]
NoneElected == [i \in Samples |-> {}]
=============================================================================

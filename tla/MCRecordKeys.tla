---------------------------- MODULE MCRecordKeys ----------------------------
(* An instance of RecordKeys for TLC.                                      *)
EXTENDS RecordKeys

String(s) == [type |-> "string", text |-> s]
Number(s) == [type |-> "number", text |-> s]
Missing   == [type |-> "missing", text |-> <<>>]

\* A blank in front, a ':' inside and at the end, a number that reads like a
\* string, and fields that are empty or missing.
MCSamples ==
    {String(<<>>), String(<<"a">>), String(<<" ", "a", "b">>),
     String(<<"a", ":", "b">>), String(<<"b", ":">>), Number(<<"a">>), Missing}
MCSets == {String(<<"b">>), Missing}
MCDocuments == {<<s, e>> : s \in MCSamples, e \in MCSets}

\* All parts of up to three characters for the first field; and texts that
\* have too few ':', or too many.
MCParts == UNION {[1..n -> {"a", "b", "*", "?"}] : n \in 0..2}
             \cup {<<"a", "b", c>> : c \in {"a", "*", "?"}}
             \cup {<<c, "*", "b">> : c \in {"a", "*", "?"}}
MCFilters ==
    {p \o <<":", "*", ":">> : p \in MCParts}
    \cup {<<>>, <<"*">>, <<"a">>, <<"a", ":", "b">>, <<"a", ":", "b", ":">>,
          <<"a", " ", ":", "?", ":", "b">>}
=============================================================================

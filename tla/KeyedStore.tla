----------------------------- MODULE KeyedStore -----------------------------
(***************************************************************************)
(* What a record collection promises its callers, the main window and the  *)
(* results window: a dictionary from record keys to documents.  While its  *)
(* index was loaded whole,                                                 *)
(*   - a key has at most one document,                                     *)
(*   - an insert refuses a key that is present, and only such a key,       *)
(*   - a read answers the document last written under the key,             *)
(*   - "does not exist" is said of an absent key only.                     *)
(* A filter or a failed load leaves it open in part: documents may then be *)
(* hidden, an insert may add a second one under a key, and a save or a     *)
(* deletion reaches one of them; what is read or deleted still is a        *)
(* document of the requested key.  In every mode a refused request changes *)
(* nothing, and "exists" is said of a present key only.                    *)
(* There is no index, no document id and no current key here.              *)
(***************************************************************************)
CONSTANTS Keys, Bodies, Absent, NoAnswer, Reasons

VARIABLES
    dict,       \* the bodies of the documents under each key
    mode,       \* "off", "part" or "whole"
    answer      \* what the last request was answered

vars == <<dict, mode, answer>>

Present(k) == dict[k] # {}

\* At most one body under each key.
Single == \A k \in Keys : \A b, c \in dict[k] : b = c

\* S, or S without one of its members.
Less(S) == {S} \cup {S \ {b} : b \in S}

Answer(op, k, err, body) == [op |-> op, key |-> k, err |-> err, body |-> body]

TypeOK ==
    /\ dict \in [Keys -> SUBSET Bodies]
    /\ mode \in {"off", "part", "whole"}

Init ==
    /\ dict \in [Keys -> SUBSET Bodies]
    /\ mode = "off"
    /\ answer = NoAnswer

Insert(k, b) ==
    /\ mode # "off"
    /\ mode = "whole" => ~Present(k)
    /\ dict' = [dict EXCEPT ![k] = @ \cup {b}]
    /\ answer' = Answer("insert", k, "none", b)
    /\ UNCHANGED mode

Save(k, b) ==
    /\ mode # "off"
    /\ \E S \in Less(dict[k]) :
          /\ mode = "whole" => S = {}
          /\ dict' = [dict EXCEPT ![k] = S \cup {b}]
    /\ answer' = Answer("save", k, "none", b)
    /\ UNCHANGED mode

Get(k) ==
    /\ mode # "off"
    /\ \E b \in dict[k] : answer' = Answer("get", k, "none", b)
    /\ UNCHANGED <<dict, mode>>

Delete(k) ==
    /\ mode # "off"
    /\ \E b \in dict[k] :
          /\ \E S \in {dict[k], dict[k] \ {b}} :
                /\ mode = "whole" => S = {}
                /\ dict' = [dict EXCEPT ![k] = S]
          /\ answer' = Answer("delete", k, "none", b)
    /\ UNCHANGED mode

\* "exists" only of a present key, and "does not exist" only of an absent one
\* as long as no document is hidden.
Refuse ==
    /\ answer' # answer
    /\ answer'.err \in Reasons
    /\ answer'.key \in Keys =>
         /\ answer'.err = "TEJDB0004" => mode # "off" /\ Present(answer'.key)
         /\ answer'.err \in {"TEJDB0001", "TEJDB0002"} /\ mode = "whole"
              => ~Present(answer'.key)
    /\ UNCHANGED <<dict, mode>>

\* A project opens, whole or in part, or closes; opening it whole finds no two
\* documents under a key.
SetMode ==
    /\ mode' \in {"off", "part", "whole"}
    /\ mode' = "whole" => Single
    /\ UNCHANGED <<dict, answer>>

Next ==
    \/ \E k \in Keys, b \in Bodies : Insert(k, b) \/ Save(k, b)
    \/ \E k \in Keys : Get(k) \/ Delete(k)
    \/ Refuse
    \/ SetMode

Spec == Init /\ [][Next]_vars
=============================================================================

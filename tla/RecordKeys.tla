----------------------------- MODULE RecordKeys -----------------------------
(***************************************************************************)
(* Record keys as texts. The other modules take a key as a value; here it  *)
(* is what the program makes of the key fields of a document: packed with  *)
(* ':' and split again (TEJDBKey), read from a document's text by the      *)
(* collection and from the stored document by the driver, joined from the  *)
(* cells of the key table, and compared with the filter above the table.   *)
(*                                                                         *)
(* A text is a sequence of characters. A document is the values of its key *)
(* fields. The driver does not fail here (see EjdbCollection for that).    *)
(*                                                                         *)
(*   docs    the stored documents by id                                    *)
(*   index   the ids by key                                                *)
(*   key     the current key                                               *)
(*   filter  what the key table is filtered by (filterEdit)                *)
(*   rows    the keys in the key table                                     *)
(*   loaded  whether the last opening of the collection went through       *)
(*   ended   whether the program has ended                                 *)
(***************************************************************************)
EXTENDS Integers, SequencesExt, FiniteSetsExt, Functions

CONSTANTS
    KeySize,    \* the number of key fields
    Letters,    \* the characters without a meaning of their own
    Documents,  \* what the user may type
    Filters,    \* what the user may filter by
    MaxDocs,    \* the number of documents
    NoDoc

VARIABLES docs, index, key, filter, rows, loaded, ended

keysVars == <<docs, index, key, filter, rows, loaded, ended>>

Blank == " "
Char == Letters \cup {":", "*", "?", Blank}
Text == Seq(Char)
Part == 1..KeySize

\* The value of a key field. to_string gives that of a number, or "*" stands
\* for one that is missing; jbl_object_get_str reads strings only.
Value == [type : {"string", "number", "missing"}, text : Text]

ASSUME RecordKeysConstants ==
    /\ KeySize \in Nat \ {0} /\ MaxDocs \in Nat
    /\ Letters \cap {":", "*", "?", Blank} = {}
    /\ \A d \in Documents :
          /\ DOMAIN d = Part
          /\ \A i \in Part : /\ d[i] \in Value
                             /\ d[i].type = "missing" => d[i].text = <<>>
    /\ \A f \in Filters : f \in Text
    /\ NoDoc \notin Documents

Ids == 1..MaxDocs
ALLKEY == <<"*">>

\* Blanks off both ends; a text of blanks only is not looked at.
Strip(s) ==
    LET ink == {i \in DOMAIN s : s[i] # Blank}
    IN  IF ink = {} THEN <<>> ELSE SubSeq(s, Min(ink), Max(ink))

\* Each field, with a ':' behind it.
Pack(fields) ==
    LET packed[i \in 0..KeySize] ==
            IF i = 0 THEN <<>> ELSE packed[i - 1] \o Append(fields[i], ":")
    IN  packed[KeySize]

\* Mutant of Joined: an empty field is taken for a missing one.
JoinedUnlessEmpty(fields) ==
    LET packed[i \in 0..KeySize] ==
            IF i = 0 THEN <<>>
            ELSE IF fields[i] = <<>> THEN packed[i - 1] \o <<"*", ":">>
            ELSE Append(Strip(packed[i - 1] \o fields[i]), ":")
    IN  packed[KeySize]

\* The driver and getRecordKey strip all they have so far.
Joined(fields) ==
    LET packed[i \in 0..KeySize] ==
            IF i = 0 THEN <<>> ELSE Append(Strip(packed[i - 1] \o fields[i]), ":")
    IN  packed[KeySize]

-----------------------------------------------------------------------------
(* TEJDBKey.                                                               *)

\* The first ':' after p; none is behind the end.
NextColon(s, p) ==
    LET colons == {c \in DOMAIN s : c > p /\ s[c] = ":"}
    IN  IF colons = {} THEN Len(s) + 1 ELSE Min(colons)

\* Where the parts are cut off.
Cuts(s) ==
    LET cut[i \in 0..KeySize] == IF i = 0 THEN 0 ELSE NextColon(s, cut[i - 1])
    IN  cut

\* With fewer ':' setKey raises an error, or looks at sp[npos] and then asks
\* for the text that follows, which std::string refuses.
Readable(s) == s = ALLKEY \/ Cuts(s)[KeySize] <= Len(s)

\* What follows the last ':' is dropped.
SetKey(s) ==
    IF s = ALLKEY THEN [i \in Part |-> <<"*">>]
    ELSE [i \in Part |-> Strip(SubSeq(s, Cuts(s)[i - 1] + 1, Cuts(s)[i] - 1))]

IsPattern(k) == \E i \in Part : {"*", "?"} \cap Range(k[i]) # {}

\* '?' is any character but a blank.
MatchesChar(p, c) == IF p = "?" THEN c # Blank ELSE p = c

\* Mutant of MatchesPart: the end of the part is the end of the comparison.
MatchesPartPrefix(part, field) ==
    LET stars == {i \in DOMAIN part : part[i] = "*"}
        upTo  == IF stars = {} THEN Len(part) ELSE Min(stars) - 1
    IN  part = <<"*">>
        \/ /\ Len(part) <= Len(field)
           /\ \A i \in 1..upTo : MatchesChar(part[i], field[i])

\* A '*' ends the comparison, but a part longer than the field has failed by
\* then.
MatchesPart(part, field) ==
    LET stars == {i \in DOMAIN part : part[i] = "*"}
        upTo  == IF stars = {} THEN Len(part) ELSE Min(stars) - 1
    IN  part = <<"*">>
        \/ /\ Len(part) <= Len(field)
           /\ \A i \in 1..upTo : MatchesChar(part[i], field[i])
           /\ stars = {} => Len(field) <= upTo

CompareTemplate(template, k) == \A i \in Part : MatchesPart(template[i], k[i])

\* Without a pattern the list ends with the first key.
GetKeyList(keypat, keys) ==
    LET wkey == SetKey(keypat)
        list == {k \in keys : CompareTemplate(wkey, k)}
    IN  IF IsPattern(wkey) \/ list = {} THEN list ELSE {CHOOSE k \in list : TRUE}

-----------------------------------------------------------------------------
(* Documents.                                                              *)

\* Mutant of GetKeyFromJson: the fields are packed as they are.
GetKeyFromJsonUnstripped(d) ==
    Pack([i \in Part |-> IF d[i].type = "missing" THEN <<"*">> ELSE d[i].text])

GetKeyFromJson(d) ==
    Pack([i \in Part |-> IF d[i].type = "missing" THEN <<"*">> ELSE Strip(d[i].text)])

\* The key that all_query hands over.
LoadedKey(d) ==
    SetKey(Joined([i \in Part |-> IF d[i].type = "string" THEN d[i].text ELSE <<"*">>]))

Stored == {i \in Ids : docs[i] # NoDoc}

\* The collection has been opened, and it was empty.
KeysInit ==
    /\ docs = [i \in Ids |-> NoDoc]
    /\ index = <<>>
    /\ key = [i \in Part |-> <<"*">>]
    /\ filter = ALLKEY
    /\ rows = {}
    /\ loaded = TRUE
    /\ ended = FALSE

ChangeKeyList == rows' = GetKeyList(filter, DOMAIN index')

\* Mutant of MayStore: templates are stored.
MayStoreTemplate(k) == TRUE

\* current_to_json refuses a template.
MayStore(k) == ~IsPattern(k)

\* A new document for the current key.
Create(d) ==
    \E i \in Ids \ Stored :
        /\ docs' = [docs EXCEPT ![i] = d]
        /\ index' = [k \in DOMAIN index \cup {key'} |-> IF k = key' THEN i ELSE index[k]]

\* insertRecord moves the current key before it refuses.
CmInsert(d) ==
    /\ key' = SetKey(GetKeyFromJson(d))
    /\ \/ /\ MayStore(key') /\ key' \notin DOMAIN index
          /\ Create(d)
          /\ ChangeKeyList
       \/ /\ ~MayStore(key') \/ key' \in DOMAIN index
          /\ UNCHANGED <<docs, index, rows>>
    /\ UNCHANGED <<filter, loaded, ended>>

\* What saveRecord asks of the text d it is to save under the key k.
Accepts(k, d) ==
    LET packed == Pack(k)
    IN  Pack(SetKey(packed)) = GetKeyFromJson(d) /\ MayStore(SetKey(packed))

\* A record that is not in the index is created; the table is not made again.
CmUpdate(d) ==
    /\ key' = SetKey(Pack(key))
    /\ \/ /\ Accepts(key, d) /\ key' \in DOMAIN index
          /\ docs' = [docs EXCEPT ![index[key']] = d]
          /\ UNCHANGED index
       \/ /\ Accepts(key, d) /\ key' \notin DOMAIN index
          /\ Create(d)
       \/ /\ ~Accepts(key, d)
          /\ UNCHANGED <<docs, index>>
    /\ UNCHANGED <<filter, rows, loaded, ended>>

\* openRecordKey; a record that is not in the index is not read.
CmShow(row) ==
    /\ row \in rows
    /\ key' = SetKey(Joined(row))
    /\ UNCHANGED <<docs, index, filter, rows, loaded, ended>>

\* CmDelete of a current key that is in the index; else it is refused.
CmDelete ==
    /\ key \in DOMAIN index
    /\ docs' = [docs EXCEPT ![index[key]] = NoDoc]
    /\ index' = Restrict(index, DOMAIN index \ {key})
    /\ ChangeKeyList
    /\ UNCHANGED <<key, filter, loaded, ended>>

\* The slot changeKeyList catches nothing: a text that is not readable ends
\* the program.
Filter(text) ==
    \/ /\ text = <<>> \/ Readable(text)
       /\ filter' = IF text = <<>> THEN ALLKEY ELSE text
       /\ rows' = GetKeyList(filter', DOMAIN index)
       /\ UNCHANGED <<docs, index, key, loaded, ended>>
    \/ /\ text # <<>> /\ ~Readable(text)
       /\ filter' = text
       /\ ended' = TRUE
       /\ UNCHANGED <<docs, index, key, rows, loaded>>

\* The documents S by the keys they are loaded under, all different.
IndexOf(S) == [k \in {LoadedKey(docs[i]) : i \in S} |->
                  CHOOSE i \in S : LoadedKey(docs[i]) = k]

Loads(S) ==
    \A i \in S : /\ ~IsPattern(LoadedKey(docs[i]))
                 /\ \A j \in S : LoadedKey(docs[i]) = LoadedKey(docs[j]) => i = j

\* The project is opened again: the table and the filter start over, with
\* the first record.
LoadProject ==
    /\ Loads(Stored)
    /\ index' = IndexOf(Stored)
    /\ filter' = ALLKEY
    /\ rows' = GetKeyList(ALLKEY, DOMAIN index')
    /\ key' \in IF rows' = {} THEN {key} ELSE rows'
    /\ loaded' = TRUE
    /\ UNCHANGED <<docs, ended>>

\* add_key_to_set stops at the first document it cannot add; what came before
\* it stays in the index, and the table is not made again.
LoadStops ==
    /\ \E i \in Stored : \E S \in SUBSET (Stored \ {i}) :
          /\ Loads(S) /\ ~Loads(S \cup {i})
          /\ index' = IndexOf(S)
          /\ key' = LoadedKey(docs[i])
    /\ loaded' = FALSE
    /\ UNCHANGED <<docs, filter, rows, ended>>

KeysNext ==
    /\ ~ended
    /\ \/ \E d \in Documents : CmInsert(d)
       \/ \E d \in Documents : CmUpdate(d)
       \/ \E row \in rows : CmShow(row)
       \/ CmDelete
       \/ \E text \in Filters : Filter(text)
       \/ LoadProject
       \/ LoadStops

KeysSpec == KeysInit /\ [][KeysNext]_keysVars

-----------------------------------------------------------------------------
(* Properties.                                                             *)

\* Keys have KeySize fields that ':' can separate, and the index has none
\* that a filter could take for a template.
KeysTypeOK ==
    /\ \A i \in Ids : docs[i] \in Documents \cup {NoDoc}
    /\ \A k \in DOMAIN index \cup rows \cup {key} :
          /\ DOMAIN k = Part
          /\ \A i \in Part : k[i] \in Text /\ ":" \notin Range(k[i])
    /\ \A k \in DOMAIN index : index[k] \in Stored /\ ~IsPattern(k)
    /\ filter \in Text
    /\ loaded \in BOOLEAN /\ ended \in BOOLEAN

\* A record in the table can be opened and saved again, whatever the ways its
\* key went (document, driver, index, table): unless one of its key fields
\* has a ':' in it. Such a record is stored, under the key that another would
\* have, and is never saved again as it is.
UpdatableUnlessColon ==
    \A k \in DOMAIN index :
        LET d == docs[index[k]]
        IN  /\ SetKey(Joined(k)) = k
            /\ Accepts(k, d) <=> \A i \in Part : ":" \notin Range(d[i].text)

\* The collection that was stored can be opened again, unless a key field is
\* a number: insertRecord and saveRecord take it, the driver then reports a
\* template, and one such document hides the others.
OpensUnlessNumber ==
    [][loaded /\ ~loaded' =>
          \E i \in Stored, n \in Part : docs[i][n].type = "number"]_keysVars

\* Wildcards: '*' is any text, '?' any character but a blank. lengths[i] are
\* those of the texts in front of the field that the first i characters of the
\* part may stand for.
Wild(part, field) ==
    LET lengths[i \in 0..Len(part)] ==
            IF i = 0 THEN {0}
            ELSE IF part[i] = "*"
                 THEN {n \in 0..Len(field) : \E m \in lengths[i - 1] : m <= n}
                 ELSE {n \in 1..Len(field) : n - 1 \in lengths[i - 1]
                                               /\ MatchesChar(part[i], field[n])}
    IN  Len(field) \in lengths[Len(part)]

StarsAtEnd(part) == \A i \in DOMAIN part : part[i] = "*" => i = Len(part)

\* The key table shows all records that the filter's wildcards stand for,
\* except where '*' would have to stand for nothing; and no others, if '*' is
\* at the end of a part.
FilterIsWildcard ==
    [][(rows' # rows \/ filter' # filter) /\ ~ended' =>
          LET part == SetKey(filter')
          IN  \A k \in DOMAIN index' :
                 /\ (\A i \in Part : /\ Wild(part[i], k[i])
                                     /\ part[i] = <<"*">> \/ Len(part[i]) <= Len(k[i]))
                       => k \in rows'
                 /\ k \in rows' /\ (\A i \in Part : StarsAtEnd(part[i]))
                       => \A i \in Part : Wild(part[i], k[i])]_keysVars
=============================================================================

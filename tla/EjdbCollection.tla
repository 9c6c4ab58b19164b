--------------------------- MODULE EjdbCollection ---------------------------
(***************************************************************************)
(* One collection of the project database: the class TEJDataBase           *)
(* (src/common/f_database.cpp) on top of the default driver Ejdb2DBClient  *)
(* (src/common/db_ejdb2.cpp).                                              *)
(*                                                                         *)
(* A collection is a record value, so that a handler which makes several   *)
(* calls inside one try block is a composition of operators:               *)
(*   open     the shared driver is connected (Ejdb2DBClient::is_connected) *)
(*   docs     the documents EJDB2 holds, by document id                    *)
(*   records  the in-memory key index, from a record key to a document id  *)
(*   key      the current key fields                                       *)
(*   json     current_Json, the last text set or read                      *)
(*   jql      current_JQL, the query string that filters the index       *)
(* An operation is the set of its possible outcomes [db, err]; err is the  *)
(* title of the TError it throws, or "none".                               *)
(***************************************************************************)
EXTENDS Naturals

CONSTANTS
    Keys,       \* packed record keys without '*' and '?'
    Bodies,     \* what a document holds besides its key fields
    Ids,        \* EJDB2 document ids; bounds the documents stored at once
    Queries,    \* query strings a user can set
    Blank,      \* the body of the text of no document, key "*:*:"
    AnyKey,     \* the packed key "*:*:", a template and never a record key
    NoKey,      \* the empty packed key
    NoId,       \* no index entry
    NoDoc,      \* no document under this id
    Malformed,  \* a text the JSON parser rejects
    Faults      \* whether the driver may fail on a connected database

\* A document as EJDB2 stores it: current_to_json lets no template key in.
Document == [key : Keys, body : Bodies]

\* A text in current_Json or in the editor; a missing key field reads "*".
Text == [key : Keys \cup {AnyKey}, body : Bodies] \cup {Malformed}

\* A query string: whether ejdb_list2 accepts it, and what it selects then.
Query == [valid : BOOLEAN, hits : SUBSET Document]

\* The empty query string selects every document.
AllDocuments == [valid |-> TRUE, hits |-> Document]

ASSUME EjdbConstants ==
    /\ Blank \in Bodies
    /\ AnyKey \notin Keys
    /\ NoKey \notin Keys \cup {AnyKey}
    /\ NoId \notin Ids
    /\ NoDoc \notin Document
    /\ Malformed \notin [key : Keys \cup {AnyKey}, body : Bodies]
    /\ Queries \subseteq Query
    /\ Faults \in BOOLEAN

Error == {"none", "E01JSon", "KeyChanged", "TEJDB0001", "TEJDB0002",
          "TEJDB0004", "TEJDB0010", "TEJDB0014", "TEJDB0021", "TEJDB2024",
          "TEJDB2025", "TEJDB2028", "EJDB2 storage handle"}

Collection ==
    [open    : BOOLEAN,
     docs    : [Ids -> Document \cup {NoDoc}],
     records : [Keys -> Ids \cup {NoId}],
     key     : Keys \cup {AnyKey},
     json    : Text,
     jql     : Query]

EmptyIndex == [k \in Keys |-> NoId]

\* The empty string, which the parser takes for a document without fields.
EmptyText == [key |-> AnyKey, body |-> Blank]

\* A collection before any project is opened, over the documents docs.
NewCollection(docs) ==
    [open |-> FALSE, docs |-> docs, records |-> EmptyIndex, key |-> AnyKey,
     json |-> EmptyText, jql |-> AllDocuments]

Outcome(d, e) == [db |-> d, err |-> e]

\* The driver fails: a connected one may, reading and writing alike.
Failure(d, e) == IF d.open /\ Faults THEN {Outcome(d, e)} ELSE {}

\* A driver that is not connected refuses to write.
WriteError(d, e) == IF d.open THEN Failure(d, e) ELSE {Outcome(d, e)}

Stored(d) == {i \in Ids : d.docs[i] # NoDoc}

-----------------------------------------------------------------------------
(* Texts, keys and queries.                                                *)

SetJson(d, t) == [d EXCEPT !.json = t]

SetKey(d, k) == [d EXCEPT !.key = k]

SetQuery(d, q) == [d EXCEPT !.jql = q]

FindRecord(d, k) == k \in Keys /\ d.records[k] # NoId

\* Mutant of CurrentToJson: the template test is dropped.
CurrentToJsonNoTemplateTest(d, pkey) ==
    IF d.json = Malformed
    THEN Outcome(d, "E01JSon")
    ELSE LET k == IF pkey = NoKey THEN d.json.key ELSE pkey
         IN  Outcome(SetKey(d, k),
                     IF k # d.json.key THEN "KeyChanged" ELSE "none")

\* Mutant of CurrentToJson: the key of the text is not compared.
CurrentToJsonAnyChange(d, pkey) ==
    IF d.json = Malformed
    THEN Outcome(d, "E01JSon")
    ELSE LET k == IF pkey = NoKey THEN d.json.key ELSE pkey
         IN  Outcome(SetKey(d, k), IF k = AnyKey \/ d.json.key = AnyKey
                                   THEN "TEJDB0010" ELSE "none")

(***************************************************************************)
(* current_to_json: the current key becomes the requested one (or that of  *)
(* the text) before the checks, and stays moved when they throw.           *)
(***************************************************************************)
CurrentToJson(d, pkey) ==
    IF d.json = Malformed
    THEN Outcome(d, "E01JSon")
    ELSE LET k     == IF pkey = NoKey THEN d.json.key ELSE pkey
             moved == SetKey(d, k)
         IN  IF k # d.json.key  THEN Outcome(moved, "KeyChanged")
             ELSE IF k = AnyKey THEN Outcome(moved, "TEJDB0010")
             ELSE Outcome(moved, "none")

-----------------------------------------------------------------------------
(* Reading and writing one record.                                         *)

\* Mutant of CreateRecord: the entry stays after a failure, under a free id.
CreateRecordKeepsEntry(d) ==
    {Outcome([d EXCEPT !.docs[i] = d.json, !.records[d.key] = i], "none") :
        i \in IF d.open THEN Ids \ Stored(d) ELSE {}}
    \cup UNION {WriteError([d EXCEPT !.records[d.key] = i], "TEJDB0021") :
                   i \in Ids \ Stored(d)}

\* ejdb_put_new under the key just indexed; an error erases the entry again.
CreateRecord(d) ==
    {Outcome([d EXCEPT !.docs[i] = d.json, !.records[d.key] = i], "none") :
        i \in IF d.open THEN Ids \ Stored(d) ELSE {}}
    \cup WriteError(d, "TEJDB0021")

\* ejdb_put under the id of the index entry.
UpdateRecord(d) ==
    (IF d.open
     THEN {Outcome([d EXCEPT !.docs[d.records[d.key]] = d.json], "none")}
     ELSE {})
    \cup WriteError(d, "TEJDB0021")

\* Mutant of InsertRecord: no test whether the key is there.
InsertRecordUntested(d) ==
    LET c == CurrentToJson(d, NoKey)
    IN  IF c.err # "none" THEN {c} ELSE CreateRecord(c.db)

InsertRecord(d) ==
    LET c == CurrentToJson(d, NoKey)
    IN  IF c.err # "none" THEN {c}
        ELSE IF FindRecord(c.db, c.db.key)
             THEN {Outcome(c.db, "TEJDB0004")}
             ELSE CreateRecord(c.db)

SaveRecord(d, pkey) ==
    LET c == CurrentToJson(d, pkey)
    IN  IF c.err # "none" THEN {c}
        ELSE IF FindRecord(c.db, c.db.key)
             THEN UpdateRecord(c.db)
             ELSE CreateRecord(c.db)

\* Mutant of ReadRecord: what the driver returns is dropped.
ReadRecordForgets(d, k) ==
    {Outcome(SetJson(d, EmptyText), "none")} \cup Failure(d, "TEJDB2025")

\* A driver that is not connected reads the empty string.
ReadRecord(d, k) ==
    (IF d.open THEN {Outcome(SetJson(d, d.docs[d.records[k]]), "none")}
               ELSE {Outcome(SetJson(d, EmptyText), "none")})
    \cup Failure(d, "TEJDB2025")

GetRecord(d, k) ==
    LET moved == SetKey(d, k)
    IN  IF k = AnyKey THEN {Outcome(moved, "TEJDB0010")}
        ELSE IF ~FindRecord(d, k) THEN {Outcome(moved, "TEJDB0001")}
        ELSE ReadRecord(moved, k)

\* Mutant of EraseRecord: the entry is left in the index.
EraseRecordKeepsEntry(d, k) ==
    {Outcome([d EXCEPT !.docs[d.records[k]] = NoDoc], "none")}
    \cup Failure(d, "TEJDB2024")

\* Mutant of EraseRecord: the entry goes before the driver is asked.
EraseRecordTooEarly(d, k) ==
    {Outcome([d EXCEPT !.docs[d.records[k]] = NoDoc,
                       !.records[k] = NoId], "none")}
    \cup Failure([d EXCEPT !.records[k] = NoId], "TEJDB2024")

\* The entry goes after the driver has returned; one that is not connected
\* returns without deleting anything.
EraseRecord(d, k) ==
    {Outcome([d EXCEPT !.docs[d.records[k]] = IF d.open THEN NoDoc ELSE @,
                       !.records[k] = NoId], "none")}
    \cup Failure(d, "TEJDB2024")

DeleteRecord(d, k) ==
    LET moved == SetKey(d, k)
    IN  IF k = AnyKey THEN {Outcome(moved, "TEJDB0010")}
        ELSE IF ~FindRecord(d, k) THEN {Outcome(moved, "TEJDB0002")}
        ELSE EraseRecord(moved, k)

-----------------------------------------------------------------------------
(* Loading and dropping the index.                                         *)

CloseDB(d) == [d EXCEPT !.records = EmptyIndex]

Selected(d) == {i \in Stored(d) : d.docs[i] \in d.jql.hits}

DistinctKeys(d, S) ==
    \A i, j \in S : d.docs[i].key = d.docs[j].key => i = j

\* The index over the documents S, which have distinct keys.
IndexOf(d, S) ==
    [k \in Keys |-> IF \E i \in S : d.docs[i].key = k
                    THEN CHOOSE i \in S : d.docs[i].key = k
                    ELSE NoId]

\* add_key_to_set for each document of S, that of i last.
Load(d, S, i) == [d EXCEPT !.records = IndexOf(d, S), !.key = d.docs[i].key]

\* A document i whose key is already in the index stops the load.
StoppedLoads(d) ==
    {p \in (SUBSET Selected(d)) \X Selected(d) :
        /\ DistinctKeys(d, p[1])
        /\ p[2] \notin p[1]
        /\ ~DistinctKeys(d, p[1] \cup {p[2]})}

(***************************************************************************)
(* OpenDB: the order in which EJDB2 lists the documents is not specified   *)
(* here; it decides which key is current afterwards and, when two          *)
(* documents share a key, how much of the index is loaded.  The index is   *)
(* cleared first, and ejdb_list2 may fail for any query: the project is    *)
(* then open with an empty index.                                          *)
(***************************************************************************)
OpenDB(d) ==
    Failure(CloseDB(d), "TEJDB2028")
    \cup (IF ~d.open THEN {Outcome(CloseDB(d), "none")}
          ELSE IF ~d.jql.valid THEN {Outcome(CloseDB(d), "TEJDB2028")}
          ELSE IF Selected(d) = {} THEN {Outcome(CloseDB(d), "none")}
          ELSE IF DistinctKeys(d, Selected(d))
               THEN {Outcome(Load(d, Selected(d), i), "none") :
                        i \in Selected(d)}
               ELSE {Outcome(Load(d, p[1], p[2]), "TEJDB0014") :
                        p \in StoppedLoads(d)})

Disconnect(d) == [CloseDB(d) EXCEPT !.open = FALSE]

Connect(d) == [d EXCEPT !.open = TRUE]

\* openEJDB: the collections of EJDataBaseList are opened one after another;
\* one whose predecessor fails stays connected and empty, like one that fails.
OpenEJDB(d) ==
    OpenDB(Connect(Disconnect(d)))
    \cup (IF Faults THEN {Outcome(Disconnect(d), "EJDB2 storage handle")} ELSE {})

\* CmSearch up to resetMainWindow.
Search(d, q) == OpenDB(CloseDB(SetQuery(d, q)))

-----------------------------------------------------------------------------
(* Two facts about a collection that properties are stated with.           *)

\* Every index entry names a stored document that has the entry's key.
IndexSound(d) ==
    \A k \in Keys : d.records[k] # NoId =>
        /\ d.records[k] \in Stored(d)
        /\ d.docs[d.records[k]].key = k

\* Every stored document is in the index.
IndexComplete(d) ==
    \A i \in Stored(d) : d.records[d.docs[i].key] = i
=============================================================================

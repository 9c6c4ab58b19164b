---------------------------- MODULE RecordStore -----------------------------
(***************************************************************************)
(* A collection of the project database under every sequence of calls its  *)
(* callers can make: one action per public operation of TEJDataBase, the   *)
(* opening and closing of the project, and a change of the query.          *)
(***************************************************************************)
EXTENDS EjdbCollection

CONSTANTS
    Absent,     \* no document under a key
    NoAnswer    \* nothing was asked yet

VARIABLES
    db,         \* the collection
    answer,     \* what the last record operation answered
    loaded      \* history: the last load of the open project went through

vars == <<db, answer, loaded>>

ASSUME StoreConstants == Absent \notin Bodies

Answer(op, o, body) ==
    [op |-> op, key |-> o.db.key, err |-> o.err,
     body |-> IF o.err = "none" THEN body ELSE Absent]

\* The documents of a project before it is opened have distinct keys.
Init ==
    /\ \E docs \in [Ids -> Document \cup {NoDoc}] :
          /\ db = NewCollection(docs)
          /\ DistinctKeys(db, Stored(db))
    /\ answer = NoAnswer
    /\ loaded = FALSE

-----------------------------------------------------------------------------
(* Record operations.                                                      *)

PutJson(t) ==
    /\ db' = SetJson(db, t)
    /\ UNCHANGED <<answer, loaded>>

PutKey(k) ==
    /\ db' = SetKey(db, k)
    /\ UNCHANGED <<answer, loaded>>

Insert ==
    \E o \in InsertRecord(db) :
        /\ db' = o.db
        /\ answer' = Answer("insert", o, o.db.json.body)
        /\ UNCHANGED loaded

Save(pkey) ==
    \E o \in SaveRecord(db, pkey) :
        /\ db' = o.db
        /\ answer' = Answer("save", o, o.db.json.body)
        /\ UNCHANGED loaded

Get(k) ==
    \E o \in GetRecord(db, k) :
        /\ db' = o.db
        /\ answer' = Answer("get", o, o.db.json.body)
        /\ UNCHANGED loaded

Delete(k) ==
    \E o \in DeleteRecord(db, k) :
        /\ db' = o.db
        /\ answer' = Answer("delete", o, db.docs[db.records[k]].body)
        /\ UNCHANGED loaded

-----------------------------------------------------------------------------
(* Project and query.                                                      *)

\* Nothing stopped the load of the index.
Loads(o) == o.db.open /\ o.err = "none"

\* loadNewProject clears the queries first.
LoadProject ==
    \E o \in OpenEJDB(SetQuery(db, AllDocuments)) :
        /\ db' = o.db
        /\ loaded' = Loads(o)
        /\ UNCHANGED answer

\* The reopening when a fit run has finished keeps them.
Reopen ==
    \E o \in OpenEJDB(db) :
        /\ db' = o.db
        /\ loaded' = Loads(o)
        /\ UNCHANGED answer

CloseProject ==
    /\ db' = Disconnect(db)
    /\ loaded' = FALSE
    /\ UNCHANGED answer

ChangeQuery(q) ==
    \E o \in Search(db, q) :
        /\ db' = o.db
        /\ loaded' = Loads(o)
        /\ UNCHANGED answer

Next ==
    \/ \E t \in Text : PutJson(t)
    \/ \E k \in Keys \cup {AnyKey} : PutKey(k) \/ Get(k) \/ Delete(k)
    \/ Insert
    \/ \E pkey \in Keys \cup {AnyKey, NoKey} : Save(pkey)
    \/ LoadProject
    \/ Reopen
    \/ CloseProject
    \/ \E q \in Queries : ChangeQuery(q)

Spec == Init /\ [][Next]_vars

-----------------------------------------------------------------------------
(* Properties.                                                             *)

\* Type correctness of the collection and of the last answer.
TypeOK ==
    /\ db \in Collection
    /\ answer = NoAnswer \/
       answer \in [op   : {"insert", "save", "get", "delete"},
                   key  : Keys \cup {AnyKey},
                   err  : Error,
                   body : Bodies \cup {Absent}]
    /\ loaded \in BOOLEAN

\* The index never names a document that is gone or that belongs to another
\* key, whatever filters, failed loads and refused requests came before: an
\* update or a deletion always reaches the document it was asked for.
IndexNeverMisleads == IndexSound(db)

\* Once the documents of an open project were loaded without a filter, index
\* and store agree exactly until the next load, whatever the driver refuses:
\* every document is found under its key, and no two documents share one.
IndexMirrorsStore ==
    db.open /\ loaded /\ db.jql = AllDocuments
        => /\ IndexSound(db)
           /\ IndexComplete(db)

\* No two documents of a collection have the same key ("Test unique keys
\* name before add the record(s)" in insertRecord and add_key_to_set).
UniqueKeys == DistinctKeys(db, Stored(db))

\* A step changes documents of the current key only, and never moves a
\* document to another key.
WritesStayOnKey ==
    [][\A i \in Ids : db'.docs[i] # db.docs[i] =>
          /\ db.docs[i] # NoDoc => db.docs[i].key = db'.key
          /\ db'.docs[i] # NoDoc => db'.docs[i].key = db'.key]_vars

\* A request that is refused leaves the documents and the index alone: in
\* particular the entry insertRecord adds before it asks the driver is gone.
RefusedChangesNothing ==
    [][(answer' # answer /\ answer'.err # "none") =>
          /\ db'.docs = db.docs
          /\ db'.records = db.records]_vars

\* A duplicate key enters the store only through an index that did not show
\* every document; with a complete index no call can create one.
DuplicatesNeedAGap ==
    [][UniqueKeys /\ IndexComplete(db) => UniqueKeys']_vars

\* The dictionary the collection stands for.
Dict == [k \in Keys |-> {db.docs[i].body : i \in {i \in Stored(db) : db.docs[i].key = k}}]

\* How much of it the index shows.
Mode == IF ~db.open THEN "off"
        ELSE IF loaded /\ db.jql = AllDocuments THEN "whole"
        ELSE "part"

Contract == INSTANCE KeyedStore
    WITH dict <- Dict, mode <- Mode, Reasons <- Error \ {"none"}

\* The collection implements the dictionary: one body under a key while the
\* index was loaded whole, and after a filter or a failed load answers and
\* writes that still are about the requested key.
ImplementsKeyedStore == Contract!Spec
=============================================================================

-------------------------- MODULE RecordStoreProofs --------------------------
(***************************************************************************)
(* Theorems about RecordStore, for every set of keys, bodies, document ids *)
(* and queries.  The inductive invariant is DbInv of the collection; what  *)
(* every operation does to a collection is shown in EjdbCollectionProofs,  *)
(* and the theorems of the first part lift it to Spec.  The second part is *)
(* about refused requests and duplicate keys; the third shows that an      *)
(* index loaded whole keeps mirroring the store and that a closed project  *)
(* indexes nothing, and from both that the collection implements the       *)
(* dictionary of KeyedStore in each of its modes.                          *)
(***************************************************************************)
EXTENDS RecordStore, EjdbCollectionProofs

LEMMA AnswerType ==
    ASSUME NEW op \in {"insert", "save", "get", "delete"}, NEW o,
           DbInv(o.db), o.err \in Error, NEW body,
           o.err = "none" => body \in Bodies
    PROVE  Answer(op, o, body) \in
             [op   : {"insert", "save", "get", "delete"},
              key  : Keys \cup {AnyKey},
              err  : Error,
              body : Bodies \cup {Absent}]
  BY DEF Answer, DbInv, Collection

-----------------------------------------------------------------------------
(* The specification.                                                      *)

\* TypeOK and the soundness of the index, the two halves that need each
\* other: an update reaches its own document only through a sound index.
Inv == TypeOK /\ DbInv(db)

LEMMA InitInv == Init => Inv
<1> SUFFICES ASSUME NEW docs \in [Ids -> Document \cup {NoDoc}],
                    db = NewCollection(docs), answer = NoAnswer, loaded = FALSE
             PROVE  Inv
  BY DEF Init
<1>1. DbInv(db)
  BY NewCollectionSound
<1>2. QED
  BY <1>1 DEF Inv, TypeOK, DbInv

LEMMA StepInv == Inv /\ [Next]_vars => Inv' /\ OnKey(db, db')
<1> SUFFICES ASSUME Inv, [Next]_vars
             PROVE  Inv' /\ OnKey(db, db')
  OBVIOUS
<1> USE DEF Inv
<1>1. DbInv(db) /\ TypeOK
  OBVIOUS
<1>0. loaded \in BOOLEAN /\ \A o : Loads(o) \in BOOLEAN
  BY <1>1 DEF TypeOK, Loads
<1>2. ASSUME UNCHANGED answer, DbInv(db'), OnKey(db, db'), loaded' \in BOOLEAN
      PROVE  Inv'
  BY <1>1, <1>2 DEF TypeOK, DbInv
<1>3. ASSUME NEW op \in {"insert", "save", "get", "delete"}, NEW o,
             Good(db, o), NEW body, o.err = "none" => body \in Bodies,
             db' = o.db, answer' = Answer(op, o, body), UNCHANGED loaded
      PROVE  Inv' /\ OnKey(db, db')
  <2>1. DbInv(db') /\ OnKey(db, db')
    BY <1>3 DEF Good
  <2>2. answer' \in [op   : {"insert", "save", "get", "delete"},
                     key  : Keys \cup {AnyKey},
                     err  : Error,
                     body : Bodies \cup {Absent}]
    BY <1>3, AnswerType DEF Good
  <2>3. loaded' \in BOOLEAN
    BY <1>0, <1>3
  <2>4. QED
    BY <2>1, <2>2, <2>3 DEF TypeOK, DbInv
<1>4. ASSUME DbInv(db'), db'.docs = db.docs
      PROVE  OnKey(db, db')
  BY <1>4 DEF OnKey
<1>5. ASSUME NEW t \in Text, PutJson(t)
      PROVE  Inv' /\ OnKey(db, db')
  BY <1>0, <1>1, <1>2, <1>5, SettersKeep DEF PutJson
<1>6. ASSUME NEW k \in Keys \cup {AnyKey}, PutKey(k)
      PROVE  Inv' /\ OnKey(db, db')
  BY <1>0, <1>1, <1>2, <1>6, SettersKeep DEF PutKey
<1>7. ASSUME NEW k \in Keys \cup {AnyKey}, Get(k)
      PROVE  Inv' /\ OnKey(db, db')
  BY <1>1, <1>3, <1>7, GetRecordGood, ReadText DEF Get
<1>8. ASSUME NEW k \in Keys \cup {AnyKey}, Delete(k)
      PROVE  Inv' /\ OnKey(db, db')
  BY <1>1, <1>3, <1>8, DeleteRecordGood, DeletedText DEF Delete
<1>9. ASSUME Insert
      PROVE  Inv' /\ OnKey(db, db')
  BY <1>1, <1>3, <1>9, InsertRecordGood, WrittenText DEF Insert
<1>10. ASSUME NEW pkey \in Keys \cup {AnyKey, NoKey}, Save(pkey)
       PROVE  Inv' /\ OnKey(db, db')
  BY <1>1, <1>3, <1>10, SaveRecordGood, WrittenText DEF Save
<1>11. ASSUME LoadProject
       PROVE  Inv' /\ OnKey(db, db')
  <2>1. AllDocuments \in Query
    BY DEF AllDocuments, Query
  <2>2. DbInv(SetQuery(db, AllDocuments)) /\ SetQuery(db, AllDocuments).docs = db.docs
    BY <1>1, <2>1, SettersKeep DEF SetQuery, DbInv, Collection
  <2>3. DbInv(db') /\ db'.docs = db.docs /\ UNCHANGED answer
    BY <1>11, <2>2, OpenEJDBKeeps DEF LoadProject
  <2>4. loaded' \in BOOLEAN
    BY <1>0, <1>11 DEF LoadProject
  <2>5. QED
    BY <1>2, <1>4, <2>3, <2>4
<1>12. ASSUME Reopen
       PROVE  Inv' /\ OnKey(db, db')
  BY <1>0, <1>1, <1>2, <1>4, <1>12, OpenEJDBKeeps DEF Reopen
<1>13. ASSUME CloseProject
       PROVE  Inv' /\ OnKey(db, db')
  BY <1>1, <1>2, <1>4, <1>13, CloseDBKeeps DEF CloseProject
<1>14. ASSUME NEW q \in Queries, ChangeQuery(q)
       PROVE  Inv' /\ OnKey(db, db')
  <2>1. DbInv(SetQuery(db, q)) /\ SetQuery(db, q).docs = db.docs
    BY <1>1, EjdbConstants, SettersKeep DEF SetQuery, DbInv, Collection
  <2>2. DbInv(CloseDB(SetQuery(db, q))) /\ CloseDB(SetQuery(db, q)).docs = db.docs
    BY <2>1, CloseDBKeeps
  <2>3. DbInv(db') /\ db'.docs = db.docs /\ UNCHANGED answer
    BY <1>14, <2>2, OpenDBKeeps DEF ChangeQuery, Search
  <2>4. loaded' \in BOOLEAN
    BY <1>0, <1>14 DEF ChangeQuery
  <2>5. QED
    BY <1>2, <1>4, <2>3, <2>4
<1>15. CASE UNCHANGED vars
  BY <1>0, <1>1, <1>2, <1>15 DEF vars, OnKey
<1>16. QED
  BY <1>5, <1>6, <1>7, <1>8, <1>9, <1>10, <1>11, <1>12, <1>13, <1>14, <1>15
     DEF Next

LEMMA Invariance == Spec => []Inv
  BY InitInv, StepInv, PTL DEF Spec

\* The collection and the last answer keep their types.
THEOREM TypeCorrect == Spec => []TypeOK
<1>1. Inv => TypeOK
  BY DEF Inv
<1>2. QED
  BY <1>1, Invariance, PTL

\* The index never names a missing document or one of another key, for any
\* queries, any driver failures and any order of calls.
THEOREM IndexIsSound == Spec => []IndexNeverMisleads
<1>1. Inv => IndexNeverMisleads
  BY DEF Inv, DbInv, IndexNeverMisleads
<1>2. QED
  BY <1>1, Invariance, PTL

\* No step writes or deletes a document other than under the current key,
\* and none moves a document to another key.
THEOREM StepsStayOnKey == Spec => WritesStayOnKey
<1>1. Inv /\ [Next]_vars =>
        [\A i \in Ids : db'.docs[i] # db.docs[i] =>
            /\ db.docs[i] # NoDoc => db.docs[i].key = db'.key
            /\ db'.docs[i] # NoDoc => db'.docs[i].key = db'.key]_vars
  BY StepInv DEF OnKey
<1>2. QED
  BY <1>1, Invariance, PTL DEF Spec, WritesStayOnKey

-----------------------------------------------------------------------------
(* Every step is a shaped record operation or leaves the documents alone.  *)

\* A record operation asked of db, with its answer.
Asked == \E op, o, body : /\ Shaped(db, o)
                          /\ db' = o.db
                          /\ answer' = Answer(op, o, body)
                          /\ UNCHANGED loaded

Quiet == UNCHANGED answer /\ db'.docs = db.docs

\* A step that is not one of the four record operations is quiet.
LEMMA OtherIsQuiet ==
    ASSUME Inv, [Next]_vars,
           ~Insert,
           \A pkey \in Keys \cup {AnyKey, NoKey} : ~Save(pkey),
           \A k \in Keys \cup {AnyKey} : ~Get(k) /\ ~Delete(k)
    PROVE  Quiet
<1>1. DbInv(db)
  BY DEF Inv
<1>2. ASSUME NEW t \in Text, PutJson(t) PROVE Quiet
  BY <1>1, <1>2 DEF PutJson, SetJson, Quiet, DbInv, Collection
<1>3. ASSUME NEW k \in Keys \cup {AnyKey}, PutKey(k) PROVE Quiet
  BY <1>1, <1>3 DEF PutKey, SetKey, Quiet, DbInv, Collection
<1>4. ASSUME NEW q \in Query PROVE DbInv(SetQuery(db, q)) /\ SetQuery(db, q).docs = db.docs
  BY <1>1, SettersKeep DEF SetQuery, DbInv, Collection
<1>5. AllDocuments \in Query
  BY DEF AllDocuments, Query
<1>6. ASSUME LoadProject PROVE Quiet
  BY <1>4, <1>5, <1>6, OpenEJDBKeeps DEF LoadProject, Quiet
<1>7. ASSUME Reopen PROVE Quiet
  BY <1>1, <1>7, OpenEJDBKeeps DEF Reopen, Quiet
<1>8. ASSUME CloseProject PROVE Quiet
  BY <1>1, <1>8, CloseDBKeeps DEF CloseProject, Quiet
<1>9. ASSUME NEW q \in Queries, ChangeQuery(q) PROVE Quiet
  <2>1. DbInv(CloseDB(SetQuery(db, q))) /\ CloseDB(SetQuery(db, q)).docs = db.docs
    BY <1>4, EjdbConstants, CloseDBKeeps
  <2>2. QED
    BY <1>9, <2>1, OpenDBKeeps DEF ChangeQuery, Search, Quiet
<1>10. CASE UNCHANGED vars
  BY <1>10 DEF vars, Quiet
<1>11. QED
  BY <1>2, <1>3, <1>6, <1>7, <1>8, <1>9, <1>10 DEF Next

LEMMA AskedOrQuiet == Inv /\ [Next]_vars => Asked \/ Quiet
<1> SUFFICES ASSUME Inv, [Next]_vars PROVE Asked \/ Quiet
  OBVIOUS
<1>1. DbInv(db)
  BY DEF Inv
<1>2. ASSUME NEW k \in Keys \cup {AnyKey}, Get(k) PROVE Asked
  BY <1>1, <1>2, GetRecordShape DEF Get, Asked
<1>3. ASSUME NEW k \in Keys \cup {AnyKey}, Delete(k) PROVE Asked
  BY <1>1, <1>3, DeleteRecordShape DEF Delete, Asked
<1>4. ASSUME Insert PROVE Asked
  BY <1>1, <1>4, WriteShape DEF Insert, Asked
<1>5. ASSUME NEW pkey \in Keys \cup {AnyKey, NoKey}, Save(pkey) PROVE Asked
  BY <1>1, <1>5, WriteShape DEF Save, Asked
<1>6. QED
  BY <1>2, <1>3, <1>4, <1>5, OtherIsQuiet

\* A refused request leaves documents and index as they were, whatever the
\* driver did and whichever check refused it.
THEOREM RefusalsAreHarmless == Spec => RefusedChangesNothing
<1>1. Inv /\ [Next]_vars =>
        [(answer' # answer /\ answer'.err # "none") =>
            /\ db'.docs = db.docs
            /\ db'.records = db.records]_vars
  <2> SUFFICES ASSUME Inv, [Next]_vars, answer' # answer, answer'.err # "none"
               PROVE  db'.docs = db.docs /\ db'.records = db.records
    OBVIOUS
  <2>1. PICK op, o, body : /\ Shaped(db, o)
                           /\ db' = o.db
                           /\ answer' = Answer(op, o, body)
    BY AskedOrQuiet DEF Asked, Quiet
  <2>2. o.err # "none"
    BY <2>1 DEF Answer
  <2>3. QED
    BY <2>1, <2>2 DEF Shaped, Untouched
<1>2. QED
  BY <1>1, Invariance, PTL DEF Spec, RefusedChangesNothing

\* From a store with unique keys and a complete index no call, loading or
\* filter included, leads to two documents with one key.
THEOREM NoDuplicateWithoutGap == Spec => DuplicatesNeedAGap
<1>1. Inv /\ [Next]_vars => [UniqueKeys /\ IndexComplete(db) => UniqueKeys']_vars
  <2> SUFFICES ASSUME Inv, [Next]_vars, UniqueKeys, IndexComplete(db)
               PROVE  UniqueKeys'
    OBVIOUS
  <2>1. DbInv(db)
    BY DEF Inv
  <2>2. CASE Quiet
    BY <2>2 DEF Quiet, UniqueKeys, DistinctKeys, Stored
  <2>3. CASE Asked
    BY <2>1, <2>3, ShapeKeepsDistinct DEF Asked, UniqueKeys
  <2>4. QED
    BY <2>2, <2>3, AskedOrQuiet
<1>2. QED
  BY <1>1, Invariance, PTL DEF Spec, DuplicatesNeedAGap

-----------------------------------------------------------------------------
(* An index loaded whole.                                                  *)

\* The inductive half of IndexMirrorsStore; DbInv gives the other one.
Mirrored == db.open /\ loaded /\ db.jql = AllDocuments => IndexComplete(db)

\* With a complete index no two documents share a key.
LEMMA CompleteIsDistinct ==
    ASSUME NEW d, IndexComplete(d)
    PROVE  DistinctKeys(d, Stored(d))
  BY DEF IndexComplete, DistinctKeys

\* Opening without a filter loads every document, unless it throws.
LEMMA OpenDBMirrors ==
    ASSUME NEW d, DbInv(d), d.open, d.jql = AllDocuments,
           NEW o \in OpenDB(d), o.err = "none"
    PROVE  IndexComplete(o.db)
<1>1. Selected(d) = Stored(d)
  BY DEF Selected, Stored, AllDocuments, DbInv, Collection
<1>2. \/ Stored(d) = {} /\ o = Outcome(CloseDB(d), "none")
      \/ /\ DistinctKeys(d, Stored(d))
         /\ \E i \in Stored(d) : o = Outcome(Load(d, Stored(d), i), "none")
  BY <1>1 DEF OpenDB, Failure, Outcome, AllDocuments
<1>3. CASE Stored(d) = {} /\ o = Outcome(CloseDB(d), "none")
  <2>1. o.db.docs = d.docs
    BY <1>3 DEF Outcome, CloseDB, DbInv, Collection
  <2>2. QED
    BY <1>3, <2>1 DEF IndexComplete, Stored
<1>4. CASE /\ DistinctKeys(d, Stored(d))
           /\ \E i \in Stored(d) : o = Outcome(Load(d, Stored(d), i), "none")
  <2>1. PICK i \in Stored(d) : o = Outcome(Load(d, Stored(d), i), "none")
    BY <1>4
  <2> DEFINE ix == IndexOf(d, Stored(d))
  <2>2. o.db.docs = d.docs /\ o.db.records = ix
    BY <2>1 DEF Load, Outcome, DbInv, Collection
  <2>3. \A j \in Stored(d) : d.docs[j].key \in Keys
    BY DEF Stored, DbInv, Collection, Document
  <2>4. \A j \in Stored(d) : ix[d.docs[j].key] = j
    <3> SUFFICES ASSUME NEW j \in Stored(d) PROVE ix[d.docs[j].key] = j
      OBVIOUS
    <3>1. /\ ix[d.docs[j].key] \in Stored(d)
          /\ d.docs[ix[d.docs[j].key]].key = d.docs[j].key
      BY <2>3 DEF IndexOf
    <3>2. QED
      BY <1>4, <3>1 DEF DistinctKeys
  <2> HIDE DEF ix
  <2>5. QED
    BY <2>2, <2>4 DEF Stored, IndexComplete
<1>5. QED
  BY <1>2, <1>3, <1>4

\* Loading keeps the query and the connection.
LEMMA OpenDBSession ==
    ASSUME NEW d, DbInv(d), NEW o \in OpenDB(d)
    PROVE  o.db.open = d.open /\ o.db.jql = d.jql
<1>1. CASE \E e : o = Outcome(CloseDB(d), e)
  BY <1>1 DEF Outcome, CloseDB, DbInv, Collection
<1>2. CASE \E S, i, e : o = Outcome(Load(d, S, i), e)
  <2>1. PICK S, i, e : o = Outcome(Load(d, S, i), e)
    BY <1>2
  <2>2. Load(d, S, i).open = d.open /\ Load(d, S, i).jql = d.jql
    BY DEF Load, DbInv, Collection
  <2>3. QED
    BY <2>1, <2>2 DEF Outcome
<1>3. QED
  BY <1>1, <1>2 DEF OpenDB, Failure

LEMMA OpenDBLoads ==
    ASSUME NEW d, DbInv(d), NEW o \in OpenDB(d), Loads(o), o.db.jql = AllDocuments
    PROVE  IndexComplete(o.db)
<1>1. d.open /\ d.jql = AllDocuments /\ o.err = "none"
  BY OpenDBSession DEF Loads
<1>2. QED
  BY <1>1, OpenDBMirrors

LEMMA OpenEJDBLoads ==
    ASSUME NEW d, DbInv(d), NEW o \in OpenEJDB(d), Loads(o), o.db.jql = AllDocuments
    PROVE  IndexComplete(o.db)
<1>1. o \in OpenDB(Connect(Disconnect(d)))
  <2>1. \/ o \in OpenDB(Connect(Disconnect(d)))
        \/ o = Outcome(Disconnect(d), "EJDB2 storage handle")
    BY DEF OpenEJDB
  <2>2. ASSUME NEW e, o = Outcome(Disconnect(d), e) PROVE o.err = e
    BY <2>2 DEF Outcome
  <2>3. o.err # "EJDB2 storage handle"
    BY DEF Loads
  <2>4. QED
    BY <2>1, <2>2, <2>3
<1>2. DbInv(Connect(Disconnect(d)))
  BY CloseDBKeeps, ConnectKeeps
<1>3. QED
  BY <1>1, <1>2, OpenDBLoads

LEMMA StepMirrored == Inv /\ Mirrored /\ [Next]_vars => Mirrored'
<1> SUFFICES ASSUME Inv, Mirrored, [Next]_vars PROVE Mirrored'
  OBVIOUS
<1>1. DbInv(db)
  BY DEF Inv
<1>2. ASSUME NEW o, Shaped(db, o), db' = o.db, UNCHANGED loaded
      PROVE  Mirrored'
  <2>1. db'.open = db.open /\ db'.jql = db.jql
    BY <1>2 DEF Shaped, SameSession
  <2>2. db.open /\ IndexComplete(db) => IndexComplete(db')
    BY <1>1, <1>2, ShapeKeepsComplete
  <2>3. QED
    BY <1>2, <2>1, <2>2 DEF Mirrored
<1>3. ASSUME db'.docs = db.docs, db'.records = db.records, db'.open = db.open,
             db'.jql = db.jql, UNCHANGED loaded
      PROVE  Mirrored'
  BY <1>3 DEF Mirrored, Stored, IndexComplete
<1>4. ASSUME NEW o, db' = o.db, loaded' = Loads(o),
             Loads(o) /\ o.db.jql = AllDocuments => IndexComplete(o.db)
      PROVE  Mirrored'
  BY <1>4 DEF Mirrored
<1>5. ASSUME NEW q \in Query PROVE DbInv(SetQuery(db, q))
  BY <1>1, SettersKeep
<1>6. ASSUME NEW t \in Text, PutJson(t) PROVE Mirrored'
  BY <1>1, <1>3, <1>6 DEF PutJson, SetJson, DbInv, Collection
<1>7. ASSUME NEW k \in Keys \cup {AnyKey}, PutKey(k) PROVE Mirrored'
  BY <1>1, <1>3, <1>7 DEF PutKey, SetKey, DbInv, Collection
<1>8. ASSUME NEW k \in Keys \cup {AnyKey}, Get(k) \/ Delete(k) PROVE Mirrored'
  BY <1>1, <1>2, <1>8, GetRecordShape, DeleteRecordShape DEF Get, Delete
<1>9. ASSUME Insert PROVE Mirrored'
  BY <1>1, <1>2, <1>9, WriteShape DEF Insert
<1>10. ASSUME NEW pkey \in Keys \cup {AnyKey, NoKey}, Save(pkey) PROVE Mirrored'
  BY <1>1, <1>2, <1>10, WriteShape DEF Save
<1>11. ASSUME LoadProject PROVE Mirrored'
  <2>1. DbInv(SetQuery(db, AllDocuments))
    BY <1>5 DEF AllDocuments, Query
  <2>2. QED
    BY <1>4, <1>11, <2>1, OpenEJDBLoads DEF LoadProject
<1>12. ASSUME Reopen PROVE Mirrored'
  BY <1>1, <1>4, <1>12, OpenEJDBLoads DEF Reopen
<1>13. ASSUME CloseProject PROVE Mirrored'
  BY <1>13 DEF CloseProject, Mirrored
<1>14. ASSUME NEW q \in Queries, ChangeQuery(q) PROVE Mirrored'
  <2>1. DbInv(CloseDB(SetQuery(db, q)))
    BY <1>5, EjdbConstants, CloseDBKeeps
  <2>2. QED
    BY <1>4, <1>14, <2>1, OpenDBLoads DEF ChangeQuery, Search
<1>15. CASE UNCHANGED vars
  BY <1>3, <1>15 DEF vars
<1>16. QED
  BY <1>6, <1>7, <1>8, <1>9, <1>10, <1>11, <1>12, <1>13, <1>14, <1>15 DEF Next

LEMMA InitMirrored == Init => Mirrored
  BY DEF Init, Mirrored

\* Once an open project was loaded without a filter, index and store agree exactly
\* until the next load: for any documents, queries and driver failures, and after
\* any filters, failed loads and duplicates before.
THEOREM LoadedIndexMirrors == Spec => []IndexMirrorsStore
<1>1. Init => Mirrored
  BY InitMirrored
<1>2. Inv /\ Mirrored /\ [Next]_vars => Mirrored'
  BY StepMirrored
<1>3. Inv /\ Mirrored => IndexMirrorsStore
  BY DEF Inv, Mirrored, DbInv, IndexMirrorsStore
<1>4. QED
  BY <1>1, <1>2, <1>3, Invariance, PTL DEF Spec

-----------------------------------------------------------------------------
(* A closed project.                                                       *)

\* While the driver is not connected nothing is indexed; a read or a deletion
\* would otherwise succeed on it without a document.
Offline(d) == ~d.open => \A k \in Keys : d.records[k] = NoId

LEMMA EmptyIsOffline ==
    ASSUME NEW e, e.records = EmptyIndex
    PROVE  Offline(e)
<1>1. \A k \in Keys : EmptyIndex[k] = NoId
  BY DEF EmptyIndex
<1>2. QED
  BY <1>1 DEF Offline

LEMMA OpenDBOffline ==
    ASSUME NEW d, DbInv(d), NEW o \in OpenDB(d)
    PROVE  Offline(o.db)
<1>1. CASE \E e : o = Outcome(CloseDB(d), e)
  <2>1. o.db = CloseDB(d)
    BY <1>1 DEF Outcome
  <2>2. CloseDB(d).records = EmptyIndex
    BY DEF CloseDB, DbInv, Collection
  <2>3. QED
    BY <2>1, <2>2, EmptyIsOffline
<1>2. CASE d.open /\ \E S, i, e : o = Outcome(Load(d, S, i), e)
  <2>1. PICK S, i, e : o = Outcome(Load(d, S, i), e)
    BY <1>2
  <2>2. Load(d, S, i).open = d.open
    BY DEF Load, DbInv, Collection
  <2>3. QED
    BY <1>2, <2>1, <2>2 DEF Outcome, Offline
<1>3. QED
  BY <1>1, <1>2 DEF OpenDB, Failure

LEMMA DisconnectOffline ==
    ASSUME NEW d, DbInv(d)
    PROVE  Offline(Disconnect(d))
<1>1. Disconnect(d).records = EmptyIndex
  BY DEF Disconnect, CloseDB, DbInv, Collection
<1>2. QED
  BY <1>1, EmptyIsOffline

LEMMA OpenEJDBOffline ==
    ASSUME NEW d, DbInv(d), NEW o \in OpenEJDB(d)
    PROVE  Offline(o.db)
<1>1. CASE o \in OpenDB(Connect(Disconnect(d)))
  BY <1>1, CloseDBKeeps, ConnectKeeps, OpenDBOffline
<1>2. CASE o = Outcome(Disconnect(d), "EJDB2 storage handle")
  BY <1>2, DisconnectOffline DEF Outcome
<1>3. QED
  BY <1>1, <1>2 DEF OpenEJDB

\* No record operation adds to the index of a closed project.
LEMMA ShapeKeepsOffline ==
    ASSUME NEW d, DbInv(d), Offline(d), NEW o, Shaped(d, o)
    PROVE  Offline(o.db)
<1> DEFINE e == o.db
<1>1. e.open = d.open
  BY DEF Shaped, SameSession
<1>2. CASE e.records = d.records
  BY <1>1, <1>2 DEF Offline
<1>3. CASE Created(d, e)
  BY <1>1, <1>3 DEF Created, Offline
<1>4. CASE Erased(d, e)
  BY <1>1, <1>4 DEF Erased, Offline, DbInv, Collection
<1>5. QED
  BY <1>2, <1>3, <1>4 DEF Shaped, Untouched, Updated

LEMMA InitOffline == Init => Offline(db)
<1>1. Init => db.records = EmptyIndex
  BY DEF Init, NewCollection
<1>2. QED
  BY <1>1, EmptyIsOffline

LEMMA StepOffline == Inv /\ Offline(db) /\ [Next]_vars => Offline(db)'
<1> SUFFICES ASSUME Inv, Offline(db), [Next]_vars
             PROVE  Offline(db')
  OBVIOUS
<1>1. DbInv(db)
  BY DEF Inv
<1>2. ASSUME NEW o, Shaped(db, o), db' = o.db
      PROVE  Offline(db')
  BY <1>1, <1>2, ShapeKeepsOffline
<1>3. ASSUME NEW e, e = db', e.records = db.records, e.open = db.open
      PROVE  Offline(e)
  BY <1>3 DEF Offline
<1>4. ASSUME NEW q \in Query PROVE DbInv(SetQuery(db, q))
  BY <1>1, <1>4, SettersKeep
<1>5. ASSUME NEW t \in Text, PutJson(t) PROVE Offline(db')
  BY <1>1, <1>3, <1>5 DEF PutJson, SetJson, DbInv, Collection
<1>6. ASSUME NEW k \in Keys \cup {AnyKey}, PutKey(k) PROVE Offline(db')
  BY <1>1, <1>3, <1>6 DEF PutKey, SetKey, DbInv, Collection
<1>7. ASSUME NEW k \in Keys \cup {AnyKey}, Get(k) \/ Delete(k) PROVE Offline(db')
  BY <1>1, <1>2, <1>7, GetRecordShape, DeleteRecordShape DEF Get, Delete
<1>8. ASSUME Insert PROVE Offline(db')
  BY <1>1, <1>2, <1>8, WriteShape DEF Insert
<1>9. ASSUME NEW pkey \in Keys \cup {AnyKey, NoKey}, Save(pkey) PROVE Offline(db')
  BY <1>1, <1>2, <1>9, WriteShape DEF Save
<1>10. ASSUME LoadProject PROVE Offline(db')
  <2>1. AllDocuments \in Query
    BY DEF AllDocuments, Query
  <2>2. QED
    BY <1>4, <1>10, <2>1, OpenEJDBOffline DEF LoadProject
<1>11. ASSUME Reopen PROVE Offline(db')
  BY <1>1, <1>11, OpenEJDBOffline DEF Reopen
<1>12. ASSUME CloseProject PROVE Offline(db')
  BY <1>1, <1>12, DisconnectOffline DEF CloseProject
<1>13. ASSUME NEW q \in Queries, ChangeQuery(q) PROVE Offline(db')
  <2>1. DbInv(CloseDB(SetQuery(db, q)))
    BY <1>4, EjdbConstants, CloseDBKeeps
  <2>2. QED
    BY <1>13, <2>1, OpenDBOffline DEF ChangeQuery, Search
<1>14. CASE UNCHANGED vars
  BY <1>14 DEF vars
<1>15. QED
  BY <1>5, <1>6, <1>7, <1>8, <1>9, <1>10, <1>11, <1>12, <1>13, <1>14 DEF Next

\* Nothing is indexed while the database is closed, also after a run, a failed
\* opening or a search on the closed project.
THEOREM ClosedIsEmpty == Spec => [](~db.open => \A k \in Keys : db.records[k] = NoId)
<1>1. Init => Offline(db)
  BY InitOffline
<1>2. Inv /\ Offline(db) /\ [Next]_vars => Offline(db)'
  BY StepOffline
<1>3. Offline(db) => (~db.open => \A k \in Keys : db.records[k] = NoId)
  BY DEF Offline
<1>4. QED
  BY <1>1, <1>2, <1>3, Invariance, PTL DEF Spec

-----------------------------------------------------------------------------
(* The dictionary a collection stands for.                                 *)

\* The bodies of the documents under a key, and of those other than one of them.
Under(d, k) == {d.docs[i].body : i \in Own(d, k)}

Without(d, k, i) == {d.docs[j].body : j \in Own(d, k) \ {i}}

DictOf(d) == [k \in Keys |-> Under(d, k)]

LEMMA StoredDocument ==
    ASSUME NEW d, DbInv(d), NEW i \in Stored(d)
    PROVE  i \in Ids /\ d.docs[i] \in Document
  BY DEF Stored, DbInv, Collection

\* The dictionary of a collection is a dictionary.
LEMMA DictOfType ==
    ASSUME NEW d, DbInv(d)
    PROVE  DictOf(d) \in [Keys -> SUBSET Bodies]
<1>1. \A k \in Keys : Under(d, k) \subseteq Bodies
  BY StoredDocument DEF Under, Own, Document
<1>2. QED
  BY <1>1 DEF DictOf

\* Without a document of the key one body less, or none if another has it too.
LEMMA WithoutOne ==
    ASSUME NEW d, NEW k, NEW i \in Own(d, k)
    PROVE  \/ Without(d, k, i) = Under(d, k)
           \/ Without(d, k, i) = Under(d, k) \ {d.docs[i].body}
<1>1. CASE \E j \in Own(d, k) \ {i} : d.docs[j].body = d.docs[i].body
  BY <1>1 DEF Without, Under
<1>2. CASE \A j \in Own(d, k) \ {i} : d.docs[j].body # d.docs[i].body
  BY <1>2 DEF Without, Under
<1>3. QED
  BY <1>1, <1>2

LEMMA WithoutOther ==
    ASSUME NEW d, NEW k, NEW i, i \notin Own(d, k)
    PROVE  Without(d, k, i) = Under(d, k)
  BY DEF Without, Under

\* Writing a document changes the dictionary under its key only.
LEMMA PutDict ==
    ASSUME NEW d, DbInv(d), NEW e, NEW i \in Ids, NEW t \in Document,
           e.docs = [d.docs EXCEPT ![i] = t],
           i \in Stored(d) => d.docs[i].key = t.key
    PROVE  DictOf(e) = [DictOf(d) EXCEPT ![t.key] = Without(d, t.key, i) \cup {t.body}]
<1>1. /\ \A j \in Ids : j # i => e.docs[j] = d.docs[j]
      /\ e.docs[i] = t
  BY DEF DbInv, Collection
<1>2. t # NoDoc
  BY EjdbConstants
<1>3. ASSUME NEW k \in Keys, k # t.key PROVE Under(e, k) = Under(d, k)
  <2>1. Own(e, k) = Own(d, k) /\ i \notin Own(d, k)
    BY <1>1, <1>2, <1>3 DEF Own, Stored
  <2>2. \A j \in Own(d, k) : e.docs[j] = d.docs[j]
    BY <1>1, <2>1 DEF Own, Stored
  <2>3. QED
    BY <2>1, <2>2 DEF Under
<1>4. Under(e, t.key) = Without(d, t.key, i) \cup {t.body}
  <2>1. Own(e, t.key) = (Own(d, t.key) \ {i}) \cup {i}
    BY <1>1, <1>2 DEF Own, Stored
  <2>2. \A j \in Own(d, t.key) \ {i} : e.docs[j] = d.docs[j]
    BY <1>1 DEF Own, Stored
  <2>3. QED
    BY <1>1, <2>1, <2>2 DEF Under, Without
<1>5. QED
  BY <1>3, <1>4 DEF DictOf

LEMMA EraseDict ==
    ASSUME NEW d, DbInv(d), NEW e, NEW k \in Keys, NEW i \in Own(d, k),
           e.docs = [d.docs EXCEPT ![i] = NoDoc]
    PROVE  DictOf(e) = [DictOf(d) EXCEPT ![k] = Without(d, k, i)]
<1>1. /\ \A j \in Ids : j # i => e.docs[j] = d.docs[j]
      /\ i \in Ids /\ e.docs[i] = NoDoc
  BY DEF DbInv, Collection, Own, Stored
<1>2. ASSUME NEW q \in Keys PROVE Under(e, q) = Without(d, q, i)
  <2>1. Own(e, q) = Own(d, q) \ {i}
    BY <1>1 DEF Own, Stored
  <2>2. \A j \in Own(d, q) \ {i} : e.docs[j] = d.docs[j]
    BY <1>1 DEF Own, Stored
  <2>3. QED
    BY <2>1, <2>2 DEF Under, Without
<1>3. \A q \in Keys : q # k => Without(d, q, i) = Under(d, q)
  BY WithoutOther DEF Own
<1>4. QED
  BY <1>2, <1>3 DEF DictOf

\* An entry is a document of its key, with a complete index the only one.
LEMMA IndexedIsOwn ==
    ASSUME NEW d, DbInv(d), NEW k \in Keys, d.records[k] # NoId
    PROVE  d.records[k] \in Own(d, k)
  BY DEF DbInv, IndexSound, Own

LEMMA OwnIsIndexed ==
    ASSUME NEW d, IndexComplete(d), NEW k, NEW i \in Own(d, k)
    PROVE  d.records[k] = i /\ d.records[k] # NoId
<1>1. d.records[k] = i /\ i \in Ids
  BY DEF IndexComplete, Own, Stored
<1>2. QED
  BY <1>1, EjdbConstants

-----------------------------------------------------------------------------
(* The refinement.                                                         *)

\* What every state satisfies.
Session == Inv /\ Mirrored /\ Offline(db)

LEMMA DictIsDictOf == Dict = DictOf(db)
  BY DEF Dict, DictOf, Under, Own

\* A dictionary shown whole has a complete index.
LEMMA WholeIsComplete ==
    ASSUME Session, Mode = "whole"
    PROVE  IndexComplete(db)
  BY DEF Session, Mirrored, Mode

LEMMA InitRefines == Init => Contract!Init
<1> SUFFICES ASSUME Init PROVE Contract!Init
  OBVIOUS
<1>1. Dict \in [Keys -> SUBSET Bodies]
  BY InitInv, DictOfType, DictIsDictOf DEF Inv
<1>2. Mode = "off" /\ answer = NoAnswer
  BY DEF Init, NewCollection, Mode
<1>3. QED
  BY <1>1, <1>2 DEF Contract!Init

LEMMA SameMode ==
    ASSUME NEW o, Shaped(db, o), db' = o.db, UNCHANGED loaded
    PROVE  Mode' = Mode
<1>1. db'.open = db.open /\ db'.jql = db.jql
  BY DEF Shaped, SameSession
<1>2. QED
  BY <1>1 DEF Mode

\* A refused request changes nothing, and says what the dictionary allows.
LEMMA RefusedRefines ==
    ASSUME Session, NEW op, NEW o, NEW body, Shaped(db, o), db' = o.db,
           answer' = Answer(op, o, body), UNCHANGED loaded,
           o.err \in Error, o.err # "none",
           (o.db.key \in Keys /\ o.err = "TEJDB0004") => db.records[o.db.key] # NoId,
           (o.db.key \in Keys /\ o.err \in {"TEJDB0001", "TEJDB0002"})
               => db.records[o.db.key] = NoId
    PROVE  Contract!Refuse \/ UNCHANGED <<Dict, Mode, answer>>
<1>1. db'.docs = db.docs
  BY DEF Shaped, Untouched
<1>2. Dict' = Dict /\ Mode' = Mode
  BY <1>1, SameMode DEF Dict, Stored
<1>3. answer'.err = o.err /\ answer'.key = o.db.key
  BY DEF Answer
<1>4. ASSUME o.db.key \in Keys, o.err = "TEJDB0004"
      PROVE  Mode # "off" /\ Dict[o.db.key] # {}
  <2>1. db.records[o.db.key] # NoId
    BY <1>4
  <2>2. db.open
    BY <1>4, <2>1 DEF Session, Offline
  <2>3. db.records[o.db.key] \in Own(db, o.db.key)
    BY <1>4, <2>1, IndexedIsOwn DEF Session, Inv
  <2>4. DictOf(db)[o.db.key] # {}
    BY <1>4, <2>3 DEF DictOf, Under
  <2>5. QED
    BY <2>2, <2>4, DictIsDictOf DEF Mode
<1>5. ASSUME o.db.key \in Keys, o.err \in {"TEJDB0001", "TEJDB0002"}, Mode = "whole"
      PROVE  Dict[o.db.key] = {}
  <2>1. db.records[o.db.key] = NoId /\ IndexComplete(db)
    BY <1>5, WholeIsComplete
  <2>2. Own(db, o.db.key) = {}
    BY <2>1, OwnIsIndexed
  <2>3. QED
    BY <1>5, <2>2, DictIsDictOf DEF DictOf, Under
<1>6. CASE answer' = answer
  BY <1>2, <1>6
<1>7. CASE answer' # answer
  <2>1. answer'.err \in Error \ {"none"}
    BY <1>3
  <2>2. QED
    BY <1>2, <1>3, <1>4, <1>5, <1>7, <2>1 DEF Contract!Refuse, Contract!Present
<1>8. QED
  BY <1>6, <1>7

\* What a written text adds to the dictionary: its body, in the place of at most
\* one other; no body is left beside it when the index is complete afterwards.
LEMMA WriteRefines ==
    ASSUME NEW d, DbInv(d), NEW e, NEW k \in Keys, e.key = k,
           NEW i \in Free(d) \cup Own(d, k),
           e.json \in Document, e.json.key = k,
           e.docs = [d.docs EXCEPT ![i] = e.json]
    PROVE  /\ DictOf(e) = [DictOf(d) EXCEPT ![k] = Without(d, k, i) \cup {e.json.body}]
           /\ Without(d, k, i) \in Contract!Less(DictOf(d)[k])
           /\ i \in Free(d) => Without(d, k, i) = DictOf(d)[k]
           /\ IndexComplete(e) => Without(d, k, i) = {}
<1>1. /\ i \in Ids
      /\ i \in Stored(d) => i \in Own(d, k)
      /\ i \in Free(d) => i \notin Own(d, k)
  BY DEF Free, Own, Stored
<1>2. DictOf(e) = [DictOf(d) EXCEPT ![k] = Without(d, k, i) \cup {e.json.body}]
  BY <1>1, PutDict DEF Own
<1>3. DictOf(d)[k] = Under(d, k)
  BY DEF DictOf
<1>4. i \in Free(d) => Without(d, k, i) = Under(d, k)
  BY <1>1, WithoutOther
<1>5. Without(d, k, i) \in Contract!Less(Under(d, k))
  <2>1. CASE Without(d, k, i) = Under(d, k)
    BY <2>1 DEF Contract!Less
  <2>2. CASE i \in Own(d, k) /\ Without(d, k, i) = Under(d, k) \ {d.docs[i].body}
    <3>1. d.docs[i].body \in Under(d, k)
      BY <2>2 DEF Under
    <3>2. QED
      BY <2>2, <3>1 DEF Contract!Less
  <2>3. QED
    BY <1>4, <2>1, <2>2, WithoutOne
<1>6. ASSUME IndexComplete(e) PROVE Own(d, k) \ {i} = {}
  <2> SUFFICES ASSUME NEW j \in Own(d, k), j # i PROVE FALSE
    OBVIOUS
  <2>1. e.docs[j] = d.docs[j] /\ e.docs[i] = e.json /\ e.json # NoDoc
    BY <1>1, EjdbConstants DEF DbInv, Collection, Own, Stored
  <2>2. j \in Own(e, k) /\ i \in Own(e, k)
    BY <1>1, <2>1 DEF Own, Stored
  <2>3. QED
    BY <1>6, <2>2, OwnIsIndexed
<1>7. IndexComplete(e) => Without(d, k, i) = {}
  BY <1>6 DEF Without
<1>8. QED
  BY <1>2, <1>3, <1>4, <1>5, <1>7

LEMMA InsertRefines ==
    ASSUME Session, Insert
    PROVE  Contract!Next \/ UNCHANGED <<Dict, Mode, answer>>
<1>1. PICK o \in InsertRecord(db) :
          /\ db' = o.db
          /\ answer' = Answer("insert", o, o.db.json.body)
          /\ UNCHANGED loaded
  BY DEF Insert
<1>2. DbInv(db)
  BY DEF Session, Inv
<1>3. Shaped(db, o) /\ Good(db, o)
  BY <1>2, WriteShape, InsertRecordGood
<1>4. /\ o.err = "none" =>
            /\ db.open
            /\ o.db.key \in Keys
            /\ db.records[o.db.key] = NoId
            /\ Puts(db, o.db, Free(db))
      /\ o.err = "TEJDB0004" =>
            o.db.key \in Keys /\ db.records[o.db.key] # NoId
      /\ o.err \notin {"TEJDB0001", "TEJDB0002"}
  BY <1>2, InsertRecordEffect
<1>5. CASE o.err = "none"
  <2> DEFINE k == o.db.key
             b == o.db.json.body
  <2>1. PICK i \in Free(db) : o.db.docs = [db.docs EXCEPT ![i] = o.db.json]
    BY <1>4, <1>5 DEF Puts
  <2>2. k \in Keys /\ o.db.json \in Document /\ o.db.json.key = k
    BY <1>4, <1>5 DEF Puts
  <2>3. DictOf(o.db) = [DictOf(db) EXCEPT ![k] = DictOf(db)[k] \cup {b}]
    <3> DEFINE e == o.db
    <3>1. /\ e.key = k /\ i \in Free(db) \cup Own(db, k)
          /\ e.json \in Document /\ e.json.key = k
          /\ e.docs = [db.docs EXCEPT ![i] = e.json]
      BY <2>1, <2>2
    <3> HIDE DEF e, k
    <3>2. /\ DictOf(e) = [DictOf(db) EXCEPT ![k] = Without(db, k, i) \cup {e.json.body}]
          /\ Without(db, k, i) = DictOf(db)[k]
      BY <1>2, <2>1, <2>2, <3>1, WriteRefines
    <3>3. QED
      BY <3>2 DEF e
  <2>4. Dict' = [Dict EXCEPT ![k] = Dict[k] \cup {b}]
    <3>1. Dict' = DictOf(o.db)
      BY <1>1 DEF Dict, DictOf, Under, Own
    <3>2. QED
      BY <2>3, <3>1, DictIsDictOf
  <2>5. Mode # "off" /\ Mode' = Mode
    BY <1>1, <1>3, <1>4, <1>5, SameMode DEF Mode
  <2>6. ASSUME Mode = "whole" PROVE Dict[k] = {}
    <3>1. Own(db, k) = {}
      BY <1>4, <1>5, <2>6, WholeIsComplete, OwnIsIndexed
    <3>2. QED
      BY <2>2, <3>1, DictIsDictOf DEF DictOf, Under
  <2>7. answer' = [op |-> "insert", key |-> k, err |-> "none", body |-> b]
    BY <1>1, <1>5 DEF Answer
  <2>8. b \in Bodies
    BY <2>2 DEF Document
  <2> HIDE DEF k, b
  <2>9. Contract!Insert(k, b)
    BY <2>4, <2>5, <2>6, <2>7 DEF Contract!Insert, Contract!Present, Contract!Answer
  <2>10. QED
    BY <2>2, <2>8, <2>9 DEF Contract!Next, k
<1>6. CASE o.err # "none"
  <2>1. Contract!Refuse \/ UNCHANGED <<Dict, Mode, answer>>
    BY <1>1, <1>3, <1>4, <1>6, RefusedRefines DEF Good
  <2>2. QED
    BY <2>1 DEF Contract!Next
<1>7. QED
  BY <1>5, <1>6

LEMMA SaveRefines ==
    ASSUME Session, Session', NEW pkey \in Keys \cup {AnyKey, NoKey}, Save(pkey)
    PROVE  Contract!Next \/ UNCHANGED <<Dict, Mode, answer>>
<1>1. PICK o \in SaveRecord(db, pkey) :
          /\ db' = o.db
          /\ answer' = Answer("save", o, o.db.json.body)
          /\ UNCHANGED loaded
  BY DEF Save
<1>2. DbInv(db)
  BY DEF Session, Inv
<1>3. Shaped(db, o) /\ Good(db, o)
  BY <1>2, WriteShape, SaveRecordGood
<1>4. /\ o.err = "none" =>
            /\ db.open
            /\ o.db.key \in Keys
            /\ \/ Puts(db, o.db, Free(db))
               \/ Puts(db, o.db, Own(db, o.db.key))
      /\ o.err \notin {"TEJDB0001", "TEJDB0002", "TEJDB0004"}
  BY <1>2, SaveRecordEffect
<1>5. CASE o.err = "none"
  <2> DEFINE k == o.db.key
             b == o.db.json.body
  <2>1. PICK i \in Free(db) \cup Own(db, k) :
                o.db.docs = [db.docs EXCEPT ![i] = o.db.json]
    BY <1>4, <1>5 DEF Puts
  <2>2. k \in Keys /\ o.db.json \in Document /\ o.db.json.key = k
    BY <1>4, <1>5 DEF Puts
  <2> DEFINE S == Without(db, k, i)
  <2>3. /\ DictOf(o.db) = [DictOf(db) EXCEPT ![k] = S \cup {b}]
        /\ S \in Contract!Less(DictOf(db)[k])
        /\ IndexComplete(o.db) => S = {}
    <3> DEFINE e == o.db
    <3>1. /\ e.key = k
          /\ e.json \in Document /\ e.json.key = k
          /\ e.docs = [db.docs EXCEPT ![i] = e.json]
      BY <2>1, <2>2
    <3> HIDE DEF e, k
    <3>2. /\ DictOf(e) = [DictOf(db) EXCEPT ![k] = S \cup {e.json.body}]
          /\ S \in Contract!Less(DictOf(db)[k])
          /\ IndexComplete(e) => S = {}
      BY <1>2, <2>1, <2>2, <3>1, WriteRefines
    <3>3. QED
      BY <3>2 DEF e
  <2>4. Dict' = [Dict EXCEPT ![k] = S \cup {b}] /\ S \in Contract!Less(Dict[k])
    <3>1. Dict' = DictOf(o.db)
      BY <1>1 DEF Dict, DictOf, Under, Own
    <3>2. QED
      BY <2>3, <3>1, DictIsDictOf
  <2>5. Mode # "off" /\ Mode' = Mode
    BY <1>1, <1>3, <1>4, <1>5, SameMode DEF Mode
  <2>6. ASSUME Mode = "whole" PROVE S = {}
    <3>1. IndexComplete(db')
      BY <2>5, <2>6 DEF Session, Mirrored, Mode
    <3>2. QED
      BY <1>1, <2>3, <3>1
  <2>7. answer' = [op |-> "save", key |-> k, err |-> "none", body |-> b]
    BY <1>1, <1>5 DEF Answer
  <2>8. b \in Bodies
    BY <2>2 DEF Document
  <2> HIDE DEF k, b, S
  <2>9. Contract!Save(k, b)
    BY <2>4, <2>5, <2>6, <2>7 DEF Contract!Save, Contract!Answer
  <2>10. QED
    BY <2>2, <2>8, <2>9 DEF Contract!Next, k
<1>6. CASE o.err # "none"
  <2>1. Contract!Refuse \/ UNCHANGED <<Dict, Mode, answer>>
    BY <1>1, <1>3, <1>4, <1>6, RefusedRefines DEF Good
  <2>2. QED
    BY <2>1 DEF Contract!Next
<1>7. QED
  BY <1>5, <1>6

LEMMA GetRefines ==
    ASSUME Session, NEW k \in Keys \cup {AnyKey}, Get(k)
    PROVE  Contract!Next \/ UNCHANGED <<Dict, Mode, answer>>
<1>1. PICK o \in GetRecord(db, k) :
          /\ db' = o.db
          /\ answer' = Answer("get", o, o.db.json.body)
          /\ UNCHANGED loaded
  BY DEF Get
<1>2. DbInv(db)
  BY DEF Session, Inv
<1>3. Shaped(db, o) /\ Untouched(db, o.db) /\ Good(db, o)
  BY <1>2, GetRecordShape, GetRecordGood
<1>4. /\ o.db.key = k
      /\ o.err = "none" =>
            /\ k \in Keys /\ db.records[k] # NoId
            /\ db.open => o.db.json = db.docs[db.records[k]]
      /\ o.err = "TEJDB0001" => k \notin Keys \/ db.records[k] = NoId
      /\ o.err \notin {"TEJDB0002", "TEJDB0004"}
  BY <1>2, GetRecordEffect
<1>5. CASE o.err = "none"
  <2> DEFINE b == db.docs[db.records[k]].body
  <2>1. db.open /\ k \in Keys
    BY <1>4, <1>5 DEF Session, Offline
  <2>2. db.records[k] \in Own(db, k)
    BY <1>2, <1>4, <1>5, IndexedIsOwn
  <2>3. b \in Dict[k]
    BY <2>1, <2>2, DictIsDictOf DEF DictOf, Under
  <2>4. answer' = [op |-> "get", key |-> k, err |-> "none", body |-> b]
    BY <1>1, <1>4, <1>5, <2>1 DEF Answer
  <2>5. Dict' = Dict /\ Mode' = Mode /\ Mode # "off"
    <3>1. db'.docs = db.docs
      BY <1>1, <1>3 DEF Untouched
    <3>2. QED
      BY <1>1, <1>3, <2>1, <3>1, SameMode DEF Dict, Stored, Mode
  <2> HIDE DEF b
  <2>6. Contract!Get(k)
    BY <2>3, <2>4, <2>5 DEF Contract!Get, Contract!Answer
  <2>7. QED
    BY <2>1, <2>6 DEF Contract!Next
<1>6. CASE o.err # "none"
  <2>1. Contract!Refuse \/ UNCHANGED <<Dict, Mode, answer>>
    BY <1>1, <1>3, <1>4, <1>6, RefusedRefines DEF Good
  <2>2. QED
    BY <2>1 DEF Contract!Next
<1>7. QED
  BY <1>5, <1>6

LEMMA DeleteRefines ==
    ASSUME Session, NEW k \in Keys \cup {AnyKey}, Delete(k)
    PROVE  Contract!Next \/ UNCHANGED <<Dict, Mode, answer>>
<1>1. PICK o \in DeleteRecord(db, k) :
          /\ db' = o.db
          /\ answer' = Answer("delete", o, db.docs[db.records[k]].body)
          /\ UNCHANGED loaded
  BY DEF Delete
<1>2. DbInv(db)
  BY DEF Session, Inv
<1>3. Shaped(db, o) /\ Good(db, o)
  BY <1>2, DeleteRecordShape, DeleteRecordGood
<1>4. /\ o.db.key = k
      /\ o.err = "none" =>
            /\ k \in Keys /\ db.records[k] # NoId
            /\ db.open => o.db.docs = [db.docs EXCEPT ![db.records[k]] = NoDoc]
            /\ ~db.open => o.db.docs = db.docs
      /\ o.err = "TEJDB0002" => k \notin Keys \/ db.records[k] = NoId
      /\ o.err \notin {"TEJDB0001", "TEJDB0004"}
  BY <1>2, DeleteRecordEffect
<1>5. CASE o.err = "none"
  <2> DEFINE i == db.records[k]
             b == db.docs[i].body
             S == Without(db, k, i)
  <2>1. db.open /\ k \in Keys
    BY <1>4, <1>5 DEF Session, Offline
  <2>2. i \in Own(db, k)
    BY <1>2, <1>4, <1>5, IndexedIsOwn
  <2>3. b \in Dict[k]
    BY <2>1, <2>2, DictIsDictOf DEF DictOf, Under
  <2>4. S \in {Dict[k], Dict[k] \ {b}}
    BY <2>1, <2>2, WithoutOne, DictIsDictOf DEF DictOf
  <2>5. Dict' = [Dict EXCEPT ![k] = S]
    <3>1. db'.docs = [db.docs EXCEPT ![i] = NoDoc]
      BY <1>1, <1>4, <1>5, <2>1
    <3>2. DictOf(db') = [DictOf(db) EXCEPT ![k] = S]
      BY <1>2, <2>1, <2>2, <3>1, EraseDict
    <3>3. Dict' = DictOf(db')
      BY DEF Dict, DictOf, Under, Own
    <3>4. QED
      BY <3>2, <3>3, DictIsDictOf
  <2>6. Mode # "off" /\ Mode' = Mode
    BY <1>1, <1>3, <2>1, SameMode DEF Mode
  <2>7. ASSUME Mode = "whole" PROVE S = {}
    <3>1. \A j \in Own(db, k) : j = i
      BY <2>7, WholeIsComplete, OwnIsIndexed
    <3>2. QED
      BY <3>1 DEF Without
  <2>8. answer' = [op |-> "delete", key |-> k, err |-> "none", body |-> b]
    BY <1>1, <1>4, <1>5 DEF Answer
  <2> HIDE DEF i, b, S
  <2>9. Contract!Delete(k)
    BY <2>3, <2>4, <2>5, <2>6, <2>7, <2>8 DEF Contract!Delete, Contract!Answer
  <2>10. QED
    BY <2>1, <2>9 DEF Contract!Next
<1>6. CASE o.err # "none"
  <2>1. Contract!Refuse \/ UNCHANGED <<Dict, Mode, answer>>
    BY <1>1, <1>3, <1>4, <1>6, RefusedRefines DEF Good
  <2>2. QED
    BY <2>1 DEF Contract!Next
<1>7. QED
  BY <1>5, <1>6

\* What is not a record operation opens or closes the dictionary at most.
LEMMA QuietRefines ==
    ASSUME Session', Quiet
    PROVE  Contract!Next
<1>1. Mode' \in {"off", "part", "whole"}
  BY DEF Mode
<1>2. Dict' = Dict
  BY DEF Quiet, Dict, Stored
<1>3. ASSUME Mode' = "whole", NEW k \in Keys, NEW b \in Dict[k], NEW c \in Dict[k]
      PROVE  b = c
  <2>1. IndexComplete(db')
    BY <1>3 DEF Session, Mirrored, Mode
  <2>2. Dict' = DictOf(db')
    BY DEF Dict, DictOf, Under, Own
  <2>3. b \in Under(db', k) /\ c \in Under(db', k)
    BY <1>2, <1>3, <2>2 DEF DictOf
  <2>4. PICK i \in Own(db', k) : b = db'.docs[i].body
    BY <2>3 DEF Under
  <2>5. PICK j \in Own(db', k) : c = db'.docs[j].body
    BY <2>3 DEF Under
  <2>6. i = j
    BY <2>1, OwnIsIndexed
  <2>7. QED
    BY <2>4, <2>5, <2>6
<1>4. Contract!SetMode
  BY <1>1, <1>2, <1>3 DEF Quiet, Contract!SetMode, Contract!Single
<1>5. QED
  BY <1>4 DEF Contract!Next

LEMMA StepRefines ==
    Session /\ Session' /\ [Next]_vars => [Contract!Next]_(Contract!vars)
<1> SUFFICES ASSUME Session, Session', [Next]_vars
             PROVE  Contract!Next \/ UNCHANGED <<Dict, Mode, answer>>
  BY DEF Contract!vars
<1>1. Inv
  BY DEF Session
<1>2. QED
  BY <1>1, InsertRefines, SaveRefines, GetRefines, DeleteRefines, OtherIsQuiet,
     QuietRefines

\* The collection is a dictionary for its callers: for any keys, documents, queries
\* and driver failures, in any order of calls, openings, searches and closings,
\* every answer is one the dictionary could give in its mode.
THEOREM StoreIsADictionary == Spec => ImplementsKeyedStore
<1>1. Init => Session
  BY InitInv, InitMirrored, InitOffline DEF Session
<1>2. Session /\ [Next]_vars => Session'
  BY StepInv, StepMirrored, StepOffline DEF Session
<1>3. QED
  BY <1>1, <1>2, InitRefines, StepRefines, PTL
     DEF Spec, ImplementsKeyedStore, Contract!Spec

=============================================================================

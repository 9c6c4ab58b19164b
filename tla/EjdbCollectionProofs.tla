------------------------ MODULE EjdbCollectionProofs ------------------------
(***************************************************************************)
(* Lemmas about the operators of EjdbCollection, for every set of keys,    *)
(* bodies, document ids and queries.  DbInv is the invariant of one        *)
(* collection; operation by operation the lemmas show that it is preserved,*)
(* which documents the operation may touch, in which of four shapes it     *)
(* changes documents and index, and what its success or refusal says.      *)
(***************************************************************************)
EXTENDS EjdbCollection, TLAPS

DbInv(d) == d \in Collection /\ IndexSound(d)

\* Documents of d2 differ from those of d only under the current key of d2.
OnKey(d, d2) ==
    \A i \in Ids : d2.docs[i] # d.docs[i] =>
        /\ d.docs[i] # NoDoc => d.docs[i].key = d2.key
        /\ d2.docs[i] # NoDoc => d2.docs[i].key = d2.key

\* What every operation guarantees of each of its outcomes.
Good(d, o) == DbInv(o.db) /\ o.err \in Error /\ OnKey(d, o.db)

-----------------------------------------------------------------------------
\* Replacing the documents and the index of a collection keeps its type.
LEMMA ReplaceParts ==
    ASSUME NEW d \in Collection,
           NEW docs \in [Ids -> Document \cup {NoDoc}],
           NEW records \in [Keys -> Ids \cup {NoId}]
    PROVE  [d EXCEPT !.docs = docs, !.records = records] \in Collection
  BY DEF Collection

\* Setting the text, the key or the query disturbs neither part of DbInv.
LEMMA SettersKeep ==
    ASSUME NEW d, DbInv(d)
    PROVE  /\ \A t \in Text : DbInv(SetJson(d, t)) /\ OnKey(d, SetJson(d, t))
           /\ \A k \in Keys \cup {AnyKey} :
                  DbInv(SetKey(d, k)) /\ OnKey(d, SetKey(d, k))
           /\ \A q \in Query : DbInv(SetQuery(d, q)) /\ OnKey(d, SetQuery(d, q))
  BY DEF DbInv, OnKey, IndexSound, Stored, Collection, SetJson, SetKey, SetQuery

\* What current_to_json returns: the documents and the index are untouched,
\* and without an error the text is a document under the current key.
LEMMA CurrentToJsonFacts ==
    ASSUME NEW d, DbInv(d), NEW pkey \in Keys \cup {AnyKey, NoKey}
    PROVE  LET c == CurrentToJson(d, pkey)
           IN  /\ DbInv(c.db)
               /\ c.err \in Error
               /\ c.db.docs = d.docs
               /\ c.err = "none" => /\ c.db.json \in Document
                                    /\ c.db.json.key = c.db.key
                                    /\ c.db.key \in Keys
<1> DEFINE k == IF pkey = NoKey THEN d.json.key ELSE pkey
<1>1. CASE d.json = Malformed
  BY <1>1 DEF CurrentToJson, Outcome, Error
<1>2. CASE d.json # Malformed
  <2>1. d.json \in [key : Keys \cup {AnyKey}, body : Bodies]
    BY <1>2 DEF DbInv, Collection, Text
  <2>2. k \in Keys \cup {AnyKey}
    BY <2>1
  <2>3. DbInv(SetKey(d, k))
    BY <2>2, SettersKeep
  <2>4. /\ SetKey(d, k).docs = d.docs
        /\ SetKey(d, k).json = d.json
        /\ SetKey(d, k).key = k
    BY DEF SetKey, DbInv, Collection
  <2>5. \/ CurrentToJson(d, pkey) = Outcome(SetKey(d, k), "KeyChanged")
        \/ CurrentToJson(d, pkey) = Outcome(SetKey(d, k), "TEJDB0010")
        \/ /\ CurrentToJson(d, pkey) = Outcome(SetKey(d, k), "none")
           /\ k = d.json.key
           /\ k # AnyKey
    BY <1>2 DEF CurrentToJson
  <2> HIDE DEF k
  <2>6. d.json.key # AnyKey => d.json \in Document
    BY <2>1 DEF Document
  <2>7. {"none", "KeyChanged", "TEJDB0010"} \subseteq Error
    BY DEF Error
  <2> DEFINE c == CurrentToJson(d, pkey)
  <2>8. c.db = SetKey(d, k) /\ c.err \in Error
    BY <2>5, <2>7 DEF Outcome
  <2>9. c.err = "none" => k = d.json.key /\ k # AnyKey
    BY <2>5 DEF Outcome
  <2> HIDE DEF c
  <2>10. /\ DbInv(c.db)
         /\ c.db.docs = d.docs
         /\ c.err = "none" => /\ c.db.json \in Document
                              /\ c.db.json.key = c.db.key
                              /\ c.db.key \in Keys
    BY <2>2, <2>3, <2>4, <2>6, <2>8, <2>9
  <2>11. QED
    BY <2>8, <2>10 DEF c
<1>3. QED
  BY <1>1, <1>2

\* Creating a document under the current key, which has no entry.
LEMMA CreateRecordGood ==
    ASSUME NEW d, DbInv(d), d.json \in Document, d.json.key = d.key,
           d.key \in Keys, NEW o \in CreateRecord(d)
    PROVE  Good(d, o)
<1>1. CASE \E i \in Ids \ Stored(d) :
             o = Outcome([d EXCEPT !.docs[i] = d.json, !.records[d.key] = i],
                         "none")
  <2>1. PICK i \in Ids \ Stored(d) :
             o = Outcome([d EXCEPT !.docs[i] = d.json, !.records[d.key] = i],
                         "none")
    BY <1>1
  <2>2. /\ o.err = "none"
        /\ o.db = [d EXCEPT !.docs[i] = d.json, !.records[d.key] = i]
    BY <2>1 DEF Outcome
  <2>3. d.docs[i] = NoDoc
    BY DEF Stored
  <2>4. o.db \in Collection
    <3> DEFINE docs    == [d.docs EXCEPT ![i] = d.json]
               records == [d.records EXCEPT ![d.key] = i]
    <3>1. o.db = [d EXCEPT !.docs = docs, !.records = records]
      BY <2>2 DEF DbInv, Collection
    <3>2. /\ docs \in [Ids -> Document \cup {NoDoc}]
          /\ records \in [Keys -> Ids \cup {NoId}]
      BY DEF DbInv, Collection
    <3>3. d \in Collection
      BY DEF DbInv
    <3> HIDE DEF docs, records
    <3>4. QED
      BY <3>1, <3>2, <3>3, ReplaceParts
  <2>5. IndexSound(o.db)
    <3>1. d.json # NoDoc
      BY EjdbConstants
    <3>2. /\ o.db.docs = [d.docs EXCEPT ![i] = d.json]
          /\ o.db.records = [d.records EXCEPT ![d.key] = i]
      BY <2>2 DEF DbInv, Collection
    <3>3. /\ d.docs \in [Ids -> Document \cup {NoDoc}]
          /\ d.records \in [Keys -> Ids \cup {NoId}]
      BY DEF DbInv, Collection
    <3>4. QED
      BY <2>3, <3>1, <3>2, <3>3 DEF DbInv, IndexSound, Stored
  <2>6. OnKey(d, o.db)
    BY <2>2, <2>3 DEF OnKey, DbInv, Collection
  <2>7. QED
    BY <2>2, <2>4, <2>5, <2>6 DEF Good, DbInv, Error
<1>2. CASE o = Outcome(d, "TEJDB0021")
  BY <1>2 DEF Good, Outcome, Error, OnKey
<1>3. QED
  BY <1>1, <1>2 DEF CreateRecord, WriteError, Failure

\* Updating the document under the current key, which has an entry.
LEMMA UpdateRecordGood ==
    ASSUME NEW d, DbInv(d), d.json \in Document, d.json.key = d.key,
           d.key \in Keys, FindRecord(d, d.key), NEW o \in UpdateRecord(d)
    PROVE  Good(d, o)
<1>1. CASE o = Outcome([d EXCEPT !.docs[d.records[d.key]] = d.json], "none")
  <2> DEFINE i == d.records[d.key]
  <2>1. i \in Ids /\ d.docs[i] # NoDoc /\ d.docs[i].key = d.key
    BY DEF DbInv, IndexSound, FindRecord, Stored
  <2>2. /\ o.err = "none"
        /\ o.db = [d EXCEPT !.docs[i] = d.json]
    BY <1>1 DEF Outcome
  <2> HIDE DEF i
  <2>3. o.db \in Collection
    BY <2>1, <2>2 DEF DbInv, Collection
  <2>4. /\ o.db.docs = [d.docs EXCEPT ![i] = d.json]
        /\ o.db.records = d.records
        /\ o.db.key = d.key
    BY <2>2 DEF DbInv, Collection
  <2>5. /\ d.docs \in [Ids -> Document \cup {NoDoc}]
        /\ d.records \in [Keys -> Ids \cup {NoId}]
    BY DEF DbInv, Collection
  <2>6. IndexSound(o.db)
    <3>1. d.json # NoDoc
      BY EjdbConstants
    <3>2. QED
      BY <2>1, <2>4, <2>5, <3>1 DEF DbInv, IndexSound, Stored
  <2>7. OnKey(d, o.db)
    BY <2>1, <2>4, <2>5 DEF OnKey
  <2>8. QED
    BY <2>2, <2>3, <2>6, <2>7 DEF Good, DbInv, Error
<1>2. CASE o = Outcome(d, "TEJDB0021")
  BY <1>2 DEF Good, Outcome, Error, OnKey
<1>3. QED
  BY <1>1, <1>2 DEF UpdateRecord, WriteError, Failure

\* The guarantee of an operation on the collection that current_to_json
\* left behind is a guarantee with respect to the one it was called on.
LEMMA GoodFromSameDocs ==
    ASSUME NEW d, NEW c, c.docs = d.docs, NEW o, Good(c, o)
    PROVE  Good(d, o)
  BY DEF Good, OnKey

LEMMA InsertRecordGood ==
    ASSUME NEW d, DbInv(d), NEW o \in InsertRecord(d)
    PROVE  Good(d, o)
<1> DEFINE c == CurrentToJson(d, NoKey)
<1>1. /\ DbInv(c.db)
      /\ c.err \in Error
      /\ c.db.docs = d.docs
      /\ c.err = "none" => /\ c.db.json \in Document
                           /\ c.db.json.key = c.db.key
                           /\ c.db.key \in Keys
  BY CurrentToJsonFacts
<1>2. o \in IF c.err # "none" THEN {c}
            ELSE IF FindRecord(c.db, c.db.key)
                 THEN {Outcome(c.db, "TEJDB0004")}
                 ELSE CreateRecord(c.db)
  BY DEF InsertRecord
<1> HIDE DEF c
<1>3. CASE o = c
  BY <1>1, <1>3 DEF Good, OnKey
<1>4. CASE o = Outcome(c.db, "TEJDB0004")
  BY <1>1, <1>4 DEF Good, OnKey, Outcome, Error
<1>5. CASE c.err = "none" /\ o \in CreateRecord(c.db)
  BY <1>1, <1>5, CreateRecordGood, GoodFromSameDocs
<1>6. QED
  BY <1>2, <1>3, <1>4, <1>5

LEMMA SaveRecordGood ==
    ASSUME NEW d, DbInv(d), NEW pkey \in Keys \cup {AnyKey, NoKey},
           NEW o \in SaveRecord(d, pkey)
    PROVE  Good(d, o)
<1> DEFINE c == CurrentToJson(d, pkey)
<1>1. /\ DbInv(c.db)
      /\ c.err \in Error
      /\ c.db.docs = d.docs
      /\ c.err = "none" => /\ c.db.json \in Document
                           /\ c.db.json.key = c.db.key
                           /\ c.db.key \in Keys
  BY CurrentToJsonFacts
<1>2. o \in IF c.err # "none" THEN {c}
            ELSE IF FindRecord(c.db, c.db.key)
                 THEN UpdateRecord(c.db)
                 ELSE CreateRecord(c.db)
  BY DEF SaveRecord
<1> HIDE DEF c
<1>3. CASE o = c
  BY <1>1, <1>3 DEF Good, OnKey
<1>4. CASE /\ c.err = "none"
           /\ FindRecord(c.db, c.db.key)
           /\ o \in UpdateRecord(c.db)
  BY <1>1, <1>4, UpdateRecordGood, GoodFromSameDocs
<1>5. CASE c.err = "none" /\ o \in CreateRecord(c.db)
  BY <1>1, <1>5, CreateRecordGood, GoodFromSameDocs
<1>6. QED
  BY <1>2, <1>3, <1>4, <1>5

LEMMA GetRecordGood ==
    ASSUME NEW d, DbInv(d), NEW k \in Keys \cup {AnyKey},
           NEW o \in GetRecord(d, k)
    PROVE  Good(d, o)
<1> DEFINE moved == SetKey(d, k)
<1>1. DbInv(moved) /\ moved.docs = d.docs
  BY SettersKeep DEF SetKey, DbInv, Collection
<1>2. moved.records = d.records
  BY DEF SetKey, DbInv, Collection
<1>3. \/ o = Outcome(moved, "TEJDB0010")
      \/ o = Outcome(moved, "TEJDB0001")
      \/ FindRecord(d, k) /\ o \in ReadRecord(moved, k)
  BY DEF GetRecord
<1> HIDE DEF moved
<1>4. CASE \E e \in Error : o = Outcome(moved, e)
  BY <1>1, <1>4 DEF Good, OnKey, Outcome
<1>5. CASE FindRecord(d, k) /\ \E t \in Text : o = Outcome(SetJson(moved, t), "none")
  <2>1. PICK t \in Text : o = Outcome(SetJson(moved, t), "none")
    BY <1>5
  <2>2. DbInv(SetJson(moved, t)) /\ OnKey(moved, SetJson(moved, t))
    BY <1>1, SettersKeep
  <2>3. Good(moved, o)
    BY <2>1, <2>2 DEF Good, Outcome, Error
  <2>4. QED
    BY <1>1, <2>3, GoodFromSameDocs
<1>6. FindRecord(d, k) => d.docs[d.records[k]] \in Text
  BY DEF FindRecord, DbInv, Collection, IndexSound, Stored, Document, Text
<1>7. EmptyText \in Text
  BY EjdbConstants DEF EmptyText, Text
<1>8. QED
  BY <1>1, <1>2, <1>3, <1>4, <1>5, <1>6, <1>7 DEF ReadRecord, Failure, Error

LEMMA EraseRecordGood ==
    ASSUME NEW d, DbInv(d), NEW k \in Keys, d.key = k, FindRecord(d, k),
           NEW o \in EraseRecord(d, k)
    PROVE  Good(d, o)
<1>1. CASE o = Outcome([d EXCEPT !.docs[d.records[k]] = IF d.open THEN NoDoc ELSE @,
                                 !.records[k] = NoId], "none")
  <2> DEFINE i == d.records[k]
  <2>1. i \in Ids /\ d.docs[i] # NoDoc /\ d.docs[i].key = k
    BY DEF DbInv, IndexSound, FindRecord, Stored
  <2>2. /\ d.docs \in [Ids -> Document \cup {NoDoc}]
        /\ d.records \in [Keys -> Ids \cup {NoId}]
    BY DEF DbInv, Collection
  <2>3. /\ o.err = "none"
        /\ o.db = [d EXCEPT !.docs[i] = IF d.open THEN NoDoc ELSE @,
                            !.records[k] = NoId]
    BY <1>1 DEF Outcome
  <2> HIDE DEF i
  <2>4. o.db \in Collection
    <3> DEFINE docs    == [d.docs EXCEPT ![i] = IF d.open THEN NoDoc ELSE @]
               records == [d.records EXCEPT ![k] = NoId]
    <3>1. o.db = [d EXCEPT !.docs = docs, !.records = records]
      BY <2>3 DEF DbInv, Collection
    <3>2. /\ docs \in [Ids -> Document \cup {NoDoc}]
          /\ records \in [Keys -> Ids \cup {NoId}]
      BY <2>1, <2>2
    <3>3. d \in Collection
      BY DEF DbInv
    <3> HIDE DEF docs, records
    <3>4. QED
      BY <3>1, <3>2, <3>3, ReplaceParts
  <2>5. /\ o.db.records = [d.records EXCEPT ![k] = NoId]
        /\ o.db.key = k
        /\ \A j \in Ids : j # i => o.db.docs[j] = d.docs[j]
        /\ o.db.docs[i] # NoDoc => o.db.docs[i] = d.docs[i]
    BY <2>1, <2>2, <2>3 DEF DbInv, Collection
  <2>6. IndexSound(o.db)
    <3> SUFFICES ASSUME NEW k2 \in Keys, o.db.records[k2] # NoId
                 PROVE  /\ o.db.records[k2] \in Stored(o.db)
                        /\ o.db.docs[o.db.records[k2]].key = k2
      BY DEF IndexSound
    <3>1. k2 # k /\ o.db.records[k2] = d.records[k2]
      BY <2>2, <2>5
    <3>2. /\ d.records[k2] \in Ids
          /\ d.docs[d.records[k2]] # NoDoc
          /\ d.docs[d.records[k2]].key = k2
      BY <3>1 DEF DbInv, IndexSound, Stored
    <3>3. d.records[k2] # i
      BY <2>1, <3>1, <3>2
    <3>4. QED
      BY <2>5, <3>1, <3>2, <3>3 DEF Stored
  <2>7. OnKey(d, o.db)
    BY <2>1, <2>5 DEF OnKey
  <2>8. QED
    BY <2>3, <2>4, <2>6, <2>7 DEF Good, DbInv, Error
<1>2. CASE o = Outcome(d, "TEJDB2024")
  BY <1>2 DEF Good, Outcome, Error, OnKey
<1>3. QED
  BY <1>1, <1>2 DEF EraseRecord, Failure

LEMMA DeleteRecordGood ==
    ASSUME NEW d, DbInv(d), NEW k \in Keys \cup {AnyKey},
           NEW o \in DeleteRecord(d, k)
    PROVE  Good(d, o)
<1> DEFINE moved == SetKey(d, k)
<1>1. DbInv(moved) /\ moved.docs = d.docs /\ moved.key = k
  BY SettersKeep DEF SetKey, DbInv, Collection
<1>2. moved.records = d.records
  BY DEF SetKey, DbInv, Collection
<1>3. \/ o = Outcome(moved, "TEJDB0010")
      \/ o = Outcome(moved, "TEJDB0002")
      \/ FindRecord(d, k) /\ o \in EraseRecord(moved, k)
  BY DEF DeleteRecord
<1> HIDE DEF moved
<1>4. CASE \E e \in Error : o = Outcome(moved, e)
  BY <1>1, <1>4 DEF Good, OnKey, Outcome
<1>5. CASE FindRecord(d, k) /\ o \in EraseRecord(moved, k)
  <2>1. k \in Keys /\ FindRecord(moved, k)
    BY <1>2, <1>5 DEF FindRecord
  <2>2. Good(moved, o)
    BY <1>1, <1>5, <2>1, EraseRecordGood
  <2>3. QED
    BY <1>1, <2>2, GoodFromSameDocs
<1>6. QED
  BY <1>3, <1>4, <1>5 DEF Error

-----------------------------------------------------------------------------
(* Loading and dropping the index changes no document.                     *)

\* An empty index is sound.
LEMMA CloseDBKeeps ==
    ASSUME NEW d, DbInv(d)
    PROVE  /\ DbInv(CloseDB(d)) /\ CloseDB(d).docs = d.docs
           /\ DbInv(Disconnect(d)) /\ Disconnect(d).docs = d.docs
  BY DEF DbInv, Collection, IndexSound, CloseDB, Disconnect, EmptyIndex

LEMMA ConnectKeeps ==
    ASSUME NEW d, DbInv(d)
    PROVE  DbInv(Connect(d)) /\ Connect(d).docs = d.docs
  BY DEF DbInv, Collection, IndexSound, Stored, Connect

\* The index over any set of stored documents is sound.
LEMMA LoadKeeps ==
    ASSUME NEW d, DbInv(d), NEW S \in SUBSET Stored(d), NEW i \in Stored(d)
    PROVE  DbInv(Load(d, S, i)) /\ Load(d, S, i).docs = d.docs
<1> DEFINE ix == IndexOf(d, S)
<1>1. \A k \in Keys : \/ ix[k] = NoId
                      \/ ix[k] \in S /\ d.docs[ix[k]].key = k
  BY DEF IndexOf
<1>2. S \subseteq Ids /\ i \in Ids
  BY DEF Stored
<1>3. ix \in [Keys -> Ids \cup {NoId}]
  BY <1>2 DEF IndexOf
<1>4. d.docs[i].key \in Keys
  BY DEF Stored, DbInv, Collection, Document
<1> HIDE DEF ix
<1>5. Load(d, S, i) = [d EXCEPT !.records = ix, !.key = d.docs[i].key]
  BY DEF Load, ix
<1>6. Load(d, S, i).docs = d.docs /\ Load(d, S, i).records = ix
  BY <1>5 DEF DbInv, Collection
<1>7. Load(d, S, i) \in Collection
  BY <1>3, <1>4, <1>5 DEF DbInv, Collection
<1>8. IndexSound(Load(d, S, i))
  BY <1>1, <1>6 DEF IndexSound, Stored
<1>9. QED
  BY <1>6, <1>7, <1>8 DEF DbInv

LEMMA OpenDBKeeps ==
    ASSUME NEW d, DbInv(d), NEW o \in OpenDB(d)
    PROVE  DbInv(o.db) /\ o.err \in Error /\ o.db.docs = d.docs
<1>1. CASE \E e \in Error : o = Outcome(CloseDB(d), e)
  BY <1>1, CloseDBKeeps DEF Outcome
<1>2. CASE \E S \in SUBSET Stored(d), i \in Stored(d), e \in Error :
             o = Outcome(Load(d, S, i), e)
  BY <1>2, LoadKeeps DEF Outcome
<1>3. Selected(d) \subseteq Stored(d)
  BY DEF Selected
<1>4. \A p \in StoppedLoads(d) : p[1] \in SUBSET Stored(d) /\ p[2] \in Stored(d)
  BY <1>3 DEF StoppedLoads
<1>5. QED
  BY <1>1, <1>2, <1>3, <1>4 DEF OpenDB, Failure, Error

LEMMA OpenEJDBKeeps ==
    ASSUME NEW d, DbInv(d), NEW o \in OpenEJDB(d)
    PROVE  DbInv(o.db) /\ o.db.docs = d.docs
<1>1. CASE o \in OpenDB(Connect(Disconnect(d)))
  BY <1>1, CloseDBKeeps, ConnectKeeps, OpenDBKeeps
<1>2. CASE o = Outcome(Disconnect(d), "EJDB2 storage handle")
  BY <1>2, CloseDBKeeps DEF Outcome
<1>3. QED
  BY <1>1, <1>2 DEF OpenEJDB

-----------------------------------------------------------------------------
(* What the answers carry.                                                 *)

\* After a record was inserted, saved or read the text is a document's.
LEMMA WrittenText ==
    ASSUME NEW d, DbInv(d), NEW pkey \in Keys \cup {AnyKey, NoKey},
           NEW o \in InsertRecord(d) \cup SaveRecord(d, pkey), o.err = "none"
    PROVE  o.db.json.body \in Bodies
<1> SUFFICES ASSUME NEW q \in Keys \cup {AnyKey, NoKey},
                    CurrentToJson(d, q).err = "none",
                    o \in CreateRecord(CurrentToJson(d, q).db)
                          \cup UpdateRecord(CurrentToJson(d, q).db)
             PROVE  o.db.json.body \in Bodies
  BY DEF InsertRecord, SaveRecord, Outcome
<1> DEFINE c == CurrentToJson(d, q).db
<1>1. c \in Collection /\ c.json \in Document
  BY CurrentToJsonFacts DEF DbInv
<1>2. o \in CreateRecord(c) \cup UpdateRecord(c)
  OBVIOUS
<1> HIDE DEF c
<1>3. \/ \E docs, records : o.db = [c EXCEPT !.docs = docs, !.records = records]
      \/ o.db = c
  <2>1. ASSUME NEW i, o = Outcome([c EXCEPT !.docs[i] = c.json,
                                            !.records[c.key] = i], "none")
        PROVE  o.db = [c EXCEPT !.docs = [c.docs EXCEPT ![i] = c.json],
                                !.records = [c.records EXCEPT ![c.key] = i]]
    BY <1>1, <2>1 DEF Outcome, Collection
  <2>2. ASSUME o = Outcome([c EXCEPT !.docs[c.records[c.key]] = c.json], "none")
        PROVE  o.db = [c EXCEPT !.docs = [c.docs EXCEPT ![c.records[c.key]] = c.json],
                                !.records = c.records]
    BY <1>1, <2>2 DEF Outcome, Collection
  <2>3. CASE o = Outcome(c, "TEJDB0021")
    BY <2>3 DEF Outcome
  <2>4. QED
    BY <1>2, <2>1, <2>2, <2>3, Zenon
       DEF CreateRecord, UpdateRecord, WriteError, Failure
<1>4. o.db.json = c.json
  BY <1>1, <1>3 DEF Collection
<1>5. QED
  BY <1>1, <1>4 DEF Document

LEMMA ReadText ==
    ASSUME NEW d, DbInv(d), NEW k \in Keys \cup {AnyKey},
           NEW o \in GetRecord(d, k), o.err = "none"
    PROVE  o.db.json.body \in Bodies
<1>1. FindRecord(d, k) /\ o \in ReadRecord(SetKey(d, k), k)
  BY DEF GetRecord, Outcome
<1>2. d.docs[d.records[k]] \in Document
  BY <1>1 DEF FindRecord, DbInv, Collection, IndexSound, Stored
<1> DEFINE moved == SetKey(d, k)
<1>3. /\ moved \in Collection
      /\ moved.docs = d.docs
      /\ moved.records = d.records
  BY SettersKeep DEF SetKey, DbInv, Collection
<1> HIDE DEF moved
<1>4. \E t \in {d.docs[d.records[k]], EmptyText} :
        o = Outcome(SetJson(moved, t), "none")
  BY <1>1, <1>3 DEF moved, ReadRecord, Failure, Outcome
<1>5. o.db.json = d.docs[d.records[k]] \/ o.db.json = EmptyText
  BY <1>3, <1>4 DEF SetJson, Outcome, Collection
<1>6. QED
  BY <1>2, <1>5, EjdbConstants DEF Document, EmptyText

LEMMA DeletedText ==
    ASSUME NEW d, DbInv(d), NEW k \in Keys \cup {AnyKey},
           NEW o \in DeleteRecord(d, k), o.err = "none"
    PROVE  d.docs[d.records[k]].body \in Bodies
<1>1. FindRecord(d, k)
  BY DEF DeleteRecord, Outcome
<1>2. d.docs[d.records[k]] \in Document
  BY <1>1 DEF FindRecord, DbInv, Collection, IndexSound, Stored
<1>3. QED
  BY <1>2 DEF Document

-----------------------------------------------------------------------------
(* Collections at the start.                                               *)

LEMMA NewCollectionSound ==
    ASSUME NEW docs \in [Ids -> Document \cup {NoDoc}]
    PROVE  DbInv(NewCollection(docs))
<1>1. NewCollection(docs) \in Collection
  BY EjdbConstants DEF NewCollection, Collection, EmptyIndex, EmptyText, Text,
                       AllDocuments, Query
<1>2. IndexSound(NewCollection(docs))
  BY DEF IndexSound, NewCollection, EmptyIndex
<1>3. QED
  BY <1>1, <1>2 DEF DbInv

-----------------------------------------------------------------------------
(* What an operation does to documents and index, in four shapes.          *)

Untouched(d, e) == e.docs = d.docs /\ e.records = d.records

Created(d, e) ==
    \E i \in Ids \ Stored(d), t \in Document :
        /\ d.open
        /\ d.records[t.key] = NoId
        /\ e.docs = [d.docs EXCEPT ![i] = t]
        /\ e.records = [d.records EXCEPT ![t.key] = i]

Updated(d, e) ==
    \E t \in Document :
        /\ d.records[t.key] # NoId
        /\ e.docs = [d.docs EXCEPT ![d.records[t.key]] = t]
        /\ e.records = d.records

Erased(d, e) ==
    \E k \in Keys :
        /\ d.records[k] # NoId
        /\ e.docs = IF d.open THEN [d.docs EXCEPT ![d.records[k]] = NoDoc]
                              ELSE d.docs
        /\ e.records = [d.records EXCEPT ![k] = NoId]

SameSession(d, e) == e.open = d.open /\ e.jql = d.jql

Shaped(d, o) ==
    /\ SameSession(d, o.db)
    /\ \/ Untouched(d, o.db)
       \/ /\ o.err = "none"
          /\ Created(d, o.db) \/ Updated(d, o.db) \/ Erased(d, o.db)

-----------------------------------------------------------------------------
\* A copy of d with another text and another current key.
Twin(d, c) == /\ c \in Collection
              /\ c.docs = d.docs
              /\ c.records = d.records
              /\ c.open = d.open
              /\ c.jql = d.jql

LEMMA CurrentToJsonTwin ==
    ASSUME NEW d, DbInv(d), NEW pkey \in Keys \cup {AnyKey, NoKey}
    PROVE  Twin(d, CurrentToJson(d, pkey).db)
<1>1. CurrentToJson(d, pkey).db \in Collection
  BY CurrentToJsonFacts DEF DbInv
<1>2. \/ CurrentToJson(d, pkey).db = d
      \/ \E k : CurrentToJson(d, pkey).db = SetKey(d, k)
  BY DEF CurrentToJson, Outcome
<1>3. QED
  BY <1>1, <1>2 DEF Twin, SetKey, DbInv, Collection

LEMMA CreateRecordShape ==
    ASSUME NEW d, NEW c, Twin(d, c), c.json \in Document, c.json.key = c.key,
           ~FindRecord(c, c.key), NEW o \in CreateRecord(c)
    PROVE  Shaped(d, o)
<1>1. ASSUME NEW i \in Ids \ Stored(c), c.open,
             o = Outcome([c EXCEPT !.docs[i] = c.json, !.records[c.key] = i], "none")
      PROVE  Shaped(d, o)
  <2>1. /\ o.err = "none"
        /\ o.db.docs = [d.docs EXCEPT ![i] = c.json]
        /\ o.db.records = [d.records EXCEPT ![c.key] = i]
        /\ o.db.open = d.open
        /\ o.db.jql = d.jql
    BY <1>1 DEF Outcome, Twin, Collection
  <2>2. /\ d.records[c.json.key] = NoId
        /\ o.db.records = [d.records EXCEPT ![c.json.key] = i]
    BY <2>1 DEF FindRecord, Document, Twin
  <2>3. i \in Ids \ Stored(d) /\ d.open
    BY <1>1 DEF Stored, Twin
  <2>4. Created(d, o.db)
    <3> DEFINE t == c.json
    <3>1. t \in Document
      OBVIOUS
    <3>2. /\ d.records[t.key] = NoId
          /\ o.db.docs = [d.docs EXCEPT ![i] = t]
          /\ o.db.records = [d.records EXCEPT ![t.key] = i]
      BY <2>1, <2>2
    <3> HIDE DEF t
    <3>3. QED
      BY <2>3, <3>1, <3>2 DEF Created
  <2>5. QED
    BY <2>1, <2>4 DEF Shaped, SameSession
<1>2. CASE o = Outcome(c, "TEJDB0021")
  BY <1>2 DEF Outcome, Shaped, SameSession, Untouched, Twin
<1>3. QED
  BY <1>1, <1>2 DEF CreateRecord, WriteError, Failure

LEMMA UpdateRecordShape ==
    ASSUME NEW d, NEW c, Twin(d, c), c.json \in Document, c.json.key = c.key,
           FindRecord(c, c.key), NEW o \in UpdateRecord(c)
    PROVE  Shaped(d, o)
<1>1. CASE o = Outcome([c EXCEPT !.docs[c.records[c.key]] = c.json], "none")
  <2>1. /\ o.err = "none"
        /\ o.db.docs = [d.docs EXCEPT ![d.records[c.key]] = c.json]
        /\ o.db.records = d.records
        /\ o.db.open = d.open
        /\ o.db.jql = d.jql
    BY <1>1 DEF Outcome, Twin, Collection
  <2>2. d.records[c.json.key] # NoId
    BY DEF FindRecord, Twin
  <2>3. Updated(d, o.db)
    BY <2>1, <2>2 DEF Updated
  <2>4. QED
    BY <2>1, <2>3 DEF Shaped, SameSession
<1>2. CASE o = Outcome(c, "TEJDB0021")
  BY <1>2 DEF Outcome, Shaped, SameSession, Untouched, Twin
<1>3. QED
  BY <1>1, <1>2 DEF UpdateRecord, WriteError, Failure

LEMMA WriteShape ==
    ASSUME NEW d, DbInv(d), NEW pkey \in Keys \cup {AnyKey, NoKey},
           NEW o \in InsertRecord(d) \cup SaveRecord(d, pkey)
    PROVE  Shaped(d, o)
<1> SUFFICES ASSUME NEW q \in Keys \cup {AnyKey, NoKey},
                    LET c == CurrentToJson(d, q)
                    IN  \/ o = c /\ c.err # "none"
                        \/ o = Outcome(c.db, "TEJDB0004")
                        \/ /\ c.err = "none"
                           /\ FindRecord(c.db, c.db.key)
                           /\ o \in UpdateRecord(c.db)
                        \/ /\ c.err = "none"
                           /\ ~FindRecord(c.db, c.db.key)
                           /\ o \in CreateRecord(c.db)
             PROVE  Shaped(d, o)
  BY DEF InsertRecord, SaveRecord
<1> DEFINE c == CurrentToJson(d, q)
<1>1. /\ Twin(d, c.db)
      /\ c.err = "none" => c.db.json \in Document /\ c.db.json.key = c.db.key
  BY CurrentToJsonTwin, CurrentToJsonFacts
<1> HIDE DEF c
<1>2. CASE o = c \/ o = Outcome(c.db, "TEJDB0004")
  BY <1>1, <1>2 DEF Outcome, Shaped, SameSession, Untouched, Twin
<1>3. CASE c.err = "none" /\ FindRecord(c.db, c.db.key) /\ o \in UpdateRecord(c.db)
  BY <1>1, <1>3, UpdateRecordShape
<1>4. CASE c.err = "none" /\ ~FindRecord(c.db, c.db.key) /\ o \in CreateRecord(c.db)
  BY <1>1, <1>4, CreateRecordShape
<1>5. QED
  BY <1>2, <1>3, <1>4 DEF c

LEMMA GetRecordShape ==
    ASSUME NEW d, DbInv(d), NEW k \in Keys \cup {AnyKey}, NEW o \in GetRecord(d, k)
    PROVE  Shaped(d, o) /\ Untouched(d, o.db)
<1>1. \/ \E e : o = Outcome(SetKey(d, k), e)
      \/ \E t : o = Outcome(SetJson(SetKey(d, k), t), "none")
  BY DEF GetRecord, ReadRecord, Failure
<1>2. ASSUME NEW c, NEW e, Twin(d, c), o = Outcome(c, e)
      PROVE  Shaped(d, o) /\ Untouched(d, o.db)
  BY <1>2 DEF Outcome, Shaped, SameSession, Untouched, Twin
<1>3. Twin(d, SetKey(d, k))
  BY SettersKeep DEF Twin, SetKey, DbInv, Collection
<1>4. CASE \E e : o = Outcome(SetKey(d, k), e)
  BY <1>2, <1>3, <1>4
<1>5. CASE \E t : o = Outcome(SetJson(SetKey(d, k), t), "none")
  <2>1. PICK t : o = Outcome(SetJson(SetKey(d, k), t), "none")
    BY <1>5
  <2> DEFINE c == SetKey(d, k)
  <2>2. Twin(d, c)
    BY <1>3
  <2> HIDE DEF c
  <2>3. /\ SetJson(c, t).docs = d.docs
        /\ SetJson(c, t).records = d.records
        /\ SetJson(c, t).open = d.open
        /\ SetJson(c, t).jql = d.jql
    BY <2>2 DEF Twin, SetJson, Collection
  <2>4. QED
    BY <2>1, <2>3 DEF c, Outcome, Shaped, SameSession, Untouched
<1>6. QED
  BY <1>1, <1>4, <1>5

LEMMA DeleteRecordShape ==
    ASSUME NEW d, DbInv(d), NEW k \in Keys \cup {AnyKey}, NEW o \in DeleteRecord(d, k)
    PROVE  Shaped(d, o)
<1> DEFINE c == SetKey(d, k)
<1>1. Twin(d, c)
  BY SettersKeep DEF Twin, SetKey, DbInv, Collection
<1>2. \/ \E e : o = Outcome(c, e)
      \/ FindRecord(d, k) /\ o \in EraseRecord(c, k)
  BY DEF DeleteRecord
<1> HIDE DEF c
<1>3. CASE \E e : o = Outcome(c, e)
  BY <1>1, <1>3 DEF Outcome, Shaped, SameSession, Untouched, Twin
<1>4. CASE FindRecord(d, k) /\ o = Outcome(
             [c EXCEPT !.docs[c.records[k]] = IF c.open THEN NoDoc ELSE @,
                       !.records[k] = NoId], "none")
  <2>1. /\ o.err = "none"
        /\ o.db.docs = [d.docs EXCEPT ![d.records[k]] = IF d.open THEN NoDoc ELSE @]
        /\ o.db.records = [d.records EXCEPT ![k] = NoId]
        /\ o.db.open = d.open
        /\ o.db.jql = d.jql
    BY <1>1, <1>4 DEF Outcome, Twin, Collection
  <2>2. k \in Keys /\ d.records[k] # NoId
    BY <1>4 DEF FindRecord
  <2>3. o.db.docs = IF d.open THEN [d.docs EXCEPT ![d.records[k]] = NoDoc] ELSE d.docs
    BY <1>1, <2>1 DEF Twin, Collection
  <2>4. Erased(d, o.db)
    BY <2>1, <2>2, <2>3 DEF Erased
  <2>5. QED
    BY <2>1, <2>4 DEF Shaped, SameSession
<1>5. QED
  BY <1>2, <1>3, <1>4 DEF EraseRecord, Failure

-----------------------------------------------------------------------------
(* What the shapes preserve.                                               *)

\* With a complete index no shaped effect makes two documents share a key.
LEMMA ShapeKeepsDistinct ==
    ASSUME NEW d, DbInv(d), DistinctKeys(d, Stored(d)), NEW o, Shaped(d, o),
           d.open => IndexComplete(d)
    PROVE  DistinctKeys(o.db, Stored(o.db))
<1> DEFINE e == o.db
<1>0. /\ d.docs \in [Ids -> Document \cup {NoDoc}]
      /\ d.records \in [Keys -> Ids \cup {NoId}]
      /\ NoDoc \notin Document
      /\ \A t \in Document : t.key \in Keys
  BY EjdbConstants DEF DbInv, Collection, Document
<1>1. CASE e.docs = d.docs
  BY <1>1 DEF DistinctKeys, Stored
<1>2. CASE Created(d, e)
  <2>1. PICK i \in Ids \ Stored(d), t \in Document :
             /\ d.open
             /\ d.records[t.key] = NoId
             /\ e.docs = [d.docs EXCEPT ![i] = t]
    BY <1>2 DEF Created
  <2>2. \A j \in Stored(d) : d.docs[j].key # t.key
    BY <2>1, EjdbConstants DEF IndexComplete, Stored
  <2>3. QED
    BY <1>0, <2>1, <2>2 DEF DistinctKeys, Stored
<1>3. CASE Updated(d, e)
  <2>1. PICK t \in Document :
             /\ d.records[t.key] # NoId
             /\ e.docs = [d.docs EXCEPT ![d.records[t.key]] = t]
    BY <1>3 DEF Updated
  <2> DEFINE i == d.records[t.key]
  <2>2. i \in Stored(d) /\ d.docs[i].key = t.key
    BY <1>0, <2>1 DEF DbInv, IndexSound
  <2> HIDE DEF i
  <2>3. QED
    BY <1>0, <2>1, <2>2 DEF DistinctKeys, Stored, i
<1>4. CASE Erased(d, e)
  <2>1. PICK k \in Keys :
             /\ d.records[k] # NoId
             /\ e.docs = IF d.open THEN [d.docs EXCEPT ![d.records[k]] = NoDoc]
                                   ELSE d.docs
    BY <1>4 DEF Erased
  <2>2. \A j \in Ids : e.docs[j] = d.docs[j] \/ e.docs[j] = NoDoc
    BY <1>0, <2>1
  <2>3. QED
    BY <2>2 DEF DistinctKeys, Stored
<1>5. QED
  BY <1>1, <1>2, <1>3, <1>4 DEF Shaped, Untouched

\* A shaped effect keeps a complete index complete.
LEMMA ShapeKeepsComplete ==
    ASSUME NEW d, DbInv(d), NEW o, Shaped(d, o), d.open, IndexComplete(d)
    PROVE  IndexComplete(o.db)
<1> DEFINE e == o.db
<1>0. /\ d.docs \in [Ids -> Document \cup {NoDoc}]
      /\ d.records \in [Keys -> Ids \cup {NoId}]
      /\ NoDoc \notin Document /\ NoId \notin Ids
      /\ \A t \in Document : t.key \in Keys
  BY EjdbConstants DEF DbInv, Collection, Document
<1>1. CASE Untouched(d, e)
  BY <1>1 DEF Untouched, IndexComplete, Stored
<1>2. CASE Created(d, e)
  BY <1>0, <1>2 DEF Created, IndexComplete, Stored
<1>3. CASE Updated(d, e)
  <2>1. PICK t \in Document :
             /\ d.records[t.key] # NoId
             /\ e.docs = [d.docs EXCEPT ![d.records[t.key]] = t]
             /\ e.records = d.records
    BY <1>3 DEF Updated
  <2>2. QED
    BY <1>0, <2>1 DEF IndexComplete, Stored
<1>4. CASE Erased(d, e)
  <2>1. PICK k \in Keys :
             /\ d.records[k] # NoId
             /\ e.docs = [d.docs EXCEPT ![d.records[k]] = NoDoc]
             /\ e.records = [d.records EXCEPT ![k] = NoId]
    BY <1>4 DEF Erased
  <2> DEFINE i == d.records[k]
  <2>2. i \in Ids /\ d.docs[i].key = k
    BY <1>0, <2>1 DEF DbInv, IndexSound
  <2>3. ASSUME NEW j \in Stored(e)
        PROVE  e.records[e.docs[j].key] = j
    <3>1. j # i /\ j \in Stored(d) /\ e.docs[j] = d.docs[j]
      BY <1>0, <2>1, <2>2 DEF Stored
    <3>2. d.records[d.docs[j].key] = j
      BY <3>1 DEF IndexComplete
    <3>3. d.docs[j].key # k
      BY <3>1, <3>2
    <3>4. d.docs[j].key \in Keys
      BY <1>0, <3>1 DEF Stored
    <3>5. QED
      BY <1>0, <2>1, <3>1, <3>2, <3>3, <3>4
  <2>4. QED
    BY <2>3 DEF IndexComplete
<1>5. QED
  BY <1>1, <1>2, <1>3, <1>4 DEF Shaped

-----------------------------------------------------------------------------
(* What an answered operation did, and what a refused one says.            *)

\* The text is written into one document, of those with an id in S.
Puts(d, e, S) ==
    /\ e.json \in Document
    /\ e.json.key = e.key
    /\ \E i \in S : e.docs = [d.docs EXCEPT ![i] = e.json]

Free(d) == Ids \ Stored(d)

Own(d, k) == {i \in Stored(d) : d.docs[i].key = k}

LEMMA CreateRecordEffect ==
    ASSUME NEW c, DbInv(c), c.json \in Document, c.json.key = c.key,
           NEW o \in CreateRecord(c)
    PROVE  /\ o.err \in {"none", "TEJDB0021"}
           /\ o.db.key = c.key
           /\ o.err = "none" => c.open /\ Puts(c, o.db, Free(c))
<1>1. ASSUME NEW i \in Ids \ Stored(c), c.open,
             o = Outcome([c EXCEPT !.docs[i] = c.json, !.records[c.key] = i], "none")
      PROVE  o.err = "none" /\ o.db.key = c.key /\ Puts(c, o.db, Free(c))
  <2>1. /\ o.err = "none" /\ o.db.key = c.key /\ o.db.json = c.json
        /\ o.db.docs = [c.docs EXCEPT ![i] = c.json]
    BY <1>1 DEF Outcome, DbInv, Collection
  <2>2. QED
    BY <2>1 DEF Puts, Free
<1>2. CASE o = Outcome(c, "TEJDB0021")
  BY <1>2 DEF Outcome
<1>3. QED
  BY <1>1, <1>2 DEF CreateRecord, WriteError, Failure

LEMMA UpdateRecordEffect ==
    ASSUME NEW c, DbInv(c), c.json \in Document, c.json.key = c.key,
           FindRecord(c, c.key), NEW o \in UpdateRecord(c)
    PROVE  /\ o.err \in {"none", "TEJDB0021"}
           /\ o.db.key = c.key
           /\ o.err = "none" => c.open /\ Puts(c, o.db, Own(c, c.key))
<1>1. CASE c.open /\ o = Outcome([c EXCEPT !.docs[c.records[c.key]] = c.json], "none")
  <2> DEFINE i == c.records[c.key]
  <2>1. i \in Own(c, c.key)
    BY DEF DbInv, IndexSound, FindRecord, Own
  <2>2. /\ o.err = "none" /\ o.db.key = c.key /\ o.db.json = c.json
        /\ o.db.docs = [c.docs EXCEPT ![i] = c.json]
    BY <1>1 DEF Outcome, DbInv, Collection
  <2> HIDE DEF i
  <2>3. QED
    BY <1>1, <2>1, <2>2 DEF Puts
<1>2. CASE o = Outcome(c, "TEJDB0021")
  BY <1>2 DEF Outcome
<1>3. QED
  BY <1>1, <1>2 DEF UpdateRecord, WriteError, Failure

\* An insert that succeeds found no entry; one that is refused because the
\* record exists found one.
LEMMA InsertRecordEffect ==
    ASSUME NEW d, DbInv(d), NEW o \in InsertRecord(d)
    PROVE  /\ o.err = "none" =>
                 /\ d.open
                 /\ o.db.key \in Keys
                 /\ d.records[o.db.key] = NoId
                 /\ Puts(d, o.db, Free(d))
           /\ o.err = "TEJDB0004" =>
                 o.db.key \in Keys /\ d.records[o.db.key] # NoId
           /\ o.err \notin {"TEJDB0001", "TEJDB0002"}
<1> DEFINE c == CurrentToJson(d, NoKey)
<1>1. /\ DbInv(c.db)
      /\ Twin(d, c.db)
      /\ c.err = "none" => /\ c.db.json \in Document
                           /\ c.db.json.key = c.db.key
                           /\ c.db.key \in Keys
  BY CurrentToJsonFacts, CurrentToJsonTwin
<1>2. c.err \in {"none", "E01JSon", "KeyChanged", "TEJDB0010"}
  BY DEF CurrentToJson, Outcome
<1>3. o \in IF c.err # "none" THEN {c}
            ELSE IF FindRecord(c.db, c.db.key)
                 THEN {Outcome(c.db, "TEJDB0004")}
                 ELSE CreateRecord(c.db)
  BY DEF InsertRecord
<1> HIDE DEF c
<1>4. CASE c.err # "none"
  BY <1>2, <1>3, <1>4
<1>5. CASE c.err = "none" /\ FindRecord(c.db, c.db.key)
  BY <1>1, <1>3, <1>5 DEF FindRecord, Outcome, Twin
<1>6. CASE c.err = "none" /\ ~FindRecord(c.db, c.db.key)
  <2>1. o \in CreateRecord(c.db)
    BY <1>3, <1>6
  <2>2. /\ o.err \in {"none", "TEJDB0021"}
        /\ o.db.key = c.db.key
        /\ o.err = "none" => c.db.open /\ Puts(c.db, o.db, Free(c.db))
    BY <1>1, <1>6, <2>1, CreateRecordEffect
  <2>3. QED
    BY <1>1, <1>6, <2>2 DEF FindRecord, Twin, Puts, Free, Stored
<1>7. QED
  BY <1>4, <1>5, <1>6

\* A save that succeeds writes the text into a new document or one of its key, and
\* none is refused with an error about the presence of a record.
LEMMA SaveRecordEffect ==
    ASSUME NEW d, DbInv(d), NEW pkey \in Keys \cup {AnyKey, NoKey},
           NEW o \in SaveRecord(d, pkey)
    PROVE  /\ o.err = "none" =>
                 /\ d.open
                 /\ o.db.key \in Keys
                 /\ \/ Puts(d, o.db, Free(d))
                    \/ Puts(d, o.db, Own(d, o.db.key))
           /\ o.err \notin {"TEJDB0001", "TEJDB0002", "TEJDB0004"}
<1> DEFINE c == CurrentToJson(d, pkey)
<1>1. /\ DbInv(c.db)
      /\ Twin(d, c.db)
      /\ c.err = "none" => /\ c.db.json \in Document
                           /\ c.db.json.key = c.db.key
                           /\ c.db.key \in Keys
  BY CurrentToJsonFacts, CurrentToJsonTwin
<1>2. c.err \in {"none", "E01JSon", "KeyChanged", "TEJDB0010"}
  BY DEF CurrentToJson, Outcome
<1>3. o \in IF c.err # "none" THEN {c}
            ELSE IF FindRecord(c.db, c.db.key)
                 THEN UpdateRecord(c.db)
                 ELSE CreateRecord(c.db)
  BY DEF SaveRecord
<1> HIDE DEF c
<1>4. CASE c.err # "none"
  BY <1>2, <1>3, <1>4
<1>5. CASE c.err = "none"
  <2>1. /\ o.err \in {"none", "TEJDB0021"}
        /\ o.db.key = c.db.key
        /\ o.err = "none" =>
              /\ c.db.open
              /\ \/ Puts(c.db, o.db, Free(c.db))
                 \/ Puts(c.db, o.db, Own(c.db, c.db.key))
    BY <1>1, <1>3, <1>5, CreateRecordEffect, UpdateRecordEffect
  <2>2. QED
    BY <1>1, <1>5, <2>1 DEF Twin, Puts, Free, Own, Stored
<1>6. QED
  BY <1>4, <1>5

\* A read that succeeds on an open project is of the document of the entry.
LEMMA GetRecordEffect ==
    ASSUME NEW d, DbInv(d), NEW k \in Keys \cup {AnyKey}, NEW o \in GetRecord(d, k)
    PROVE  /\ o.db.key = k
           /\ o.err = "none" =>
                 /\ k \in Keys /\ d.records[k] # NoId
                 /\ d.open => o.db.json = d.docs[d.records[k]]
           /\ o.err = "TEJDB0001" => k \notin Keys \/ d.records[k] = NoId
           /\ o.err \notin {"TEJDB0002", "TEJDB0004"}
<1> DEFINE c == SetKey(d, k)
<1>1. /\ c \in Collection /\ c.key = k /\ c.docs = d.docs
      /\ c.records = d.records /\ c.open = d.open
  BY SettersKeep DEF SetKey, DbInv, Collection
<1>2. \/ o = Outcome(c, "TEJDB0010")
      \/ o = Outcome(c, "TEJDB0001") /\ ~FindRecord(d, k)
      \/ FindRecord(d, k) /\ o \in ReadRecord(c, k)
  BY DEF GetRecord
<1> HIDE DEF c
<1>3. CASE o = Outcome(c, "TEJDB0010")
  BY <1>1, <1>3 DEF Outcome
<1>4. CASE o = Outcome(c, "TEJDB0001") /\ ~FindRecord(d, k)
  BY <1>1, <1>4 DEF Outcome, FindRecord
<1>5. CASE FindRecord(d, k) /\ o = Outcome(c, "TEJDB2025")
  BY <1>1, <1>5 DEF Outcome
<1>6. ASSUME NEW t, FindRecord(d, k), o = Outcome(SetJson(c, t), "none"),
             d.open => t = d.docs[d.records[k]]
      PROVE  /\ o.db.key = k /\ o.err = "none"
             /\ k \in Keys /\ d.records[k] # NoId
             /\ d.open => o.db.json = d.docs[d.records[k]]
  BY <1>1, <1>6 DEF Outcome, SetJson, Collection, FindRecord
<1>7. QED
  BY <1>1, <1>2, <1>3, <1>4, <1>5, <1>6 DEF ReadRecord, Failure

\* A deletion that succeeds on an open project takes the document of the entry.
LEMMA DeleteRecordEffect ==
    ASSUME NEW d, DbInv(d), NEW k \in Keys \cup {AnyKey}, NEW o \in DeleteRecord(d, k)
    PROVE  /\ o.db.key = k
           /\ o.err = "none" =>
                 /\ k \in Keys /\ d.records[k] # NoId
                 /\ d.open => o.db.docs = [d.docs EXCEPT ![d.records[k]] = NoDoc]
                 /\ ~d.open => o.db.docs = d.docs
           /\ o.err = "TEJDB0002" => k \notin Keys \/ d.records[k] = NoId
           /\ o.err \notin {"TEJDB0001", "TEJDB0004"}
<1> DEFINE c == SetKey(d, k)
<1>1. /\ c \in Collection /\ c.key = k /\ c.docs = d.docs
      /\ c.records = d.records /\ c.open = d.open
  BY SettersKeep DEF SetKey, DbInv, Collection
<1>2. \/ o = Outcome(c, "TEJDB0010")
      \/ o = Outcome(c, "TEJDB0002") /\ ~FindRecord(d, k)
      \/ FindRecord(d, k) /\ o \in EraseRecord(c, k)
  BY DEF DeleteRecord
<1> HIDE DEF c
<1>3. CASE o = Outcome(c, "TEJDB0010")
  BY <1>1, <1>3 DEF Outcome
<1>4. CASE o = Outcome(c, "TEJDB0002") /\ ~FindRecord(d, k)
  BY <1>1, <1>4 DEF Outcome, FindRecord
<1>5. CASE FindRecord(d, k) /\ o = Outcome(c, "TEJDB2024")
  BY <1>1, <1>5 DEF Outcome
<1>6. CASE FindRecord(d, k) /\ o = Outcome(
             [c EXCEPT !.docs[c.records[k]] = IF c.open THEN NoDoc ELSE @,
                       !.records[k] = NoId], "none")
  <2>1. /\ o.err = "none" /\ o.db.key = k
        /\ o.db.docs = [d.docs EXCEPT ![d.records[k]] = IF d.open THEN NoDoc ELSE @]
    BY <1>1, <1>6 DEF Outcome, Collection
  <2>2. ~d.open => o.db.docs = d.docs
    BY <2>1 DEF DbInv, Collection
  <2>3. QED
    BY <1>6, <2>1, <2>2 DEF FindRecord
<1>7. QED
  BY <1>2, <1>3, <1>4, <1>5, <1>6 DEF EraseRecord, Failure

-----------------------------------------------------------------------------
(* What an operation writes into documents.                                *)

\* Nothing but the text, into documents of the text's own key.
WritesText(d, e) ==
    \A i \in Ids : e.docs[i] # d.docs[i] =>
        /\ d.json \in Document
        /\ e.docs[i] = d.json
        /\ d.docs[i] # NoDoc => d.docs[i].key = d.json.key

\* New documents only.
AddsOnly(d, e) == \A i \in Ids : e.docs[i] # d.docs[i] => d.docs[i] = NoDoc

\* current_to_json changes the current key only.
LEMMA CurrentToJsonText ==
    ASSUME NEW d, DbInv(d), NEW pkey \in Keys \cup {AnyKey, NoKey}
    PROVE  LET c == CurrentToJson(d, pkey)
           IN  /\ c.db.json = d.json
               /\ c.err = "none" /\ pkey # NoKey => d.json.key = pkey
<1>1. \/ CurrentToJson(d, pkey) = Outcome(d, "E01JSon")
      \/ \E k, e : /\ CurrentToJson(d, pkey) = Outcome(SetKey(d, k), e)
                   /\ k = IF pkey = NoKey THEN d.json.key ELSE pkey
                   /\ e = "none" => k = d.json.key
  BY DEF CurrentToJson
<1>2. \A k : SetKey(d, k).json = d.json
  BY DEF SetKey, DbInv, Collection
<1>3. CASE CurrentToJson(d, pkey) = Outcome(d, "E01JSon")
  BY <1>3 DEF Outcome
<1>4. ASSUME NEW k, NEW e, CurrentToJson(d, pkey) = Outcome(SetKey(d, k), e),
             k = IF pkey = NoKey THEN d.json.key ELSE pkey,
             e = "none" => k = d.json.key
      PROVE  LET c == CurrentToJson(d, pkey)
             IN  /\ c.db.json = d.json
                 /\ c.err = "none" /\ pkey # NoKey => d.json.key = pkey
  <2>1. /\ CurrentToJson(d, pkey).db = SetKey(d, k)
        /\ CurrentToJson(d, pkey).err = e
    BY <1>4 DEF Outcome
  <2>2. QED
    BY <1>2, <1>4, <2>1
<1>5. QED
  BY <1>1, <1>3, <1>4

LEMMA CreateRecordWrites ==
    ASSUME NEW c, DbInv(c), c.json \in Document, NEW o \in CreateRecord(c)
    PROVE  WritesText(c, o.db) /\ AddsOnly(c, o.db)
<1>1. ASSUME NEW i \in Ids \ Stored(c),
             o = Outcome([c EXCEPT !.docs[i] = c.json, !.records[c.key] = i], "none")
      PROVE  WritesText(c, o.db) /\ AddsOnly(c, o.db)
  <2>1. o.db.docs = [c.docs EXCEPT ![i] = c.json] /\ c.docs[i] = NoDoc
    BY <1>1 DEF Outcome, DbInv, Collection, Stored
  <2>2. QED
    BY <2>1 DEF WritesText, AddsOnly, DbInv, Collection
<1>2. CASE o = Outcome(c, "TEJDB0021")
  BY <1>2 DEF Outcome, WritesText, AddsOnly
<1>3. QED
  BY <1>1, <1>2 DEF CreateRecord, WriteError, Failure

LEMMA UpdateRecordWrites ==
    ASSUME NEW c, DbInv(c), c.json \in Document, c.json.key = c.key,
           FindRecord(c, c.key), NEW o \in UpdateRecord(c)
    PROVE  WritesText(c, o.db)
<1>1. CASE o = Outcome([c EXCEPT !.docs[c.records[c.key]] = c.json], "none")
  <2> DEFINE i == c.records[c.key]
  <2>1. i \in Ids /\ c.docs[i].key = c.key
    BY DEF DbInv, IndexSound, FindRecord, Stored
  <2>2. o.db.docs = [c.docs EXCEPT ![i] = c.json]
    BY <1>1 DEF Outcome, DbInv, Collection
  <2> HIDE DEF i
  <2>3. QED
    BY <2>1, <2>2 DEF WritesText, DbInv, Collection
<1>2. CASE o = Outcome(c, "TEJDB0021")
  BY <1>2 DEF Outcome, WritesText
<1>3. QED
  BY <1>1, <1>2 DEF UpdateRecord, WriteError, Failure

\* A save writes the text, under the requested key if there is one; without an
\* error the text is a document.
LEMMA SaveRecordWrites ==
    ASSUME NEW d, DbInv(d), NEW pkey \in Keys \cup {AnyKey, NoKey},
           NEW o \in SaveRecord(d, pkey)
    PROVE  /\ WritesText(d, o.db)
           /\ o.db.docs # d.docs \/ o.err = "none" =>
                 d.json \in Document /\ (pkey # NoKey => d.json.key = pkey)
<1> DEFINE c == CurrentToJson(d, pkey)
<1>1. /\ DbInv(c.db)
      /\ c.db.docs = d.docs
      /\ c.err = "none" => /\ c.db.json \in Document
                           /\ c.db.json.key = c.db.key
                           /\ c.db.key \in Keys
  BY CurrentToJsonFacts
<1>2. c.db.json = d.json /\ (c.err = "none" /\ pkey # NoKey => d.json.key = pkey)
  BY CurrentToJsonText
<1>3. o \in IF c.err # "none" THEN {c}
            ELSE IF FindRecord(c.db, c.db.key)
                 THEN UpdateRecord(c.db)
                 ELSE CreateRecord(c.db)
  BY DEF SaveRecord
<1> HIDE DEF c
<1>4. CASE c.err # "none"
  BY <1>1, <1>3, <1>4 DEF WritesText
<1>5. CASE c.err = "none"
  <2>1. WritesText(c.db, o.db)
    BY <1>1, <1>3, <1>5, CreateRecordWrites, UpdateRecordWrites
  <2>2. WritesText(d, o.db)
    BY <1>1, <1>2, <2>1 DEF WritesText
  <2>3. QED
    BY <1>1, <1>2, <1>5, <2>2
<1>6. QED
  BY <1>4, <1>5

\* An insert writes the text into a new document.
LEMMA InsertRecordWrites ==
    ASSUME NEW d, DbInv(d), NEW o \in InsertRecord(d)
    PROVE  /\ WritesText(d, o.db)
           /\ AddsOnly(d, o.db)
           /\ o.err = "none" => d.json \in Document
<1> DEFINE c == CurrentToJson(d, NoKey)
<1>1. /\ DbInv(c.db)
      /\ c.db.docs = d.docs
      /\ c.err = "none" => c.db.json \in Document
  BY CurrentToJsonFacts
<1>2. c.db.json = d.json
  BY CurrentToJsonText
<1>3. o \in IF c.err # "none" THEN {c}
            ELSE IF FindRecord(c.db, c.db.key)
                 THEN {Outcome(c.db, "TEJDB0004")}
                 ELSE CreateRecord(c.db)
  BY DEF InsertRecord
<1> HIDE DEF c
<1>4. CASE o = c /\ c.err # "none"
  BY <1>1, <1>4 DEF WritesText, AddsOnly
<1>5. CASE o = Outcome(c.db, "TEJDB0004")
  BY <1>1, <1>5 DEF WritesText, AddsOnly, Outcome
<1>6. CASE c.err = "none" /\ o \in CreateRecord(c.db)
  <2>1. WritesText(c.db, o.db) /\ AddsOnly(c.db, o.db)
    BY <1>1, <1>6, CreateRecordWrites
  <2>2. QED
    BY <1>1, <1>2, <1>6, <2>1 DEF WritesText, AddsOnly
<1>7. QED
  BY <1>3, <1>4, <1>5, <1>6

\* A read writes nothing.
LEMMA GetRecordWrites ==
    ASSUME NEW d, DbInv(d), NEW k \in Keys \cup {AnyKey}, NEW o \in GetRecord(d, k)
    PROVE  o.db.docs = d.docs
  BY GetRecordShape DEF Untouched

\* A deletion only takes documents away, and none if it is refused.
LEMMA DeleteRecordWrites ==
    ASSUME NEW d, DbInv(d), NEW k \in Keys \cup {AnyKey}, NEW o \in DeleteRecord(d, k)
    PROVE  /\ \A i \in Ids : o.db.docs[i] # d.docs[i] => o.db.docs[i] = NoDoc
           /\ o.err # "none" => o.db.docs = d.docs
<1>1. Shaped(d, o)
  BY DeleteRecordShape
<1>2. o.err # "none" => o.db.docs = d.docs
  BY <1>1 DEF Shaped, Untouched
<1>3. CASE o.err = "none" /\ d.open
  <2>1. o.db.docs = [d.docs EXCEPT ![d.records[k]] = NoDoc]
    BY <1>3, DeleteRecordEffect
  <2>2. QED
    BY <1>2, <2>1 DEF DbInv, Collection
<1>4. CASE o.err = "none" /\ ~d.open
  <2>1. /\ o.db.key = k
        /\ o.err = "none" =>
              /\ k \in Keys /\ d.records[k] # NoId
              /\ d.open => o.db.docs = [d.docs EXCEPT ![d.records[k]] = NoDoc]
              /\ ~d.open => o.db.docs = d.docs
        /\ o.err = "TEJDB0002" => k \notin Keys \/ d.records[k] = NoId
        /\ o.err \notin {"TEJDB0001", "TEJDB0004"}
    BY DeleteRecordEffect
  <2>2. o.db.docs = d.docs
    BY <1>4, <2>1
  <2>3. QED
    BY <1>4, <2>2
<1>5. QED
  BY <1>2, <1>3, <1>4
=============================================================================

------------------------- MODULE RecordWindowProofs -------------------------
(***************************************************************************)
(* Theorems about RecordWindow, for any keys, documents, filters, typed    *)
(* texts and imports.  A command composes calls any of which may throw past*)
(* the rest; so one lemma per helper says what holds of each of its        *)
(* results, thrown or not: the window is sound, its rows exist, and which  *)
(* documents may differ from those of the window it started with.          *)
(***************************************************************************)
EXTENDS RecordWindow, EjdbCollectionProofs, Induction, FiniteSetTheorems

\* A window over a sound collection.
Sound(w) == w \in Window /\ DbInv(w.db)

RowsOf(w) == \A k \in w.rows : \E i \in Stored(w.db) : w.db.docs[i].key = k

\* The same documents, and the same text in the editor.
SameDocs(w, v) == v.db.docs = w.db.docs /\ v.editor = w.editor

\* v holds the documents of w, but for the text in w's editor under its own key.
SavesEditor(w, v) ==
    \A i \in Ids : v.db.docs[i] # w.db.docs[i] =>
        /\ w.editor \in Document
        /\ v.db.docs[i] = w.editor
        /\ w.db.docs[i] # NoDoc => w.db.docs[i].key = w.editor.key

\* The same, and only if the text was flagged and has the current key.
SavesFlagged(w, v) ==
    /\ SavesEditor(w, v)
    /\ v.db.docs # w.db.docs => w.changed /\ w.editor.key = w.db.key

\* The keys of what is stored stay stored, so rows that existed exist.
LEMMA SavesKeepRows ==
    ASSUME NEW w, NEW v, RowsOf(w), SavesEditor(w, v), v.rows = w.rows
    PROVE  RowsOf(v)
<1> SUFFICES ASSUME NEW k \in w.rows
             PROVE  \E i \in Stored(v.db) : v.db.docs[i].key = k
  BY DEF RowsOf
<1>1. PICK i \in Stored(w.db) : w.db.docs[i].key = k
  BY DEF RowsOf
<1>2. CASE v.db.docs[i] = w.db.docs[i]
  BY <1>1, <1>2 DEF Stored
<1>3. CASE v.db.docs[i] # w.db.docs[i]
  BY <1>1, <1>3, EjdbConstants DEF SavesEditor, Stored
<1>4. QED
  BY <1>2, <1>3

LEMMA SameDocsKeepRows ==
    ASSUME NEW w, NEW v, RowsOf(w), v.db.docs = w.db.docs, v.rows = w.rows
    PROVE  RowsOf(v)
  BY DEF RowsOf, Stored

-----------------------------------------------------------------------------
(* The parts of a window.                                                  *)

\* A window with another collection is otherwise the same.
LEMMA Replaced ==
    ASSUME NEW w \in Window, NEW c, DbInv(c)
    PROVE  LET v == [w EXCEPT !.db = c]
           IN  /\ Sound(v)
               /\ v.db = c /\ v.editor = w.editor /\ v.changed = w.changed
               /\ v.rows = w.rows
  BY DEF Sound, Window, DbInv

\* A call on the collection, in the window.
LEMMA WithinWindow ==
    ASSUME NEW w \in Window, NEW outs, NEW r \in Within(w, outs)
    PROVE  \E o \in outs : r = Result([w EXCEPT !.db = o.db], o.err)
  BY DEF Within

LEMMA ForgetWindow ==
    ASSUME NEW w, Sound(w)
    PROVE  /\ Sound(Forget(w))
           /\ Forget(w).db = w.db /\ Forget(w).editor = w.editor
           /\ Forget(w).rows = w.rows
           /\ Forget(w).changed = FALSE
  BY DEF Forget, Sound, Window

\* The rows are those of the index, whose entries exist.
LEMMA ListWindow ==
    ASSUME NEW w, Sound(w)
    PROVE  /\ Sound(ChangeKeyList(w))
           /\ ChangeKeyList(w).db = w.db /\ ChangeKeyList(w).editor = w.editor
           /\ ChangeKeyList(w).changed = w.changed
           /\ RowsOf(ChangeKeyList(w))
<1> DEFINE v == ChangeKeyList(w)
<1>1. /\ v.db = w.db /\ v.editor = w.editor /\ v.changed = w.changed
      /\ v.rows = Indexed(w.db)
  BY DEF ChangeKeyList, Sound, Window
<1>2. v \in Window
  BY DEF ChangeKeyList, Sound, Window, Indexed
<1>3. \A k \in Indexed(w.db) : \E i \in Stored(w.db) : w.db.docs[i].key = k
  BY DEF Indexed, Sound, DbInv, IndexSound
<1> HIDE DEF v
<1>4. Sound(v) /\ RowsOf(v)
  BY <1>1, <1>2, <1>3 DEF Sound, RowsOf
<1>5. QED
  BY <1>1, <1>4 DEF v

LEMMA SettledWindow ==
    ASSUME NEW w, Sound(w), w.editor \in Document
    PROVE  /\ Sound(Settled(w))
           /\ Settled(w).db = w.db /\ Settled(w).editor = w.editor
           /\ Settled(w).rows = w.rows
           /\ Settled(w).changed = FALSE
  BY DEF Settled, Sound, Window, Document

LEMMA EditWindow ==
    ASSUME NEW w, Sound(w), NEW text \in Text, NEW k \in Keys \cup {NoKey}
    PROVE  LET v == SetRecordEdit(w, text, k)
           IN  Sound(v) /\ v.db = w.db /\ v.rows = w.rows
  BY DEF SetRecordEdit, Sound, Window

\* A window whose collection has another text, key or query.
LEMMA DbPartWindow ==
    ASSUME NEW w, Sound(w), NEW c, DbInv(c), c.docs = w.db.docs
    PROVE  LET v == [w EXCEPT !.db = c]
           IN  /\ Sound(v) /\ SameDocs(w, v)
               /\ v.rows = w.rows /\ v.changed = w.changed
  BY Replaced DEF Sound, SameDocs

LEMMA SetJsonFacts ==
    ASSUME NEW d, DbInv(d), NEW t \in Text
    PROVE  /\ DbInv(SetJson(d, t)) /\ SetJson(d, t).docs = d.docs
           /\ SetJson(d, t).json = t /\ SetJson(d, t).key = d.key
  BY SettersKeep DEF SetJson, DbInv, Collection

LEMMA SetQueryFacts ==
    ASSUME NEW d, DbInv(d), NEW q \in Query
    PROVE  DbInv(SetQuery(d, q)) /\ SetQuery(d, q).docs = d.docs
  BY SettersKeep DEF SetQuery, DbInv, Collection

-----------------------------------------------------------------------------
(* Saving.                                                                 *)

LEMMA RecSaveFacts ==
    ASSUME NEW w, Sound(w), NEW key \in Keys \cup {AnyKey, NoKey},
           NEW r \in RecSave(w, key)
    PROVE  /\ Sound(r.win)
           /\ r.err \in Error
           /\ r.win.rows = w.rows
           /\ r.win.editor = w.editor
           /\ SavesEditor(w, r.win)
           /\ r.win.db.docs # w.db.docs /\ key # NoKey => w.editor.key = key
           /\ r.err = "none" => r.win.changed = FALSE
<1> DEFINE d == SetJson(w.db, w.editor)
<1>1. /\ DbInv(d) /\ d.docs = w.db.docs /\ d.json = w.editor
      /\ w \in Window /\ w.editor \in Text
  BY SetJsonFacts DEF Sound, Window
<1>2. PICK s \in Within(w, SaveRecord(d, key)) :
          r = IF s.err = "none" THEN Result(Settled(s.win), "none") ELSE s
  BY DEF RecSave, Then
<1> HIDE DEF d
<1>3. PICK o \in SaveRecord(d, key) : s = Result([w EXCEPT !.db = o.db], o.err)
  BY <1>1, <1>2, WithinWindow
<1>4. DbInv(o.db) /\ o.err \in Error
  BY <1>1, SaveRecordGood DEF Good
<1>5. WritesText(d, o.db)
  BY <1>1, SaveRecordWrites
<1>6. o.db.docs # d.docs \/ o.err = "none" =>
          d.json \in Document /\ (key # NoKey => d.json.key = key)
  BY <1>1, SaveRecordWrites
<1> DEFINE v == [w EXCEPT !.db = o.db]
<1>7. /\ Sound(v)
      /\ v.db = o.db /\ v.editor = w.editor /\ v.rows = w.rows
  BY <1>1, <1>4, Replaced
<1> HIDE DEF v
<1>8. s.win = v /\ s.err = o.err
  BY <1>3 DEF v, Result
<1>9. \A u : u.db = o.db => SavesEditor(w, u)
  BY <1>1, <1>5 DEF SavesEditor, WritesText
<1>10. CASE o.err = "none"
  <2>1. r = Result(Settled(v), "none")
    BY <1>2, <1>8, <1>10
  <2>2. v.editor \in Document
    BY <1>1, <1>6, <1>7, <1>10
  <2>3. /\ Sound(Settled(v))
        /\ Settled(v).db = v.db /\ Settled(v).editor = v.editor
        /\ Settled(v).rows = v.rows
        /\ Settled(v).changed = FALSE
    BY <1>7, <2>2, SettledWindow
  <2>4. r.win = Settled(v) /\ r.err = "none"
    BY <2>1 DEF Result
  <2>5. QED
    BY <1>1, <1>4, <1>6, <1>7, <1>9, <1>10, <2>3, <2>4
<1>11. CASE o.err # "none"
  <2>1. r.win = v /\ r.err = o.err
    BY <1>2, <1>8, <1>11
  <2>2. QED
    BY <1>1, <1>4, <1>6, <1>7, <1>9, <1>11, <2>1
<1>12. QED
  BY <1>10, <1>11

\* MessageToSave saves a flagged text under the current key or nothing.
LEMMA MessageFacts ==
    ASSUME NEW w, Sound(w), RowsOf(w), NEW r \in MessageToSave(w)
    PROVE  /\ Sound(r.win)
           /\ RowsOf(r.win)
           /\ r.err \in Error \cup {"cancel"}
           /\ r.win.editor = w.editor
           /\ SavesFlagged(w, r.win)
           /\ r.err = "none" => r.win.changed = FALSE
<1>1. ASSUME NEW v, NEW e \in Error \cup {"cancel"}, r = Result(v, e),
             Sound(v), RowsOf(v), v.db = w.db, v.editor = w.editor,
             e = "none" => v.changed = FALSE
      PROVE  /\ Sound(r.win)
             /\ RowsOf(r.win)
             /\ r.err \in Error \cup {"cancel"}
             /\ r.win.editor = w.editor
             /\ SavesFlagged(w, r.win)
             /\ r.err = "none" => r.win.changed = FALSE
  <2>1. r.win = v /\ r.err = e
    BY <1>1 DEF Result
  <2>2. SavesFlagged(w, v)
    BY <1>1 DEF SavesFlagged, SavesEditor
  <2>3. QED
    BY <1>1, <2>1, <2>2
<1>2. CASE r = Result(ChangeKeyList(w), "cancel")
  BY <1>1, <1>2, ListWindow
<1>3. CASE r = Result(Forget(w), "none")
  BY <1>1, <1>3, ForgetWindow, SameDocsKeepRows DEF Error
<1>4. CASE w.changed /\ r \in RecSave(w, w.db.key)
  <2> DEFINE key == w.db.key
  <2>1. key \in Keys \cup {AnyKey, NoKey} /\ key # NoKey
    BY EjdbConstants DEF Sound, DbInv, Collection
  <2> HIDE DEF key
  <2>2. r \in RecSave(w, key)
    BY <1>4 DEF key
  <2>3. /\ Sound(r.win)
        /\ r.err \in Error
        /\ r.win.rows = w.rows
        /\ r.win.editor = w.editor
        /\ SavesEditor(w, r.win)
        /\ r.win.db.docs # w.db.docs /\ key # NoKey => w.editor.key = key
        /\ r.err = "none" => r.win.changed = FALSE
    BY <2>1, <2>2, RecSaveFacts
  <2>4. RowsOf(r.win)
    BY <2>3, SavesKeepRows
  <2>5. QED
    BY <1>4, <2>1, <2>3, <2>4 DEF SavesFlagged, key
<1>5. QED
  BY <1>2, <1>3, <1>4 DEF MessageToSave

-----------------------------------------------------------------------------
(* Showing records.                                                        *)

\* What a browsing command leaves: a sound window whose rows exist, and no more
\* written than the flagged text under the current key.
Browsed(w, r) ==
    /\ Sound(r.win)
    /\ RowsOf(r.win)
    /\ r.err \in Error \cup {"cancel"}
    /\ SavesFlagged(w, r.win)

LEMMA SavedThenSame ==
    ASSUME NEW w, NEW v, NEW u, SavesFlagged(w, v), u.db.docs = v.db.docs
    PROVE  SavesFlagged(w, u)
  BY DEF SavesFlagged, SavesEditor

\* Where nothing is flagged nothing is saved.
LEMMA UnflaggedSavesNothing ==
    ASSUME NEW w, NEW v, SavesFlagged(w, v), w.changed = FALSE
    PROVE  v.db.docs = w.db.docs
  BY DEF SavesFlagged

\* After the question a record is read, unless the command is over.
LEMMA AskedAndRead ==
    ASSUME NEW w, Sound(w), RowsOf(w), NEW k \in Keys, NEW q \in MessageToSave(w), NEW t,
           IF q.err = "none" THEN t \in Within(q.win, GetRecord(q.win.db, k)) ELSE t = q
    PROVE  Browsed(w, t)
<1>1. /\ Sound(q.win)
      /\ RowsOf(q.win)
      /\ q.err \in Error \cup {"cancel"}
      /\ q.win.editor = w.editor
      /\ SavesFlagged(w, q.win)
      /\ q.err = "none" => q.win.changed = FALSE
  BY MessageFacts
<1>2. CASE q.err # "none"
  BY <1>1, <1>2 DEF Browsed
<1>3. CASE q.err = "none"
  <2>1. PICK o \in GetRecord(q.win.db, k) :
            t = Result([q.win EXCEPT !.db = o.db], o.err)
    BY <1>1, <1>3, WithinWindow DEF Sound
  <2>2. DbInv(o.db) /\ o.err \in Error
    BY <1>1, GetRecordGood DEF Good, Sound
  <2>3. o.db.docs = q.win.db.docs
    BY <1>1, GetRecordWrites DEF Sound
  <2> DEFINE v == [q.win EXCEPT !.db = o.db]
  <2>4. Sound(v) /\ SameDocs(q.win, v) /\ v.rows = q.win.rows
    BY <1>1, <2>2, <2>3, DbPartWindow
  <2>5. t.win = v /\ t.err = o.err
    BY <2>1 DEF Result
  <2> HIDE DEF v
  <2>6. RowsOf(v) /\ SavesFlagged(w, v)
    BY <1>1, <2>4, SameDocsKeepRows, SavedThenSame DEF SameDocs
  <2>7. QED
    BY <2>2, <2>4, <2>5, <2>6 DEF Browsed
<1>4. QED
  BY <1>2, <1>3

LEMMA CmShowFacts ==
    ASSUME NEW w, Sound(w), RowsOf(w), NEW k \in Keys, NEW r \in CmShow(w, k)
    PROVE  Browsed(w, r)
<1>1. PICK q \in MessageToSave(w) : \E t :
          /\ IF q.err = "none" THEN t \in Within(q.win, GetRecord(q.win.db, k)) ELSE t = q
          /\ IF t.err = "none"
             THEN r = Result(Forget(SetRecordEdit(t.win, t.win.db.json, k)), "none")
             ELSE r = t
  BY DEF CmShow, Then
<1>2. PICK t :
          /\ IF q.err = "none" THEN t \in Within(q.win, GetRecord(q.win.db, k)) ELSE t = q
          /\ IF t.err = "none"
             THEN r = Result(Forget(SetRecordEdit(t.win, t.win.db.json, k)), "none")
             ELSE r = t
  BY <1>1
<1>3. Browsed(w, t)
  BY <1>2, AskedAndRead
<1>4. CASE t.err # "none"
  BY <1>2, <1>3, <1>4
<1>5. CASE t.err = "none"
  <2> DEFINE v == SetRecordEdit(t.win, t.win.db.json, k)
  <2>1. Sound(t.win) /\ RowsOf(t.win) /\ SavesFlagged(w, t.win)
    BY <1>3 DEF Browsed
  <2>2. t.win.db.json \in Text
    BY <2>1 DEF Sound, DbInv, Collection
  <2>3. Sound(v) /\ v.db = t.win.db /\ v.rows = t.win.rows
    BY <2>1, <2>2, EditWindow
  <2>4. r = Result(Forget(v), "none")
    BY <1>2, <1>5
  <2> HIDE DEF v
  <2>5. Sound(Forget(v)) /\ Forget(v).db = v.db /\ Forget(v).rows = v.rows
    BY <2>3, ForgetWindow
  <2>6. RowsOf(Forget(v)) /\ SavesFlagged(w, Forget(v))
    BY <2>1, <2>3, <2>5, SameDocsKeepRows, SavedThenSame
  <2>7. r.win = Forget(v) /\ r.err = "none"
    BY <2>4 DEF Result
  <2>8. QED
    BY <2>5, <2>6, <2>7 DEF Browsed, Error
<1>6. QED
  BY <1>4, <1>5

LEMMA CmCreateFacts ==
    ASSUME NEW w, Sound(w)
    PROVE  /\ Sound(CmCreate(w))
           /\ CmCreate(w).db = w.db
           /\ CmCreate(w).rows = w.rows
<1> DEFINE v == SetRecordEdit(w, Template, NoKey)
<1>1. Template \in Text
  BY WindowConstants DEF Document, Text
<1>2. Sound(v) /\ v.db = w.db /\ v.rows = w.rows
  BY <1>1, EditWindow
<1> HIDE DEF v
<1>3. Sound(Forget(v)) /\ Forget(v).db = v.db /\ Forget(v).rows = v.rows
  BY <1>2, ForgetWindow
<1>4. QED
  BY <1>2, <1>3 DEF CmCreate, v

\* Resetting the window shows a record, which may first save the text.
LEMMA ResetFacts ==
    ASSUME NEW w, Sound(w), NEW r \in Reset(w)
    PROVE  Browsed(w, r) /\ r.err = "none"
<1> DEFINE listed == ChangeKeyList(w)
<1>1. /\ Sound(listed) /\ RowsOf(listed)
      /\ listed.db = w.db /\ listed.editor = w.editor
      /\ listed.changed = w.changed
  BY ListWindow
<1>2. r.err = "none" /\ r.win \in ResetMainWindow(w)
  BY DEF Reset, Result
<1>3. PICK u \in IF listed.rows = {} THEN {CmCreate(listed)}
                 ELSE UNION {Windows(CmShow(listed, k)) : k \in listed.rows} :
          r.win = [u EXCEPT !.writable = u.db.jql = AllDocuments]
  BY <1>2 DEF ResetMainWindow
<1> HIDE DEF listed
<1>4. Sound(u) /\ RowsOf(u) /\ SavesFlagged(listed, u)
  <2>1. CASE u = CmCreate(listed)
    <3>1. Sound(u) /\ u.db = listed.db /\ u.rows = listed.rows
      BY <1>1, <2>1, CmCreateFacts
    <3>2. QED
      BY <1>1, <3>1, SameDocsKeepRows DEF SavesFlagged, SavesEditor
  <2>2. CASE \E k \in listed.rows : u \in Windows(CmShow(listed, k))
    <3>1. PICK k \in Keys : u \in Windows(CmShow(listed, k))
      BY <1>1, <2>2 DEF Sound, Window
    <3>2. PICK s \in CmShow(listed, k) : u = s.win
      BY <3>1 DEF Windows
    <3>3. Browsed(listed, s)
      BY <1>1, CmShowFacts
    <3>4. QED
      BY <3>2, <3>3 DEF Browsed
  <2>3. QED
    BY <1>3, <2>1, <2>2
<1>5. SavesFlagged(w, u)
  BY <1>1, <1>4 DEF SavesFlagged, SavesEditor
<1>6. Sound(r.win) /\ r.win.db = u.db /\ r.win.rows = u.rows
  BY <1>3, <1>4 DEF Sound, Window
<1>7. RowsOf(r.win) /\ SavesFlagged(w, r.win)
  BY <1>4, <1>5, <1>6, SameDocsKeepRows, SavedThenSame
<1>8. QED
  BY <1>2, <1>6, <1>7 DEF Browsed, Error

-----------------------------------------------------------------------------
(* Commands over several records.                                          *)

\* Nothing is written: what changes is deleted.
Deletes(w, v) == \A i \in Ids : v.db.docs[i] # w.db.docs[i] => v.db.docs[i] = NoDoc

\* g[k] is what k rounds of a loop have led to, from the result first.
Rounds(g, n, first, Step) ==
    /\ g = [k \in 0..n |-> g[k]]
    /\ g[0] = {first}
    /\ \A k \in 1..n : g[k] = UNION {Step[k][q] : q \in g[k - 1]}

\* The function a loop defines exists.
LEMMA LoopExists ==
    ASSUME NEW n \in Nat, NEW R, NEW first \in R, NEW Step \in [1..n -> [R -> SUBSET R]]
    PROVE  \E g \in [0..n -> SUBSET R] : Rounds(g, n, first, Step)
<1> DEFINE X == SUBSET R
           Steps == [k \in 1..n |-> [Y \in X |-> UNION {Step[k][q] : q \in Y}]]
<1>1. \A k \in 1..n, Y \in X : UNION {Step[k][q] : q \in Y} \in X
  OBVIOUS
<1>2. Steps \in [1..n -> [X -> X]] /\ {first} \in X
  BY <1>1
<1>3. \A k \in 1..n, Y \in X : Steps[k][Y] = UNION {Step[k][q] : q \in Y}
  OBVIOUS
<1> HIDE DEF Steps
<1>4. PICK g \in [0..n -> X] : Recursive(g, n, {first}, Steps)
  BY <1>2, RecursionUpTo
<1>5. g = [k \in 0..n |-> IF k = 0 THEN {first} ELSE Steps[k][g[k - 1]]]
  BY <1>4 DEF Recursive
<1>6. g[0] = {first}
  BY <1>5
<1>7. ASSUME NEW k \in 1..n
      PROVE  g[k] = UNION {Step[k][q] : q \in g[k - 1]}
  <2>1. k \in 0..n /\ k # 0 /\ k - 1 \in 0..n
    OBVIOUS
  <2>2. g[k - 1] \in X /\ g[k] = Steps[k][g[k - 1]]
    BY <1>5, <2>1
  <2>3. QED
    BY <1>3, <2>2
<1>8. g = [k \in 0..n |-> g[k]]
  BY <1>4
<1>9. QED
  BY <1>4, <1>6, <1>7, <1>8 DEF Rounds

\* What a deletion leaves.
LEMMA RecDeleteFacts ==
    ASSUME NEW w, Sound(w), NEW k \in Keys \cup {AnyKey}, NEW r \in RecDelete(w, k)
    PROVE  /\ Sound(r.win) /\ r.err \in Error
           /\ r.win.editor = w.editor /\ r.win.rows = w.rows
           /\ Deletes(w, r.win)
           /\ r.err # "none" => r.win.db.docs = w.db.docs
<1>1. PICK t \in Within(w, DeleteRecord(w.db, k)) :
          IF t.err = "none"
          THEN r = Result([t.win EXCEPT !.shown = IF @ = k THEN NoKey ELSE @], "none")
          ELSE r = t
  BY DEF RecDelete, Then
<1>2. w \in Window /\ DbInv(w.db)
  BY DEF Sound
<1>3. PICK o \in DeleteRecord(w.db, k) : t = Result([w EXCEPT !.db = o.db], o.err)
  BY <1>1, <1>2, WithinWindow
<1>4. DbInv(o.db) /\ o.err \in Error
  BY <1>2, DeleteRecordGood DEF Good
<1>5. /\ \A i \in Ids : o.db.docs[i] # w.db.docs[i] => o.db.docs[i] = NoDoc
      /\ o.err # "none" => o.db.docs = w.db.docs
  BY <1>2, DeleteRecordWrites
<1> DEFINE v == [w EXCEPT !.db = o.db]
<1>6. Sound(v) /\ v.db = o.db /\ v.editor = w.editor /\ v.rows = w.rows
  BY <1>2, <1>4, Replaced
<1>7. t.win = v /\ t.err = o.err
  BY <1>3 DEF Result
<1> HIDE DEF v
<1>8. CASE t.err # "none"
  BY <1>1, <1>4, <1>5, <1>6, <1>7, <1>8 DEF Deletes
<1>9. CASE t.err = "none"
  <2> DEFINE u == [v EXCEPT !.shown = IF @ = k THEN NoKey ELSE @]
  <2>1. Sound(u) /\ u.db = v.db /\ u.editor = v.editor /\ u.rows = v.rows
    BY <1>6 DEF Sound, Window
  <2>2. r.win = u /\ r.err = "none"
    BY <1>1, <1>7, <1>9 DEF Result
  <2> HIDE DEF u
  <2>3. QED
    BY <1>5, <1>6, <2>1, <2>2 DEF Deletes, Error
<1>10. QED
  BY <1>8, <1>9

\* Deleting a list takes documents away and writes none, wherever it stops.
LEMMA DeleteAllFacts ==
    ASSUME NEW w, Sound(w), NEW keys \in Seq(Keys), NEW r \in DeleteAll(w, keys)
    PROVE  /\ Sound(r.win) /\ r.err \in Error
           /\ r.win.editor = w.editor
           /\ Deletes(w, r.win)
<1> DEFINE n == Len(keys)
           P(q) == Sound(q.win) /\ q.win.editor = w.editor /\ Deletes(w, q.win)
           R == {q \in [win : Window, err : Error] : P(q)}
           After(q, k) == IF q.err = "none" THEN RecDelete(q.win, keys[k]) ELSE {q}
           Done[k \in 0..n] == IF k = 0 THEN {Result(w, "none")}
                               ELSE UNION {After(q, k) : q \in Done[k - 1]}
           Reached == {k \in 0..n : Done[k] \subseteq R}
           Step == [k \in 1..n |-> [q \in R |-> After(q, k)]]
<1>1. n \in Nat
  OBVIOUS
<1>2. Result(w, "none") \in R
  BY DEF Result, Error, Sound, Deletes
<1>3. ASSUME NEW k \in 1..n, NEW q \in R
      PROVE  After(q, k) \subseteq R
  <2>1. Sound(q.win) /\ q.win.editor = w.editor /\ Deletes(w, q.win)
    OBVIOUS
  <2>2. ASSUME NEW s \in RecDelete(q.win, keys[k])
        PROVE  s \in R
    <3>1. keys[k] \in Keys \cup {AnyKey}
      OBVIOUS
    <3>2. /\ Sound(s.win) /\ s.err \in Error
          /\ s.win.editor = q.win.editor /\ s.win.rows = q.win.rows
          /\ Deletes(q.win, s.win)
          /\ s.err # "none" => s.win.db.docs = q.win.db.docs
      BY <2>1, <3>1, RecDeleteFacts
    <3>3. Deletes(w, s.win)
      BY <2>1, <3>2 DEF Deletes
    <3>4. s = [win |-> s.win, err |-> s.err]
      BY DEF RecDelete, Within, Then, Result
    <3>5. QED
      BY <2>1, <3>2, <3>3, <3>4 DEF Sound
  <2>3. QED
    BY <2>2
<1>4. DeleteAll(w, keys) = Done[n]
  BY DEF DeleteAll, Repeat, Then
<1>5. (\E g : g = [k \in 0..n |-> IF k = 0 THEN {Result(w, "none")}
                                  ELSE UNION {After(q, k) : q \in g[k - 1]}]) =>
      Done = [k \in 0..n |-> IF k = 0 THEN {Result(w, "none")}
                             ELSE UNION {After(q, k) : q \in Done[k - 1]}]
  OBVIOUS
<1>6. \A q \in R : P(q) /\ q.err \in Error
  OBVIOUS
<1> HIDE DEF n, R, After, Done
<1>7. \E g : g = [k \in 0..n |-> IF k = 0 THEN {Result(w, "none")}
                                 ELSE UNION {After(q, k) : q \in g[k - 1]}]
  <2>1. Step \in [1..n -> [R -> SUBSET R]]
    BY <1>3
  <2>2. \A k \in 1..n, q \in R : Step[k][q] = After(q, k)
    OBVIOUS
  <2> DEFINE first == Result(w, "none")
  <2> HIDE DEF Step, first
  <2>3. first \in R
    BY <1>2 DEF first
  <2>4. PICK g \in [0..n -> SUBSET R] : Rounds(g, n, first, Step)
    BY <1>1, <2>1, <2>3, LoopExists
  <2>5. /\ g = [k \in 0..n |-> g[k]]
        /\ g[0] = {Result(w, "none")}
        /\ \A k \in 1..n : g[k] = UNION {Step[k][q] : q \in g[k - 1]}
    BY <2>4, Zenon DEF first, Rounds
  <2>6. ASSUME NEW k \in 1..n
        PROVE  g[k] = UNION {After(q, k) : q \in g[k - 1]}
    <3>1. k - 1 \in 0..n /\ g[k - 1] \subseteq R
      BY <1>1
    <3>2. {Step[k][q] : q \in g[k - 1]} = {After(q, k) : q \in g[k - 1]}
      BY <2>2, <3>1
    <3>3. g[k] = UNION {Step[k][q] : q \in g[k - 1]}
      BY <2>5, Zenon
    <3>4. QED
      BY <3>2, <3>3, Zenon
  <2>7. \A k \in 0..n : k # 0 => k \in 1..n
    BY <1>1
  <2>8. \A k \in 0..n : g[k] = IF k = 0 THEN {Result(w, "none")}
                               ELSE UNION {After(q, k) : q \in g[k - 1]}
    BY <2>5, <2>6, <2>7, Zenon
  <2>9. g = [k \in 0..n |-> IF k = 0 THEN {Result(w, "none")}
                            ELSE UNION {After(q, k) : q \in g[k - 1]}]
    BY <2>5, <2>8, Zenon
  <2>10. QED
    BY <2>9
<1>8. Done = [k \in 0..n |-> IF k = 0 THEN {Result(w, "none")}
                             ELSE UNION {After(q, k) : q \in Done[k - 1]}]
  BY <1>5, <1>7
<1>9. \A k \in 0..n : Done[k] \subseteq R
  <2>1. 0 \in Reached
    BY <1>1, <1>2, <1>8
  <2>2. ASSUME NEW k \in 1..n, k - 1 \in Reached
        PROVE  k \in Reached
    <3>1. k \in 0..n /\ k # 0
      BY <1>1
    <3>2. Done[k] = IF k = 0 THEN {Result(w, "none")}
                    ELSE UNION {After(q, k) : q \in Done[k - 1]}
      BY <1>8, <3>1, Zenon
    <3>3. Done[k] = UNION {After(q, k) : q \in Done[k - 1]}
      BY <3>1, <3>2
    <3>4. QED
      BY <1>3, <2>2, <3>1, <3>3
  <2> HIDE DEF Reached
  <2>3. \A k \in 0..n : k \in Reached
    BY <1>1, <2>1, <2>2, InductionUpTo
  <2>4. QED
    BY <2>3 DEF Reached
<1>10. r \in R
  BY <1>1, <1>4, <1>9
<1>11. QED
  BY <1>6, <1>10

\* What importing one record leaves; it adds it or, if that is wanted, saves it.
LEMMA ImportRecordFacts ==
    ASSUME NEW w, Sound(w), NEW text \in Text, NEW over \in BOOLEAN,
           NEW r \in ImportRecord(w, text, over)
    PROVE  /\ Sound(r.win) /\ r.err \in Error
           /\ r.win.editor = w.editor
           /\ ~over => AddsOnly(w.db, r.win.db)
<1> DEFINE d == SetJson(w.db, text)
<1>1. DbInv(d) /\ d.docs = w.db.docs /\ w \in Window
  BY SetJsonFacts DEF Sound
<1>2. r \in Within(w, IF over THEN SaveRecord(d, NoKey) ELSE InsertRecord(d))
  BY DEF ImportRecord
<1> HIDE DEF d
<1>3. PICK o \in IF over THEN SaveRecord(d, NoKey) ELSE InsertRecord(d) :
          r = Result([w EXCEPT !.db = o.db], o.err)
  BY <1>1, <1>2, WithinWindow
<1>4. DbInv(o.db) /\ o.err \in Error
  BY <1>1, SaveRecordGood, InsertRecordGood DEF Good
<1>5. ~over => AddsOnly(d, o.db)
  BY <1>1, InsertRecordWrites
<1> DEFINE v == [w EXCEPT !.db = o.db]
<1>6. Sound(v) /\ v.db = o.db /\ v.editor = w.editor
  BY <1>1, <1>4, Replaced
<1>7. r.win = v /\ r.err = o.err
  BY <1>3 DEF Result
<1> HIDE DEF v
<1>8. ~over => AddsOnly(w.db, v.db)
  BY <1>1, <1>5, <1>6 DEF AddsOnly
<1>9. QED
  BY <1>4, <1>6, <1>7, <1>8

\* An import leaves the text in the editor and, unless it may overwrite, every
\* document it finds, wherever it stops.
LEMMA ImportAllFacts ==
    ASSUME NEW w, Sound(w), NEW texts \in Seq(Text), NEW over \in BOOLEAN,
           NEW r \in ImportAll(w, texts, over)
    PROVE  /\ Sound(r.win) /\ r.err \in Error
           /\ r.win.editor = w.editor
           /\ ~over => AddsOnly(w.db, r.win.db)
<1> DEFINE n == Len(texts)
           P(q) == /\ Sound(q.win) /\ q.win.editor = w.editor
                   /\ ~over => AddsOnly(w.db, q.win.db)
           R == {q \in [win : Window, err : Error] : P(q)}
           After(q, k) == IF q.err = "none" THEN ImportRecord(q.win, texts[k], over)
                          ELSE {q}
           Done[k \in 0..n] == IF k = 0 THEN {Result(w, "none")}
                               ELSE UNION {After(q, k) : q \in Done[k - 1]}
           Reached == {k \in 0..n : Done[k] \subseteq R}
           Step == [k \in 1..n |-> [q \in R |-> After(q, k)]]
<1>1. n \in Nat
  OBVIOUS
<1>2. Result(w, "none") \in R
  BY DEF Result, Error, Sound, AddsOnly
<1>3. ASSUME NEW k \in 1..n, NEW q \in R
      PROVE  After(q, k) \subseteq R
  <2>1. /\ Sound(q.win) /\ q.win.editor = w.editor
        /\ ~over => AddsOnly(w.db, q.win.db)
    OBVIOUS
  <2>2. ASSUME NEW s \in ImportRecord(q.win, texts[k], over)
        PROVE  s \in R
    <3>1. texts[k] \in Text
      OBVIOUS
    <3>2. /\ Sound(s.win) /\ s.err \in Error
          /\ s.win.editor = q.win.editor
          /\ ~over => AddsOnly(q.win.db, s.win.db)
      BY <2>1, <3>1, ImportRecordFacts
    <3>3. ~over => AddsOnly(w.db, s.win.db)
      BY <2>1, <3>2 DEF AddsOnly
    <3>4. s = [win |-> s.win, err |-> s.err]
      BY DEF ImportRecord, Within, Result
    <3>5. QED
      BY <2>1, <3>2, <3>3, <3>4 DEF Sound
  <2>3. QED
    BY <2>2
<1>4. ImportAll(w, texts, over) = Done[n]
  BY DEF ImportAll, Repeat, Then
<1>5. (\E g : g = [k \in 0..n |-> IF k = 0 THEN {Result(w, "none")}
                                  ELSE UNION {After(q, k) : q \in g[k - 1]}]) =>
      Done = [k \in 0..n |-> IF k = 0 THEN {Result(w, "none")}
                             ELSE UNION {After(q, k) : q \in Done[k - 1]}]
  OBVIOUS
<1>6. \A q \in R : P(q) /\ q.err \in Error
  OBVIOUS
<1> HIDE DEF n, R, After, Done
<1>7. \E g : g = [k \in 0..n |-> IF k = 0 THEN {Result(w, "none")}
                                 ELSE UNION {After(q, k) : q \in g[k - 1]}]
  <2>1. Step \in [1..n -> [R -> SUBSET R]]
    BY <1>3
  <2>2. \A k \in 1..n, q \in R : Step[k][q] = After(q, k)
    OBVIOUS
  <2> DEFINE first == Result(w, "none")
  <2> HIDE DEF Step, first
  <2>3. first \in R
    BY <1>2 DEF first
  <2>4. PICK g \in [0..n -> SUBSET R] : Rounds(g, n, first, Step)
    BY <1>1, <2>1, <2>3, LoopExists
  <2>5. /\ g = [k \in 0..n |-> g[k]]
        /\ g[0] = {Result(w, "none")}
        /\ \A k \in 1..n : g[k] = UNION {Step[k][q] : q \in g[k - 1]}
    BY <2>4, Zenon DEF first, Rounds
  <2>6. ASSUME NEW k \in 1..n
        PROVE  g[k] = UNION {After(q, k) : q \in g[k - 1]}
    <3>1. k - 1 \in 0..n /\ g[k - 1] \subseteq R
      BY <1>1
    <3>2. {Step[k][q] : q \in g[k - 1]} = {After(q, k) : q \in g[k - 1]}
      BY <2>2, <3>1
    <3>3. g[k] = UNION {Step[k][q] : q \in g[k - 1]}
      BY <2>5, Zenon
    <3>4. QED
      BY <3>2, <3>3, Zenon
  <2>7. \A k \in 0..n : k # 0 => k \in 1..n
    BY <1>1
  <2>8. \A k \in 0..n : g[k] = IF k = 0 THEN {Result(w, "none")}
                               ELSE UNION {After(q, k) : q \in g[k - 1]}
    BY <2>5, <2>6, <2>7, Zenon
  <2>9. g = [k \in 0..n |-> IF k = 0 THEN {Result(w, "none")}
                            ELSE UNION {After(q, k) : q \in g[k - 1]}]
    BY <2>5, <2>8, Zenon
  <2>10. QED
    BY <2>9
<1>8. Done = [k \in 0..n |-> IF k = 0 THEN {Result(w, "none")}
                             ELSE UNION {After(q, k) : q \in Done[k - 1]}]
  BY <1>5, <1>7
<1>9. \A k \in 0..n : Done[k] \subseteq R
  <2>1. 0 \in Reached
    BY <1>1, <1>2, <1>8
  <2>2. ASSUME NEW k \in 1..n, k - 1 \in Reached
        PROVE  k \in Reached
    <3>1. k \in 0..n /\ k # 0
      BY <1>1
    <3>2. Done[k] = IF k = 0 THEN {Result(w, "none")}
                    ELSE UNION {After(q, k) : q \in Done[k - 1]}
      BY <1>8, <3>1, Zenon
    <3>3. Done[k] = UNION {After(q, k) : q \in Done[k - 1]}
      BY <3>1, <3>2
    <3>4. QED
      BY <1>3, <2>2, <3>1, <3>3
  <2> HIDE DEF Reached
  <2>3. \A k \in 0..n : k \in Reached
    BY <1>1, <2>1, <2>2, InductionUpTo
  <2>4. QED
    BY <2>3 DEF Reached
<1>10. r \in R
  BY <1>1, <1>4, <1>9
<1>11. QED
  BY <1>6, <1>10

-----------------------------------------------------------------------------
(* The commands.                                                           *)

\* What v has new is the text in w's editor.
WritesEditor(w, v) ==
    \A i \in Ids : v.db.docs[i] # w.db.docs[i] /\ v.db.docs[i] # NoDoc =>
                      v.db.docs[i] = w.editor

\* Where w has a document, v has it too or the text in w's editor.
KeepsOthers(w, v) ==
    \A i \in Ids : v.db.docs[i] # w.db.docs[i] /\ w.db.docs[i] # NoDoc =>
                      v.db.docs[i] = w.editor

WindowInv(w) == Sound(w) /\ RowsOf(w)

\* What a command may do to the documents, by its name.
Effect(name, w, v) ==
    /\ name \notin {"restore", "overwrite"} => WritesEditor(w, v)
    /\ name \in {"show", "backup", "visit", "run"} => SavesFlagged(w, v)
    /\ name = "restore" => KeepsOthers(w, v)

LEMMA SavesWrite ==
    ASSUME NEW w, NEW v, SavesEditor(w, v)
    PROVE  WritesEditor(w, v)
  BY DEF SavesEditor, WritesEditor

LEMMA SameWrites ==
    ASSUME NEW w, NEW v, v.db.docs = w.db.docs
    PROVE  SavesFlagged(w, v) /\ WritesEditor(w, v) /\ KeepsOthers(w, v)
  BY DEF SavesFlagged, SavesEditor, WritesEditor, KeepsOthers

LEMMA BrowsedStep ==
    ASSUME NEW r, WindowInv(win), Browsed(win, r), win' = r.win, cmd' # "restore"
    PROVE  WindowInv(win') /\ Effect(cmd', win, win')
  BY SavesWrite DEF WindowInv, Browsed, Effect, SavesFlagged

LEMMA EditStep ==
    ASSUME WindowInv(win), NEW t \in Typed, Edit(t)
    PROVE  WindowInv(win') /\ Effect(cmd', win, win')
<1>1. t \in Text /\ win \in Window
  BY WindowConstants DEF WindowInv, Sound
<1>2. win' \in Window /\ win'.db = win.db /\ win'.rows = win.rows
  BY <1>1 DEF Edit, Window
<1>3. Sound(win') /\ RowsOf(win')
  BY <1>2, SameDocsKeepRows DEF WindowInv, Sound
<1>4. QED
  BY <1>2, <1>3, SameWrites DEF WindowInv, Effect, Edit

LEMMA UpdateStep ==
    ASSUME WindowInv(win), Update
    PROVE  WindowInv(win') /\ Effect(cmd', win, win')
<1> DEFINE key == win.db.key
<1>1. key \in Keys \cup {AnyKey, NoKey}
  BY DEF WindowInv, Sound, DbInv, Collection
<1>2. PICK r \in RecSave(win, key) : win' = r.win
  BY DEF Update, Become
<1> HIDE DEF key
<1>3. /\ Sound(r.win)
      /\ r.err \in Error
      /\ r.win.rows = win.rows
      /\ r.win.editor = win.editor
      /\ SavesEditor(win, r.win)
      /\ r.win.db.docs # win.db.docs /\ key # NoKey => win.editor.key = key
      /\ r.err = "none" => r.win.changed = FALSE
  BY <1>1, <1>2, RecSaveFacts DEF WindowInv
<1>4. RowsOf(r.win) /\ WritesEditor(win, r.win)
  BY <1>3, SavesKeepRows, SavesWrite DEF WindowInv
<1>5. cmd' = "update"
  BY DEF Update, Become
<1>6. QED
  BY <1>2, <1>3, <1>4, <1>5 DEF WindowInv, Effect

LEMMA InsertStep ==
    ASSUME WindowInv(win), Insert
    PROVE  WindowInv(win') /\ Effect(cmd', win, win')
<1> DEFINE d == SetJson(win.db, win.editor)
<1>1. /\ win \in Window /\ win.editor \in Text
      /\ DbInv(d) /\ d.docs = win.db.docs /\ d.json = win.editor
  BY SetJsonFacts DEF WindowInv, Sound, Window
<1>2. PICK t \in Within(win, InsertRecord(d)) :
          IF t.err = "none" THEN win' = Settled(ChangeKeyList(t.win)) ELSE win' = t.win
  BY DEF Insert, Become, Then, Result
<1>3. cmd' = "insert"
  BY DEF Insert, Become
<1> HIDE DEF d
<1>4. PICK o \in InsertRecord(d) : t = Result([win EXCEPT !.db = o.db], o.err)
  BY <1>1, <1>2, WithinWindow
<1>5. DbInv(o.db)
  BY <1>1, InsertRecordGood DEF Good
<1>6. /\ WritesText(d, o.db)
      /\ AddsOnly(d, o.db)
      /\ o.err = "none" => d.json \in Document
  BY <1>1, InsertRecordWrites
<1> DEFINE v == [win EXCEPT !.db = o.db]
<1>7. Sound(v) /\ v.db = o.db /\ v.editor = win.editor /\ v.rows = win.rows
  BY <1>1, <1>5, Replaced
<1>8. t.win = v /\ t.err = o.err
  BY <1>4 DEF Result
<1> HIDE DEF v
<1>9. \A u : u.db = o.db => SavesEditor(win, u)
  BY <1>1, <1>6 DEF WritesText, SavesEditor
<1>10. CASE o.err # "none"
  BY <1>2, <1>3, <1>7, <1>8, <1>9, <1>10, SavesKeepRows, SavesWrite DEF WindowInv, Effect
<1>11. CASE o.err = "none"
  <2> DEFINE u == ChangeKeyList(v)
  <2>1. /\ Sound(u) /\ u.db = v.db /\ u.editor = v.editor
        /\ u.changed = v.changed /\ RowsOf(u)
    BY <1>7, ListWindow
  <2>2. win' = Settled(u)
    BY <1>2, <1>8, <1>11
  <2> HIDE DEF u
  <2>3. /\ Sound(Settled(u))
        /\ Settled(u).db = u.db /\ Settled(u).editor = u.editor
        /\ Settled(u).rows = u.rows
        /\ Settled(u).changed = FALSE
    BY <1>1, <1>6, <1>7, <1>11, <2>1, SettledWindow
  <2>4. RowsOf(Settled(u)) /\ WritesEditor(win, Settled(u))
    BY <1>7, <1>9, <2>1, <2>3, SameDocsKeepRows, SavesWrite
  <2>5. QED
    BY <1>3, <2>2, <2>3, <2>4 DEF WindowInv, Effect
<1>12. QED
  BY <1>10, <1>11

LEMMA DeleteStep ==
    ASSUME WindowInv(win), Delete
    PROVE  WindowInv(win') /\ Effect(cmd', win, win')
<1> DEFINE key == win.db.key
<1>1. key \in Keys \cup {AnyKey}
  BY DEF WindowInv, Sound, DbInv, Collection
<1>2. PICK t \in RecDelete(win, key) :
          IF t.err = "none" THEN win' = Forget(ChangeKeyList(t.win)) ELSE win' = t.win
  BY DEF Delete, Become, Then, Result
<1>3. cmd' = "delete"
  BY DEF Delete, Become
<1> HIDE DEF key
<1>4. /\ Sound(t.win) /\ t.err \in Error
      /\ t.win.editor = win.editor /\ t.win.rows = win.rows
      /\ Deletes(win, t.win)
      /\ t.err # "none" => t.win.db.docs = win.db.docs
  BY <1>1, <1>2, RecDeleteFacts DEF WindowInv
<1>5. \A u : u.db = t.win.db => WritesEditor(win, u)
  BY <1>4 DEF Deletes, WritesEditor
<1>6. CASE t.err # "none"
  BY <1>2, <1>3, <1>4, <1>5, <1>6, SameDocsKeepRows DEF WindowInv, Effect
<1>7. CASE t.err = "none"
  <2> DEFINE u == ChangeKeyList(t.win)
  <2>1. /\ Sound(u) /\ u.db = t.win.db /\ u.editor = t.win.editor
        /\ u.changed = t.win.changed /\ RowsOf(u)
    BY <1>4, ListWindow
  <2>2. win' = Forget(u)
    BY <1>2, <1>7
  <2> HIDE DEF u
  <2>3. Sound(Forget(u)) /\ Forget(u).db = u.db /\ Forget(u).rows = u.rows
    BY <2>1, ForgetWindow
  <2>4. RowsOf(Forget(u)) /\ WritesEditor(win, Forget(u))
    BY <1>5, <2>1, <2>3, SameDocsKeepRows
  <2>5. QED
    BY <1>3, <2>2, <2>3, <2>4 DEF WindowInv, Effect
<1>8. QED
  BY <1>6, <1>7

LEMMA DeleteListStep ==
    ASSUME WindowInv(win), NEW S \in SUBSET Keys, DeleteList(S)
    PROVE  WindowInv(win') /\ Effect(cmd', win, win')
<1>1. PICK keys \in SetToSeqs(S), q \in MessageToSave(win) : \E s :
          /\ IF q.err = "none" THEN s \in DeleteAll(q.win, keys) ELSE s = q
          /\ IF s.err = "none" THEN win' = ChangeKeyList(SetAllKey(s.win))
             ELSE IF s.err = "cancel" THEN win' = s.win
             ELSE win' = ChangeKeyList(s.win)
  BY DEF DeleteList, Become, Finally, Then, Result
<1>2. PICK s :
          /\ IF q.err = "none" THEN s \in DeleteAll(q.win, keys) ELSE s = q
          /\ IF s.err = "none" THEN win' = ChangeKeyList(SetAllKey(s.win))
             ELSE IF s.err = "cancel" THEN win' = s.win
             ELSE win' = ChangeKeyList(s.win)
  BY <1>1
<1>3. cmd' = "delete_list"
  BY DEF DeleteList, Become
<1>4. keys \in Seq(Keys)
  <2>1. Cardinality(S) \in Nat
    BY WindowConstants, FS_Subset, FS_CardinalityType
  <2>2. keys \in [1..Cardinality(S) -> S]
    BY <1>2 DEF SetToSeqs
  <2>3. QED
    BY <2>1, <2>2
<1>5. /\ Sound(q.win)
      /\ RowsOf(q.win)
      /\ q.err \in Error \cup {"cancel"}
      /\ q.win.editor = win.editor
      /\ SavesFlagged(win, q.win)
      /\ q.err = "none" => q.win.changed = FALSE
  BY <1>2, MessageFacts DEF WindowInv
<1>6. WritesEditor(win, q.win)
  BY <1>5, SavesWrite DEF SavesFlagged
<1>7. /\ Sound(s.win)
      /\ WritesEditor(win, s.win)
      /\ s.err = "cancel" => RowsOf(s.win)
  <2>1. CASE q.err # "none"
    BY <1>2, <1>5, <1>6, <2>1
  <2>2. CASE q.err = "none"
    <3>1. /\ Sound(s.win) /\ s.err \in Error
          /\ s.win.editor = q.win.editor
          /\ Deletes(q.win, s.win)
      BY <1>2, <1>4, <1>5, <2>2, DeleteAllFacts
    <3>2. WritesEditor(win, s.win)
      BY <1>6, <3>1 DEF WritesEditor, Deletes
    <3>3. QED
      BY <3>1, <3>2 DEF Error
  <2>3. QED
    BY <2>1, <2>2
<1>8. ASSUME NEW u, Sound(u), u.db.docs = s.win.db.docs, win' = ChangeKeyList(u)
      PROVE  WindowInv(win') /\ WritesEditor(win, win')
  <2>1. /\ Sound(ChangeKeyList(u))
        /\ ChangeKeyList(u).db = u.db /\ ChangeKeyList(u).editor = u.editor
        /\ ChangeKeyList(u).changed = u.changed
        /\ RowsOf(ChangeKeyList(u))
    BY <1>8, ListWindow
  <2>2. QED
    BY <1>7, <1>8, <2>1 DEF WindowInv, WritesEditor
<1>9. CASE s.err = "none"
  <2> DEFINE c == SetKey(s.win.db, AnyKey)
  <2>1. DbInv(c) /\ c.docs = s.win.db.docs
    BY <1>7, SettersKeep DEF SetKey, Sound, DbInv, Collection
  <2>2. SetAllKey(s.win) = [s.win EXCEPT !.db = c]
    BY DEF SetAllKey
  <2> HIDE DEF c
  <2>3. Sound(SetAllKey(s.win)) /\ SetAllKey(s.win).db = c
    BY <1>7, <2>1, <2>2, Replaced DEF Sound
  <2>4. WindowInv(win') /\ WritesEditor(win, win')
    BY <1>2, <1>8, <1>9, <2>1, <2>3
  <2>5. QED
    BY <1>3, <2>4 DEF Effect
<1>10. CASE s.err = "cancel"
  BY <1>2, <1>3, <1>7, <1>10 DEF WindowInv, Effect
<1>11. CASE s.err # "none" /\ s.err # "cancel"
  <2>1. WindowInv(win') /\ WritesEditor(win, win')
    BY <1>2, <1>7, <1>8, <1>11
  <2>2. QED
    BY <1>3, <2>1 DEF Effect
<1>12. QED
  BY <1>9, <1>10, <1>11

LEMMA CreateStep ==
    ASSUME WindowInv(win), Create
    PROVE  WindowInv(win') /\ Effect(cmd', win, win')
<1>1. win' = CmCreate(win) /\ cmd' = "create"
  BY DEF Create, Become, Result
<1>2. Sound(win') /\ win'.db = win.db /\ win'.rows = win.rows
  BY <1>1, CmCreateFacts DEF WindowInv
<1>3. RowsOf(win')
  BY <1>2, SameDocsKeepRows DEF WindowInv
<1>4. QED
  BY <1>1, <1>2, <1>3, SameWrites DEF WindowInv, Effect

\* A window over the same documents, then reset, has saved the text at most.
LEMMA ResetStep ==
    ASSUME NEW w, NEW v, Sound(v), SameDocs(w, v), NEW r \in Reset(v)
    PROVE  Sound(r.win) /\ RowsOf(r.win) /\ WritesEditor(w, r.win)
<1>1. Sound(r.win) /\ RowsOf(r.win) /\ SavesFlagged(v, r.win)
  BY ResetFacts DEF Browsed
<1>2. QED
  BY <1>1 DEF SavesFlagged, SavesEditor, SameDocs, WritesEditor

LEMMA SearchStep ==
    ASSUME WindowInv(win), NEW q \in Queries \cup {AllDocuments}, SearchFor(q)
    PROVE  WindowInv(win') /\ Effect(cmd', win, win')
<1>1. win \in Window /\ DbInv(win.db) /\ q \in Query
  <2>1. AllDocuments \in Query
    BY DEF AllDocuments, Query
  <2>2. QED
    BY <2>1, EjdbConstants DEF WindowInv, Sound
<1>2. PICK t \in Within(win, Search(win.db, q)) :
          IF t.err = "none"
          THEN \E u \in ResetMainWindow(t.win) : win' = Forget(u)
          ELSE win' = t.win
  BY DEF SearchFor, Become, Then, Result
<1>3. cmd' = "search"
  BY DEF SearchFor, Become
<1>4. PICK o \in Search(win.db, q) : t = Result([win EXCEPT !.db = o.db], o.err)
  BY <1>1, <1>2, WithinWindow
<1>5. DbInv(o.db) /\ o.db.docs = win.db.docs
  <2> DEFINE d == SetQuery(win.db, q)
  <2>1. DbInv(d) /\ d.docs = win.db.docs
    BY <1>1, SetQueryFacts
  <2>2. o \in OpenDB(CloseDB(d))
    BY <1>4 DEF Search
  <2> HIDE DEF d
  <2>3. DbInv(CloseDB(d)) /\ CloseDB(d).docs = d.docs
    BY <2>1, CloseDBKeeps
  <2>4. DbInv(o.db) /\ o.err \in Error /\ o.db.docs = CloseDB(d).docs
    BY <2>2, <2>3, OpenDBKeeps
  <2>5. QED
    BY <2>1, <2>3, <2>4
<1> DEFINE v == [win EXCEPT !.db = o.db]
<1>6. /\ Sound(v) /\ SameDocs(win, v)
      /\ v.rows = win.rows /\ v.changed = win.changed
  BY <1>5, DbPartWindow DEF WindowInv
<1>7. t.win = v
  BY <1>4 DEF Result
<1> HIDE DEF v
<1>8. CASE t.err # "none"
  BY <1>2, <1>3, <1>6, <1>7, <1>8, SameDocsKeepRows, SameWrites
  DEF WindowInv, Effect, SameDocs
<1>9. CASE t.err = "none"
  <2>1. PICK r \in Reset(v) : win' = Forget(r.win)
    <3>1. PICK u \in ResetMainWindow(v) : win' = Forget(u)
      BY <1>2, <1>7, <1>9
    <3>2. Result(u, "none") \in Reset(v) /\ Result(u, "none").win = u
      BY DEF Reset, Result
    <3>3. QED
      BY <3>1, <3>2
  <2>2. Sound(r.win) /\ RowsOf(r.win) /\ WritesEditor(win, r.win)
    BY <1>6, ResetStep
  <2>3. /\ Sound(win') /\ win'.db = r.win.db /\ win'.rows = r.win.rows
    BY <2>1, <2>2, ForgetWindow
  <2>4. RowsOf(win') /\ WritesEditor(win, win')
    BY <2>2, <2>3, SameDocsKeepRows DEF WritesEditor
  <2>5. QED
    BY <1>3, <2>3, <2>4 DEF WindowInv, Effect
<1>10. QED
  BY <1>8, <1>9

LEMMA BackupStep ==
    ASSUME WindowInv(win), NEW k \in Keys, Backup(k)
    PROVE  WindowInv(win') /\ Effect(cmd', win, win')
<1>1. PICK q \in MessageToSave(win) : \E t :
          /\ IF q.err = "none" THEN t \in Within(q.win, GetRecord(q.win.db, k)) ELSE t = q
          /\ IF t.err = "none" THEN win' = Forget(ChangeKeyList(t.win)) ELSE win' = t.win
  BY DEF Backup, Become, Then, Result
<1>2. PICK t :
          /\ IF q.err = "none" THEN t \in Within(q.win, GetRecord(q.win.db, k)) ELSE t = q
          /\ IF t.err = "none" THEN win' = Forget(ChangeKeyList(t.win)) ELSE win' = t.win
  BY <1>1
<1>3. cmd' = "backup"
  BY DEF Backup, Become
<1>4. Browsed(win, t)
  BY <1>2, AskedAndRead DEF WindowInv
<1>5. CASE t.err # "none"
  BY <1>2, <1>3, <1>4, <1>5, BrowsedStep
<1>6. CASE t.err = "none"
  <2> DEFINE u == ChangeKeyList(t.win)
  <2>1. /\ Sound(u) /\ u.db = t.win.db /\ u.editor = t.win.editor
        /\ u.changed = t.win.changed /\ RowsOf(u)
    BY <1>4, ListWindow DEF Browsed
  <2>2. win' = Forget(u)
    BY <1>2, <1>6
  <2> HIDE DEF u
  <2>3. Sound(Forget(u)) /\ Forget(u).db = u.db /\ Forget(u).rows = u.rows
    BY <2>1, ForgetWindow
  <2>4. RowsOf(Forget(u)) /\ SavesFlagged(win, Forget(u))
    BY <1>4, <2>1, <2>3, SameDocsKeepRows, SavedThenSame DEF Browsed
  <2>5. WritesEditor(win, Forget(u))
    BY <2>4, SavesWrite DEF SavesFlagged
  <2>6. QED
    BY <1>3, <2>2, <2>3, <2>4, <2>5 DEF WindowInv, Effect
<1>7. QED
  BY <1>5, <1>6

LEMMA RestoreStep ==
    ASSUME WindowInv(win), NEW texts \in Imports, NEW over \in BOOLEAN,
           Restore(texts, over)
    PROVE  WindowInv(win') /\ Effect(cmd', win, win')
<1>1. PICK q \in MessageToSave(win) : \E s :
          /\ IF q.err = "none" THEN s \in ImportAll(q.win, texts, over) ELSE s = q
          /\ IF s.err = "cancel" THEN win' = s.win
             ELSE win' = Forget(ChangeKeyList(s.win))
  BY DEF Restore, Become, Finally, Then, Result
<1>2. PICK s :
          /\ IF q.err = "none" THEN s \in ImportAll(q.win, texts, over) ELSE s = q
          /\ IF s.err = "cancel" THEN win' = s.win
             ELSE win' = Forget(ChangeKeyList(s.win))
  BY <1>1
<1>3. cmd' = IF over THEN "overwrite" ELSE "restore"
  BY DEF Restore, Become
<1>4. texts \in Seq(Text)
  BY WindowConstants
<1>5. /\ Sound(q.win)
      /\ RowsOf(q.win)
      /\ q.err \in Error \cup {"cancel"}
      /\ q.win.editor = win.editor
      /\ SavesFlagged(win, q.win)
      /\ q.err = "none" => q.win.changed = FALSE
  BY <1>2, MessageFacts DEF WindowInv
<1>6. KeepsOthers(win, q.win)
  BY <1>5 DEF SavesFlagged, SavesEditor, KeepsOthers
<1>7. /\ Sound(s.win)
      /\ ~over => KeepsOthers(win, s.win)
      /\ s.err = "cancel" => RowsOf(s.win)
  <2>1. CASE q.err # "none"
    BY <1>2, <1>5, <1>6, <2>1
  <2>2. CASE q.err = "none"
    <3>1. /\ Sound(s.win) /\ s.err \in Error
          /\ s.win.editor = q.win.editor
          /\ ~over => AddsOnly(q.win.db, s.win.db)
      BY <1>2, <1>4, <1>5, <2>2, ImportAllFacts
    <3>2. \A i \in Ids : q.win.db.docs[i] # win.db.docs[i] => q.win.db.docs[i] # NoDoc
      BY <1>5, EjdbConstants DEF SavesFlagged, SavesEditor
    <3>3. ~over => KeepsOthers(win, s.win)
      BY <1>6, <3>1, <3>2 DEF KeepsOthers, AddsOnly
    <3>4. QED
      BY <3>1, <3>3 DEF Error
  <2>3. QED
    BY <2>1, <2>2
<1>8. CASE s.err = "cancel"
  BY <1>2, <1>3, <1>7, <1>8 DEF WindowInv, Effect
<1>9. CASE s.err # "cancel"
  <2> DEFINE u == ChangeKeyList(s.win)
  <2>1. /\ Sound(u) /\ u.db = s.win.db /\ u.editor = s.win.editor
        /\ u.changed = s.win.changed /\ RowsOf(u)
    BY <1>7, ListWindow
  <2>2. win' = Forget(u)
    BY <1>2, <1>9
  <2> HIDE DEF u
  <2>3. Sound(Forget(u)) /\ Forget(u).db = u.db /\ Forget(u).rows = u.rows
    BY <2>1, ForgetWindow
  <2>4. RowsOf(Forget(u)) /\ (~over => KeepsOthers(win, Forget(u)))
    BY <1>7, <2>1, <2>3, SameDocsKeepRows DEF KeepsOthers
  <2>5. QED
    BY <1>3, <2>2, <2>3, <2>4 DEF WindowInv, Effect
<1>10. QED
  BY <1>8, <1>9

LEMMA ProjectStep ==
    ASSUME WindowInv(win), LoadProject
    PROVE  WindowInv(win') /\ Effect(cmd', win, win')
<1> DEFINE d == SetQuery(win.db, AllDocuments)
<1>1. DbInv(d) /\ d.docs = win.db.docs /\ win \in Window
  <2>1. AllDocuments \in Query
    BY DEF AllDocuments, Query
  <2>2. QED
    BY <2>1, SetQueryFacts DEF WindowInv, Sound
<1>2. PICK t \in Within(win, OpenEJDB(d)) :
          IF t.err = "none" THEN \E r \in Reset(t.win) : win' = r.win ELSE win' = t.win
  BY DEF LoadProject, Become, Then
<1>3. cmd' = "project"
  BY DEF LoadProject, Become
<1> HIDE DEF d
<1>4. PICK o \in OpenEJDB(d) : t = Result([win EXCEPT !.db = o.db], o.err)
  BY <1>1, <1>2, WithinWindow
<1>5. DbInv(o.db) /\ o.db.docs = d.docs
  BY <1>1, OpenEJDBKeeps
<1> DEFINE v == [win EXCEPT !.db = o.db]
<1>6. /\ Sound(v) /\ SameDocs(win, v)
      /\ v.rows = win.rows /\ v.changed = win.changed
  BY <1>1, <1>5, DbPartWindow DEF WindowInv
<1>7. t.win = v
  BY <1>4 DEF Result
<1> HIDE DEF v
<1>8. CASE t.err # "none"
  BY <1>2, <1>3, <1>6, <1>7, <1>8, SameDocsKeepRows, SameWrites
  DEF WindowInv, Effect, SameDocs
<1>9. CASE t.err = "none"
  <2>1. PICK r \in Reset(v) : win' = r.win
    BY <1>2, <1>7, <1>9
  <2>2. Sound(r.win) /\ RowsOf(r.win) /\ WritesEditor(win, r.win)
    BY <1>6, ResetStep
  <2>3. QED
    BY <1>3, <2>1, <2>2 DEF WindowInv, Effect
<1>10. QED
  BY <1>8, <1>9

\* After the question the window is reset: nothing is flagged any more, so what
\* was saved is the text under the current key.
LEMMA AskedAndReset ==
    ASSUME WindowInv(win), NEW q \in MessageToSave(win), q.err = "none",
           NEW v, Sound(v), v.db.docs = q.win.db.docs, v.changed = q.win.changed,
           NEW r \in Reset(v)
    PROVE  Browsed(win, r)
<1>1. /\ Sound(q.win)
      /\ RowsOf(q.win)
      /\ q.err \in Error \cup {"cancel"}
      /\ q.win.editor = win.editor
      /\ SavesFlagged(win, q.win)
      /\ q.err = "none" => q.win.changed = FALSE
  BY MessageFacts DEF WindowInv
<1>2. /\ Sound(r.win) /\ RowsOf(r.win) /\ SavesFlagged(v, r.win)
      /\ r.err \in Error \cup {"cancel"}
  BY ResetFacts DEF Browsed
<1>3. r.win.db.docs = q.win.db.docs
  BY <1>1, <1>2, UnflaggedSavesNothing
<1>4. SavesFlagged(win, r.win)
  BY <1>1, <1>3, SavedThenSame
<1>5. QED
  BY <1>2, <1>4 DEF Browsed

LEMMA AskedOnly ==
    ASSUME WindowInv(win), NEW q \in MessageToSave(win)
    PROVE  Browsed(win, q) /\ Sound(q.win)
<1>1. /\ Sound(q.win)
      /\ RowsOf(q.win)
      /\ q.err \in Error \cup {"cancel"}
      /\ q.win.editor = win.editor
      /\ SavesFlagged(win, q.win)
      /\ q.err = "none" => q.win.changed = FALSE
  BY MessageFacts DEF WindowInv
<1>2. QED
  BY <1>1 DEF Browsed

LEMMA VisitStep ==
    ASSUME WindowInv(win), VisitTaskMode
    PROVE  WindowInv(win') /\ Effect(cmd', win, win')
<1>1. PICK q \in MessageToSave(win) :
          IF q.err = "none" THEN \E r \in Reset(q.win) : win' = r.win ELSE win' = q.win
  BY DEF VisitTaskMode, Become, Then
<1>2. cmd' = "visit"
  BY DEF VisitTaskMode, Become
<1>3. Browsed(win, q) /\ Sound(q.win)
  BY AskedOnly
<1>4. CASE q.err # "none"
  BY <1>1, <1>2, <1>3, <1>4, BrowsedStep
<1>5. CASE q.err = "none"
  <2>1. PICK r \in Reset(q.win) : win' = r.win
    BY <1>1, <1>5
  <2>2. Browsed(win, r)
    BY <1>3, <1>5, AskedAndReset
  <2>3. QED
    BY <1>2, <2>1, <2>2, BrowsedStep
<1>6. QED
  BY <1>4, <1>5

LEMMA VisitAndRunStep ==
    ASSUME WindowInv(win), VisitAndRun
    PROVE  WindowInv(win') /\ Effect(cmd', win, win')
<1>1. PICK q \in MessageToSave(win) :
          IF q.err = "none"
          THEN \E r \in Reset([q.win EXCEPT !.db = Disconnect(q.win.db),
                                            !.running = TRUE]) : win' = r.win
          ELSE win' = q.win
  BY DEF VisitAndRun, Become, Then
<1>2. cmd' = "run"
  BY DEF VisitAndRun, Become
<1>3. Browsed(win, q) /\ Sound(q.win)
  BY AskedOnly
<1>4. CASE q.err # "none"
  BY <1>1, <1>2, <1>3, <1>4, BrowsedStep
<1>5. CASE q.err = "none"
  <2> DEFINE c == Disconnect(q.win.db)
             v == [q.win EXCEPT !.db = c, !.running = TRUE]
  <2>1. DbInv(c) /\ c.docs = q.win.db.docs
    BY <1>3, CloseDBKeeps DEF Sound
  <2>2. PICK r \in Reset(v) : win' = r.win
    BY <1>1, <1>5
  <2> HIDE DEF c
  <2>3. Sound(v) /\ v.db = c /\ v.changed = q.win.changed
    BY <1>3, <2>1 DEF Sound, Window, DbInv
  <2> HIDE DEF v
  <2>4. Browsed(win, r)
    BY <1>5, <2>1, <2>3, AskedAndReset
  <2>5. QED
    BY <1>2, <2>2, <2>4, BrowsedStep
<1>6. QED
  BY <1>4, <1>5

LEMMA RunFinishedStep ==
    ASSUME WindowInv(win), RunFinished
    PROVE  WindowInv(win') /\ Effect(cmd', win, win')
<1> DEFINE w == [win EXCEPT !.running = FALSE]
<1>1. w \in Window /\ w.db = win.db /\ w.rows = win.rows /\ DbInv(win.db)
  BY DEF WindowInv, Sound, Window
<1>2. PICK t \in Within(w, OpenEJDB(win.db)) : win' = t.win
  BY DEF RunFinished, Become
<1>3. cmd' = "finish"
  BY DEF RunFinished, Become
<1> HIDE DEF w
<1>4. PICK o \in OpenEJDB(win.db) : t = Result([w EXCEPT !.db = o.db], o.err)
  BY <1>1, <1>2, WithinWindow
<1>5. DbInv(o.db) /\ o.db.docs = win.db.docs
  BY <1>1, OpenEJDBKeeps
<1> DEFINE v == [w EXCEPT !.db = o.db]
<1>6. Sound(v) /\ v.db = o.db /\ v.rows = w.rows
  BY <1>1, <1>5, Replaced
<1>7. win' = v
  BY <1>2, <1>4 DEF Result
<1> HIDE DEF v
<1>8. QED
  BY <1>1, <1>3, <1>5, <1>6, <1>7, SameDocsKeepRows, SameWrites DEF WindowInv, Effect

LEMMA StepFacts ==
    ASSUME WindowInv(win), [Next]_vars
    PROVE  WindowInv(win') /\ Effect(cmd', win, win')
<1>1. ASSUME NEW k \in Keys, Show(k)
      PROVE  WindowInv(win') /\ Effect(cmd', win, win')
  <2>1. PICK r \in CmShow(win, k) : win' = r.win
    BY <1>1 DEF Show, Become
  <2>2. Browsed(win, r)
    BY CmShowFacts DEF WindowInv
  <2>3. cmd' = "show"
    BY <1>1 DEF Show, Become
  <2>4. QED
    BY <2>1, <2>2, <2>3, BrowsedStep
<1>2. CASE \E t \in Typed : Edit(t)
  BY <1>2, EditStep
<1>3. CASE \E k \in Keys : Show(k) \/ Backup(k)
  BY <1>1, <1>3, BackupStep
<1>4. CASE Update
  BY <1>4, UpdateStep
<1>5. CASE Insert
  BY <1>5, InsertStep
<1>6. CASE Delete
  BY <1>6, DeleteStep
<1>7. CASE \E S \in SUBSET Keys : DeleteList(S)
  BY <1>7, DeleteListStep
<1>8. CASE Create
  BY <1>8, CreateStep
<1>9. CASE \E q \in Queries \cup {AllDocuments} : SearchFor(q)
  BY <1>9, SearchStep
<1>10. CASE \E s \in Imports, o \in BOOLEAN : Restore(s, o)
  BY <1>10, RestoreStep
<1>11. CASE LoadProject
  BY <1>11, ProjectStep
<1>12. CASE VisitTaskMode
  BY <1>12, VisitStep
<1>13. CASE VisitAndRun
  BY <1>13, VisitAndRunStep
<1>14. CASE RunFinished
  BY <1>14, RunFinishedStep
<1>15. CASE UNCHANGED vars
  BY <1>15, SameWrites DEF vars, Effect
<1>16. QED
  BY <1>2, <1>3, <1>4, <1>5, <1>6, <1>7, <1>8, <1>9, <1>10, <1>11, <1>12,
     <1>13, <1>14, <1>15 DEF Next

-----------------------------------------------------------------------------
(* Theorems.                                                               *)

\* The window and its collection are always of their types, the index names
\* stored documents only, and a listed key is that of a stored document.
THEOREM WindowSound == Spec => []WindowInv(win)
<1>1. Init => WindowInv(win)
  <2> SUFFICES ASSUME NEW docs \in [Ids -> Document \cup {NoDoc}],
                      win = [db |-> NewCollection(docs), editor |-> Template,
                             changed |-> FALSE, undo |-> FALSE, rows |-> {},
                             writable |-> TRUE, running |-> FALSE, shown |-> NoKey]
               PROVE  WindowInv(win)
    BY DEF Init
  <2>1. DbInv(NewCollection(docs))
    BY NewCollectionSound
  <2>2. Template \in Text
    BY WindowConstants DEF Document, Text
  <2> DEFINE c == NewCollection(docs)
  <2>3. c \in Collection /\ win.db = c /\ win.rows = {}
    BY <2>1 DEF DbInv
  <2> HIDE DEF c
  <2>4. win \in Window
    BY <2>2, <2>3 DEF Window, c
  <2>5. QED
    BY <2>1, <2>3, <2>4 DEF WindowInv, Sound, RowsOf, c
<1>2. WindowInv(win) /\ [Next]_vars => WindowInv(win)'
  BY StepFacts
<1>3. QED
  BY <1>1, <1>2, PTL DEF Spec

\* Whatever the commands throw, and wherever a list of deletions or an import
\* stops, the window stays of its type.
THEOREM TypeCorrect == Spec => []TypeOK
<1>1. WindowInv(win) => TypeOK
  BY DEF WindowInv, Sound, TypeOK
<1>2. QED
  BY <1>1, WindowSound, PTL

\* A row of the key table names a record that exists.
THEOREM RowsExistHolds == Spec => []RowsExist
<1>1. WindowInv(win) => RowsExist
  BY DEF WindowInv, RowsOf, RowsExist
<1>2. QED
  BY <1>1, WindowSound, PTL

\* Outside an import, a command writes the text on the screen or nothing.
THEOREM WrittenIsShownHolds == Spec => WrittenIsShown
<1> DEFINE A == \A i \in Ids :
                   (win'.db.docs[i] # win.db.docs[i] /\ win'.db.docs[i] # NoDoc)
                      => cmd' \in {"restore", "overwrite"} \/ win'.db.docs[i] = win.editor
<1>1. WindowInv(win) /\ [Next]_vars => [A]_vars
  <2> SUFFICES ASSUME WindowInv(win), [Next]_vars PROVE A
    OBVIOUS
  <2>1. Effect(cmd', win, win')
    BY StepFacts
  <2>2. QED
    BY <2>1 DEF Effect, WritesEditor
<1> HIDE DEF A
<1>2. Spec => [][A]_vars
  BY <1>1, WindowSound, PTL DEF Spec
<1>3. QED
  BY <1>2 DEF WrittenIsShown, A

\* An import without overwriting leaves every record it finds, but for the save
\* of the editor's text that came before it.
THEOREM ImportKeepsRecordsHolds == Spec => ImportKeepsRecords
<1> DEFINE A == \A i \in Ids :
                   (/\ cmd' = "restore"
                    /\ win'.db.docs[i] # win.db.docs[i]
                    /\ win.db.docs[i] # NoDoc) => win'.db.docs[i] = win.editor
<1>1. WindowInv(win) /\ [Next]_vars => [A]_vars
  <2> SUFFICES ASSUME WindowInv(win), [Next]_vars PROVE A
    OBVIOUS
  <2>1. Effect(cmd', win, win')
    BY StepFacts
  <2>2. QED
    BY <2>1 DEF Effect, KeepsOthers
<1> HIDE DEF A
<1>2. Spec => [][A]_vars
  BY <1>1, WindowSound, PTL DEF Spec
<1>3. QED
  BY <1>2 DEF ImportKeepsRecords, A

\* Showing, exporting and changing the mode write nothing but a flagged text,
\* into the current record.
THEOREM BrowsingSavesCurrentHolds == Spec => BrowsingSavesCurrent
<1> DEFINE A == cmd' \in {"show", "backup", "visit", "run"}
                   => \A i \in Ids : win'.db.docs[i] # win.db.docs[i]
                         => win.changed /\ win'.db.docs[i].key = win.db.key
<1>1. WindowInv(win) /\ [Next]_vars => [A]_vars
  <2> SUFFICES ASSUME WindowInv(win), [Next]_vars PROVE A
    OBVIOUS
  <2>1. Effect(cmd', win, win')
    BY StepFacts
  <2>2. QED
    BY <2>1 DEF Effect, SavesFlagged, SavesEditor
<1> HIDE DEF A
<1>2. Spec => [][A]_vars
  BY <1>1, WindowSound, PTL DEF Spec
<1>3. QED
  BY <1>2 DEF BrowsingSavesCurrent, A
=============================================================================

---------------------------- MODULE RecordWindow ----------------------------
(***************************************************************************)
(* The main window at work on one collection (experiments mode): the       *)
(* commands of FITMainMenu.cpp and FITMainWindow.cpp that show, write,     *)
(* delete, filter, export and import records.                              *)
(*                                                                         *)
(* The window is a record value win, because a command is a composition of *)
(* calls any of which may throw past the rest:                             *)
(*   db        the collection (EjdbCollection)                             *)
(*   editor    the text in the record editor                               *)
(*   changed   contentsChanged, which makes the next command ask           *)
(*   undo      the editor can undo; undoAvailable(true) is emitted only    *)
(*             when this turns TRUE                                        *)
(*   rows      the keys listed in keyTable                                 *)
(*   writable  Insert, Create and the Restore commands are enabled         *)
(*   running   a fit run has closed the database (EJDB2 builds)            *)
(* and of what the user sees, for the properties only:                     *)
(*   shown     the key of the record the editor was filled with or wrote   *)
(* A command is the set of its outcomes [win, err].                        *)
(***************************************************************************)
EXTENDS EjdbCollection, SequencesExt

CONSTANTS
    Typed,      \* the texts the user may type into the editor
    Template,   \* the experiment template CmCreate shows
    Imports     \* the record lists in the files the user may import

VARIABLES
    win,        \* the window
    cmd         \* the command that was given last

vars == <<win, cmd>>

ASSUME WindowConstants ==
    /\ Typed \subseteq Text
    /\ Template \in Document
    /\ Imports \subseteq Seq(Text)
    /\ IsFiniteSet(Keys)

Window ==
    [db       : Collection,
     editor   : Text,
     changed  : BOOLEAN,
     undo     : BOOLEAN,
     rows     : SUBSET Keys,
     writable : BOOLEAN,
     running  : BOOLEAN,
     shown    : Keys \cup {NoKey}]

Result(w, e) == [win |-> w, err |-> e]

\* The outcomes of a database call, in the window.
Within(w, outcomes) == {Result([w EXCEPT !.db = o.db], o.err) : o \in outcomes}

\* Go on with step after every result without an error; the others are final.
Then(results, step(_)) ==
    UNION {IF r.err = "none" THEN step(r.win) ELSE {r} : r \in results}

\* What is done whether or not an error was caught, unless the user gave up.
Finally(results, step(_)) ==
    {IF r.err = "cancel" THEN r ELSE Result(step(r.win), r.err) : r \in results}

\* Step after step, until one throws.
Repeat(w, n, step(_, _)) ==
    LET Done[k \in 0..n] ==
            IF k = 0 THEN {Result(w, "none")}
                     ELSE Then(Done[k - 1], LAMBDA v : step(v, k))
    IN  Done[n]

Windows(results) == {r.win : r \in results}

Indexed(d) == {k \in Keys : d.records[k] # NoId}

-----------------------------------------------------------------------------
(* Helpers of the commands.                                                *)

\* Mutant of ChangeKeyList: the table is not cleared first.
ChangeKeyListAdds(w) == [w EXCEPT !.rows = @ \cup Indexed(w.db)]

\* changeKeyList, with the key filter "*".
ChangeKeyList(w) == [w EXCEPT !.rows = Indexed(w.db)]

\* set_record_edit replaces text and undo history.
SetRecordEdit(w, text, key) ==
    [w EXCEPT !.editor = text, !.undo = FALSE, !.shown = key]

\* The editor text is what the database holds now.
Settled(w) ==
    [w EXCEPT !.changed = FALSE, !.shown = w.editor.key]

\* Mutant of RecSave: the collection saves the text it read or saved last.
RecSaveStale(w, key) ==
    Then(Within(w, SaveRecord(w.db, key)),
         LAMBDA v : {Result([v EXCEPT !.changed = FALSE, !.shown = key], "none")})

RecSave(w, key) ==
    Then(Within(w, SaveRecord(SetJson(w.db, w.editor), key)),
         LAMBDA v : {Result(Settled(v), "none")})

\* contentsChanged = false.
Forget(w) == [w EXCEPT !.changed = FALSE]

\* Mutant of MessageToSave: the record is saved under the key in the text.
MessageToSaveByText(w) ==
    IF w.changed /\ w.db.key # AnyKey
    THEN {Result(ChangeKeyList(w), "cancel"), Result(Forget(w), "none")}
         \cup RecSave(w, NoKey)
    ELSE {Result(Forget(w), "none")}

(***************************************************************************)
(* MessageToSave asks about changed contents, unless the current key is a  *)
(* template; after Cancel the command is over.                             *)
(***************************************************************************)
MessageToSave(w) ==
    IF w.changed /\ w.db.key # AnyKey
    THEN {Result(ChangeKeyList(w), "cancel"), Result(Forget(w), "none")}
         \cup RecSave(w, w.db.key)
    ELSE {Result(Forget(w), "none")}

\* CmShow; what it throws ends in the status line.
CmShow(w, k) ==
    Then(Then(MessageToSave(w), LAMBDA v : Within(v, GetRecord(v.db, k))),
         LAMBDA v : {Result(Forget(SetRecordEdit(v, v.db.json, k)), "none")})

CmCreate(w) == Forget(SetRecordEdit(w, Template, NoKey))

(***************************************************************************)
(* resetMainWindow lists the keys and shows one of them: the index of the  *)
(* current key is taken before the table is sorted, so it may be any row.  *)
(* The commands that add records are enabled if the query is empty.        *)
(***************************************************************************)
ResetMainWindow(w) ==
    LET listed == ChangeKeyList(w)
        loaded == IF listed.rows = {} THEN {CmCreate(listed)}
                  ELSE UNION {Windows(CmShow(listed, k)) : k \in listed.rows}
    IN  {[v EXCEPT !.writable = v.db.jql = AllDocuments] : v \in loaded}

Reset(w) == {Result(v, "none") : v \in ResetMainWindow(w)}

\* RecDelete in experiments mode; the editor keeps the text.
RecDelete(w, key) ==
    Then(Within(w, DeleteRecord(w.db, key)),
         LAMBDA v : {Result([v EXCEPT !.shown = IF @ = key THEN NoKey ELSE @],
                            "none")})

DeleteAll(w, keys) ==
    Repeat(w, Len(keys), LAMBDA v, k : RecDelete(v, keys[k]))

\* Mutant of SetAllKey: the empty key instead of the template.
SetAllKeyEmpty(w) == [w EXCEPT !.db = SetKey(@, NoKey)]

SetAllKey(w) == [w EXCEPT !.db = SetKey(@, AnyKey)]

\* Mutant of ImportRecord: the overwrite switch is not looked at.
ImportRecordOver(w, text, overwrite) ==
    Within(w, SaveRecord(SetJson(w.db, text), NoKey))

ImportRecord(w, text, overwrite) ==
    LET d == SetJson(w.db, text)
    IN  Within(w, IF overwrite THEN SaveRecord(d, NoKey) ELSE InsertRecord(d))

ImportAll(w, texts, overwrite) ==
    Repeat(w, Len(texts), LAMBDA v, k : ImportRecord(v, texts[k], overwrite))

Become(name, results) ==
    /\ \E r \in results : win' = r.win
    /\ cmd' = name

-----------------------------------------------------------------------------
\* The window after its constructor, over the documents of a project.
Init ==
    /\ \E docs \in [Ids -> Document \cup {NoDoc}] :
          LET d == NewCollection(docs)
          IN  /\ DistinctKeys(d, Stored(d))
              /\ win = [db |-> d, editor |-> Template, changed |-> FALSE,
                        undo |-> FALSE, rows |-> {}, writable |-> TRUE,
                        running |-> FALSE, shown |-> NoKey]
    /\ cmd = "start"

(* Commands of the user.                                                   *)

\* Typing: recEdited hears of it only when the undo history was empty.
Edit(text) ==
    /\ text # win.editor
    /\ win' = [win EXCEPT !.editor = text, !.undo = TRUE,
                          !.changed = @ \/ ~win.undo]
    /\ cmd' = "edit"

Show(k) ==
    /\ k \in win.rows
    /\ Become("show", CmShow(win, k))

Update == Become("update", RecSave(win, win.db.key))

Insert ==
    /\ win.writable
    /\ Become("insert",
              Then(Within(win, InsertRecord(SetJson(win.db, win.editor))),
                   LAMBDA v : {Result(Settled(ChangeKeyList(v)), "none")}))

\* CmDelete after the user has confirmed the key.
Delete ==
    Become("delete",
           Then(RecDelete(win, win.db.key),
                LAMBDA v : {Result(Forget(ChangeKeyList(v)), "none")}))

\* CmDeleteList, with the keys S marked, in any order.
DeleteList(S) ==
    /\ S # {} /\ S \subseteq Indexed(win.db)
    /\ \E keys \in SetToSeqs(S) :
          Become("delete_list",
                 Finally(Then(Then(MessageToSave(win),
                                   LAMBDA v : DeleteAll(v, keys)),
                              LAMBDA v : {Result(SetAllKey(v), "none")}),
                         ChangeKeyList))

Create ==
    /\ win.writable
    /\ Become("create", {Result(CmCreate(win), "none")})

\* CmSearch; an error leaves the query and an unfinished index in place.
SearchFor(q) ==
    Become("search",
           Then(Within(win, Search(win.db, q)),
                LAMBDA v : {Result(Forget(u), "none") : u \in ResetMainWindow(v)}))

\* CmBackupJSON, CmBackupYAML; k is the last record exported and stays
\* current.
Backup(k) ==
    /\ k \in Indexed(win.db)
    /\ Become("backup",
              Then(Then(MessageToSave(win),
                        LAMBDA v : Within(v, GetRecord(v.db, k))),
                   LAMBDA v : {Result(Forget(ChangeKeyList(v)), "none")}))

\* CmRestoreJSON, CmRestoreYAML; the first error ends the import.
Restore(texts, overwrite) ==
    /\ win.writable
    /\ Become(IF overwrite THEN "overwrite" ELSE "restore",
              Finally(Then(MessageToSave(win),
                           LAMBDA v : ImportAll(v, texts, overwrite)),
                      LAMBDA v : Forget(ChangeKeyList(v))))

-----------------------------------------------------------------------------
(* The project, the other mode, and fit runs.                              *)

\* CmSelectProject, of the project's own file; it asks only in the new one.
LoadProject ==
    Become("project",
           Then(Within(win, OpenEJDB(SetQuery(win.db, AllDocuments))), Reset))

\* CmTaskMode and, later, CmDBMode.
VisitTaskMode == Become("visit", Then(MessageToSave(win), Reset))

\* The same, with a run started there: CmRunTest closes the database.
VisitAndRun ==
    /\ ~win.running
    /\ Indexed(win.db) # {}
    /\ Become("run",
              Then(MessageToSave(win),
                   LAMBDA v : Reset([v EXCEPT !.db = Disconnect(@),
                                              !.running = TRUE])))

\* runFinished reopens the database and touches nothing else of the window.
RunFinished ==
    /\ win.running
    /\ Become("finish",
              Within([win EXCEPT !.running = FALSE], OpenEJDB(win.db)))

Next ==
    \/ \E t \in Typed : Edit(t)
    \/ \E k \in Keys : Show(k) \/ Backup(k)
    \/ Update
    \/ Insert
    \/ Delete
    \/ \E S \in SUBSET Keys : DeleteList(S)
    \/ Create
    \/ \E q \in Queries \cup {AllDocuments} : SearchFor(q)
    \/ \E s \in Imports, o \in BOOLEAN : Restore(s, o)
    \/ LoadProject
    \/ VisitTaskMode
    \/ VisitAndRun
    \/ RunFinished

Spec == Init /\ [][Next]_vars

-----------------------------------------------------------------------------
(* Properties.                                                             *)

TypeOK == win \in Window

\* What a command writes into a document is the text on the screen when it
\* was given: no save goes through with a text read or imported earlier.
WrittenIsShown ==
    [][\A i \in Ids :
          (win'.db.docs[i] # win.db.docs[i] /\ win'.db.docs[i] # NoDoc)
              => cmd' \in {"restore", "overwrite"} \/ win'.db.docs[i] = win.editor]_vars

\* A row of the key table names a record that exists, also after deletions,
\* imports and filters, and while a fit run keeps the database closed.
RowsExist ==
    \A k \in win.rows : \E i \in Stored(win.db) : win.db.docs[i].key = k

\* An import that may not overwrite leaves every record it finds as it is
\* (the editor's own text may be saved before it).
ImportKeepsRecords ==
    [][\A i \in Ids :
          (/\ cmd' = "restore"
           /\ win'.db.docs[i] # win.db.docs[i]
           /\ win.db.docs[i] # NoDoc) => win'.db.docs[i] = win.editor]_vars

\* Browsing writes only flagged changes, and only to the current record: the
\* save the window offers stops at a text whose key fields were edited.
BrowsingSavesCurrent ==
    [][cmd' \in {"show", "backup", "visit", "run"}
          => \A i \in Ids : win'.db.docs[i] # win.db.docs[i]
                => win.changed /\ win'.db.docs[i].key = win.db.key]_vars

\* "Try to update record with changed key fields. You must use command
\* Insert": while a record is shown, Update writes no other record.
UpdateWritesShown ==
    [][cmd' = "update" /\ win.shown # NoKey
          => \A i \in Ids : win'.db.docs[i] # win.db.docs[i]
                => win'.db.docs[i].key = win.shown]_vars
=============================================================================

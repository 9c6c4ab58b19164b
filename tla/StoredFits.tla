----------------------------- MODULE StoredFits -----------------------------
(***************************************************************************)
(* What becomes of the results of a fit: the window that shows them        *)
(* (FitResultsWindow), the collection "fits" they are saved in, and what   *)
(* the main window does with both: it runs tasks, deletes them with their  *)
(* fits, and opens projects.                                               *)
(*                                                                         *)
(* Tables are the key of the task they were computed for. A collection is  *)
(* the dictionary that KeyedStore promises: neither tasks nor fits have a  *)
(* filter. Its index is empty while the database is closed for a run.      *)
(*                                                                         *)
(*   db       by project: the keys of the stored tasks, the stored fits    *)
(*   work     by project: the result files in work/output                  *)
(*   gui      the main window in task mode: dir, the project of fitTaskDir *)
(*            and projectSettings; opened, the project whose database was  *)
(*            opened last; connected; rows, the keys listed; json, the key *)
(*            of current_Json; lastKey, which is lastCalcRecordKey;        *)
(*            showOn, whether Show Results is enabled                      *)
(*   results  the results window                                           *)
(*   fit      the gemsfit2 process: its phase, and the task it works on    *)
(*                                                                         *)
(* Left out: result files read from a directory the user picks ("Only      *)
(* test!!!"), edited tables, plots, and projects opened during a run.      *)
(***************************************************************************)
EXTENDS TLC

CONSTANTS
    Keys,       \* the keys of tasks
    NoKey,      \* the empty key
    Projects,   \* the projects the user may open
    NoTables,   \* empty tables
    NoFit,      \* no stored fit
    Faults,     \* the calls the driver may fail in on an open database
    Switches    \* whether projects are opened after the first run

VARIABLES db, work, gui, results, fit

vars == <<db, work, gui, results, fit>>

Tables == Keys \cup {NoTables}

ASSUME StoredFitsConstants ==
    /\ NoKey \notin Keys
    /\ NoTables \notin Keys
    /\ NoFit \notin Tables
    /\ Projects # {}
    /\ Faults \subseteq {"read", "write", "delete"}
    /\ Switches \in BOOLEAN

Project == [tasks : SUBSET Keys, fits : [Keys -> Tables \cup {NoFit}]]

MainWindow ==
    [dir : Projects, opened : Projects, connected : BOOLEAN,
     rows : SUBSET Keys, json : Keys \cup {NoKey}, lastKey : Keys \cup {NoKey},
     showOn : BOOLEAN]

ResultsWindow == [title : Keys \cup {NoKey}, tables : Tables]

Process ==
    [phase : {"none"}, dir : Projects, task : {NoKey}]
    \cup [phase : {"fitting", "ended"}, dir : Projects, task : Keys]

\* The window before it is shown, and again after it was closed.
Closed == [title |-> NoKey, tables |-> NoTables]

\* The collections as a command finds them.
Tasks == IF gui.connected THEN db[gui.opened].tasks ELSE {}

Fit(k) == IF gui.connected /\ k # NoKey THEN db[gui.opened].fits[k] ELSE NoFit

\* The driver may fail; one that is not connected refuses to write.
Fails(call) == gui.connected /\ call \in Faults

WriteFails == ~gui.connected \/ Fails("write")

-----------------------------------------------------------------------------
\* The record that is opened first; none if the collection is empty.
First(S, k) == IF S = {} THEN {k} ELSE S

\* Task mode was just chosen in a project; earlier sessions may have left
\* result files.
Init ==
    /\ db \in [Projects -> [tasks : SUBSET Keys, fits : {[k \in Keys |-> NoFit]}]]
    /\ work \in [Projects -> Tables]
    /\ \E p \in Projects :
          gui \in [dir : {p}, opened : {p}, connected : {TRUE},
                   rows : {db[p].tasks}, json : First(db[p].tasks, NoKey),
                   lastKey : {NoKey}, showOn : {FALSE}]
    /\ results = Closed
    /\ fit = [phase |-> "none", dir |-> gui.dir, task |-> NoKey]

-----------------------------------------------------------------------------
(* Tasks.                                                                  *)

\* openRecordKey: a row may be of a record that is not in the index any more.
OpenTask(k) ==
    /\ k \in gui.rows \cap Tasks
    /\ gui' = [gui EXCEPT !.json = k]
    /\ UNCHANGED <<db, work, results, fit>>

\* CmInsert and CmUpdate of a text with key k: what the driver refuses is in
\* memory nevertheless.
WriteTask(k) ==
    \/ /\ gui.connected
       /\ db' = [db EXCEPT ![gui.opened].tasks = @ \cup {k}]
       /\ gui' = [gui EXCEPT !.json = k, !.rows = db'[gui.opened].tasks]
       /\ UNCHANGED <<work, results, fit>>
    \/ /\ WriteFails
       /\ gui' = [gui EXCEPT !.json = k]
       /\ UNCHANGED <<db, work, results, fit>>

\* Mutant of Deleted: the fits stay.
DeletedWithoutFits(p, S) == [p EXCEPT !.tasks = @ \ S]

\* RecDelete of each of S: the record, then the fit with the same key.
Deleted(p, S) ==
    [p EXCEPT !.tasks = @ \ S,
              !.fits  = [k \in Keys |-> IF k \in S THEN NoFit ELSE @[k]]]

\* CmDeleteList, and CmDelete of one record.
DeleteTasks(S) ==
    /\ S # {} /\ S \subseteq Tasks
    /\ db' = [db EXCEPT ![gui.opened] = Deleted(@, S)]
    /\ gui' = [gui EXCEPT !.rows = db'[gui.opened].tasks]
    /\ UNCHANGED <<work, results, fit>>

\* The task k is gone, its fit is not.
HalfDeleted(p, S, k) == [Deleted(p, S) EXCEPT !.tasks = @ \ {k}]

\* The driver fails at the fit of k. CmDelete does not list the records again
\* then.
DeleteStops(S, k) ==
    /\ Fails("delete")
    /\ k \in Tasks \ S /\ Fit(k) # NoFit /\ S \subseteq Tasks
    /\ db' = [db EXCEPT ![gui.opened] = HalfDeleted(@, S, k)]
    /\ gui' \in {[gui EXCEPT !.rows = db'[gui.opened].tasks]}
                  \cup {g \in {gui} : S = {}}
    /\ UNCHANGED <<work, results, fit>>

-----------------------------------------------------------------------------
(* Runs.                                                                   *)

\* What CmRunTest stores: under the key k of the editor, if the record in
\* memory has it too; else the record in memory as a new one.
SavedBeforeRun(k) == IF k \in Tasks THEN gui.json = k
                     ELSE gui.json \notin Tasks \cup {NoKey}

\* Mutant of EmptyWork: an earlier run's result files stay.
EmptyWorkKeeps == work

\* removeDirectoryEntry.
EmptyWork == [work EXCEPT ![gui.dir] = NoTables]

\* CmRunTest empties the directory and sets lastCalcRecordKey first.
RunRefused(k) ==
    /\ fit.phase = "none"
    /\ WriteFails \/ ~SavedBeforeRun(k)
    /\ work' = EmptyWork
    /\ gui' = [gui EXCEPT !.lastKey = k]
    /\ UNCHANGED <<db, results, fit>>

\* The process starts, or does not.
Run(k) ==
    /\ fit.phase = "none"
    /\ gui.connected /\ SavedBeforeRun(k)
    /\ db' = [db EXCEPT ![gui.opened].tasks = @ \cup {gui.json}]
    /\ work' = EmptyWork
    /\ gui' = [gui EXCEPT !.lastKey = k, !.connected = FALSE]
    /\ fit' \in {fit, [phase |-> "fitting", dir |-> gui.dir, task |-> k]}
    /\ UNCHANGED results

\* The result files are written at the end; a run may stop without them.
FitEnds ==
    /\ fit.phase = "fitting"
    /\ work' \in {work, [work EXCEPT ![fit.dir] = fit.task]}
    /\ fit' = [fit EXCEPT !.phase = "ended"]
    /\ UNCHANGED <<db, gui, results>>

\* runFinished opens the database of the project settings; no key is listed.
Reopened(g) == [g EXCEPT !.connected = TRUE, !.opened = g.dir, !.showOn = TRUE]

RunFinished ==
    /\ fit.phase = "ended"
    /\ gui' = Reopened(gui)
    /\ fit' = [fit EXCEPT !.phase = "none", !.task = NoKey]
    /\ UNCHANGED <<db, work, results>>

\* gemsfit2 -initJ removes the result files; the window waits for it, and
\* runFinished is called.
CreateTask ==
    /\ fit.phase = "none"
    /\ work' = EmptyWork
    /\ gui' = Reopened(gui)
    /\ UNCHANGED <<db, results, fit>>

\* CmTaskMode again, after other work in experiments mode: if no task is in
\* the index it asks for a template, which takes a list of GEMS3K files.
TaskMode ==
    \E k \in First(Tasks, gui.json) :
        LET g == [gui EXCEPT !.rows = Tasks, !.json = k, !.showOn = gui.lastKey # NoKey]
        IN  \/ /\ gui' = g
               /\ UNCHANGED <<db, work, results, fit>>
            \/ /\ Tasks = {} /\ fit.phase = "none"
               /\ work' = EmptyWork
               /\ gui' = Reopened(g)
               /\ UNCHANGED <<db, results, fit>>

-----------------------------------------------------------------------------
(* Projects.                                                               *)

MayOpen == fit.phase = "none" /\ (Switches \/ gui.lastKey = NoKey)

\* CmSelectProject and CmConfigProject. Nothing resets lastCalcRecordKey.
OpenProject(p) ==
    /\ MayOpen
    /\ \E k \in First(db[p].tasks, gui.json) :
          gui' = [gui EXCEPT !.dir = p, !.opened = p, !.connected = TRUE,
                             !.rows = db[p].tasks, !.json = k]
    /\ UNCHANGED <<db, work, results, fit>>

\* CmConfigProject has the directory and settings of the project p when the
\* user cancels the dialog; the database and the list are as before.
ConfigCancelled(p) ==
    /\ MayOpen
    /\ gui' = [gui EXCEPT !.dir = p]
    /\ UNCHANGED <<db, work, results, fit>>

-----------------------------------------------------------------------------
(* The results window.                                                     *)

\* Mutant of ReadBsonRecord: what was not found is read all the same.
ReadBsonRecordUnfound(k) == {IF k = NoKey THEN results.tables ELSE Fit(k)}

\* readBsonRecord: tables are emptied if there is no stored fit, and kept if
\* the key is empty or the driver fails.
ReadBsonRecord(k) ==
    {IF k = NoKey THEN results.tables ELSE IF Fit(k) = NoFit THEN NoTables ELSE Fit(k)}
    \cup {t \in {results.tables} : Fails("read") /\ Fit(k) # NoFit}

\* CmShowFitResults of a row, or of none.
ShowFitResults(k) ==
    /\ k \in gui.rows \cup {NoKey}
    /\ results' \in [title : {k}, tables : ReadBsonRecord(k)]
    /\ UNCHANGED <<db, work, gui, fit>>

\* CmShowCalcResults: the files replace what readBsonRecord has read.
ShowCalcResults ==
    /\ gui.showOn
    /\ results' = [title |-> gui.lastKey, tables |-> work[gui.dir]]
    /\ UNCHANGED <<db, work, gui, fit>>

CmSaveBsonRecord == [db EXCEPT ![gui.opened].fits[results.title] = results.tables]

\* What cannot be written is reported to stdout only.
SaveResults ==
    /\ results.title # NoKey
    /\ gui.connected
    /\ db' = CmSaveBsonRecord
    /\ UNCHANGED <<work, gui, results, fit>>

CmDeleteRecord ==
    /\ Fit(results.title) # NoFit
    /\ db' = [db EXCEPT ![gui.opened].fits[results.title] = NoFit]
    /\ UNCHANGED <<work, gui, results, fit>>

CloseResults ==
    /\ results' = Closed
    /\ UNCHANGED <<db, work, gui, fit>>

-----------------------------------------------------------------------------
Next ==
    \/ \E k \in Keys : OpenTask(k)
    \/ \E k \in Keys : WriteTask(k)
    \/ \E S \in SUBSET Keys : DeleteTasks(S)
    \/ \E S \in SUBSET Keys, k \in Keys : DeleteStops(S, k)
    \/ \E k \in Keys : RunRefused(k)
    \/ \E k \in Keys : Run(k)
    \/ FitEnds
    \/ RunFinished
    \/ CreateTask
    \/ TaskMode
    \/ \E p \in Projects : OpenProject(p)
    \/ \E p \in Projects : ConfigCancelled(p)
    \/ \E k \in Keys \cup {NoKey} : ShowFitResults(k)
    \/ ShowCalcResults
    \/ SaveResults
    \/ CmDeleteRecord
    \/ CloseResults

Spec == Init /\ [][Next]_vars

-----------------------------------------------------------------------------
(* Properties.                                                             *)

TypeOK ==
    /\ db \in [Projects -> Project]
    /\ work \in [Projects -> Tables]
    /\ gui \in MainWindow
    /\ results \in ResultsWindow
    /\ fit \in Process

\* A stored fit holds what was computed for the task whose key it has, or
\* nothing, although its title, its tables and its key come from the last run
\* asked for, the work directory and the row chosen, at different times. (Not
\* so if reading may fail, or with Switches.)
FitsUnderOwnKey ==
    \A p \in Projects, k \in Keys : db[p].fits[k] \in {NoFit, NoTables, k}

Orphan(p, k) == db[p].fits[k] # NoFit /\ k \notin db[p].tasks

\* A stored fit is left without its task in two ways only. The results
\* window, which is not told of deletions, saves what it shows; or the driver
\* fails when the task is gone already, and then no other fit is left over,
\* of however many tasks are deleted at once.
OrphansAreSaved ==
    [][\A p \in Projects, k \in Keys :
          ~Orphan(p, k) /\ Orphan(p, k)' =>
              \/ results.title = k /\ db'[p].tasks = db[p].tasks
              \/ /\ "delete" \in Faults
                 /\ k \in db[p].tasks
                 /\ \A j \in Keys \ {k} : Orphan(p, j)' => Orphan(p, j)]_vars
=============================================================================

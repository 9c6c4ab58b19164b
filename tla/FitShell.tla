------------------------------ MODULE FitShell ------------------------------
(***************************************************************************)
(* The life of a fit run: the main window in its two modes, the gemsfit2   *)
(* process it starts (QProcess fitProcess, one for fits and for task       *)
(* templates), the work directory both write to, and the project database  *)
(* that only one of the two programs can have open (EJDB2 locks the file). *)
(*                                                                         *)
(*   gui   the window: mode; db, one collection per mode on one connection *)
(*         (EjdbCollection); the editor text; the enabled state of the     *)
(*         actions Run, Show Results and Cancel; lastKey, which is         *)
(*         lastCalcRecordKey; waiting, inside fitProcess->waitForFinished  *)
(*         of createTaskTemplate; results, the title and the contents of   *)
(*         the results window                                              *)
(*   proc  fitProcess: what it was started for, how far it has come, and   *)
(*         the task it works on. "ended" is a process that is gone while   *)
(*         QProcess has not emitted finished() yet                         *)
(*   work  the task file in work/ and the result files in work/output/, as *)
(*         the task they were computed for                                 *)
(*                                                                         *)
(* Records are written here by Run and by prompts only; the other record   *)
(* commands are those of RecordWindow. Key filters are empty. A task file  *)
(* has its name from the task's key.                                       *)
(***************************************************************************)
EXTENDS EjdbCollection

CONSTANTS
    Typed,          \* the texts the user may type into the editor
    Template,       \* the text of a new record
    Projects,       \* the documents of a project, by collection
    StartFails,     \* whether gemsfit2 may fail to start
    Reloads         \* whether projects are opened while a fit is running

Modes == {"experiments", "tasks"}

\* No driver fails here: what openEJDB throws in runFinished nobody catches.
ASSUME ShellConstants ==
    /\ Typed \subseteq Text
    /\ Template \in Text \ {Malformed}
    /\ Projects \subseteq [Modes -> [Ids -> Document \cup {NoDoc}]]
    /\ \A p \in Projects, m \in Modes :
          LET d == NewCollection(p[m])
          IN  Stored(d) # {} /\ DistinctKeys(d, Stored(d))
    /\ StartFails \in BOOLEAN
    /\ Reloads \in BOOLEAN
    /\ NoDoc \notin Text
    /\ ~Faults

VARIABLES gui, proc, work

vars == <<gui, proc, work>>

RecordKeys == Keys \cup {AnyKey, NoKey}

Shell ==
    [mode     : Modes,
     db       : [Modes -> Collection],
     editor   : Text,
     runOn    : BOOLEAN,
     showOn   : BOOLEAN,
     cancelOn : BOOLEAN,
     waiting  : BOOLEAN,
     lastKey  : RecordKeys,
     results  : [title : RecordKeys, contents : Text \cup {NoDoc}]]

Process ==
    [job   : {"none", "fit", "template"},
     phase : {"starting", "reading", "fitting", "ended"},
     task  : Text \cup {NoDoc}]

WorkDirectory == [input : Text \cup {NoDoc}, output : Text \cup {NoDoc}]

NoProcess == [job |-> "none", phase |-> "ended", task |-> NoDoc]

EmptyWork == [input |-> NoDoc, output |-> NoDoc]

Connected == gui.db["tasks"].open

RecordsCount(d) == {k \in Keys : d.records[k] # NoId}

-----------------------------------------------------------------------------
(* Parts of the handlers.                                                  *)

CloseEJDB(g) == [g EXCEPT !.db = [m \in Modes |-> Disconnect(@[m])]]

\* openEJDB of the window: the collections load one after the other.
Reopen(g) ==
    {[g EXCEPT !.db = d] :
        d \in {f \in [Modes -> UNION {{o.db : o \in OpenEJDB(g.db[m])} :
                                         m \in Modes}] :
                  \A m \in Modes :
                      \E o \in OpenEJDB(g.db[m]) : o.db = f[m]}}

\* MessageToSave, which does not ask without edits; Cancel changes nothing,
\* and a save that fails ends the program.
Asked(g) ==
    LET d == g.db[g.mode]
    IN  {g} \cup {[g EXCEPT !.db[g.mode] = o.db] :
                     o \in {p \in SaveRecord(SetJson(d, g.editor), d.key) :
                               p.err = "none" /\ d.key # AnyKey}}

\* getRecord and set_record_edit for a record in the index.
Opened(g, k) ==
    {[g EXCEPT !.db[g.mode] = o.db, !.editor = o.db.json] :
        o \in GetRecord(g.db[g.mode], k)}

\* resetMainWindow where the index is not empty.
OpenFirst(g) ==
    UNION {Opened(g, k) : k \in RecordsCount(g.db[g.mode])}

\* The record a run saves is the one the collection has in memory.
SaveBeforeRun(d, k) ==
    IF FindRecord(d, k) THEN SaveRecord(d, k) ELSE InsertRecord(d)

\* fitProcess->start() does nothing but warn while a process is running.
Started(job, task) ==
    IF proc.job = "none"
    THEN [job |-> job, phase |-> "starting", task |-> task]
    ELSE proc

\* createTaskTemplate up to waitForFinished, or up to the errors it throws.
CreateTaskTemplate(g) ==
    \/ gui' = [g EXCEPT !.waiting = TRUE] /\ proc' = Started("template", NoDoc)
    \/ gui' = g /\ proc' = proc

\* Mutant of RunFinished: Cancel stays enabled.
RunFinishedCancelOn(g) ==
    Reopen([g EXCEPT !.runOn = TRUE, !.showOn = TRUE])

\* Mutant of RunFinished: the database is not connected again.
RunFinishedClosed(g) ==
    {[g EXCEPT !.runOn = TRUE, !.showOn = TRUE, !.cancelOn = FALSE]}

\* runFinished, whatever the process was started for.
RunFinished(g) ==
    Reopen([g EXCEPT !.runOn = TRUE, !.showOn = TRUE, !.cancelOn = FALSE])

-----------------------------------------------------------------------------
\* A project was just opened in experiments mode.
Init ==
    /\ \E p \in Projects :
          LET d == [m \in Modes |-> NewCollection(p[m])]
              g == [mode |-> "experiments", db |-> d, editor |-> Template,
                    runOn |-> FALSE, showOn |-> FALSE, cancelOn |-> FALSE,
                    waiting |-> FALSE, lastKey |-> NoKey,
                    results |-> [title |-> NoKey, contents |-> NoDoc]]
          IN  \E opened \in Reopen(g) : gui \in OpenFirst(opened)
    /\ proc = NoProcess
    /\ work = EmptyWork

(* The user.                                                               *)

Idle == ~gui.waiting

Type(text) ==
    /\ Idle
    /\ gui' = [gui EXCEPT !.editor = text]
    /\ UNCHANGED <<proc, work>>

OpenTask(k) ==
    /\ Idle /\ gui.mode = "tasks"
    /\ k \in RecordsCount(gui.db["tasks"])
    /\ \E g \in Asked(gui) : gui' \in Opened(g, k)
    /\ UNCHANGED <<proc, work>>

\* CmDBMode; while the database is closed a template is shown.
DBMode ==
    /\ Idle /\ gui.mode = "tasks"
    /\ \E g \in Asked(gui) :
          LET there == [g EXCEPT !.mode = "experiments",
                                 !.runOn = FALSE, !.showOn = FALSE]
          IN  gui' \in IF Connected THEN OpenFirst(there)
                       ELSE {[there EXCEPT !.editor = Template]}
    /\ UNCHANGED <<proc, work>>

\* Mutant of InTaskMode: experiments are not counted before Run is enabled.
InTaskModeUncounted(g) ==
    [g EXCEPT !.mode = "tasks", !.runOn = TRUE, !.showOn = g.lastKey # NoKey]

\* What CmTaskMode enables: Run needs experiments, Show Results a last run.
InTaskMode(g) ==
    [g EXCEPT !.mode = "tasks",
              !.runOn = RecordsCount(g.db["experiments"]) # {},
              !.showOn = g.lastKey # NoKey]

\* CmTaskMode; while the database is closed a template is asked for.
TaskMode ==
    /\ Idle /\ gui.mode = "experiments"
    /\ \E g \in Asked(gui) :
          IF Connected
          THEN gui' \in OpenFirst(InTaskMode(g)) /\ UNCHANGED proc
          ELSE CreateTaskTemplate(InTaskMode(g))
    /\ UNCHANGED work

CreateTask ==
    /\ Idle /\ gui.mode = "tasks"
    /\ CreateTaskTemplate(gui)
    /\ UNCHANGED work

\* CmRunTest empties the work directory before it looks at the text.
RunMalformed ==
    /\ Idle /\ gui.runOn
    /\ gui.editor = Malformed
    /\ work' = EmptyWork
    /\ UNCHANGED <<gui, proc>>

\* It saves a record, which may be refused, after it has set lastKey.
RunRefused ==
    /\ Idle /\ gui.runOn
    /\ gui.editor # Malformed
    /\ \E o \in SaveBeforeRun(gui.db[gui.mode], gui.editor.key) :
          /\ o.err # "none"
          /\ gui' = [gui EXCEPT !.db[gui.mode] = o.db,
                                !.lastKey = gui.editor.key]
    /\ work' = EmptyWork
    /\ UNCHANGED proc

\* The file the process is to read: an experiment is not a task.
TaskFile == IF gui.mode = "tasks" THEN gui.editor ELSE Malformed

\* Mutant of Prepared: the database stays open.
PreparedOpen(o) ==
    [gui EXCEPT !.db[gui.mode] = o.db, !.lastKey = gui.editor.key]

\* The window when the process is about to start.
Prepared(o) ==
    CloseEJDB([gui EXCEPT !.db[gui.mode] = o.db, !.lastKey = gui.editor.key])

Saved ==
    {o \in SaveBeforeRun(gui.db[gui.mode], gui.editor.key) : o.err = "none"}

RunStarts ==
    /\ Idle /\ gui.runOn
    /\ gui.editor # Malformed
    /\ \E o \in Saved :
          gui' = [Prepared(o) EXCEPT !.runOn = FALSE, !.cancelOn = TRUE]
    /\ proc' = Started("fit", TaskFile)
    /\ work' = [input |-> TaskFile, output |-> NoDoc]

\* Run stays enabled and the database closed.
RunDoesNotStart ==
    /\ Idle /\ gui.runOn
    /\ gui.editor # Malformed
    /\ StartFails /\ proc.job = "none"
    /\ \E o \in Saved : gui' = Prepared(o)
    /\ work' = [input |-> TaskFile, output |-> NoDoc]
    /\ UNCHANGED proc

\* CmCancelGemsfit.
Cancel ==
    /\ Idle /\ gui.cancelOn
    /\ proc' = [proc EXCEPT !.phase = "ended"]
    /\ UNCHANGED <<gui, work>>

\* Mutant of CmShowCalcResults: the title is that of the open record.
CmShowCalcResultsOpen(g) ==
    [g EXCEPT !.results = [title    |-> g.db["tasks"].key,
                           contents |-> work.output]]

\* Files that are not there empty the tables of the results window.
CmShowCalcResults(g) ==
    [g EXCEPT !.results = [title |-> g.lastKey, contents |-> work.output]]

ShowResults ==
    /\ Idle /\ gui.showOn
    /\ gui' = CmShowCalcResults(gui)
    /\ UNCHANGED <<proc, work>>

\* loadNewProject, of the same project; the window waits for the file lock.
LoadProject ==
    /\ Reloads \/ proc.job # "fit"
    /\ Idle /\ proc.phase # "reading"
    /\ \E g \in Reopen(gui) : gui' \in OpenFirst(g)
    /\ UNCHANGED <<proc, work>>

-----------------------------------------------------------------------------
(* The process.                                                            *)

\* The task file is found, and read before the database is opened.
Readable ==
    /\ work.input \notin {NoDoc, Malformed}
    /\ proc.task # Malformed
    /\ work.input.key = proc.task.key

\* EJDB2 lets the process wait for the lock on the database file.
ReadTask ==
    /\ proc.job = "fit" /\ proc.phase = "starting"
    /\ Readable /\ ~Connected
    /\ proc' = [proc EXCEPT !.phase = "reading", !.task = work.input]
    /\ UNCHANGED <<gui, work>>

ReadNothing ==
    /\ proc.job = "fit" /\ proc.phase = "starting"
    /\ ~Readable
    /\ proc' = [proc EXCEPT !.phase = "ended"]
    /\ UNCHANGED <<gui, work>>

\* The experiments are read, the database is closed again.
CloseDatabase ==
    /\ proc.phase = "reading"
    /\ proc' = [proc EXCEPT !.phase = "fitting"]
    /\ UNCHANGED <<gui, work>>

\* The fit is over; its result files are complete.
WriteResults ==
    /\ proc.phase = "fitting"
    /\ work' = [work EXCEPT !.output = proc.task]
    /\ proc' = [proc EXCEPT !.phase = "ended"]
    /\ UNCHANGED gui

\* gemsfit2 -initJ begins, as any run of it, by removing the result files.
WriteTemplate ==
    /\ proc.job = "template" /\ proc.phase = "starting"
    /\ work' = [work EXCEPT !.output = NoDoc]
    /\ proc' = [proc EXCEPT !.phase = "ended"]
    /\ UNCHANGED gui

Crash ==
    /\ proc.phase # "ended"
    /\ proc' = [proc EXCEPT !.phase = "ended"]
    /\ UNCHANGED <<gui, work>>

-----------------------------------------------------------------------------
(* What QProcess tells the window.                                         *)

Finished ==
    /\ Idle
    /\ proc.job # "none" /\ proc.phase = "ended"
    /\ gui' \in RunFinished(gui)
    /\ proc' = NoProcess
    /\ UNCHANGED work

\* Mutant of TemplateShown: no file was written, and none is made up.
TemplateShownUnread(g) == [g EXCEPT !.waiting = FALSE, !.editor = NoDoc]

\* The template goes into the editor whether or not a new one was written.
TemplateShown(g) == [g EXCEPT !.waiting = FALSE, !.editor = Template]

\* waitForFinished emits finished() itself.
FinishedInWait ==
    /\ gui.waiting
    /\ proc.job # "none" /\ proc.phase = "ended"
    /\ gui' \in RunFinished(TemplateShown(gui))
    /\ proc' = NoProcess
    /\ UNCHANGED work

\* waitForFinished gives up after 30 seconds if the process is still there.
WaitTimesOut ==
    /\ gui.waiting
    /\ proc.phase # "ended"
    /\ gui' = TemplateShown(gui)
    /\ UNCHANGED <<proc, work>>

-----------------------------------------------------------------------------
User ==
    \/ \E text \in Typed : Type(text)
    \/ \E k \in Keys : OpenTask(k)
    \/ DBMode
    \/ TaskMode
    \/ CreateTask
    \/ RunMalformed
    \/ RunRefused
    \/ RunStarts
    \/ RunDoesNotStart
    \/ Cancel
    \/ ShowResults
    \/ LoadProject

Gemsfit ==
    \/ ReadTask
    \/ ReadNothing
    \/ CloseDatabase
    \/ WriteResults
    \/ WriteTemplate

Next ==
    \/ User
    \/ Gemsfit
    \/ Crash
    \/ Finished
    \/ FinishedInWait
    \/ WaitTimesOut

Spec == Init /\ [][Next]_vars

\* A fit takes finitely many evaluations, Qt returns to its event loop, and
\* waitForFinished returns; nobody has to crash and the user owes nothing.
Fairness ==
    /\ WF_vars(Gemsfit)
    /\ WF_vars(Finished)
    /\ WF_vars(FinishedInWait)
    /\ WF_vars(WaitTimesOut)

FairSpec == Spec /\ Fairness

-----------------------------------------------------------------------------
(* Properties.                                                             *)

\* The state has its types.
TypeOK ==
    /\ gui \in Shell
    /\ proc \in Process
    /\ work \in WorkDirectory

\* A fit that has not read its experiments finds the database free: nothing
\* that the user does after CmRunTest closed it opens it again under the
\* process, which would wait for the file lock. (Not so with Reloads.)
FitNeverWaits ==
    proc.job = "fit" /\ proc.phase = "starting" => ~Connected

\* No second run can be asked for while a fit is working, through neither
\* mode: CmTaskMode enables Run by the number of experiments, and a closed
\* database counts none. (Not so with Reloads.)
NoRunDuringFit == proc.job = "fit" => ~gui.runOn

\* Cancel is enabled only while there is something to kill, also after runs
\* that were refused, did not start, or came upon a template's process.
CancelHasTarget == gui.cancelOn => proc.job # "none"

\* What the results window shows under a key, and may save under it, was
\* computed for the task with this key. (Not so with Reloads.)
ResultsUnderOwnKey ==
    gui.results.contents # NoDoc =>
        gui.results.contents.key = gui.results.title

\* "Last calculated record key" (FITMainWindow.h:84): the result files are
\* those of the record lastCalcRecordKey names.
LastKeyIsCalculated ==
    work.output # NoDoc => work.output.key = gui.lastKey

\* Every fit gives the database and the Run button back, however it ends:
\* done, crashed, killed, without a task file, or inside the wait of
\* createTaskTemplate. (Not so with Reloads.)
FitsEnd == proc.job = "fit" ~> Connected /\ gui.runOn
=============================================================================

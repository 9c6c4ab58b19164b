--------------------------- MODULE FitShellProofs ---------------------------
(***************************************************************************)
(* Theorems about FitShell, for every set of keys, texts and projects.     *)
(* Without Reloads one fit at a time has the database for itself: the      *)
(* inductive invariant couples the process to the window (during a fit     *)
(* both collections are closed and unloaded, which is what keeps Run off)  *)
(* and the result files to lastKey.                                        *)
(***************************************************************************)
EXTENDS FitShell, EjdbCollectionProofs

\* A window with its types and with sound collections.
Sound(g) == g \in Shell /\ \A m \in Modes : DbInv(g.db[m])

\* Both collections are closed and unloaded.
Shut(g) == \A m \in Modes : ~g.db[m].open /\ g.db[m].records = EmptyIndex

\* Nothing but collections and text differs.
SameButRecord(g, h) == h = [g EXCEPT !.db = h.db, !.editor = h.editor]

\* What the helpers that work on the collections guarantee.
Follows(g, h) == Sound(h) /\ SameButRecord(g, h)

-----------------------------------------------------------------------------
(* The helpers.                                                            *)

\* "No document" is no text.
LEMMA NoDocNotMalformed == NoDoc # Malformed
  BY ShellConstants DEF Text

\* The fields of a window of which only collections and text differ.
LEMMA SameFields ==
    ASSUME NEW g, NEW h, g \in Shell, SameButRecord(g, h)
    PROVE  /\ h.mode = g.mode
           /\ h.runOn = g.runOn
           /\ h.showOn = g.showOn
           /\ h.cancelOn = g.cancelOn
           /\ h.waiting = g.waiting
           /\ h.lastKey = g.lastKey
           /\ h.results = g.results
  BY DEF SameButRecord, Shell

\* Giving one collection another sound value.
LEMMA OneCollection ==
    ASSUME NEW g, Sound(g), NEW d, DbInv(d)
    PROVE  Follows(g, [g EXCEPT !.db[g.mode] = d])
<1> DEFINE db == [g.db EXCEPT ![g.mode] = d]
           h  == [g EXCEPT !.db[g.mode] = d]
<1>1. g.db \in [Modes -> Collection] /\ g.mode \in Modes
  BY DEF Sound, Shell
<1>2. db \in [Modes -> Collection] /\ \A m \in Modes : DbInv(db[m])
  BY <1>1 DEF Sound, DbInv
<1>3. h = [g EXCEPT !.db = db]
  BY DEF Sound, Shell
<1> HIDE DEF db, h
<1>4. h.db = db /\ h.editor = g.editor
  BY <1>3 DEF Sound, Shell
<1>5. h \in Shell /\ h = [g EXCEPT !.db = h.db, !.editor = h.editor]
  BY <1>2, <1>3, <1>4 DEF Sound, Shell
<1>6. Follows(g, h)
  BY <1>2, <1>4, <1>5 DEF Follows, Sound, SameButRecord
<1>7. QED
  BY <1>6 DEF h

\* Giving it a text as well.
LEMMA OneCollectionAndText ==
    ASSUME NEW g, Sound(g), NEW d, DbInv(d), NEW t \in Text
    PROVE  Follows(g, [g EXCEPT !.db[g.mode] = d, !.editor = t])
<1> DEFINE f == [g EXCEPT !.db[g.mode] = d]
           h == [g EXCEPT !.db[g.mode] = d, !.editor = t]
<1>1. Follows(g, f)
  BY OneCollection
<1>2. h = [f EXCEPT !.editor = t]
  BY DEF Sound, Shell
<1> HIDE DEF f, h
<1>3. h.db = f.db /\ h.editor = t
  BY <1>1, <1>2 DEF Follows, Sound, Shell
<1>4. h \in Shell
  BY <1>1, <1>2 DEF Follows, Sound, Shell
<1>5. h = [g EXCEPT !.db = h.db, !.editor = h.editor]
  BY <1>1, <1>2, <1>3 DEF Follows, Sound, SameButRecord, Shell
<1>6. Follows(g, h)
  BY <1>1, <1>3, <1>4, <1>5 DEF Follows, Sound, SameButRecord
<1>7. QED
  BY <1>6 DEF h

\* A closed, unloaded collection saves nothing.
LEMMA ClosedSavesNothing ==
    ASSUME NEW d, DbInv(d), ~d.open, d.records = EmptyIndex,
           NEW k \in Keys \cup {AnyKey, NoKey}, NEW o \in SaveRecord(d, k)
    PROVE  o.err # "none"
<1> DEFINE c == CurrentToJson(d, k)
<1>1. CASE c.err # "none"
  BY <1>1 DEF SaveRecord
<1>2. CASE c.err = "none"
  <2>1. c.db.open = d.open /\ c.db.records = d.records
    BY <1>2 DEF CurrentToJson, Outcome, SetKey, DbInv, Collection
  <2>2. ~FindRecord(c.db, c.db.key)
    BY <2>1 DEF FindRecord, EmptyIndex
  <2>3. o \in CreateRecord(c.db)
    BY <1>2, <2>2 DEF SaveRecord
  <2> HIDE DEF c
  <2>4. QED
    BY <2>1, <2>3 DEF CreateRecord, WriteError, Outcome
<1>3. QED
  BY <1>1, <1>2

\* A prompt leaves the rest of the window alone, and a shut one shut.
LEMMA AskedFollows ==
    ASSUME NEW g, Sound(g), NEW h \in Asked(g)
    PROVE  Follows(g, h) /\ (Shut(g) => h = g)
<1> DEFINE d == g.db[g.mode]
<1>1. g.mode \in Modes /\ g.editor \in Text
  BY DEF Sound, Shell
<1>2. DbInv(SetJson(d, g.editor)) /\ d.key \in Keys \cup {AnyKey}
  BY <1>1, SettersKeep DEF Sound, DbInv, Collection
<1>3. CASE h = g
  <2>1. SameButRecord(g, g)
    BY DEF SameButRecord, Sound, Shell
  <2>2. QED
    BY <1>3, <2>1 DEF Follows
<1>4. ASSUME NEW o \in SaveRecord(SetJson(d, g.editor), d.key),
             o.err = "none", h = [g EXCEPT !.db[g.mode] = o.db]
      PROVE  Follows(g, h) /\ ~Shut(g)
  <2>1. DbInv(o.db)
    BY <1>2, <1>4, SaveRecordGood DEF Good
  <2>2. Follows(g, h)
    BY <1>4, <2>1, OneCollection
  <2>3. SUFFICES ASSUME Shut(g) PROVE FALSE
    BY <2>2
  <2>4. ~SetJson(d, g.editor).open /\ SetJson(d, g.editor).records = EmptyIndex
    BY <1>1, <2>3 DEF Shut, SetJson, Sound, DbInv, Collection
  <2>5. QED
    BY <1>2, <1>4, <2>4, ClosedSavesNothing
<1>5. QED
  BY <1>3, <1>4 DEF Asked

LEMMA OpenedFollows ==
    ASSUME NEW g, Sound(g), NEW k \in Keys, NEW h \in Opened(g, k)
    PROVE  Follows(g, h)
<1>1. PICK o \in GetRecord(g.db[g.mode], k) :
          h = [g EXCEPT !.db[g.mode] = o.db, !.editor = o.db.json]
  BY DEF Opened
<1>2. DbInv(o.db)
  BY <1>1, GetRecordGood DEF Sound, Shell, Good
<1>3. o.db.json \in Text
  BY <1>2 DEF DbInv, Collection
<1>4. QED
  BY <1>1, <1>2, <1>3, OneCollectionAndText

LEMMA OpenFirstFollows ==
    ASSUME NEW g, Sound(g), NEW h \in OpenFirst(g)
    PROVE  Follows(g, h)
  BY OpenedFollows DEF OpenFirst, RecordsCount

\* openEJDB gives both collections another sound value.
LEMMA ReopenFollows ==
    ASSUME NEW g, Sound(g), NEW h \in Reopen(g)
    PROVE  Follows(g, h)
<1>1. PICK d : /\ h = [g EXCEPT !.db = d]
               /\ DOMAIN d = Modes
               /\ d = [m \in Modes |-> d[m]]
               /\ \A m \in Modes :
                     \E o \in OpenEJDB(g.db[m]) : o.db = d[m]
  BY DEF Reopen
<1>2. \A m \in Modes : DbInv(d[m])
  BY <1>1, OpenEJDBKeeps DEF Sound
<1>3. d \in [Modes -> Collection]
  BY <1>1, <1>2 DEF DbInv
<1>4. h.db = d /\ h.editor = g.editor
  BY <1>1 DEF Sound, Shell
<1>5. h \in Shell /\ h = [g EXCEPT !.db = h.db, !.editor = h.editor]
  BY <1>1, <1>3, <1>4 DEF Sound, Shell
<1>6. QED
  BY <1>2, <1>4, <1>5 DEF Follows, Sound, SameButRecord

\* closeEJDB shuts the window.
LEMMA CloseEJDBShuts ==
    ASSUME NEW g, Sound(g)
    PROVE  Follows(g, CloseEJDB(g)) /\ Shut(CloseEJDB(g))
<1> DEFINE d == [m \in Modes |-> Disconnect(g.db[m])]
           h == CloseEJDB(g)
<1>1. \A m \in Modes : DbInv(d[m])
  BY CloseDBKeeps DEF Sound
<1>2. \A m \in Modes : ~d[m].open /\ d[m].records = EmptyIndex
  BY DEF Disconnect, CloseDB, Sound, DbInv, Collection
<1>3. d \in [Modes -> Collection]
  BY <1>1 DEF DbInv
<1>4. h = [g EXCEPT !.db = d]
  BY DEF CloseEJDB, Sound, Shell
<1> HIDE DEF d, h
<1>5. h.db = d /\ h.editor = g.editor
  BY <1>4 DEF Sound, Shell
<1>6. h \in Shell /\ h = [g EXCEPT !.db = h.db, !.editor = h.editor]
  BY <1>3, <1>4, <1>5 DEF Sound, Shell
<1>7. Follows(g, h) /\ Shut(h)
  BY <1>1, <1>2, <1>5, <1>6 DEF Follows, Sound, SameButRecord, Shut
<1>8. QED
  BY <1>7 DEF h

LEMMA SaveBeforeRunGood ==
    ASSUME NEW d, DbInv(d), NEW k \in Keys \cup {AnyKey},
           NEW o \in SaveBeforeRun(d, k)
    PROVE  DbInv(o.db)
  BY SaveRecordGood, InsertRecordGood DEF SaveBeforeRun, Good
-----------------------------------------------------------------------------
(* The inductive invariant.                                                *)

\* The window is sound, the process is in a phase that its job has, and
\* only a fit has read a task.
Shape ==
    /\ Sound(gui)
    /\ proc \in Process
    /\ work \in WorkDirectory
    /\ proc.job = "fit" => proc.task \in Text
    /\ proc.phase \in {"reading", "fitting"} =>
          proc.job = "fit" /\ proc.task # Malformed
    /\ proc.job = "none" => proc.phase = "ended"
    /\ work.output # Malformed
    /\ gui.results.contents # Malformed

\* During a fit the window is shut, which keeps Run off; task and result
\* files belong to lastKey, and the results window to its title.
OneFit ==
    /\ proc.job = "fit" => ~gui.runOn /\ Shut(gui)
    /\ proc.job = "fit" /\ proc.task # Malformed => proc.task.key = gui.lastKey
    /\ LastKeyIsCalculated
    /\ ResultsUnderOwnKey

Inv == Shape /\ CancelHasTarget /\ (~Reloads => OneFit)

\* What a process that was asked to write a template looks like.
TemplateJob == [job |-> "template", phase |-> "starting", task |-> NoDoc]

\* A step of the window that leaves lastKey, results and files alone.
LEMMA WindowMoves ==
    ASSUME Inv, Sound(gui'), work' = work,
           \/ proc' = proc
           \/ proc.job = "none" /\ proc' = TemplateJob,
           gui'.cancelOn = gui.cancelOn,
           gui'.lastKey = gui.lastKey,
           gui'.results = gui.results,
           ~Reloads /\ proc.job = "fit" => ~gui'.runOn /\ Shut(gui')
    PROVE  Inv'
<1>1. Shape'
  BY DEF Inv, Shape, TemplateJob, Process
<1>2. CancelHasTarget'
  BY DEF Inv, CancelHasTarget, TemplateJob
<1>3. ASSUME ~Reloads PROVE OneFit'
  <2>1. proc'.job = "fit" => proc' = proc
    BY DEF TemplateJob
  <2>2. LastKeyIsCalculated' /\ ResultsUnderOwnKey'
    BY <1>3 DEF Inv, OneFit, LastKeyIsCalculated, ResultsUnderOwnKey
  <2>3. QED
    BY <1>3, <2>1, <2>2 DEF Inv, OneFit, Shut
<1>4. QED
  BY <1>1, <1>2, <1>3 DEF Inv

\* A step of the process.
LEMMA ProcessMoves ==
    ASSUME Inv, gui' = gui, proc' \in Process, proc'.job = proc.job,
           work' \in WorkDirectory,
           proc.job = "fit" => proc'.task \in Text,
           proc'.phase \in {"reading", "fitting"} =>
               proc'.job = "fit" /\ proc'.task # Malformed,
           proc.job = "none" => proc'.phase = "ended",
           proc.job = "fit" /\ proc'.task # Malformed =>
               proc.task # Malformed /\ proc'.task.key = proc.task.key,
           work'.output # Malformed,
           \/ work'.output \in {NoDoc, work.output}
           \/ proc.job = "fit" /\ work'.output = proc.task
    PROVE  Inv'
<1>1. Shape'
  BY DEF Inv, Shape
<1>2. CancelHasTarget'
  BY DEF Inv, CancelHasTarget
<1>3. ASSUME ~Reloads PROVE OneFit'
  <2>1. LastKeyIsCalculated'
    BY <1>3 DEF Inv, OneFit, LastKeyIsCalculated
  <2>2. ResultsUnderOwnKey'
    BY <1>3 DEF Inv, OneFit, ResultsUnderOwnKey
  <2>3. QED
    BY <1>3, <2>1, <2>2 DEF Inv, OneFit, Shut
<1>4. QED
  BY <1>1, <1>2, <1>3 DEF Inv

\* runFinished, in whatever window the process has left.
LEMMA FinishedMoves ==
    ASSUME Inv, NEW g, Sound(g), g.lastKey = gui.lastKey,
           g.results = gui.results,
           gui' \in RunFinished(g), proc' = NoProcess, work' = work
    PROVE  Inv'
<1> DEFINE f == [g EXCEPT !.runOn = TRUE, !.showOn = TRUE, !.cancelOn = FALSE]
<1>1. /\ Sound(f) /\ f.lastKey = gui.lastKey /\ f.results = gui.results
      /\ f.cancelOn = FALSE
  BY DEF Sound, Shell
<1>2. gui' \in Reopen(f)
  BY DEF RunFinished
<1> HIDE DEF f
<1>3. Follows(f, gui')
  BY <1>1, <1>2, ReopenFollows
<1>4. /\ Sound(gui') /\ gui'.lastKey = gui.lastKey
      /\ gui'.results = gui.results /\ gui'.cancelOn = FALSE
  BY <1>1, <1>3, SameFields DEF Follows, Sound
<1>5. Shape'
  BY <1>4 DEF Inv, Shape, NoProcess, Process
<1>6. CancelHasTarget'
  BY <1>4 DEF CancelHasTarget
<1>7. ASSUME ~Reloads PROVE OneFit'
  BY <1>4, <1>7 DEF Inv, OneFit, NoProcess, LastKeyIsCalculated,
                    ResultsUnderOwnKey
<1>8. QED
  BY <1>5, <1>6, <1>7 DEF Inv
-----------------------------------------------------------------------------
(* The initial states.                                                     *)

LEMMA InitInv == Init => Inv
<1> SUFFICES ASSUME Init PROVE Inv
  OBVIOUS
<1>1. PICK p \in Projects :
        LET d == [m \in Modes |-> NewCollection(p[m])]
            g == [mode |-> "experiments", db |-> d, editor |-> Template,
                  runOn |-> FALSE, showOn |-> FALSE, cancelOn |-> FALSE,
                  waiting |-> FALSE, lastKey |-> NoKey,
                  results |-> [title |-> NoKey, contents |-> NoDoc]]
        IN  \E opened \in Reopen(g) : gui \in OpenFirst(opened)
  BY DEF Init
<1> DEFINE d == [m \in Modes |-> NewCollection(p[m])]
           g == [mode |-> "experiments", db |-> d, editor |-> Template,
                 runOn |-> FALSE, showOn |-> FALSE, cancelOn |-> FALSE,
                 waiting |-> FALSE, lastKey |-> NoKey,
                 results |-> [title |-> NoKey, contents |-> NoDoc]]
<1>2. \A m \in Modes : DbInv(d[m])
  BY NewCollectionSound, ShellConstants
<1>3. d \in [Modes -> Collection]
  BY <1>2 DEF DbInv
<1> HIDE DEF d
<1>4. Sound(g)
  <2>1. g \in Shell
    BY <1>3, ShellConstants DEF Shell, RecordKeys, Modes
  <2>2. QED
    BY <1>2, <2>1 DEF Sound
<1>5. /\ g.cancelOn = FALSE /\ g.lastKey = NoKey
      /\ g.results = [title |-> NoKey, contents |-> NoDoc]
  OBVIOUS
<1>6. PICK opened \in Reopen(g) : gui \in OpenFirst(opened)
  BY <1>1 DEF d
<1> HIDE DEF g
<1>7. Follows(g, opened)
  BY <1>4, <1>6, ReopenFollows
<1>8. Follows(opened, gui)
  BY <1>6, <1>7, OpenFirstFollows DEF Follows
<1>9. /\ Sound(gui) /\ gui.cancelOn = FALSE
      /\ gui.results = [title |-> NoKey, contents |-> NoDoc]
  BY <1>4, <1>5, <1>7, <1>8, SameFields DEF Follows, Sound
<1>10. proc = NoProcess /\ work = EmptyWork
  BY DEF Init
<1>11. NoDoc # Malformed
  BY NoDocNotMalformed
<1>12. QED
  BY <1>9, <1>10, <1>11 DEF Inv, Shape, OneFit, CancelHasTarget, NoProcess,
       EmptyWork, Process, WorkDirectory, LastKeyIsCalculated,
       ResultsUnderOwnKey

-----------------------------------------------------------------------------
(* The steps of the user.                                                  *)

LEMMA TypeInv ==
    ASSUME Inv, NEW text \in Typed, Type(text)
    PROVE  Inv'
<1>1. text \in Text
  BY ShellConstants
<1>2. Sound(gui') /\ gui'.db = gui.db /\ gui'.runOn = gui.runOn
  BY <1>1 DEF Type, Inv, Shape, Sound, Shell
<1>3. /\ gui'.cancelOn = gui.cancelOn
      /\ gui'.lastKey = gui.lastKey
      /\ gui'.results = gui.results
  BY DEF Type, Inv, Shape, Sound, Shell
<1>4. QED
  BY <1>2, <1>3, WindowMoves DEF Type, Inv, OneFit, Shut

\* A record in the index shows that the window is not shut.
LEMMA NotShut ==
    ASSUME NEW g, NEW m \in Modes, RecordsCount(g.db[m]) # {} \/ g.db[m].open
    PROVE  ~Shut(g)
  BY DEF Shut, RecordsCount, EmptyIndex

LEMMA OpenTaskInv ==
    ASSUME Inv, NEW k \in Keys, OpenTask(k)
    PROVE  Inv'
<1>1. PICK g \in Asked(gui) : gui' \in Opened(g, k)
  BY DEF OpenTask
<1>2. Follows(gui, g)
  BY <1>1, AskedFollows DEF Inv, Shape
<1>3. Follows(g, gui')
  BY <1>1, <1>2, OpenedFollows DEF Follows
<1>4. ~Shut(gui)
  BY NotShut DEF OpenTask, Modes
<1>5. /\ gui'.cancelOn = gui.cancelOn
      /\ gui'.lastKey = gui.lastKey
      /\ gui'.results = gui.results
  BY <1>2, <1>3, SameFields DEF Follows, Inv, Shape, Sound
<1>6. QED
  BY <1>3, <1>4, <1>5, WindowMoves DEF OpenTask, Follows, Inv, OneFit

LEMMA DBModeInv ==
    ASSUME Inv, DBMode
    PROVE  Inv'
<1> DEFINE There(g) == [g EXCEPT !.mode = "experiments",
                                 !.runOn = FALSE, !.showOn = FALSE]
<1>1. PICK g \in Asked(gui) :
         gui' \in IF Connected THEN OpenFirst(There(g))
                  ELSE {[There(g) EXCEPT !.editor = Template]}
  BY DEF DBMode
<1>2. Follows(gui, g) /\ (Shut(gui) => g = gui)
  BY <1>1, AskedFollows DEF Inv, Shape
<1> DEFINE h == There(g)
<1>3. /\ Sound(h) /\ h.db = g.db /\ h.runOn = FALSE
      /\ h.cancelOn = g.cancelOn /\ h.lastKey = g.lastKey
      /\ h.results = g.results
  BY <1>2 DEF Follows, Sound, Shell, Modes
<1> HIDE DEF h
<1>4. CASE Connected
  <2>1. Follows(h, gui')
    BY <1>1, <1>3, <1>4, OpenFirstFollows DEF h
  <2>2. ~Shut(gui)
    BY <1>4, NotShut DEF Connected, Modes
  <2>3. /\ gui'.cancelOn = gui.cancelOn
        /\ gui'.lastKey = gui.lastKey
        /\ gui'.results = gui.results
    BY <1>2, <1>3, <2>1, SameFields DEF Follows, Inv, Shape, Sound
  <2>4. QED
    BY <2>1, <2>2, <2>3, WindowMoves DEF DBMode, Follows, Inv, OneFit
<1>5. CASE ~Connected
  <2>1. gui' = [h EXCEPT !.editor = Template]
    BY <1>1, <1>5 DEF h
  <2>2. /\ Sound(gui') /\ gui'.db = h.db /\ gui'.runOn = FALSE
        /\ gui'.cancelOn = h.cancelOn /\ gui'.lastKey = h.lastKey
        /\ gui'.results = h.results
    BY <1>3, <2>1, ShellConstants DEF Sound, Shell
  <2>3. Shut(gui) => Shut(gui')
    BY <1>2, <1>3, <2>2 DEF Shut
  <2>4. /\ gui'.cancelOn = gui.cancelOn
        /\ gui'.lastKey = gui.lastKey
        /\ gui'.results = gui.results
    BY <1>2, <1>3, <2>2, SameFields DEF Follows, Inv, Shape, Sound
  <2>5. QED
    BY <2>2, <2>3, <2>4, WindowMoves DEF DBMode, Inv, OneFit
<1>6. QED
  BY <1>4, <1>5
\* CmTaskMode finds no experiments in a window that is shut.
LEMMA InTaskModeFacts ==
    ASSUME NEW g, Sound(g)
    PROVE  /\ Sound(InTaskMode(g))
           /\ InTaskMode(g).db = g.db
           /\ InTaskMode(g).cancelOn = g.cancelOn
           /\ InTaskMode(g).lastKey = g.lastKey
           /\ InTaskMode(g).results = g.results
           /\ Shut(g) => ~InTaskMode(g).runOn
<1> DEFINE counted == RecordsCount(g.db["experiments"]) # {}
           shown   == g.lastKey # NoKey
<1>1. counted \in BOOLEAN /\ shown \in BOOLEAN
  OBVIOUS
<1>2. Shut(g) => ~counted
  BY NotShut DEF Modes
<1>3. InTaskMode(g) = [g EXCEPT !.mode = "tasks", !.runOn = counted,
                                !.showOn = shown]
  BY DEF InTaskMode
<1> HIDE DEF counted, shown
<1>4. QED
  BY <1>1, <1>2, <1>3 DEF Sound, Shell, Modes

\* createTaskTemplate starts waiting, or gives up before it.
LEMMA CreateTaskTemplateInv ==
    ASSUME Inv, NEW g, Sound(g), CreateTaskTemplate(g), work' = work,
           g.cancelOn = gui.cancelOn, g.lastKey = gui.lastKey,
           g.results = gui.results,
           ~Reloads /\ proc.job = "fit" => ~g.runOn /\ Shut(g)
    PROVE  Inv'
<1>1. /\ Sound(gui') /\ gui'.db = g.db /\ gui'.runOn = g.runOn
      /\ gui'.cancelOn = g.cancelOn /\ gui'.lastKey = g.lastKey
      /\ gui'.results = g.results
  BY DEF CreateTaskTemplate, Sound, Shell
<1>2. \/ proc' = proc
      \/ proc.job = "none" /\ proc' = TemplateJob
  BY DEF CreateTaskTemplate, Started, TemplateJob
<1>3. QED
  BY <1>1, <1>2, WindowMoves DEF Shut

LEMMA TaskModeInv ==
    ASSUME Inv, TaskMode
    PROVE  Inv'
<1>1. PICK g \in Asked(gui) :
         IF Connected
         THEN gui' \in OpenFirst(InTaskMode(g)) /\ UNCHANGED proc
         ELSE CreateTaskTemplate(InTaskMode(g))
  BY DEF TaskMode
<1>2. Follows(gui, g) /\ (Shut(gui) => g = gui)
  BY <1>1, AskedFollows DEF Inv, Shape
<1> DEFINE h == InTaskMode(g)
<1>3. /\ Sound(h) /\ h.db = g.db
      /\ h.cancelOn = g.cancelOn /\ h.lastKey = g.lastKey
      /\ h.results = g.results
      /\ Shut(g) => ~h.runOn
  BY <1>2, InTaskModeFacts DEF Follows
<1>4. /\ h.cancelOn = gui.cancelOn
      /\ h.lastKey = gui.lastKey
      /\ h.results = gui.results
  BY <1>2, <1>3, SameFields DEF Follows, Inv, Shape, Sound
<1>5. Shut(gui) => ~h.runOn /\ Shut(h)
  BY <1>2, <1>3 DEF Shut
<1>6. work' = work
  BY DEF TaskMode
<1> HIDE DEF h
<1>7. CASE Connected
  <2>1. Follows(h, gui') /\ proc' = proc
    BY <1>1, <1>3, <1>7, OpenFirstFollows DEF h
  <2>2. ~Shut(gui)
    BY <1>7, NotShut DEF Connected, Modes
  <2>3. /\ gui'.cancelOn = gui.cancelOn
        /\ gui'.lastKey = gui.lastKey
        /\ gui'.results = gui.results
    BY <1>3, <1>4, <2>1, SameFields DEF Follows, Sound
  <2>4. QED
    BY <1>6, <2>1, <2>2, <2>3, WindowMoves DEF Follows, Inv, OneFit
<1>8. CASE ~Connected
  <2>1. CreateTaskTemplate(h)
    BY <1>1, <1>8 DEF h
  <2>2. QED
    BY <1>3, <1>4, <1>5, <1>6, <2>1, CreateTaskTemplateInv DEF Inv, OneFit
<1>9. QED
  BY <1>7, <1>8

LEMMA CreateTaskInv ==
    ASSUME Inv, CreateTask
    PROVE  Inv'
  BY CreateTaskTemplateInv DEF CreateTask, Inv, Shape, OneFit

\* While a fit is working Run is off, so emptying the work directory and
\* changing lastKey disturb nothing.
LEMMA RunMalformedInv ==
    ASSUME Inv, RunMalformed
    PROVE  Inv'
<1>1. work' = EmptyWork /\ gui' = gui /\ proc' = proc
  BY DEF RunMalformed
<1>2. work' \in WorkDirectory /\ work'.output = NoDoc
  BY <1>1 DEF EmptyWork, WorkDirectory
<1>3. QED
  BY <1>1, <1>2, NoDocNotMalformed, ProcessMoves DEF Inv, Shape

\* What CmRunTest has done to the window when the record is saved, or not.
LEMMA SaveFacts ==
    ASSUME Inv, gui.editor # Malformed,
           NEW o \in SaveBeforeRun(gui.db[gui.mode], gui.editor.key)
    PROVE  LET h == [gui EXCEPT !.db[gui.mode] = o.db,
                                !.lastKey = gui.editor.key]
           IN  /\ Sound(h)
               /\ h.lastKey = gui.editor.key
               /\ h.runOn = gui.runOn
               /\ h.cancelOn = gui.cancelOn
               /\ h.results = gui.results
<1> DEFINE f == [gui EXCEPT !.db[gui.mode] = o.db]
           h == [gui EXCEPT !.db[gui.mode] = o.db, !.lastKey = gui.editor.key]
<1>1. gui \in Shell /\ DbInv(gui.db[gui.mode])
  BY DEF Inv, Shape, Sound, Shell
<1>2. gui.editor.key \in Keys \cup {AnyKey}
  BY <1>1 DEF Shell, Text
<1>3. DbInv(o.db)
  BY <1>1, <1>2, SaveBeforeRunGood
<1>4. Follows(gui, f)
  BY <1>3, OneCollection DEF Inv, Shape
<1>5. h = [f EXCEPT !.lastKey = gui.editor.key]
  BY <1>1 DEF Shell
<1> HIDE DEF f, h
<1>6. Sound(h) /\ h.lastKey = gui.editor.key
  BY <1>2, <1>4, <1>5 DEF Follows, Sound, Shell, RecordKeys
<1>7. /\ h.runOn = f.runOn /\ h.cancelOn = f.cancelOn
      /\ h.results = f.results
  BY <1>4, <1>5 DEF Follows, Sound, Shell
<1>8. QED
  BY <1>1, <1>4, <1>6, <1>7, SameFields DEF Follows, h
LEMMA RunRefusedInv ==
    ASSUME Inv, RunRefused
    PROVE  Inv'
<1>1. PICK o \in SaveBeforeRun(gui.db[gui.mode], gui.editor.key) :
         gui' = [gui EXCEPT !.db[gui.mode] = o.db, !.lastKey = gui.editor.key]
  BY DEF RunRefused
<1>2. /\ Sound(gui')
      /\ gui'.cancelOn = gui.cancelOn
      /\ gui'.results = gui.results
  BY <1>1, SaveFacts DEF RunRefused
<1>3. gui.runOn /\ proc' = proc /\ work' = EmptyWork
  BY DEF RunRefused
<1>4. Shape'
  BY <1>2, <1>3, NoDocNotMalformed
     DEF Inv, Shape, EmptyWork, WorkDirectory
<1>5. CancelHasTarget'
  BY <1>2, <1>3 DEF Inv, CancelHasTarget
<1>6. ASSUME ~Reloads PROVE OneFit'
  BY <1>2, <1>3, <1>6 DEF Inv, OneFit, EmptyWork, LastKeyIsCalculated,
                          ResultsUnderOwnKey
<1>7. QED
  BY <1>4, <1>5, <1>6 DEF Inv

\* A window prepared for a run is shut.
LEMMA PreparedFacts ==
    ASSUME Inv, gui.editor # Malformed, NEW o \in Saved
    PROVE  /\ Sound(Prepared(o)) /\ Shut(Prepared(o))
           /\ Prepared(o).lastKey = gui.editor.key
           /\ Prepared(o).runOn = gui.runOn
           /\ Prepared(o).cancelOn = gui.cancelOn
           /\ Prepared(o).results = gui.results
<1> DEFINE h == [gui EXCEPT !.db[gui.mode] = o.db, !.lastKey = gui.editor.key]
<1>1. /\ Sound(h)
      /\ h.lastKey = gui.editor.key
      /\ h.runOn = gui.runOn
      /\ h.cancelOn = gui.cancelOn
      /\ h.results = gui.results
  BY SaveFacts DEF Saved
<1>2. Prepared(o) = CloseEJDB(h)
  BY DEF Prepared
<1> HIDE DEF h
<1>3. Follows(h, Prepared(o)) /\ Shut(Prepared(o))
  BY <1>1, <1>2, CloseEJDBShuts
<1>4. QED
  BY <1>1, <1>3, SameFields DEF Follows, Sound

LEMMA TaskFileFacts ==
    ASSUME Inv, gui.editor # Malformed
    PROVE  /\ TaskFile \in Text
           /\ TaskFile # Malformed => TaskFile.key = gui.editor.key
  BY DEF TaskFile, Inv, Shape, Sound, Shell, Text

LEMMA RunStartsInv ==
    ASSUME Inv, RunStarts
    PROVE  Inv'
<1>1. PICK o \in Saved :
         gui' = [Prepared(o) EXCEPT !.runOn = FALSE, !.cancelOn = TRUE]
  BY DEF RunStarts
<1>2. gui.editor # Malformed /\ gui.runOn
  BY DEF RunStarts
<1>3. /\ Sound(Prepared(o)) /\ Shut(Prepared(o))
      /\ Prepared(o).lastKey = gui.editor.key
      /\ Prepared(o).results = gui.results
  BY <1>2, PreparedFacts
<1>4. /\ Sound(gui') /\ gui'.db = Prepared(o).db
      /\ gui'.runOn = FALSE
      /\ gui'.lastKey = gui.editor.key
      /\ gui'.results = gui.results
  BY <1>1, <1>3 DEF Sound, Shell
<1>5. Shut(gui')
  BY <1>3, <1>4 DEF Shut
<1>6. proc' = Started("fit", TaskFile)
      /\ work' = [input |-> TaskFile, output |-> NoDoc]
  BY DEF RunStarts
<1>7. /\ TaskFile \in Text
      /\ TaskFile # Malformed => TaskFile.key = gui.editor.key
  BY <1>2, TaskFileFacts
<1>8. proc'.job # "none"
  BY <1>6 DEF Started
<1>9. Shape'
  BY <1>4, <1>6, <1>7, NoDocNotMalformed
     DEF Inv, Shape, Started, Process, WorkDirectory
<1>10. ASSUME ~Reloads PROVE OneFit'
  <2>1. proc.job # "fit"
    BY <1>2, <1>10 DEF Inv, OneFit
  <2>2. proc'.job = "fit" => proc'.task = TaskFile
    BY <1>6, <2>1 DEF Started
  <2>3. LastKeyIsCalculated' /\ ResultsUnderOwnKey'
    BY <1>4, <1>6, <1>10 DEF Inv, OneFit, LastKeyIsCalculated,
                             ResultsUnderOwnKey
  <2>4. QED
    BY <1>4, <1>5, <1>7, <2>2, <2>3 DEF OneFit
<1>11. QED
  BY <1>8, <1>9, <1>10 DEF Inv, CancelHasTarget

LEMMA RunDoesNotStartInv ==
    ASSUME Inv, RunDoesNotStart
    PROVE  Inv'
<1>1. PICK o \in Saved : gui' = Prepared(o)
  BY DEF RunDoesNotStart
<1>2. /\ gui.editor # Malformed /\ proc.job = "none" /\ proc' = proc
      /\ work' = [input |-> TaskFile, output |-> NoDoc]
  BY DEF RunDoesNotStart
<1>3. /\ Sound(gui')
      /\ gui'.cancelOn = gui.cancelOn
      /\ gui'.results = gui.results
  BY <1>1, <1>2, PreparedFacts
<1>4. TaskFile \in Text
  BY <1>2, TaskFileFacts
<1>5. Shape'
  BY <1>2, <1>3, <1>4, NoDocNotMalformed DEF Inv, Shape, WorkDirectory
<1>6. CancelHasTarget'
  BY <1>2, <1>3 DEF Inv, CancelHasTarget
<1>7. ASSUME ~Reloads PROVE OneFit'
  BY <1>2, <1>3, <1>7 DEF Inv, OneFit, LastKeyIsCalculated,
                          ResultsUnderOwnKey
<1>8. QED
  BY <1>5, <1>6, <1>7 DEF Inv

LEMMA CancelInv ==
    ASSUME Inv, Cancel
    PROVE  Inv'
<1>1. /\ proc' = [proc EXCEPT !.phase = "ended"]
      /\ gui' = gui /\ work' = work
  BY DEF Cancel
<1>2. proc' \in Process /\ proc'.job = proc.job /\ proc'.task = proc.task
      /\ proc'.phase = "ended"
  BY <1>1 DEF Inv, Shape, Process
<1>3. QED
  BY <1>1, <1>2, ProcessMoves DEF Inv, Shape

LEMMA ShowResultsInv ==
    ASSUME Inv, ShowResults
    PROVE  Inv'
<1> DEFINE shown == [title |-> gui.lastKey, contents |-> work.output]
<1>1. /\ gui' = [gui EXCEPT !.results = shown]
      /\ proc' = proc /\ work' = work
  BY DEF ShowResults, CmShowCalcResults
<1>2. shown \in [title : RecordKeys, contents : Text \cup {NoDoc}]
  BY DEF Inv, Shape, Sound, Shell, WorkDirectory
<1>3. shown.title = gui.lastKey /\ shown.contents = work.output
  OBVIOUS
<1> HIDE DEF shown
<1>4. /\ Sound(gui') /\ gui'.db = gui.db
      /\ gui'.runOn = gui.runOn
      /\ gui'.cancelOn = gui.cancelOn
      /\ gui'.lastKey = gui.lastKey
      /\ gui'.results = shown
  BY <1>1, <1>2 DEF Inv, Shape, Sound, Shell
<1>5. Shape'
  BY <1>1, <1>3, <1>4 DEF Inv, Shape
<1>6. CancelHasTarget'
  BY <1>1, <1>4 DEF Inv, CancelHasTarget
<1>7. ASSUME ~Reloads PROVE OneFit'
  BY <1>1, <1>3, <1>4, <1>7
     DEF Inv, OneFit, Shut, LastKeyIsCalculated, ResultsUnderOwnKey
<1>8. QED
  BY <1>5, <1>6, <1>7 DEF Inv

LEMMA LoadProjectInv ==
    ASSUME Inv, LoadProject
    PROVE  Inv'
<1>1. PICK g \in Reopen(gui) : gui' \in OpenFirst(g)
  BY DEF LoadProject
<1>2. Follows(gui, g)
  BY <1>1, ReopenFollows DEF Inv, Shape
<1>3. Follows(g, gui')
  BY <1>1, <1>2, OpenFirstFollows DEF Follows
<1>4. /\ gui'.cancelOn = gui.cancelOn
      /\ gui'.lastKey = gui.lastKey
      /\ gui'.results = gui.results
  BY <1>2, <1>3, SameFields DEF Follows, Inv, Shape, Sound
<1>5. QED
  BY <1>3, <1>4, WindowMoves DEF LoadProject, Follows
-----------------------------------------------------------------------------
(* The steps of the process, and what the window hears of them.            *)

LEMMA GemsfitInv ==
    ASSUME Inv, Gemsfit \/ Crash
    PROVE  Inv'
<1>1. CASE ReadTask
  <2>1. /\ proc' = [proc EXCEPT !.phase = "reading", !.task = work.input]
        /\ gui' = gui /\ work' = work
    BY <1>1 DEF ReadTask
  <2>2. /\ proc.job = "fit"
        /\ work.input \in Text /\ work.input # Malformed
        /\ proc.task # Malformed
        /\ work.input.key = proc.task.key
    BY <1>1 DEF ReadTask, Readable, Inv, Shape, WorkDirectory
  <2>3. /\ proc' \in Process /\ proc'.job = "fit"
        /\ proc'.phase = "reading" /\ proc'.task = work.input
    BY <2>1, <2>2 DEF Inv, Shape, Process
  <2>4. QED
    BY <2>1, <2>2, <2>3, ProcessMoves DEF Inv, Shape
<1>2. CASE ReadNothing \/ Crash
  <2>1. /\ proc' = [proc EXCEPT !.phase = "ended"]
        /\ gui' = gui /\ work' = work
    BY <1>2 DEF ReadNothing, Crash
  <2>2. /\ proc' \in Process /\ proc'.job = proc.job
        /\ proc'.phase = "ended" /\ proc'.task = proc.task
    BY <2>1 DEF Inv, Shape, Process
  <2>3. QED
    BY <2>1, <2>2, ProcessMoves DEF Inv, Shape
<1>3. CASE CloseDatabase
  <2>1. /\ proc' = [proc EXCEPT !.phase = "fitting"]
        /\ proc.phase = "reading"
        /\ gui' = gui /\ work' = work
    BY <1>3 DEF CloseDatabase
  <2>2. /\ proc' \in Process /\ proc'.job = proc.job
        /\ proc'.phase = "fitting" /\ proc'.task = proc.task
    BY <2>1 DEF Inv, Shape, Process
  <2>3. QED
    BY <2>1, <2>2, ProcessMoves DEF Inv, Shape
<1>4. CASE WriteResults
  <2>1. /\ proc' = [proc EXCEPT !.phase = "ended"]
        /\ proc.phase = "fitting"
        /\ gui' = gui /\ work' = [work EXCEPT !.output = proc.task]
    BY <1>4 DEF WriteResults
  <2>2. /\ proc' \in Process /\ proc'.job = proc.job
        /\ proc'.phase = "ended" /\ proc'.task = proc.task
    BY <2>1 DEF Inv, Shape, Process
  <2>3. work' \in WorkDirectory /\ work'.output = proc.task
    BY <2>1 DEF Inv, Shape, Process, WorkDirectory
  <2>4. proc.job = "fit" /\ proc.task # Malformed
    BY <2>1 DEF Inv, Shape
  <2>5. QED
    BY <2>1, <2>2, <2>3, <2>4, ProcessMoves DEF Inv, Shape
<1>5. CASE WriteTemplate
  <2>1. /\ proc' = [proc EXCEPT !.phase = "ended"]
        /\ gui' = gui /\ work' = [work EXCEPT !.output = NoDoc]
    BY <1>5 DEF WriteTemplate
  <2>2. /\ proc' \in Process /\ proc'.job = proc.job
        /\ proc'.phase = "ended" /\ proc'.task = proc.task
    BY <2>1 DEF Inv, Shape, Process
  <2>3. work' \in WorkDirectory /\ work'.output = NoDoc
    BY <2>1 DEF Inv, Shape, WorkDirectory
  <2>4. QED
    BY <2>1, <2>2, <2>3, NoDocNotMalformed, ProcessMoves DEF Inv, Shape
<1>6. QED
  BY <1>1, <1>2, <1>3, <1>4, <1>5 DEF Gemsfit

LEMMA FinishedInv ==
    ASSUME Inv, Finished
    PROVE  Inv'
  BY FinishedMoves DEF Finished, Inv, Shape

LEMMA TemplateShownFacts ==
    ASSUME Inv
    PROVE  LET g == TemplateShown(gui)
           IN  /\ Sound(g) /\ g.db = gui.db
               /\ g.runOn = gui.runOn
               /\ g.cancelOn = gui.cancelOn
               /\ g.lastKey = gui.lastKey
               /\ g.results = gui.results
  BY ShellConstants DEF TemplateShown, Inv, Shape, Sound, Shell

LEMMA FinishedInWaitInv ==
    ASSUME Inv, FinishedInWait
    PROVE  Inv'
<1> DEFINE g == TemplateShown(gui)
<1>1. /\ Sound(g) /\ g.lastKey = gui.lastKey
      /\ g.results = gui.results
  BY TemplateShownFacts
<1>2. gui' \in RunFinished(g) /\ proc' = NoProcess /\ work' = work
  BY DEF FinishedInWait
<1> HIDE DEF g
<1>3. QED
  BY <1>1, <1>2, FinishedMoves

LEMMA WaitTimesOutInv ==
    ASSUME Inv, WaitTimesOut
    PROVE  Inv'
<1> DEFINE g == TemplateShown(gui)
<1>1. /\ Sound(g) /\ g.db = gui.db
      /\ g.runOn = gui.runOn
      /\ g.cancelOn = gui.cancelOn
      /\ g.lastKey = gui.lastKey
      /\ g.results = gui.results
  BY TemplateShownFacts
<1>2. gui' = g /\ proc' = proc /\ work' = work
  BY DEF WaitTimesOut
<1> HIDE DEF g
<1>3. QED
  BY <1>1, <1>2, WindowMoves DEF Inv, OneFit, Shut

-----------------------------------------------------------------------------
(* The specification.                                                      *)

LEMMA StepInv == Inv /\ [Next]_vars => Inv'
<1> SUFFICES ASSUME Inv, [Next]_vars PROVE Inv'
  OBVIOUS
<1>1. CASE User
  BY <1>1, TypeInv, OpenTaskInv, DBModeInv, TaskModeInv, CreateTaskInv,
     RunMalformedInv, RunRefusedInv, RunStartsInv, RunDoesNotStartInv,
     CancelInv, ShowResultsInv, LoadProjectInv
     DEF User
<1>2. CASE Gemsfit \/ Crash
  BY <1>2, GemsfitInv
<1>3. CASE Finished \/ FinishedInWait \/ WaitTimesOut
  BY <1>3, FinishedInv, FinishedInWaitInv, WaitTimesOutInv
<1>4. CASE UNCHANGED vars
  <2>1. gui' = gui /\ proc' = proc /\ work' = work
    BY <1>4 DEF vars
  <2>2. QED
    BY <2>1, ProcessMoves DEF Inv, Shape
<1>5. QED
  BY <1>1, <1>2, <1>3, <1>4 DEF Next

LEMMA Invariance == Spec => []Inv
  BY InitInv, StepInv, PTL DEF Spec

\* The window, the process and the work directory keep their types, over
\* whatever CmRunTest, createTaskTemplate and runFinished do in any order.
THEOREM TypeCorrect == Spec => []TypeOK
<1>1. Inv => TypeOK
  BY DEF Inv, Shape, Sound, TypeOK
<1>2. QED
  BY <1>1, Invariance, PTL

\* Cancel is never enabled without a process to kill (FITMainMenu.cpp:762).
THEOREM CancelIsHonest == Spec => []CancelHasTarget
<1>1. Inv => CancelHasTarget
  BY DEF Inv
<1>2. QED
  BY <1>1, Invariance, PTL

\* Unless projects are opened during a fit, the window stays disconnected
\* from CmRunTest to runFinished and Run stays off, so that no fit waits for
\* the file lock or is joined by another.
THEOREM FitIsAlone ==
    ASSUME ~Reloads
    PROVE  Spec => [](FitNeverWaits /\ NoRunDuringFit)
<1>1. Inv => FitNeverWaits /\ NoRunDuringFit
  BY DEF Inv, OneFit, FitNeverWaits, NoRunDuringFit, Shut, Connected, Modes
<1>2. QED
  BY <1>1, Invariance, PTL

\* Unless projects are opened during a fit, the process that starts does not
\* wait for the file lock of a database the window has open.
THEOREM FitFindsDatabaseFree ==
    ASSUME ~Reloads
    PROVE  Spec => []FitNeverWaits
<1>1. FitNeverWaits /\ NoRunDuringFit => FitNeverWaits
  OBVIOUS
<1>2. QED
  BY <1>1, FitIsAlone, PTL

\* Unless projects are opened during a fit, result files and results window
\* belong to the task under whose key they are shown and saved.
THEOREM ResultsAreTheirTasks ==
    ASSUME ~Reloads
    PROVE  Spec => [](LastKeyIsCalculated /\ ResultsUnderOwnKey)
<1>1. Inv => LastKeyIsCalculated /\ ResultsUnderOwnKey
  BY DEF Inv, OneFit
<1>2. QED
  BY <1>1, Invariance, PTL
=============================================================================

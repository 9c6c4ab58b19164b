# GEMSFITS in TLA+

GEMSFITS fits parameters of thermodynamic models to experimental data. It is
two programs: **gemsfits**, a Qt window on a project database of experiments,
tasks and fits (`gfshell2/`, `common/`), and **gemsfit2**, a command-line
program that the window starts to work a task out (`gemsfit2/src-fit/`). This
directory holds TLA+ models of their control logic, the TLC configurations that
check them on small instances, and proofs of the main invariants for every
instance.

    tlc -config store_calls.cfg MCRecordStore           # one run
    tlapm RecordStoreProofs.tla                         # one module of proofs

## 1. Inventory

| Component | State | Operations | Correct means |
|---|---|---|---|
| Collection `TEJDataBase` (`f_database.cpp`) | index `records` (key to document id), current key, `current_Json`, `current_JQL` | get, insert, save, delete, find, set key/text/query, open, close | the index and the documents agree, a call touches its own key only, refused calls change nothing |
| EJDB2 driver (`db_ejdb2.cpp`) | connection, documents | create, read, update, delete, key query, select query, connect, disconnect | every failure is reported and undone by the caller |
| Main window, record commands (`FITMainMenu.cpp`, `FITMainWindow.cpp`) | editor, `contentsChanged`, key table, enabled actions | Show, Update, Insert, Delete, Search, backup, restore, modes, projects | what is written is what is shown; edits are not lost; commands act on the record shown |
| Main window, fit runs | mode, `lastCalcRecordKey`, actions Run / Show Results / Cancel, `fitProcess` | Run, Cancel, Show Results, task template, `runFinished` | one fit at a time, the database is free for it and comes back, results carry their key |
| gemsfit2 as a process (`main.cpp`, `gemsfit_iofiles.cpp`) | work directory, database connection | `-run`, `-initJ` | reads the task it was started for, releases the database, writes its own results |
| Results window (`FitResultsWindow.cpp`) | title key, tables, log text | show, save, delete, export fits | a fit is stored under the key it was computed for, and goes with its task |
| Record keys (`TEJDBKey`, `getKeyFromJson`, `all_query`, `getRecordKey`) | key fields, the filter above the key table | pack, split, compare with a template | a record can be loaded, listed, opened and saved under one key |
| Fit engine (`gemsfit_task*.cpp`, `optimization.cpp`, `opt_vector.cpp`, `gemsfit_*_functions.cpp`) | parameters, one GEMS3K node per sample, residuals | objective evaluations in parallel loops, nested optimizations | every sample is evaluated with the parameters of the call; slots are not mixed up |
| Data manager (`data_manager.cpp`) | vector of samples | build the query, read, weigh and skip samples, resolve synonyms | the fit is made with the experiments the task means, each once, under their GEMS names |
| Statistics (`statistics.cpp`) | Monte Carlo scatter, backups | statistics, sensitivities, Monte Carlo | the optimum survives the Monte Carlo runs |
| JSON/YAML values, dialogs, charts, formula parser, converters, help | | | not modelled, see section 8 |

How they interact. The three collections of a project (experiments, tasks,
fits) share one driver connection. The window's commands call a collection
directly; an error is a `TError` that the command catches at its end, so every
step after the throwing call is skipped. A fit run goes through a file (the
task), a process, the database and the result files: EJDB2 locks the database
file, so the window disconnects before it starts gemsfit2 and connects again in
the slot of `QProcess::finished`. In between the window goes on taking commands
against collections that are closed.

What is hard to test here, and drives the models: errors half-way through a
command; the difference between the record on the screen, the text in memory
and the current key; an index that shows a filtered part of the collection;
interleavings of the window, the process and the two Qt signals; everything
that is possible while the database is closed. `PROJECT.json` lists these as
hazards with their lines.

## 2. Modules

    EjdbCollection ----+-- RecordStore ---- MCRecordStore (TLC)
      operators of     |      |-- implements KeyedStore
      one collection   |      '-- RecordStoreProofs
                       +-- RecordWindow --- MCRecordWindow (TLC)
                       |      '-- RecordWindowProofs
                       +-- FitShell ------- MCFitShell (TLC)
                       |      '-- FitShellProofs
                       '-- EjdbCollectionProofs (lemmas on the operators)
    RecordKeys -- MCRecordKeys (TLC) -.
    StoredFits -- MCStoredFits (TLC) -+-- StoredDataProofs
    DataLoad ---- MCDataLoad (TLC) ---.
    FitRun ------ MCFitRun (TLC) -----+-- Gemsfit2Proofs
    NestedFit --- MCNestedFit (TLC), NestedFitProofs
    Induction (used by NestedFitProofs, RecordWindowProofs, StoredDataProofs,
      Gemsfit2Proofs)

**EjdbCollection** is one collection as a record value with one operator per
method. An operator yields the set of possible outcomes `[db, err]`: `err` is
the title of the `TError` thrown, and `db` is the collection as the throw leaves
it. That is why the models can see partial failures: `CurrentToJson` moves the
current key before it throws, `CreateRecord` takes its index entry out again,
`OpenDB` may stop with part of the index loaded or, when the driver fails to
list the documents, with none of it. A constant `Faults` lets each driver call
of a connected database fail: creating, updating, reading, deleting, listing,
and the connection itself.

**KeyedStore** is the abstract specification of a collection: a dictionary with
insert, save, get and delete, each of which may be refused. It is `"off"`,
`"whole"` or open in `"part"`. Whole, it is a plain dictionary: one document
under a key, inserts refuse exactly the keys that are present, "does not exist"
is said of absent ones only. In part, documents may be hidden: a key that has
one may be denied or get a second one; still, what is read or deleted is a
document of the key asked for.

**RecordStore** lets any sequence of calls happen to one collection, and states
what a collection promises. Its documents start with distinct keys. The history
variable `loaded` says whether the last load of the open project went through;
no action looks at it. `Dict` and `Mode` map a collection to `KeyedStore`: it is
whole if it was loaded, without a filter.

**RecordWindow** is the main window at work on the experiments. Its state is one
record because a command is a composition of calls: `Then` continues a command
only after a call that did not throw, `Repeat` is a loop that stops at the first
throw, `Finally` is what follows its `catch`.
Each menu command is an action; its prompts and file dialogs are choices. The
ghost field `shown` records what a user sees (which record the editor was filled
from) for the properties; no action looks at it.

**FitShell** composes the window's two modes (one collection each, on one
connection), the process and the work directory. Actions of the user, of
gemsfit2, and of QProcess interleave. Opening the locked database is an action
that is disabled while the other program has it open, as EJDB2 waits for its
lock. `gui.waiting` is the window inside `waitForFinished`, where only that call
can return: by the process's end (`FinishedInWait`, which also runs the slot
`runFinished`) or after 30 s (`WaitTimesOut`).

**RecordKeys** is what the other modules leave out of a key: its text. A document
is the values of its key fields, which may be strings, numbers or missing. Its
key is made five times in the code, and not in the same way: from the text
(`GetKeyFromJson`, which takes numbers too), from the stored document (`Joined`
and `LoadedKey` of the driver, strings only), from the cells of the key table
(`Joined` again), by packing (`Pack`) and by splitting (`SetKey`). The actions
are Insert, Update, Show, Delete, the filter and the opening of the project, so
that a key goes all these ways in any order.

**StoredFits** is the life of a result: the files of a run, the results window,
the collection of fits, the deletion of tasks with their fits, and projects. It
builds on what the modules above establish: a collection is the dictionary of
`KeyedStore`, and the process is one step to its files (`FitEnds`), as
`FitShell` allows. In exchange it has the driver's failures in the middle of a
command, two projects, the results window's own commands, and a deletion of any
set of tasks. `dir` and `opened` are apart because `CmConfigProject` switches
the directory and settings before the user confirms them.

**DataLoad** is the constructor of `Data_Manager`, one action per stage, from
`DataSelect` to the weights of the functions. A query is the set of its clauses;
`Query` builds it as the code does, list by list, and `Holds` is what EJDB2
makes of a clause. `Paired` is the double loop that the code has twice, for
pairs to be used and pairs to be skipped; only the latter separate the samples
of one pair from those of the next. `Erase` keeps the loop's habit of not
looking at the element behind one it erased. The properties compare the outcome
with `IsMeant`, which reads the selection as its documentation does.

**FitRun** is one run of gemsfit2 below that process: from `main` to the
evaluations of the model. A vector is a record of the guess it means, the unit
its coordinates are in (real, or divided by a guess), and the step that perturbs
it; so `Normalized` and `Rescaled` are what `normalize_params` and the
multiplication by `|optv_0|` do to it, and a vector scaled by the wrong guess is
visible. `point` and `table` are where the nodes stand and what the results were
computed for; `norm` is the evaluation that set the divisor. NLopt is external:
it asks about any vector in its units, a bounded number of times, and returns
one it was told about, or throws. Every combination of the settings the code
branches on is explored, also what memory holds in the flag `NormParams`, which
nothing initializes.

**NestedFit** is what happens inside one evaluation when the task has nested
functions: the loop that sets the vector in the nodes, the parallel loop of
`nestedfun` over the samples with one optimizer per nested function, and the
loop of the equilibria. `slot[t]` is what a thread leaves in `EXPndx`, `NEFndx`,
`vEAndx` and `vPAndx` for `nestminfunc`, which is called by NLopt with a vector
and nothing else. Two threads interleave between all calls of their optimizers.
`FitRun` takes such an evaluation as one step; `EvaluatedWhole` is what allows
that.

| FitRun, NestedFit action | Code |
|---|---|
| `RunOptim`, `EvaluateOnly`, `Build`, `Ask`, `Found`, `Built`, `Abort` | `main`, `run_optim`, `build_optim` around `NLopti.optimize`, its exits |
| `Gradient`, `Evaluate` | `gradient` and the rest of `Equil_objective_function_callback` |
| `basic_stat`, `Sensitivity`, `SensitivityEnd`, `Digit`, `DigitsEnd` | the stages of `statistics` that evaluate |
| `MC_run`, `MC_store`, `MC_end` | `MC_confidence_interval`: one pass of its loop around `build_optim`, what follows the loop |
| `Evaluate`, `AdjustNode`, `StartNested`, `EndNested`, `ComputeNode`, `Return` | `gems3k_wrap` |
| `Take`, `Skip`, `Gather`, `NoParameters`, `Ask`, `Stop`, `Throw`, `Store`, `Leave` | `nestedfun`, in the order of its loop |
| `nestminfunc`, `OutOfRange` | `nestminfunc`, and its index beyond the groups |
| `NestedOnly` | `run_optim` of a task without objective functions |

| FitShell action | Code |
|---|---|
| `RunMalformed`, `RunRefused`, `RunStarts`, `RunDoesNotStart` | the ways through `CmRunTest`: the text does not parse, the record is not saved, the process starts (or is taken for started, because one is running), it does not start |
| `TaskMode`, `DBMode`, `CreateTask`, `OpenTask`, `LoadProject` | `CmTaskMode`, `CmDBMode`, `CmCreate`, `CmShow`, `loadNewProject` |
| `Cancel`, `ShowResults` | `CmCancelGemsfit`, `CmShowCalcResults` |
| `ReadTask` ... `WriteResults`, `WriteTemplate` | `main.cpp` of gemsfit2, in the order of its steps |
| `Crash` | the process is killed or fails at any point |
| `Finished` | the slot `runFinished` from the event loop |

| StoredFits, RecordKeys, DataLoad action | Code |
|---|---|
| `OpenTask`, `WriteTask`, `DeleteTasks`, `DeleteStops` | `CmShow`; `CmInsert` and `CmUpdate`; `CmDelete` and `CmDeleteList`, through or stopped by the driver |
| `RunRefused`, `Run`, `FitEnds`, `RunFinished`, `CreateTask`, `TaskMode` | `CmRunTest` by its ways, the end of gemsfit2, `runFinished`, `createTaskTemplate`, `CmTaskMode` |
| `OpenProject`, `ConfigCancelled` | `loadNewProject`; `CmConfigProject` when its dialog is cancelled |
| `ShowFitResults`, `ShowCalcResults`, `SaveResults`, `CmDeleteRecord`, `CloseResults` | the commands of both windows that touch the results window |
| `CmInsert`, `CmUpdate`, `CmShow`, `CmDelete`, `Filter`, `LoadProject`, `LoadStops` | the commands of these names; `changeKeyList`; `loadNewProject` and the error of `add_key_to_set` |
| `Exit`, `GenerateQuery`, `QueryRejected`, `ReadExperiments`, `Weigh`, `SkipPairs` | `get_EJDB`, in its order |
| `get_distinct_TP`, `check_Syn`, `set_weights` | the functions of these names |

## 3. Runs

| Run | Question | Instance |
|---|---|---|
| `store_calls` | what does a collection promise behind filters that hide, reject or stop, loads that fail and a failing driver; is it a dictionary, whole or in part? | 2 keys, 2 bodies, 2 documents, 4 filters |
| `window_commands` | what do all command sequences of the window keep? | 2 keys, 2 bodies, 2 documents, 4 texts, 2 import files, 2 filters |
| `shell_runs` | does the handshake of window and process work, and end? | 2 tasks, 1 experiment, failures to start, crashes |
| `fit_run` | is every evaluation of a program run what the code around it takes it for? | 3 guesses, 2 parameters, 2 NLopt calls, 2 Monte Carlo runs, all 192 settings |
| `nested_fit` | do parallel nested fits stay apart, which of them have a stop criterion, and does an evaluation end? | 2 threads, 2 samples, a PpG function with an ordinary one after it and a titration, 3 nested parameters with 2 values, 2 evaluations |
| `stored_fits` | does a stored fit belong to its task, whatever happens in between? | 2 tasks in each of 2 projects, failing writes and deletions |
| `record_keys` | which key texts survive the ways a key takes? | 2 key fields, 14 documents of which 2 are stored, 35 filters |
| `data_load` | is the fit made with the experiments the task means? | up to 4 experiments of 2 samples and 2 datasets, about 200 selections, 2 lists of synonyms |
| `window_update`, `nested_groups`, `nested_linked`, `data_pairs` | four statements of comments and docs that the code does not keep (section 7) | as above |

Why the bounds suffice. A hazard of a collection involves the key asked for and
one other key; a stale index entry needs a document that is replaced, and a
duplicate needs two documents, so two keys and two ids show every
relation between entries and documents. Two bodies tell an old version of a
record from a new one. Two tasks tell whose results are shown. Counters do not
occur. Document ids are interchangeable and symmetric in the runs without
liveness; `shell_runs` has no symmetry because it checks liveness.

In `fit_run` three guesses tell the initial one, the one an optimization ends
at, and another; two Monte Carlo runs show what the second one finds left by the
first; two calls of NLopt are the least with which values are compared. Two
parameters make a gradient of four points. In `nested_fit` two threads on two
samples meet in every order; one sample has two functions, so that a slot is
used twice and `bounds` passes from the PpG function to the ordinary one; a second
evaluation, at another vector, shows what the first one leaves behind. Of the two
values one is the initial one, so that the vector an optimizer returns and the
last one it asked about may differ. `MaxAsks` stands for the
stop criterion of an optimizer, which has no bound in the model when the code sets
none.

In `stored_fits` a result can be of the task shown, of another, or none, so two
tasks suffice; a second project shows what is left of the first. In
`record_keys` the documents have, one at a time, every irregularity of a key
field (a blank in front, `:` inside and at the end, a number, an empty or a
missing value), beside a second field that is regular or missing; the filters
are all parts of up to two characters of two letters and two wildcards, some of
three characters with a wildcard in the middle or at the end, and texts with too few or too
many `:`. In `data_load` two samples in two datasets give every relation of an
experiment to a pair (both, one, none in common), and a fifth experiment has the
key of another; the selections take each kind of list absent, empty, with one and
with two elements.

The bounds are the constants `Keys`, `Bodies`, `Ids`, `Typed`, `Imports`,
`Queries`, `Projects`, `Guesses`, `Coordinates`, `MCRuns`, `MaxEval`,
`Samples`, `Threads`, `Vectors`, `Values`, `MaxAsks`, `MaxEvaluations`,
`Documents`, `Filters`, `MaxDocs`, `Collections`, `Selections`, `Synonyms`,
`Garbage`. `Ids` bounds the documents stored at once: creating one
is disabled when all ids are taken, except for the failure outcome.

Assumptions of the runs. `window_*` and `shell_*` take a driver that does not
fail on a connected database (`Faults = FALSE`): what `openEJDB` throws inside
`runFinished` nobody catches, so the program ends there. In `FitShell` the
projects have at least one experiment and one task, key filters are empty, a
task's file has its name from the task's key, all result files of a fit appear
in one step, and a failing save in a prompt is left out (it also throws out of
the slot). `shell_runs` excludes opening a project while a fit is running
(`Reloads = FALSE`): it opens the database under the process, and Task mode may
then enable a second Run, which renames the results of the first.

In `fit_run` the objective function has normal values: the kinds of mixed
residuals that change the divisor while they are computed are left out, as are
the Tuckey weights, which carry over from one evaluation to the next. In
`NestedFit` the slots number at least the threads (MPI is set; its default,
computed outside a parallel region, is 0 on a machine with one processor), and
a residual may be zero or not in every state.

`stored_fits` has a driver that may fail to write and to delete, but not to read,
and no project opened after the first run (`Switches = FALSE`): with either,
`FitsUnderOwnKey` is not so (section 7). In `RecordKeys` the driver does not
fail; a text of blanks only does not occur, because what `strip` of GEMS3K makes
of it is not determined here. In `DataLoad` names are compared as wholes, and
numbers are integers.

Every property of a passing run has a mutant: a variant of a modelled operator
with a plausible bug, defined next to it, with which TLC finds the property
violated.

## 4. Properties

Of a collection: `IndexMirrorsStore` (from a load without a filter that went
through to the next load, index and documents agree, whatever the driver
refuses),
`IndexNeverMisleads` (any filter: an index entry always leads to the document of
its key), `WritesStayOnKey`, `RefusedChangesNothing` (an error leaves documents
and index alone), `DuplicatesNeedAGap` (a duplicate key needs an index that
hides a document), `ImplementsKeyedStore` (refinement: after any loads, failed ones
included, the collection answers as the dictionary would, whole or in part).

Of the window: `RowsExist` (the key table never lists a record that is gone,
also while the database is closed), `WrittenIsShown` (what a save writes is the
text on the screen), `BrowsingSavesCurrent` (the prompt writes flagged edits of
the current record only), `ImportKeepsRecords`.

Of keys: `UpdatableUnlessColon` (a record in the index can be opened from the
table and saved again exactly if no key field holds a `:`), `OpensUnlessNumber`
(a collection that opened and was worked on opens again, unless a key field is a
number), `FilterIsWildcard` (the key table after a change of the filter or the
index against a recursive definition of wildcards, with the two deviations
named).

Of stored fits: `FitsUnderOwnKey` (a fit holds what was computed for the task
with its key, or nothing), `OrphansAreSaved` (a fit loses its task only when the
results window saves it later, or when the driver fails between the two calls of
a deletion, and then only this one fit).

Of the data: `LoadedAreMeant` (after the skipping of pairs the experiments are
those the task means, each once), `NamesAreResolved` (no synonym is left where
the fit looks a phase or component up by its GEMS name). `LoadedAreMeant` is for
the selections that `Followed` describes; section 7 has the others.

Of a fit run: `FitNeverWaits` (a fit that starts finds the database free),
`NoRunDuringFit` (Run is disabled through every path of mode changes while a fit
works, although `CmTaskMode` only counts experiments), `CancelHasTarget`,
`ResultsUnderOwnKey`, and the liveness property `FitsEnd`: after every fit the
database is connected and Run enabled again.

Of a program run: `SharedNorm` (the values NLopt compares in an optimization
have one divisor, from the same measurements), `EvaluatedIsAsked` (the nodes are
computed at the vector NLopt asked about, in the units of the task, also when a
Monte Carlo run starts from another guess), `NormalizedGradientIsCentral`,
`ResultsReturnToFit` (after each stage the results are at the fitted vector and
the original measurements again), `TableMatchesParameters` (the printed table
was computed at the printed parameters). `EvaluatedIsAsked` and the two after it
assume that `NormParams` holds `FALSE` where nothing sets it.
`TableMatchesParameters` leaves out rounding together with Monte Carlo runs:
`MC_end` goes back to the vector before rounding, and `print_param` prints the
rounded values.

Of an evaluation: `SlotsPrivate` (a thread's slot is about the sample and
function it works on; `NodesOwned`, that a node changes by the thread that has
its sample, is proved only), `RecordedIsApplied` (the printed nested parameters are those the node
was computed with), `EvaluatedWhole` (results are of one vector in all samples,
with the nested parameters as they ended, and with the task's own target
function restored in all its copies), `StopsUnlessAfterPpG` (an optimizer lacks a
stop criterion only if its function is an ordinary one after a PpG one of the
sample, with no activity between, whatever was skipped; `nested_fit` has no activity, so
that an activity ends what a PpG function has left in `bounds`, fitted or skipped, is
proved only), and the liveness property
`EvaluationEnds`: an evaluation ends unless a thread stays in such a function for
ever.

## 5. Fairness

`FitsEnd` assumes weak fairness of the process's own steps (`Gemsfit`), of
the delivery of `finished` (`Finished`, `FinishedInWait`) and of the bounded
wait (`WaitTimesOut`). A fit evaluates at most `OptMaxEval` times; Qt delivers a
pending signal whenever the window returns to its event loop, which it does
after every command; `waitForFinished` has a timeout of 30 s. Nothing is
assumed of the user or of crashes. `EvaluationEnds` assumes weak fairness of
the evaluation as a whole: while a loop or a thread can go on, one of them does.
It does not need fairness of each thread. How often NLopt asks is bounded only where the code sets
`maxeval` or tolerances (`Criterion`). No safety property depends on fairness.

## 6. Proofs

TLAPS proves, for all values of the constants that satisfy the named
assumptions:

| Theorem | Statement |
|---|---|
| `RecordStoreProofs!TypeCorrect`, `IndexIsSound`, `StepsStayOnKey` | `Spec => []TypeOK`, `[]IndexNeverMisleads`, `WritesStayOnKey` |
| `RecordStoreProofs!RefusalsAreHarmless`, `NoDuplicateWithoutGap`, `LoadedIndexMirrors` | `Spec => RefusedChangesNothing`, `DuplicatesNeedAGap`, `[]IndexMirrorsStore` |
| `RecordStoreProofs!ClosedIsEmpty`, `StoreIsADictionary` | while the database is closed nothing is indexed; `Spec => ImplementsKeyedStore` |
| `RecordWindowProofs!TypeCorrect`, `RowsExistHolds` | `Spec => []TypeOK`, `[]RowsExist` |
| `RecordWindowProofs!WrittenIsShownHolds`, `ImportKeepsRecordsHolds`, `BrowsingSavesCurrentHolds` | `Spec => WrittenIsShown`, `ImportKeepsRecords`, `BrowsingSavesCurrent` |
| `FitShellProofs!TypeCorrect`, `CancelIsHonest` | `Spec => []TypeOK`, `[]CancelHasTarget` |
| `FitShellProofs!FitIsAlone`, `FitFindsDatabaseFree`, `ResultsAreTheirTasks` | without reloads: `[](FitNeverWaits /\ NoRunDuringFit)`, `[]FitNeverWaits`, `[](LastKeyIsCalculated /\ ResultsUnderOwnKey)` |
| `StoredDataProofs!TypeCorrect`, `OrphansAreSavedHolds` | `Spec => []TypeOK`, `OrphansAreSaved` |
| `StoredDataProofs!FitsUnderOwnKeyHolds` | if the driver reads and projects are not switched: `[]FitsUnderOwnKey` |
| `StoredDataProofs!KeysTypeCorrect`, `RecordsAreUpdatable` | `KeysSpec => []KeysTypeOK`, `[]UpdatableUnlessColon` |
| `StoredDataProofs!StoredIsOpened`, `TableIsWildcard` | `KeysSpec => OpensUnlessNumber`, `FilterIsWildcard` |
| `StoredDataProofs!SetKeyOfPack`, `KeyOfPacked`, `PackedColons` | for fields without `:` and blanks at their ends `SetKey(Pack(k)) = k`; `SetKey` of `Pack(f)` and of `Joined(f)` is that of the stripped fields packed; what is packed like such a key has no `:` in its fields |
| `StoredDataProofs!MatchIsWild` | `MatchesPart` is `Wild`, except for the two cases that `FilterIsWildcard` names |
| `Gemsfit2Proofs!SharedNormHolds`, `EvaluatedIsAskedHolds` | `Spec => []SharedNorm`, `[]EvaluatedIsAsked` |
| `Gemsfit2Proofs!ResultsReturnToFitHolds`, `TableMatchesParametersHolds` | `Spec => []ResultsReturnToFit`, `[]TableMatchesParameters` |
| `Gemsfit2Proofs!TypeCorrect`, `NormalizedGradientIsCentralHolds` | `Spec => []TypeOK`, `[]NormalizedGradientIsCentral` |
| `Gemsfit2Proofs!LoadTypeCorrect`, `LoadedExperimentsAreMeant`, `LoadedNamesAreResolved` | `LoadSpec => []LoadTypeOK`, `[]LoadedAreMeant`, `[]NamesAreResolved` |
| `Gemsfit2Proofs!QueryMeant`, `WithoutMatches` | the query finds what the task's documentation means; the erasing loop leaves exactly what matches no pair |
| `NestedFitProofs!TypeCorrect`, `SlotsPrivateHolds`, `NodesOwnedHolds` | `Spec => []TypeOK`, `[]SlotsPrivate`, `NodesOwned` |
| `NestedFitProofs!ResultsAreOfOptHolds`, `StopsUnlessAfterPpGHolds` | `Spec => []ResultsAreOfOpt`, `[]StopsUnlessAfterPpG` |
| `NestedFitProofs!RecordedIsAppliedHolds`, `EvaluatedWholeHolds` | if `Addressed`: `Spec => []RecordedIsApplied`, `[]EvaluatedWhole` |
| `NestedFitProofs!OneGroupIsAddressed` | `OneGroup => Addressed` |
| `Induction!InductionOnNat`, `InductionUpTo`, `RecursionUpTo` | induction, and the existence of recursive functions, over `0..n` |

The assumptions are `EjdbConstants`, `StoreConstants`, `WindowConstants`,
`ShellConstants`, `RunConstants`, `NoNorm`, `NestedConstants`,
`StoredFitsConstants`, `DataLoadConstants` and `RecordKeysConstants`. They say of which kind a constant is, and that the values
which stand for "nothing" (`NoKey`, `NoDoc`, `None`) are no values of the kind
they are missing from; `NoNorm` is that of the divisor of a run. Keys are
finitely many in `WindowConstants`, because the user marks a list of them.
A database is a finite set of experiments with ids of
their own (`DataLoadConstants`). Nothing bounds the number of keys, documents,
imports, samples, experiments, synonyms, threads, parameters, evaluations or
Monte Carlo runs, nor the length of a list in a task, of a key field or of a
filter, nor the number of key fields.

The argument for a collection. `IndexNeverMisleads` is inductive together with
`TypeOK`: an entry is made only with the document just created or listed under
that key, documents keep their key because `CurrentToJson` rejects a save whose
text has another key than the one asked for, and a deletion removes the entry
with the document. `EjdbCollectionProofs` states this once per operator
("of every outcome: the types, the soundness of the index, the key that was
written"); a theorem about `Spec` then has one step per action. Completeness of
the index needs more: `OpenDB` without a filter selects every document, and if it
does not stop, which a duplicate would make it do, they are all loaded
(`OpenDBLoads`); from then on each call keeps the agreement (`Mirrored`), as long as
nothing is loaded again. Nothing is assumed of earlier filters or failures, nor
of the keys being distinct.

The refinement of `KeyedStore` has the mapping of the module: the dictionary has,
under each key, the bodies of its documents. `Session` is what it takes: the
invariant, `Mirrored`, and `Offline` (a closed project indexes nothing). A key
found in the index is present in the dictionary in every mode. If the mode is
whole, one that is not found is absent, and a key's set has at most one member,
so that a save or a deletion leaves nothing else under it; in part, one document
of the key's comes or goes and others may stay. Openings, searches and closings
change the mode, and get to whole only with all keys distinct. `EjdbCollectionProofs` says of
every operator which documents and entries its outcomes change (the lemmas named
`...Shape`, `...Effect`, `...Writes`), and one lemma per call says that it is the
dictionary's call.

The argument for the window. Inductive is `WindowInv`: the window and its
collection are of their types, the index is sound (`DbInv`), and the rows exist.
A command is a composition, so there is one lemma per helper about each of its
results, thrown or not: `MessageFacts` (the prompt saves the flagged text under
the current key or nothing), `CmShowFacts`, `ResetFacts`, `RecDeleteFacts`,
`ImportRecordFacts`. A list of deletions or imports is a recursive function over
its length; `DeleteAllFacts` and `ImportAllFacts` show by induction that, wherever
it stops, documents were only taken away, or only added. `Effect` is what a
command of each name may do to the documents; the three action properties follow
from it. Rows need no completeness of the index: a save keeps the keys of what is
stored, and every command that has deleted something lists the keys again, a
list of deletions also when one of them throws.

The argument for fit runs. The invariant `Inv` of `FitShellProofs` is `Shape`
(types, and each collection's index is sound), `CancelHasTarget`, and, when no
project is opened during a run, `OneFit`: while a fit is under way the database
is not connected, the experiments' index is empty and Run is disabled, and the
task file, the process's task and `lastKey` name the same record. An empty index
is what keeps `CmTaskMode` from enabling Run, and a disabled Run is what keeps
`lastKey` from changing under the fit: neither `FitNeverWaits` nor
`LastKeyIsCalculated` is inductive without them.

The argument for the loading of the data. Each loop of `DataLoad` is a recursive
function, and has a lemma that says what it has after every element:
`TurnsOn` and `SkippedSamplesTurn` follow the empty names through the samples of
`skippairs`, so that `SkippedPairsMeant` can say that the double loop finds the
pairs meant; `ErasesMatches` shows that the loop which does not look behind an
erased element erases all matches all the same, because no two experiments have
one key and so no two matches are neighbours (`DistinctKeys`; without it one
stays); `PhasesSettle` follows a phase through the entries: no later entry gives
it a synonym of an earlier one back, and its components are renamed by the entry
that has given it its name. `QueryMeant` reads the query clause by clause. The
invariant `LoadInv` then says, stage by stage, what the query is and which
experiments there are (`SelectionInv`: copies of those chosen, each once, later
of those meant), what is still empty (`StagesInv`), and that phases are settled
(`NamesInv`).

The argument for a program run. `IInv` of `Gemsfit2Proofs` says in which unit
`optv`, the vector asked about and the copy for the Monte Carlo runs are at each
stage (`RealUnits`, `SearchUnits`), that `optv_0` is the guess a search starts
from (so the guess it is multiplied by is the one it was divided by), that the
flag agrees with the setting during a search (`Flag`), and that a search's
counter is past 1 once NLopt was told anything, so that its divisor cannot
change any more (`Norms`). There is one lemma per action. `RInv` follows the
fitted vector from there: the last evaluation of a
search is at the vector found (`Calls`), which becomes `fitted` and stays in
`optv`, or in the copy once Monte Carlo runs overwrite `optv` (`Kept`), and each
stage ends with an evaluation at it (`Results`). `GInv` adds the ranges of the
variables, and that the divisor is set once anything was evaluated (`NormIsSet`),
so that all the differences of a gradient have the same one.

The argument for nested fits. A thread takes a sample out of `todo` and gives it
up at the end of the sample, so two threads never have one (`Owners`); a thread
writes its slot before its optimizer starts and nobody else writes it. `Typed`
adds what a node, a thread and a slot hold between two calls of an optimizer: the
parameters gathered are increasing and of the thread's function, a vector asked
about has one value for each. `Bounded` says of each thread that bounds of a PpG function come from one it has
fitted or passed in this sample with no activity since, and are never those of a
titration; every step from one function to the next keeps it, also `Skip`, and with it follows
`StopsUnlessAfterPpG`. `Phases` says at which vector and target function
the samples are in each of the three loops, and gives `ResultsAreOfOpt` without
further assumptions. That the values recorded are those in the node (`Applied`)
needs that `nestminfunc` gives values to all parameters that `nestedfun` gathered:
`Addressed`. `SetByAll` and `GatheredIncreasing` show by induction over the list of
parameters that this is so if all are of one group, which `nested_fit` has. With a
second group it is not, and the theorem's conclusion is false: that is what the
run `nested_groups` shows.

The argument for stored fits. `FitsUnderOwnKey` becomes inductive with three
more facts, together `FitsInv`: the tables in the results window are those of
its title or empty (`TitleInv`); the result files of the open project are those
of `lastCalcRecordKey` or none, because every run empties the directory in the
moment it sets the key (`WorkInv`); and a process works for that key, in the
directory of the open project (`FitInv`). `OrphansAreSaved` needs only
`TypeOK`: each action either keeps tasks and fits, or removes them together.

The argument for keys as texts. What is packed in one way differs from what is
packed in another by blanks only, beside a `:` or at an end of the text. `Thins`
says so with a function from the characters of one text to those of the other:
what it leaves out is blank, and every `:` and every other character between
stays in its place. `ThinsPart` shows that the parts between the same two `:`
then strip to the same text, and so `KeyOfPacked` follows from `PackThins` and
`JoinedThins`. `Layout` says where the fields are in what is packed; `SetKeyOfPack`
reads them off, and `PackedColons` counts: the `:` that a field has too much would
have to be the last one. The invariant `KeysInv` adds to the types (fields without
`:` and without blanks at their ends) that each key of the index is that of a
document of its own, and is the key this document is stored under if it has no
number or no `:` (`IndexInv`), and that after an opening that went through all
documents are in the index (`AllIndexed`), so that the next opening finds the
same keys, all different (`AllLoad`). `UpdatableUnlessColon` is not inductive
without the former, `OpensUnlessNumber` not without the latter. For the filter,
`ReachingAlong` and `ReachingStops` follow the recursion of `Wild` up to the first
`*`, which is where `compareTemplate` ends.

`Induction` has induction and recursion over `0..n` with sets and functions in the
place of the operators of the library's theorems, which the provers cannot
instantiate. A loop is written as a recursive function; `RecursionUpTo` shows that
there is one, `InductionUpTo` what holds of its values.

Only model-checked: `FitsEnd` and
`EvaluationEnds` are liveness under fairness, which is out of the proof system's
reach, as is ENABLED. The statements the code does not keep (section 7) stay runs.

## 7. Where code and comments disagree

Four runs are expected to find a violation; `PROJECT.json` quotes the lines.

* `window_update`: after a backup, an import, a refused insert or the end of a
  run, the current key is not the record on the screen; Update follows the key.
* `nested_groups`: a nested temperature or pressure of the second group is
  recorded but never set.
* `nested_linked`: a linked amount is not set when its parameter is at its initial
  value; if the optimizer asked about another value and returns the initial one,
  the amount stays where the other value had put it (opt_vector.cpp:991).
* `data_pairs`: with several pairs to be used, the samples of all of them are
  taken from the first dataset.

What else the models have as the code does it, where a reader of the code may
expect otherwise:

* Run saves the record in memory, not the edited text it runs
  (`SavedBeforeRun`; FITMainMenu.cpp:716).
* `gradient` multiplies by the initial guess and asks GEMS3K whether or not the
  objective function does, so `NormalizedGradientIsCentral` says nothing of
  other settings (gemsfit_global_functions.cpp:349).
* An ordinary nested function after a PpG one of the same sample gets neither
  tolerances nor a number of calls, because `bounds` is still 3
  (gemsfit_nested_functions.cpp:136, 146); if it comes to an end is up to NLopt's
  own limits of rounding. `EvaluationEnds` excepts it.
* When the driver fails to list the documents, the project is open with an empty
  index: records are then denied and may be inserted a second time, until the
  next load (`"part"` in `KeyedStore`; f_database.cpp:425).
* In a task of nested functions only, the copies of the target function are not
  switched (gemsfit_task.cpp:194).
* `lastCalcRecordKey` outlives the project it belongs to, and a cancelled
  `CmConfigProject` leaves the other project's directory and settings, which
  `runFinished` then opens; results may be saved under a key of the wrong
  project (`Switches`).
* When the driver fails to read a stored fit, the tables shown before stay under
  the new title (`"read"` in `Faults`).
* A record with `:` in a key field is stored but can never be updated; one whose
  key field is a number is stored, and the next opening of the collection stops
  at it; a filter with too few `:` ends the program, unless it is `*`.
* An empty name as the only `usedatasets` selects nothing, an empty string for
  temperatures or pressures an arbitrary number; of two neighbours with the key
  of a skipped pair one stays.

## 8. Not modelled

Numerics (residuals, weights, statistics) are floating-point computations
without control of their own; of gradients and Monte Carlo runs the models have
the evaluations they make. JSON and YAML parsing is reduced to "this
document" or "malformed". Dialogs, charts, help, preferences, the tree editor and
the CSV/TXT exchange formats are left out; what a dialog returns is a choice of
the action that uses it. Reading the task's parameters and settings
(`optimization.cpp`, `opt_vector.cpp`) is a long list of assignments from JSON
without order or failure of its own; the models start from the settings. In the
results window, files of a directory the user picks, edits of the tables and
plots are left out; projects are not opened during a run. Of the data, measured
values and their units are left out, and so are the threads of
`select_query_omp`: its parallel loop is compiled with `useomp1` only, which
nothing defines. EJDB2 is external: that it rejects empty parentheses and sorts
as asked is taken from how the code uses it. EJDB1 (`OLD_EJDB`) is not built by default. What EJDB2
keeps after a crash (it is opened with `no_wal`) is not determined here.

## 9. Plan

Done: the collection with its contract and proofs; keys as texts; the window's
record commands; fit runs and stored fits with their proofs; the loading of the
data; program runs and nested fits with their proofs; the refinement of
`KeyedStore`; the proofs of the window, of the loading and of keys as texts.
Every safety property that a passing run checks is a theorem. What would come
next are the parts of section 8 that have control of their own: the tree editor
of records, and the exchange formats.

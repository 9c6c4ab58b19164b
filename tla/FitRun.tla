------------------------------- MODULE FitRun -------------------------------
(***************************************************************************)
(* One run of the gemsfit2 program, from main.cpp down to the evaluations  *)
(* of the model: which parameter vector the nodes are computed at, when,   *)
(* against which measurements, and normalized by what.                     *)
(*                                                                         *)
(*   optv, optv_0   Opti->optv, the vector the optimizer works on, and the *)
(*                  initial guess its normalized vectors are multiplied by *)
(*   NormParams     the flag Equil_objective_function_callback looks at;   *)
(*                  no constructor sets it                                 *)
(*   master_counter, norm                                                  *)
(*                  the evaluations counted since the last build_optim, and*)
(*                  _init_residuals_sys, as the evaluation that set it     *)
(*   point, table   where the nodes and optParam stand, and the results of *)
(*                  the objective functions (computed_values_v ...): the   *)
(*                  point and the measurements they were computed for      *)
(*   data           the measured values in experiments: Original, or the   *)
(*                  number of the Monte Carlo run that scattered them      *)
(*   told           what NLopt was told in this optimization               *)
(*   fitted, rounded, printed                                              *)
(*                  the values of fitparam, and what the program prints    *)
(*                                                                         *)
(* A vector is a record: x, the real-valued guess meant; unit, Real or the *)
(* guess its coordinates are divided by; off, the coordinate step that     *)
(* perturbs it. The optimizer, external, asks any vector in its own units  *)
(* and stops at one it was told about. The objective function has normal   *)
(* values: mixed residuals are off or of kind 1, as equilibrium tells.     *)
(***************************************************************************)
EXTENDS Integers

CONSTANTS
    Guesses,        \* parameter vectors within the bounds
    Initial,        \* optv0, the initial values of the task's parameters
    Coordinates,    \* the number of fitted parameters
    MCRuns,         \* num_of_MC_runs
    MaxEval,        \* OptMaxEval, a bound on the calls NLopt makes
    Settings,       \* the optimization settings explored
    Real,           \* unit of a vector that is not normalized
    Misscaled,      \* unit of a vector multiplied by a guess it was not divided by
    None            \* no vector, no norm

Setting ==
    [OptDoWhat      : 0..2,
     OptNormParam   : BOOLEAN,
     gradient       : BOOLEAN,  \* OptAlgo has a D as its second letter
     OptEquilibrium : BOOLEAN,
     digits         : BOOLEAN,  \* OptPrcParamDigits > 0
     MCbool         : BOOLEAN,
     garbage        : BOOLEAN]  \* what memory holds where NormParams is made

ASSUME RunConstants ==
    /\ Initial \in Guesses
    /\ Coordinates \in Nat \ {0}
    /\ MCRuns \in Nat \ {0}
    /\ MaxEval \in Nat \ {0}
    /\ Settings \subseteq Setting
    /\ Real # Misscaled
    /\ Real \notin Guesses
    /\ Misscaled \notin Guesses

VARIABLES
    opts, pc, caller, coord,
    optv, optv_0, NormParams, asked, evals, told,
    master_counter, norm, point, table,
    data, imc, backup, fitted, rounded, printed

settings  == <<opts, caller, coord>>
search    == <<optv, optv_0, NormParams, asked, evals, told>>
model     == <<master_counter, norm, point, table>>
outcome   == <<data, imc, backup, fitted, rounded, printed>>

vars == <<opts, pc, caller, coord, optv, optv_0, NormParams, asked, evals, told,
          master_counter, norm, point, table,
          data, imc, backup, fitted, rounded, printed>>

----------------------------------------------------------------------------
Original == 0
Steps    == 1..(2 * Coordinates)   \* up and down in every coordinate
Rounded  == 2 * Coordinates + 1    \* the step to a rounded vector

\* master_counter is compared with 1 only; it is not counted beyond CountCap.
CountCap == 2
Counted(n) == IF n < CountCap THEN n + 1 ELSE n

Vector == [x : Guesses, unit : Guesses \cup {Real, Misscaled}, off : 0..Rounded]

\* Which evaluation set _init_residuals_sys, and the measurements it was made for.
Norm == [at : Vector, data : 0..MCRuns]

ASSUME NoNorm == None \notin Norm

At(g) == [x |-> g, unit |-> Real, off |-> 0]

Stepped(v, step) == [v EXCEPT !.off = step]

\* normalize_params: every coordinate by the size of the guess's own.
Normalized(v) == [v EXCEPT !.unit = v.x]

\* A normalized vector times |optv_0|.
Rescaled(v, guess) == [v EXCEPT !.unit = IF @ = guess THEN Real ELSE Misscaled]

\* What an evaluation leaves: where, against what, divided by what.
Evaluation(v, d, n) == [at |-> v, data |-> d, norm |-> n]

\* gems3k_wrap: the first evaluation after a reset of the counter sets the
\* residuals that it and all later ones are divided by.
gems3k_wrap(v) ==
    /\ master_counter' = Counted(master_counter)
    /\ norm' = IF master_counter' = 1 THEN [at |-> v, data |-> data] ELSE norm
    /\ point' = v
    /\ table' = Evaluation(v, data, norm')

\* tsolmod_wrap: no counter, no norm.
tsolmod_wrap(v) ==
    /\ point' = v
    /\ table' = Evaluation(v, data, None)
    /\ UNCHANGED <<master_counter, norm>>

Wrap(v) == IF opts.OptEquilibrium THEN gems3k_wrap(v) ELSE tsolmod_wrap(v)

----------------------------------------------------------------------------
Init ==
    /\ opts \in Settings
    /\ pc = "main" /\ caller = "main" /\ coord = 1
    /\ optv = At(Initial) /\ optv_0 = Initial
    /\ NormParams = opts.garbage
    /\ asked = None /\ evals = 0 /\ told = {}
    /\ master_counter = 0 /\ norm = None
    /\ point = None /\ table = None
    /\ data = Original /\ imc = 0 /\ backup = None
    /\ fitted = None /\ rounded = FALSE /\ printed = None

\* Equil_objective_function_callback, as far as the gradient it starts with.
Call(who, v) ==
    /\ caller' = who
    /\ asked' = v
    /\ coord' = 1
    /\ pc' = IF opts.gradient THEN "gradient" ELSE "evaluate"

RunOptim ==
    /\ pc = "main"
    /\ opts.OptDoWhat > 0
    /\ pc' = "build"
    /\ UNCHANGED <<settings, search, model, outcome>>

\* Without optimization: one evaluation at the initial values.
EvaluateOnly ==
    /\ pc = "main"
    /\ opts.OptDoWhat = 0
    /\ Call("main", optv)
    /\ UNCHANGED <<opts, optv, optv_0, NormParams, evals, told, model, outcome>>

\* Mutant of Build: the counter of the last optimization goes on.
BuildGoesOn ==
    /\ pc = "build"
    /\ optv' = IF opts.OptNormParam THEN Normalized(optv) ELSE optv
    /\ NormParams' = (opts.OptNormParam \/ NormParams)
    /\ evals' = 0
    /\ told' = {}
    /\ pc' = "optimize"
    /\ UNCHANGED <<settings, optv_0, asked, master_counter, norm, point, table, outcome>>

\* build_optim, up to the call of NLopt. Without OptNormParam the flag is left.
Build ==
    /\ pc = "build"
    /\ optv' = IF opts.OptNormParam THEN Normalized(optv) ELSE optv
    /\ NormParams' = (opts.OptNormParam \/ NormParams)
    /\ master_counter' = 0
    /\ evals' = 0
    /\ told' = {}
    /\ pc' = "optimize"
    /\ UNCHANGED <<settings, optv_0, asked, norm, point, table, outcome>>

Ask(g) ==
    /\ pc = "optimize"
    /\ evals < MaxEval
    /\ evals' = evals + 1
    /\ Call("nlopt", [x |-> g, unit |-> optv.unit, off |-> 0])
    /\ UNCHANGED <<opts, optv, optv_0, NormParams, told, model, outcome>>

\* NLopt returns; build_optim evaluates once more at what it found.
Found ==
    /\ pc = "optimize"
    /\ \E r \in told :
          /\ optv' = r.asked
          /\ Call("build", r.asked)
    /\ UNCHANGED <<opts, optv_0, NormParams, evals, told, model, outcome>>

\* A guess out of the bounds exits, an exception of NLopt is not caught.
Abort ==
    /\ pc \in {"build", "optimize"}
    /\ pc' = "exited"
    /\ UNCHANGED <<settings, search, model, outcome>>

----------------------------------------------------------------------------
\* Mutant of Gradient: the normalized vector is stepped as it is.
GradientUnscaled ==
    /\ pc = "gradient"
    /\ coord \in Steps
    /\ gems3k_wrap(Stepped(asked, coord))
    /\ coord' = coord + 1
    /\ UNCHANGED <<opts, pc, caller, search, outcome>>

\* One step of gradient, which rescales and asks GEMS3K in every setting.
Gradient ==
    /\ pc = "gradient"
    /\ coord \in Steps
    /\ gems3k_wrap(Stepped(Rescaled(asked, optv_0), coord))
    /\ coord' = coord + 1
    /\ UNCHANGED <<opts, pc, caller, search, outcome>>

\* The rest of the callback.
Evaluate ==
    /\ \/ pc = "evaluate"
       \/ pc = "gradient" /\ coord \notin Steps
    /\ Wrap(IF NormParams THEN Rescaled(asked, optv_0) ELSE asked)
    /\ told' = IF caller = "nlopt" THEN told \cup {[asked |-> asked, value |-> table']}
                                   ELSE told
    /\ pc' = CASE caller = "nlopt" -> "optimize"
               [] caller = "build" -> "built"
               [] caller = "main"  -> "basic_stat"
    /\ UNCHANGED <<settings, optv, optv_0, NormParams, asked, evals, outcome>>

\* The end of build_optim: the vector found, in the units of the task.
Built ==
    /\ pc = "built"
    /\ optv' = IF opts.OptNormParam THEN Rescaled(optv, optv_0) ELSE optv
    /\ pc' = IF imc = 0 THEN "basic_stat" ELSE "MC_store"
    /\ UNCHANGED <<settings, optv_0, NormParams, asked, evals, told, model, outcome>>

----------------------------------------------------------------------------
basic_stat ==
    /\ pc = "basic_stat"
    /\ fitted' = point
    /\ coord' = 1
    /\ pc' = IF opts.OptDoWhat # 2 THEN "sensitivity" ELSE "MC"
    /\ UNCHANGED <<opts, caller, search, model, data, imc, backup, rounded, printed>>

\* Central differences in every coordinate.
Sensitivity ==
    /\ pc = "sensitivity"
    /\ coord \in Steps
    /\ Wrap(Stepped(optv, coord))
    /\ coord' = coord + 1
    /\ UNCHANGED <<opts, pc, caller, search, outcome>>

\* Mutant of SensitivityEnd: the nodes are left where the last difference was taken.
SensitivityStays ==
    /\ pc = "sensitivity"
    /\ coord \notin Steps
    /\ coord' = 1
    /\ pc' = IF opts.digits THEN "digits" ELSE "MC"
    /\ UNCHANGED <<opts, caller, search, model, outcome>>

\* Back at the fitted vector.
SensitivityEnd ==
    /\ pc = "sensitivity"
    /\ coord \notin Steps
    /\ Wrap(optv)
    /\ coord' = 1
    /\ pc' = IF opts.digits THEN "digits" ELSE "MC"
    /\ UNCHANGED <<opts, caller, search, outcome>>

\* One more digit of parameter coord; enough, or not.
Digit ==
    /\ pc = "digits"
    /\ coord \in 1..Coordinates
    /\ Wrap(Stepped(optv, Rounded))
    /\ coord' \in {coord, coord + 1}
    /\ UNCHANGED <<opts, pc, caller, search, outcome>>

DigitsEnd ==
    /\ pc = "digits"
    /\ coord \notin 1..Coordinates
    /\ Wrap(Stepped(optv, Rounded))
    /\ rounded' = TRUE
    /\ pc' = "MC"
    /\ UNCHANGED <<settings, search, data, imc, backup, fitted, printed>>

----------------------------------------------------------------------------
\* Mutant of MC_run: the guess of the first search goes on being multiplied by.
MC_runOldGuess ==
    /\ pc = "MC"
    /\ opts.MCbool
    /\ imc < MCRuns
    /\ imc' = imc + 1
    /\ data' = imc + 1
    /\ backup' = IF imc = 0 THEN optv ELSE backup
    /\ optv' = backup'
    /\ pc' = "build"
    /\ UNCHANGED <<settings, optv_0, NormParams, asked, evals, told, model, fitted,
                   rounded, printed>>

\* Mutant of MC_run: one run too many.
MC_runOneMore ==
    /\ pc = "MC"
    /\ opts.MCbool
    /\ imc <= MCRuns
    /\ imc' = imc + 1
    /\ data' = imc + 1
    /\ backup' = IF imc = 0 THEN optv ELSE backup
    /\ optv' = backup'
    /\ optv_0' = backup'.x
    /\ pc' = "build"
    /\ UNCHANGED <<settings, NormParams, asked, evals, told, model, fitted,
                   rounded, printed>>

\* A Monte Carlo run: new measurements, the search from the fitted values.
\* optv is the argument optv_ as well, a reference to it; its copy made on
\* entry is optv_backup.
MC_run ==
    /\ pc = "MC"
    /\ opts.MCbool
    /\ imc < MCRuns
    /\ imc' = imc + 1
    /\ data' = imc + 1
    /\ backup' = IF imc = 0 THEN optv ELSE backup
    /\ optv' = backup'
    /\ optv_0' = backup'.x
    /\ pc' = "build"
    /\ UNCHANGED <<settings, NormParams, asked, evals, told, model, fitted,
                   rounded, printed>>

MC_store ==
    /\ pc = "MC_store"
    /\ data' = Original
    /\ pc' = "MC"
    /\ UNCHANGED <<settings, search, model, imc, backup, fitted, rounded, printed>>

\* Mutant of MC_end: the results of the last run are left.
MC_endStays ==
    /\ pc = "MC"
    /\ opts.MCbool
    /\ imc = MCRuns
    /\ pc' = "print"
    /\ UNCHANGED <<settings, search, model, outcome>>

\* After the last run: back at the fitted vector, whose results replace those
\* get_sum_of_residuals has just computed from the last run's nodes.
MC_end ==
    /\ pc = "MC"
    /\ opts.MCbool
    /\ imc = MCRuns
    /\ Wrap(backup)
    /\ pc' = "print"
    /\ UNCHANGED <<settings, search, outcome>>

NoMC ==
    /\ pc = "MC"
    /\ ~opts.MCbool
    /\ pc' = "print"
    /\ UNCHANGED <<settings, search, model, outcome>>

\* print_param and print_global_results.
PrintResults ==
    /\ pc = "print"
    /\ printed' = [parameters |-> IF rounded THEN Stepped(fitted, Rounded) ELSE fitted,
                   table      |-> table]
    /\ pc' = "done"
    /\ UNCHANGED <<settings, search, model, data, imc, backup, fitted, rounded>>

Next ==
    \/ RunOptim \/ EvaluateOnly
    \/ Build \/ (\E g \in Guesses : Ask(g)) \/ Found \/ Abort
    \/ Gradient \/ Evaluate \/ Built
    \/ basic_stat \/ Sensitivity \/ SensitivityEnd \/ Digit \/ DigitsEnd
    \/ MC_run \/ MC_store \/ MC_end \/ NoMC
    \/ PrintResults

Spec == Init /\ [][Next]_vars

----------------------------------------------------------------------------
Points == Vector \cup {None}

TypeOK ==
    /\ opts \in Settings
    /\ pc \in {"main", "build", "optimize", "gradient", "evaluate", "built",
               "basic_stat", "sensitivity", "digits", "MC", "MC_store", "print",
               "done", "exited"}
    /\ caller \in {"main", "nlopt", "build"}
    /\ coord \in 1..Rounded
    /\ optv \in Vector /\ optv_0 \in Guesses
    /\ NormParams \in BOOLEAN
    /\ asked \in Points /\ evals \in 0..MaxEval
    /\ master_counter \in 0..CountCap
    /\ data \in 0..MCRuns /\ imc \in 0..MCRuns
    /\ backup \in Points /\ point \in Points /\ fitted \in Points
    /\ rounded \in BOOLEAN

\* The values NLopt compares in one optimization have one divisor, taken from
\* the measurements they are about: the counter that tells gems3k_wrap when to
\* take it is reset by every build_optim, also in a Monte Carlo run, and with
\* gradients the first evaluation is not of the vector NLopt asks about.
SharedNorm ==
    \A r, s \in told :
        /\ r.value.data = s.value.data
        /\ r.value.norm = s.value.norm
        /\ opts.OptEquilibrium => r.value.norm.data = r.value.data

\* NormParams is never read before it is set, or memory holds FALSE there.
Trusted == ~opts.garbage \/ (opts.OptDoWhat > 0 /\ opts.OptNormParam)

\* What the callback evaluates is the vector it was asked about, in the units
\* of the task: every normalized vector is multiplied by the guess it was
\* divided by, also in the Monte Carlo runs, which start from another guess.
EvaluatedIsAsked ==
    (Trusted /\ pc \in {"optimize", "built"} /\ told # {}) =>
        point = [asked EXCEPT !.unit = Real]

\* Central finite differences (gradient): both points of every coordinate are
\* steps from the vector asked about, and of the function that is minimized,
\* where the code's gradient is meant for: parameters are normalized and GEMS3K
\* computes equilibria. (Otherwise neither is so.)
NormalizedGradientIsCentral ==
    (/\ opts.OptNormParam /\ opts.OptEquilibrium
     /\ caller = "nlopt" /\ pc = "gradient" /\ coord > 1) =>
        /\ point = Stepped(At(asked.x), coord - 1)
        /\ table.norm # None

\* Between the stages after the optimization the results are at the fitted
\* vector and about the original measurements, whatever the stages evaluated.
ResultsReturnToFit ==
    (Trusted /\ \/ pc \in {"basic_stat", "print"}
                \/ pc \in {"digits", "sensitivity"} /\ coord = 1
                \/ pc = "MC" /\ imc = 0) =>
        /\ data = Original
        /\ table.data = Original
        /\ table.at.unit = Real
        /\ table.at.x = optv.x \/ imc > 0
        /\ fitted # None => table.at.x = fitted.x

\* The table of results that is printed was computed at the parameters that
\* are printed. Rounding and Monte Carlo together are left out: print_param
\* prints Roundval then, and MC_confidence_interval has gone back to the vector
\* before rounding.
TableMatchesParameters ==
    (Trusted /\ pc = "done" /\ ~(opts.digits /\ opts.MCbool)) =>
        /\ printed.table.at = printed.parameters
        /\ printed.table.data = Original
=============================================================================

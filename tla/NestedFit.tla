----------------------------- MODULE NestedFit ------------------------------
(***************************************************************************)
(* Inside an evaluation: gems3k_wrap with nested functions. A parameter    *)
(* vector of the optimizer is set in the nodes, one for each sample; then, *)
(* in a parallel loop over the samples, every nested function fits its own *)
(* parameters (amounts of elements, temperature, pressure of that sample)  *)
(* with an optimizer of its own; then all nodes are computed.              *)
(*                                                                         *)
(*   objectives     whether the task has objective functions               *)
(*   stage, todo    where gems3k_wrap is, and the samples of the present   *)
(*                  parallel loop no thread has taken                      *)
(*   opt            the vector that is evaluated                           *)
(*   node           NodT: the vector and the amounts set in each node, the *)
(*                  amount of the linked element, and what it was last     *)
(*                  computed at                                            *)
(*   EVv            the fitted values of the nested parameters by sample   *)
(*   worker         the locals of a thread in nestedfun                    *)
(*   slot           EXPndx, NEFndx, vEAndx and vPAndx of a thread: how     *)
(*                  nestedfun tells nestminfunc what to work on            *)
(*   type, atype    Tfun->type, and type in the copy of Tfun each sample   *)
(*                  has                                                    *)
(*   result         of each sample's objective functions                   *)
(*                                                                         *)
(* Only what is compared is kept of the chemistry: whether a residual is   *)
(* zero is open. optParam's own opt, written by all threads of the first   *)
(* loop, gets one value from all. A step of a thread is as coarse as its   *)
(* touching only its own slot and node allows (NodesOwned).                *)
(***************************************************************************)
EXTENDS Integers, Sequences

CONSTANTS
    Samples,        \* experiments
    Threads,        \* omp_get_thread_num, below MPI
    Functions,      \* the number of nested functions
    Kind,           \* of each: "titration", "PpG", "loga" or "plain"
    Has,            \* the nested functions a sample has measurements for
    Parameters,     \* optNFParam: group, index in the group, and Fndx of each
    Elected,        \* the titrants nestedpH chose for a sample, as parameters
    Linked,         \* the parameter an L-type amount follows, or 0
    Vectors,        \* parameter vectors to evaluate
    Values,         \* nested parameter values the optimizers ask about
    Start,          \* the value every nested parameter starts with
    MaxAsks,        \* calls of nestminfunc before a stop criterion holds
    Tasks,          \* TRUE for a task with objective functions, FALSE for one
                    \* with nested functions only
    MaxEvaluations, \* evaluations explored
    None

Order  == 1..Len(Parameters)
Groups == {Parameters[k].group : k \in Order}

ASSUME NestedConstants ==
    /\ Functions \in Nat \ {0}
    /\ Kind \in [1..Functions -> {"titration", "PpG", "loga", "plain"}]
    /\ Has \in [Samples -> SUBSET (1..Functions)]
    /\ Parameters \in Seq([group : Nat \ {0}, index : Nat \ {0}, Fndx : 1..Functions])
    /\ Elected \in [Samples -> SUBSET Order]
    /\ Linked \in Order \cup {0}
    /\ Values \subseteq Int
    /\ Start \in Int
    /\ MaxAsks \in Nat \ {0}
    /\ Tasks \subseteq BOOLEAN
    /\ MaxEvaluations \in Nat
    /\ None \notin Vectors

VARIABLES objectives, stage, todo, opt, evaluations, node, EVv, worker, slot, type, atype, result

vars == <<objectives, stage, todo, opt, evaluations, node, EVv, worker, slot, type,
          atype, result>>

Amounts == [Order -> Values \cup {Start}]

\* Helem, read by isTitration. nestedpH makes and fills it; in a task of nested
\* functions only it is not called, and isTitration reads past the end of empty
\* vectors.
Helem(i) == IF objectives THEN {Elected[i]} ELSE SUBSET Order

\* The loops over groups and parameters, for function j and elected titrants e.
Gathered(j, e) ==
    LET Found[k \in 0..Len(Parameters)] ==
          IF k = 0 THEN <<>>
          ELSE IF Parameters[k].Fndx = j /\ (Kind[j] = "titration" => k \in e)
               THEN Append(Found[k - 1], k) ELSE Found[k - 1]
    IN  Found[Len(Parameters)]

\* Mutant of IsNext: the loop over the groups ends too early.
IsNextTooEarly(p, s, op) ==
    /\ p.group < Len(s) /\ op <= Len(s)
    /\ Parameters[s[op]].index = p.index
    /\ Parameters[s[p.group]].group = p.group

\* nestminfunc goes through the parameters of the first Len(s) groups, not of
\* the groups in s. It gives p the value number op when the op-th of s has the
\* same index in its group and s has, at the place of p's group, that group.
IsNext(p, s, op) ==
    /\ p.group <= Len(s) /\ op <= Len(s)
    /\ Parameters[s[op]].index = p.index
    /\ Parameters[s[p.group]].group = p.group

\* The parameters that are given values, in the order of the values.
SetBy(s) ==
    LET Set[k \in 0..Len(Parameters)] ==
          IF k = 0 THEN <<>>
          ELSE IF IsNext(Parameters[k], s, Len(Set[k - 1]) + 1)
               THEN Append(Set[k - 1], k) ELSE Set[k - 1]
    IN  Set[Len(Parameters)]

\* The values x given, one by one, to the parameters q.
Given(amounts, q, x) ==
    [k \in Order |-> IF \E m \in DOMAIN q : q[m] = k
                     THEN x[CHOOSE m \in DOMAIN q : q[m] = k] ELSE amounts[k]]

\* Adjust_Lparam: the linked amount follows the change from the initial one;
\* without a change it is left.
Follow(linked, amounts, s) ==
    IF /\ Linked # 0
       /\ \E m \in DOMAIN s : Parameters[s[m]].group = Parameters[Linked].group
       /\ amounts[Linked] # Start
    THEN amounts[Linked] - Start ELSE linked

Idle == [at |-> "idle", sample |-> None, j |-> 1, bounds |-> 0, x |-> <<>>, asks |-> 0]
Free == [EXPndx |-> None, NEFndx |-> 0, s |-> <<>>]

\* Mutant of P_id: all threads have one slot.
P_idShared(t) == CHOOSE u \in Threads : TRUE

\* omp_get_thread_num(), the index of a thread's slot.
P_id(t) == t

----------------------------------------------------------------------------
Init ==
    /\ objectives \in Tasks
    /\ stage = "idle" /\ todo = {} /\ opt = None /\ evaluations = 0
    /\ node = [i \in Samples |->
                 [opt |-> None, amounts |-> [k \in Order |-> Start], linked |-> 0,
                  computed |-> None]]
    /\ EVv = [i \in Samples |-> [k \in Order |-> Start]]
    /\ worker = [t \in Threads |-> Idle]
    /\ slot = [t \in Threads |-> Free]
    /\ type = "configured"
    /\ atype = [i \in Samples |-> "configured"]
    /\ result = [i \in Samples |-> None]

\* gems3k_wrap(o).
Evaluate(o) ==
    /\ objectives
    /\ stage = "idle"
    /\ evaluations < MaxEvaluations
    /\ evaluations' = evaluations + 1
    /\ opt' = o
    /\ stage' = "adjust"
    /\ todo' = Samples
    /\ UNCHANGED <<objectives, node, EVv, worker, slot, type, atype, result>>

\* run_optim of a task without objective functions: one call of nestedfun.
\* nestedpH does not elect titrants for it.
NestedOnly ==
    /\ ~objectives
    /\ stage = "idle"
    /\ evaluations = 0
    /\ evaluations < MaxEvaluations
    /\ evaluations' = 1
    /\ type' = "abs_dif"
    /\ stage' = "nested"
    /\ todo' = Samples
    /\ UNCHANGED <<objectives, opt, node, EVv, worker, slot, atype, result>>

\* Mutant of AdjustNode: a node that was adjusted before is left.
AdjustNodeOnce(i) ==
    /\ stage = "adjust"
    /\ i \in todo
    /\ todo' = todo \ {i}
    /\ node' = [node EXCEPT ![i].opt = IF @ = None THEN opt ELSE @]
    /\ UNCHANGED <<objectives, stage, opt, evaluations, EVv, worker, slot, type, atype, result>>

AdjustNode(i) ==
    /\ stage = "adjust"
    /\ i \in todo
    /\ todo' = todo \ {i}
    /\ node' = [node EXCEPT ![i].opt = opt]
    /\ UNCHANGED <<objectives, stage, opt, evaluations, EVv, worker, slot, type, atype, result>>

\* All adjusted: the nested functions minimize plain differences.
StartNested ==
    /\ stage = "adjust"
    /\ todo = {}
    /\ stage' = "nested"
    /\ todo' = Samples
    /\ type' = "abs_dif"
    /\ atype' = [i \in Samples |-> "abs_dif"]
    /\ UNCHANGED <<objectives, opt, evaluations, node, EVv, worker, slot, result>>

----------------------------------------------------------------------------
\* The parallel loop of nestedfun, schedule(dynamic).
Take(t, i) ==
    /\ stage = "nested"
    /\ worker[t].at = "idle"
    /\ i \in todo
    /\ todo' = todo \ {i}
    /\ worker' = [worker EXCEPT ![t] = [Idle EXCEPT !.at = "test", !.sample = i]]
    /\ UNCHANGED <<objectives, stage, opt, evaluations, node, EVv, slot, type, atype, result>>

\* Mutant of Skip: the loop over the functions goes too far.
SkipPast(t) ==
    /\ stage = "nested"
    /\ worker[t].at = "test"
    /\ worker[t].j <= Functions + 1
    /\ worker' = [worker EXCEPT ![t].j = @ + 1]
    /\ UNCHANGED <<objectives, stage, todo, opt, evaluations, node, EVv, slot, type, atype, result>>

\* The residual is zero: there is no measurement, or it is met already. For an
\* activity in loga the bounds are set before.
Skip(t) ==
    /\ stage = "nested"
    /\ worker[t].at = "test"
    /\ worker[t].j <= Functions
    /\ worker' = [worker EXCEPT ![t].j = @ + 1,
                                ![t].bounds = IF Kind[worker[t].j] = "loga" THEN 1 ELSE @]
    /\ UNCHANGED <<objectives, stage, todo, opt, evaluations, node, EVv, slot, type, atype, result>>

\* The slot and the optimizer are set up. bounds keeps its value from one
\* function of a sample to the next.
Gather(t, e) ==
    LET w == worker[t]
        s == Gathered(w.j, e)
    IN
    /\ stage = "nested"
    /\ w.at = "test"
    /\ w.j <= Functions
    /\ w.j \in Has[w.sample]
    /\ e \in Helem(w.sample)
    /\ s # <<>>
    /\ slot' = [slot EXCEPT ![P_id(t)] = [EXPndx |-> w.sample, NEFndx |-> w.j, s |-> s]]
    /\ worker' = [worker EXCEPT ![t] =
                    [w EXCEPT !.at = "optimize",
                              !.x = [m \in DOMAIN s |-> EVv[w.sample][s[m]]],
                              !.asks = 0,
                              !.bounds = CASE Kind[w.j] \in {"titration", "loga"} -> 1
                                           [] Kind[w.j] = "PpG" -> 3
                                           [] Kind[w.j] = "plain" -> @]]
    /\ UNCHANGED <<objectives, stage, todo, opt, evaluations, node, EVv, type, atype, result>>

\* No parameter points to the function: "Error setting the NFUN parameters!".
NoParameters(t, e) ==
    LET w == worker[t]
    IN
    /\ stage = "nested"
    /\ w.at = "test"
    /\ w.j <= Functions
    /\ w.j \in Has[w.sample]
    /\ e \in Helem(w.sample)
    /\ Gathered(w.j, e) = <<>>
    /\ stage' = "exited"
    /\ UNCHANGED <<objectives, todo, opt, evaluations, node, EVv, worker, slot, type, atype, result>>

\* Mutant of Criterion: none is set when there are bounds.
CriterionUnbounded(w) == w.bounds = 0

\* The optimizer of this function was given tolerances or a number of calls.
Criterion(w) == Kind[w.j] = "PpG" \/ w.bounds \in {0, 1}

Capped(n) == IF n < MaxAsks THEN n + 1 ELSE n

Ask(t, x) ==
    LET w == worker[t]
    IN
    /\ stage = "nested"
    /\ w.at = "optimize"
    /\ Criterion(w) => w.asks < MaxAsks
    /\ x \in [DOMAIN w.x -> Values]
    /\ worker' = [worker EXCEPT ![t] =
                    [w EXCEPT !.at = "ask", !.x = x, !.asks = Capped(@)]]
    /\ UNCHANGED <<objectives, stage, todo, opt, evaluations, node, EVv, slot, type, atype, result>>

\* It returns the best vector, here any, after a call of nestminfunc, or, with
\* invalid_argument and roundoff_limited caught, none.
Stop(t, x) ==
    LET w == worker[t]
    IN
    /\ stage = "nested"
    /\ w.at = "optimize"
    /\ x = w.x \/ w.asks > 0
    /\ x \in [DOMAIN w.x -> Values] \cup {w.x}
    /\ worker' = [worker EXCEPT ![t] = [w EXCEPT !.at = "last", !.x = x]]
    /\ UNCHANGED <<objectives, stage, todo, opt, evaluations, node, EVv, slot, type, atype, result>>

\* Another exception leaves the parallel region and ends the program.
Throw(t) ==
    /\ stage = "nested"
    /\ worker[t].at = "optimize"
    /\ stage' = "exited"
    /\ UNCHANGED <<objectives, todo, opt, evaluations, node, EVv, worker, slot, type, atype, result>>

\* A node v computed with these amounts, set for the parameters s.
Computed(v, amounts, s) ==
    [v EXCEPT !.amounts = amounts,
              !.linked = Follow(@, amounts, s),
              !.computed = [opt |-> v.opt, amounts |-> amounts]]

\* The objective function: it knows the thread and the vector x only.
nestminfunc(t) ==
    LET w == worker[t]
        s == slot[P_id(t)].s
        i == slot[P_id(t)].EXPndx
    IN
    /\ stage = "nested"
    /\ w.at \in {"ask", "last"}
    /\ EVv' = [EVv EXCEPT ![i] = Given(@, SetBy(s), w.x)]
    /\ node' = [node EXCEPT ![i] =
                  Computed(@, Given(@.amounts, SetBy(s), w.x), s)]
    /\ worker' = [worker EXCEPT ![t].at = IF w.at = "ask" THEN "optimize" ELSE "store"]
    /\ UNCHANGED <<objectives, stage, todo, opt, evaluations, slot, type, atype, result>>

\* More parameters than groups: it reads past the end of optNFParam, where
\* anything may be found, without effect unless the program crashes. So does
\* isTitration without Helem.
OutOfRange(t) ==
    /\ stage = "nested"
    /\ \/ /\ worker[t].at \in {"ask", "last"}
          /\ \E g \in 1..Len(slot[P_id(t)].s) : g \notin Groups
       \/ /\ worker[t].at = "test"
          /\ worker[t].j \in Has[worker[t].sample]
          /\ Kind[worker[t].j] = "titration" /\ ~objectives
    /\ stage' = "exited"
    /\ UNCHANGED <<objectives, todo, opt, evaluations, node, EVv, worker, slot, type, atype, result>>

\* "Store result parameters"; the next function.
Store(t) ==
    LET w == worker[t]
        s == slot[P_id(t)].s
    IN
    /\ stage = "nested"
    /\ w.at = "store"
    /\ EVv' = [EVv EXCEPT ![w.sample] = Given(@, s, w.x)]
    /\ slot' = [slot EXCEPT ![P_id(t)].s = <<>>]
    /\ worker' = [worker EXCEPT ![t] = [w EXCEPT !.at = "test", !.j = @ + 1, !.x = <<>>]]
    /\ UNCHANGED <<objectives, stage, todo, opt, evaluations, node, type, atype, result>>

Leave(t) ==
    /\ stage = "nested"
    /\ worker[t].at = "test"
    /\ worker[t].j > Functions
    /\ worker' = [worker EXCEPT ![t] = Idle]
    /\ UNCHANGED <<objectives, stage, todo, opt, evaluations, node, EVv, slot, type, atype, result>>

----------------------------------------------------------------------------
\* The end of the loop waits for all threads.
EndNested ==
    /\ stage = "nested"
    /\ todo = {}
    /\ \A t \in Threads : worker[t].at = "idle"
    /\ IF objectives THEN stage' = "compute" /\ todo' = Samples
                        ELSE stage' = "idle" /\ todo' = {}
    /\ type' = "configured"
    /\ atype' = [i \in Samples |-> "configured"]
    /\ UNCHANGED <<objectives, opt, evaluations, node, EVv, worker, slot, result>>

\* GEM_run and the residuals of a sample. Some kinds of residual go by the
\* type in Tfun, some by the one in the sample's copy.
ComputeNode(i) ==
    /\ stage = "compute"
    /\ i \in todo
    /\ todo' = todo \ {i}
    /\ node' = [node EXCEPT ![i].computed =
                  [opt |-> node[i].opt, amounts |-> node[i].amounts]]
    /\ result' = [result EXCEPT ![i] =
                    [opt |-> node[i].opt, amounts |-> node[i].amounts,
                     types |-> {type, atype[i]}]]
    /\ UNCHANGED <<objectives, stage, opt, evaluations, EVv, worker, slot, type, atype>>

Return ==
    /\ stage = "compute"
    /\ todo = {}
    /\ stage' = "idle"
    /\ UNCHANGED <<objectives, todo, opt, evaluations, node, EVv, worker, slot, type, atype, result>>

Work(t) ==
    \/ \E i \in Samples : Take(t, i)
    \/ Skip(t)
    \/ \E e \in SUBSET Order : Gather(t, e) \/ NoParameters(t, e)
    \/ \E x \in UNION {[1..n -> Values \cup {Start}] : n \in Order} : Ask(t, x) \/ Stop(t, x)
    \/ Throw(t) \/ nestminfunc(t) \/ OutOfRange(t) \/ Store(t) \/ Leave(t)

Loops ==
    \/ \E i \in Samples : AdjustNode(i) \/ ComputeNode(i)
    \/ StartNested \/ EndNested \/ Return

Next == (\E o \in Vectors : Evaluate(o)) \/ NestedOnly \/ Loops \/ (\E t \in Threads : Work(t))

Spec == Init /\ [][Next]_vars

\* An evaluation goes on, in one thread or another.
FairSpec == Spec /\ WF_vars(Loops \/ \E t \in Threads : Work(t))

----------------------------------------------------------------------------
Points == [opt : Vectors \cup {None}, amounts : Amounts] \cup {None}

TypeOK ==
    /\ objectives \in BOOLEAN
    /\ stage \in {"idle", "adjust", "nested", "compute", "exited"}
    /\ todo \subseteq Samples
    /\ opt \in Vectors \cup {None}
    /\ evaluations \in 0..MaxEvaluations
    /\ \A i \in Samples :
          /\ node[i].opt \in Vectors \cup {None}
          /\ node[i].amounts \in Amounts
          /\ node[i].computed \in Points
          /\ EVv[i] \in Amounts
    /\ \A t \in Threads :
          /\ worker[t].sample \in Samples \cup {None}
          /\ worker[t].j \in 1..(Functions + 1)
          /\ worker[t].bounds \in {0, 1, 3}
          /\ slot[t].EXPndx \in Samples \cup {None}

Busy(t) == worker[t].at \in {"optimize", "ask", "last", "store"}

\* What nestminfunc reads is about the sample and the function its own thread
\* works on: the slots are indexed by thread in a loop over samples, and no
\* two threads have the same sample.
SlotsPrivate ==
    /\ \A t \in Threads : Busy(t) =>
          /\ slot[t].EXPndx = worker[t].sample
          /\ slot[t].NEFndx = worker[t].j
          /\ DOMAIN slot[t].s = DOMAIN worker[t].x
    /\ \A t, u \in Threads :
          (t # u /\ worker[t].at # "idle" /\ worker[u].at # "idle") =>
              worker[t].sample # worker[u].sample

\* In the parallel loop a node changes by the thread that has its sample only.
NodesOwned ==
    [][stage = "nested" =>
          \A i \in Samples : node[i]' # node[i] =>
              \E t \in Threads : /\ worker[t].sample = i
                                 /\ worker[t]' # worker[t]]_vars

\* The values kept for the nested parameters, which are printed, are those the
\* node has been computed with.
RecordedIsApplied ==
    stage \in {"idle", "compute"} => \A i \in Samples : EVv[i] = node[i].amounts

\* What an evaluation returns was computed, in every sample, at the vector it
\* was called with and at the values the nested functions ended with, and
\* compared the way the task says.
EvaluatedWhole ==
    (stage = "idle" /\ opt # None) =>
        \A i \in Samples :
            /\ result[i] = [opt |-> opt, amounts |-> node[i].amounts,
                            types |-> {"configured"}]
            /\ node[i].computed = [opt |-> opt, amounts |-> EVv[i]]

\* "The values of the amount of H is linked (L) to Cl and Na"
\* (gfshell-taskmode.html): when the nested functions are done, a linked amount
\* has moved from its initial value as far as the parameter it is linked to.
LinkedIsLinked ==
    (Linked # 0 /\ stage \in {"idle", "compute"}) =>
        \A i \in Samples : node[i].linked = node[i].amounts[Linked] - Start

\* The thread is at an ordinary function of a sample that has measurements for a
\* function of property PpG before it, with no activity in loga in between.
AfterPpG(t) ==
    LET w == worker[t]
    IN  /\ Kind[w.j] = "plain"
        /\ \E p \in Has[w.sample] :
              /\ p < w.j
              /\ Kind[p] = "PpG"
              /\ \A q \in (p + 1)..(w.j - 1) : Kind[q] # "loga"

Fitting(t) == worker[t].at \in {"optimize", "ask"}

\* An optimizer has a stop criterion, whatever functions of the sample were fitted
\* or skipped before, unless the bounds of a PpG one have come down to it.
StopsUnlessAfterPpG ==
    \A t \in Threads : Fitting(t) => Criterion(worker[t]) \/ AfterPpG(t)

\* However the threads take turns, an evaluation comes to an end, unless a thread
\* stays for ever in a function that a PpG one has left without a stop criterion.
EvaluationEnds ==
    \/ []<>(stage \in {"idle", "exited"})
    \/ <>[](\E t \in Threads : Fitting(t) /\ AfterPpG(t))
=============================================================================

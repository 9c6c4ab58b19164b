------------------------------ MODULE DataLoad ------------------------------
(***************************************************************************)
(* What gemsfit2 fits against: the constructor of Data_Manager             *)
(* (src/gemsfit2/src-fit/data_manager.cpp), which turns "DataSelect" of    *)
(* the task into a query, reads the experiments it finds, weights them,    *)
(* takes out pairs to be skipped, lists the temperatures and pressures,    *)
(* and renames what has synonyms in "DataSyn"; then                        *)
(* TGfitTask::set_weights, which hands the weights to the functions.       *)
(*                                                                         *)
(* Names are numbers in the order of their spelling; 0 is the empty name.  *)
(* A list of the task reads alike as an array and, with one element, as a  *)
(* scalar; what is absent is the empty list.                               *)
(*                                                                         *)
(*   docs         the experiments in the database                          *)
(*   select       "DataSelect"                                             *)
(*   syn          "DataSyn"                                                *)
(*   OptUserWeight  whether the task asks for the weights of the database  *)
(*   stage        what is to be done next; "stopped" by exit() or an error *)
(*   query        query_object, as the set of its clauses                  *)
(*   h_datasetlist  whether the task gives weights                         *)
(*   experiments  the experiments read                                     *)
(*   TP_pairs     the distinct temperatures and pressures                  *)
(*   factor       what the weights of the objective and nested functions   *)
(*                of an experiment are multiplied by                       *)
(***************************************************************************)
EXTENDS Integers, FiniteSets, SequencesExt

CONSTANTS
    Collections,    \* the experiments a database may hold
    Selections,     \* the "DataSelect" a task may have
    Synonyms,       \* the "DataSyn" a task may have
    Garbage,        \* what an uninitialized double may hold
    NoNumber        \* the empty string where numbers are expected

VARIABLES docs, select, syn, OptUserWeight, stage, query, h_datasetlist,
          experiments, TP_pairs, factor

task == <<docs, select, syn, OptUserWeight>>

loadVars == <<task, stage, query, h_datasetlist, experiments, TP_pairs, factor>>

Name == Nat
NoName == 0

LoadStages == {"select", "query", "weigh", "skip", "TP", "synonyms", "factors",
               "done", "stopped"}

\* The names of phases, components and properties are only compared.
Component == [DC : STRING, DCprop : STRING]
Phase == [phase : STRING, phprop : STRING, phDC : Seq(Component)]
Experiment ==
    [id : Nat, sample : Name, expdataset : Name, sT : Int, sP : Int,
     weight : Int, expphases : Seq(Phase)]

Key == [expdataset : Name, sample : Name]
Pair == [datasets : Seq(Name), samples : Seq(Name)]
Selection ==
    [usedatasets : Seq(Name), skipdatasets : Seq(Name),
     usesamples : Seq(Name), skipsamples : Seq(Name),
     usepairs : Seq(Pair), skippairs : Seq(Pair),
     sT : Seq(Int \cup {NoNumber}), sP : Seq(Int \cup {NoNumber}),
     samplelist : Seq([SA : Name, DS : Name, WT : Int]),
     datasetlist : Seq([DS : Name, WT : Int])]

Synonym == [GemsName : STRING, syn : Seq(STRING)]
PhaseSynonym == [GemsName : STRING, syn : Seq(STRING), SynDCs : Seq(Synonym)]
DataSyn == [SynPHs : Seq(PhaseSynonym), SynDCPs : Seq(Synonym), SynPHPs : Seq(Synonym)]

ASSUME DataLoadConstants ==
    /\ \A D \in Collections :
          /\ IsFiniteSet(D) /\ \A d \in D : d \in Experiment
          /\ \A d, e \in D : d.id = e.id => d = e
    /\ \A sel \in Selections : sel \in Selection
    /\ \A s \in Synonyms : s \in DataSyn
    /\ Garbage \subseteq Int /\ 0 \in Garbage
    /\ NoNumber \notin Int

-----------------------------------------------------------------------------
(* The query.                                                              *)

\* get_to_list of an empty string leaves the number uninitialized.
Numbers(list) == IF list = <<NoNumber>> THEN {<<x>> : x \in Garbage} ELSE {list}

Clause(field, op, arg) == {[field |-> field, op |-> op, arg |-> arg]}

\* A list of names counts unless it is empty or begins with the empty name.
Named(list) == list # <<>> /\ list[1] # NoName

Names(field, op, list) == IF Named(list) THEN Clause(field, op, list) ELSE {}

\* Two numbers are an interval, others values, a single 0 nothing.
Values(field, list) ==
    IF Len(list) = 2 THEN Clause(field, "bt", list)
    ELSE IF list # <<>> /\ list[1] # 0 THEN Clause(field, "in", list)
    ELSE {}

\* One element of a list, for each of its elements.
Each(list, field) == [i \in DOMAIN list |-> list[i][field]]

\* The lists of names in the elements of usepairs or skippairs, in a row.
AllOf(pairs, field) ==
    LET all[i \in 0..Len(pairs)] ==
            IF i = 0 THEN <<>> ELSE all[i - 1] \o pairs[i][field]
    IN  all[Len(pairs)]

\* Mutant of SkippedSamples: nothing separates the elements.
SkippedSamplesInARow(pairs) == AllOf(pairs, "samples")

\* skippairs puts an empty name after the samples of each element.
SkippedSamples(pairs) ==
    AllOf([i \in DOMAIN pairs |-> [samples |-> Append(pairs[i].samples, NoName)]],
          "samples")

\* How many empty names there are up to the k-th: each passes the turn to the
\* next dataset.
Passed(samples, k) == Cardinality({m \in 1..k : samples[m] = NoName})

\* The dataset-sample pairs the two loops over k and j come upon, in order.
Paired(datasets, samples) ==
    LET pairs[k \in 0..Len(samples)] ==
            IF k = 0 THEN <<>>
            ELSE IF samples[k] # NoName /\ Passed(samples, k) < Len(datasets)
                 THEN Append(pairs[k - 1],
                             [expdataset |-> datasets[Passed(samples, k) + 1],
                              sample     |-> samples[k]])
                 ELSE pairs[k - 1]
    IN  pairs[Len(samples)]

\* usepairs, whose elements' samples no empty name separates.
UsedPairs(pairs) == Paired(AllOf(pairs, "datasets"), AllOf(pairs, "samples"))

PairClause(pairs) ==
    IF Named(AllOf(pairs, "datasets"))
    THEN Clause("$or", "or", UsedPairs(pairs)) ELSE {}

\* usedatasets alone counts also if it is the empty name.
DatasetClause(sel) ==
    LET used == sel.usedatasets \o Each(sel.datasetlist, "DS")
    IN  IF used # <<>> THEN Clause("expdataset", "in", used) ELSE {}

\* A sample list replaces all other clauses.
SampleListClause(list) ==
    IF list[1].DS # NoName
    THEN Clause("$or", "or", [k \in DOMAIN list |-> [expdataset |-> list[k].DS,
                                                     sample |-> list[k].SA]])
    ELSE {}

Query(sel, sT, sP) ==
    IF sel.samplelist # <<>> THEN SampleListClause(sel.samplelist)
    ELSE DatasetClause(sel)
         \cup Names("expdataset", "nin", sel.skipdatasets)
         \cup Names("sample", "in", sel.usesamples)
         \cup Names("sample", "nin", sel.skipsamples)
         \cup Values("sT", sT)
         \cup Values("sP", sP)
         \cup PairClause(sel.usepairs)

IsPair(e, pair) == e.expdataset = pair.expdataset /\ e.sample = pair.sample

\* generate_filters joins the clauses by "and", the pairs of $or by "or".
Holds(clause, e) ==
    CASE clause.op = "in"  -> e[clause.field] \in ToSet(clause.arg)
      [] clause.op = "nin" -> e[clause.field] \notin ToSet(clause.arg)
      [] clause.op = "bt"  -> /\ clause.arg[1] <= e[clause.field]
                              /\ e[clause.field] <= clause.arg[2]
      [] clause.op = "or"  -> \E p \in ToSet(clause.arg) : IsPair(e, p)

\* EJDB2 rejects empty parentheses.
Accepted(q) == \A c \in q : c.op = "or" => c.arg # <<>>

Before(d, e) == \/ d.sample < e.sample
                \/ d.sample = e.sample /\ d.expdataset <= e.expdataset

\* " | asc /sample asc /expdataset"; what is equal may come in any order.
Listed(S) ==
    {s \in SetToSeqs(S) :
        \A i, j \in DOMAIN s : i < j => Before(s[i], s[j])}

-----------------------------------------------------------------------------
(* What is done with the experiments.                                      *)

\* The product of the weights that the entries of a list have for e.
WeightBy(list, ours) ==
    LET weight[k \in 0..Len(list)] ==
            IF k = 0 THEN 1
            ELSE IF list[k] \in ours THEN weight[k - 1] * list[k].WT ELSE weight[k - 1]
    IN  weight[Len(list)]

Weighed(e) ==
    LET S == {x \in ToSet(select.samplelist) : x.SA = e.sample /\ x.DS = e.expdataset}
        D == {x \in ToSet(select.datasetlist) : x.DS = e.expdataset}
    IN  [e EXCEPT !.weight = @ * WeightBy(select.samplelist, S)
                               * WeightBy(select.datasetlist, D)]

\* The loop does not step back after it has erased an element, so the next
\* one is not looked at.
Erase(list, pair) ==
    LET loop[i \in 0..Len(list)] ==
            IF i = 0 THEN [kept |-> <<>>, erased |-> FALSE]
            ELSE IF IsPair(list[i], pair) /\ ~loop[i - 1].erased
                 THEN [kept |-> loop[i - 1].kept, erased |-> TRUE]
                 ELSE [kept |-> Append(loop[i - 1].kept, list[i]), erased |-> FALSE]
    IN  loop[Len(list)].kept

\* Pair after pair.
Without(list, pairs) ==
    LET left[k \in 0..Len(pairs)] ==
            IF k = 0 THEN list ELSE Erase(left[k - 1], pairs[k])
    IN  left[Len(pairs)]

SkippedPairs ==
    Paired(AllOf(select.skippairs, "datasets"), SkippedSamples(select.skippairs))

Skipped(list) ==
    IF Named(AllOf(select.skippairs, "datasets"))
    THEN Without(list, SkippedPairs) ELSE list

TP(e) == <<e.sT, e.sP>>

\* The pair is not found among the experiments, or not in the list so far.
IsAlone(list, i) == ~\E j \in DOMAIN list : j # i /\ TP(list[j]) = TP(list[i])
IsNewIn(pairs, e) == TP(e) \notin ToSet(pairs)

\* Mutant of DistinctTP: each of the two tests adds the pair.
DistinctTPTwice(list) ==
    LET pairs[i \in 0..Len(list)] ==
            IF i = 0 THEN <<>>
            ELSE pairs[i - 1]
                 \o (IF IsAlone(list, i) THEN <<TP(list[i])>> ELSE <<>>)
                 \o (IF IsNewIn(pairs[i - 1], list[i]) THEN <<TP(list[i])>> ELSE <<>>)
    IN  pairs[Len(list)]

\* get_distinct_TP looks for the pair among the experiments and in the list.
DistinctTP(list) ==
    LET pairs[i \in 0..Len(list)] ==
            IF i = 0 THEN <<>>
            ELSE IF IsAlone(list, i) \/ IsNewIn(pairs[i - 1], list[i])
                 THEN Append(pairs[i - 1], TP(list[i])) ELSE pairs[i - 1]
    IN  pairs[Len(list)]

\* An entry replaces its synonyms.
Rename(name, s) == IF name \in ToSet(s.syn) THEN s.GemsName ELSE name

\* Every entry in turn.
Renamed(name, entries) ==
    LET named[k \in 0..Len(entries)] ==
            IF k = 0 THEN name ELSE Rename(named[k - 1], entries[k])
    IN  named[Len(entries)]

ComponentsRenamed(dcs, entries) ==
    [d \in DOMAIN dcs |-> [dcs[d] EXCEPT !.DC = Renamed(@, entries)]]

\* Mutant of PhaseRenamed: the components are looked at before the name.
PhaseRenamedLast(ph, s) ==
    [ph EXCEPT !.phase = Rename(@, s),
               !.phDC  = IF ph.phase = s.GemsName THEN ComponentsRenamed(@, s.SynDCs)
                         ELSE @]

\* The components of a phase are renamed if it has its GEMS name by now.
PhaseRenamed(ph, s) ==
    [ph EXCEPT !.phase = Rename(@, s),
               !.phDC  = IF Rename(ph.phase, s) = s.GemsName
                         THEN ComponentsRenamed(@, s.SynDCs) ELSE @]

PhasesRenamed(ph) ==
    LET named[k \in 0..Len(syn.SynPHs)] ==
            IF k = 0 THEN ph ELSE PhaseRenamed(named[k - 1], syn.SynPHs[k])
    IN  named[Len(syn.SynPHs)]

PropertiesRenamed(ph) ==
    [ph EXCEPT
        !.phDC   = [d \in DOMAIN ph.phDC |->
                       [ph.phDC[d] EXCEPT !.DCprop = Renamed(@, syn.SynDCPs)]],
        !.phprop = Renamed(@, syn.SynPHPs)]

\* check_Syn for one phase: names, then properties.
Resolved(ph) == PropertiesRenamed(PhasesRenamed(ph))

-----------------------------------------------------------------------------
LoadInit ==
    /\ docs \in Collections
    /\ select \in Selections
    /\ syn \in Synonyms
    /\ OptUserWeight \in BOOLEAN
    /\ stage = "select"
    /\ query = {}
    /\ h_datasetlist = FALSE
    /\ experiments = <<>>
    /\ TP_pairs = <<>>
    /\ factor = [objfun |-> <<>>, nestfun |-> <<>>]

Pass(from, to) ==
    /\ stage = from
    /\ stage' = to
    /\ UNCHANGED task

BothLists == select.samplelist # <<>> /\ select.datasetlist # <<>>

\* The task gives weights itself.
Weights == select.samplelist # <<>> \/ select.datasetlist # <<>>

\* "You can't have samplelist and datasetlist options at the same time."
Exit ==
    /\ Pass("select", "stopped")
    /\ BothLists
    /\ UNCHANGED <<query, h_datasetlist, experiments, TP_pairs, factor>>

GenerateQuery ==
    /\ Pass("select", "query")
    /\ ~BothLists
    /\ \E sT \in Numbers(select.sT), sP \in Numbers(select.sP) :
          query' = Query(select, sT, sP)
    /\ h_datasetlist' = Weights
    /\ UNCHANGED <<experiments, TP_pairs, factor>>

\* select_query_omp throws.
QueryRejected ==
    /\ Pass("query", "stopped")
    /\ ~Accepted(query)
    /\ UNCHANGED <<query, h_datasetlist, experiments, TP_pairs, factor>>

ReadExperiments ==
    /\ Pass("query", "weigh")
    /\ Accepted(query)
    /\ experiments' \in Listed({e \in docs : \A c \in query : Holds(c, e)})
    /\ UNCHANGED <<query, h_datasetlist, TP_pairs, factor>>

Weigh ==
    /\ Pass("weigh", "skip")
    /\ experiments' = [i \in DOMAIN experiments |-> Weighed(experiments[i])]
    /\ UNCHANGED <<query, h_datasetlist, TP_pairs, factor>>

SkipPairs ==
    /\ Pass("skip", "TP")
    /\ experiments' = Skipped(experiments)
    /\ UNCHANGED <<query, h_datasetlist, TP_pairs, factor>>

get_distinct_TP ==
    /\ Pass("TP", "synonyms")
    /\ TP_pairs' = DistinctTP(experiments)
    /\ UNCHANGED <<query, h_datasetlist, experiments, factor>>

check_Syn ==
    /\ Pass("synonyms", "factors")
    /\ experiments' =
           [i \in DOMAIN experiments |->
               [experiments[i] EXCEPT !.expphases =
                   [p \in DOMAIN @ |-> Resolved(@[p])]]]
    /\ UNCHANGED <<query, h_datasetlist, TP_pairs, factor>>

WeightIf(given) ==
    [i \in DOMAIN experiments |->
        IF OptUserWeight \/ given THEN experiments[i].weight ELSE 1]

\* Only objective functions get the weights of the task unasked.
set_weights ==
    /\ Pass("factors", "done")
    /\ factor' = [objfun |-> WeightIf(h_datasetlist), nestfun |-> WeightIf(FALSE)]
    /\ UNCHANGED <<query, h_datasetlist, experiments, TP_pairs>>

LoadNext ==
    \/ Exit
    \/ GenerateQuery
    \/ QueryRejected
    \/ ReadExperiments
    \/ Weigh
    \/ SkipPairs
    \/ get_distinct_TP
    \/ check_Syn
    \/ set_weights

LoadSpec == LoadInit /\ [][LoadNext]_loadVars

-----------------------------------------------------------------------------
(* Properties.                                                             *)

\* Nothing is fitted that is not in the database, and temperatures and
\* pressures are no more than the experiments, each of which has its factors.
LoadTypeOK ==
    /\ docs \in Collections
    /\ select \in Selections
    /\ syn \in Synonyms
    /\ OptUserWeight \in BOOLEAN
    /\ stage \in LoadStages
    /\ h_datasetlist \in BOOLEAN
    /\ experiments \in Seq(Experiment)
    /\ \A i \in DOMAIN experiments : \E d \in docs : experiments[i].id = d.id
    /\ Len(TP_pairs) <= Len(experiments)
    /\ factor.objfun # <<>> => DOMAIN factor.objfun = DOMAIN experiments
    /\ DOMAIN factor.objfun = DOMAIN factor.nestfun

Loaded == stage \in {"TP", "synonyms", "factors", "done"}

\* The dataset-sample pairs that the elements name.
Meant(pairs, e) ==
    \E i \in DOMAIN pairs : /\ e.expdataset \in ToSet(pairs[i].datasets)
                            /\ e.sample \in ToSet(pairs[i].samples)

PairsUsed == Named(AllOf(select.usepairs, "datasets"))

\* The names in a list; the empty name is none.
NamesIn(list) == ToSet(list) \ {NoName}

DatasetsUsed == select.usedatasets \o Each(select.datasetlist, "DS")

\* What "DataSelect" asks for, read as its documentation puts it.
IsMeant(e) ==
    /\ ~Meant(select.skippairs, e)
    /\ IF select.samplelist # <<>>
       THEN \E x \in ToSet(select.samplelist) : x.SA = e.sample /\ x.DS = e.expdataset
       ELSE /\ NamesIn(DatasetsUsed) # {} => e.expdataset \in NamesIn(DatasetsUsed)
            /\ e.expdataset \notin NamesIn(select.skipdatasets)
            /\ NamesIn(select.usesamples) # {} => e.sample \in NamesIn(select.usesamples)
            /\ e.sample \notin NamesIn(select.skipsamples)
            /\ \A c \in Values("sT", select.sT) \cup Values("sP", select.sP) : Holds(c, e)
            /\ PairsUsed => Meant(select.usepairs, e)

\* The selections the program follows: no empty string for numbers; no empty
\* name among others, nor for datasets to be used, in pairs or in front of a
\* sample list; pairs of one dataset each, and one for all pairs to be used.
Followed ==
    /\ NoNumber \notin ToSet(select.sT) \cup ToSet(select.sP)
    /\ select.samplelist # <<>> => select.samplelist[1].DS # NoName
    /\ NoName \notin ToSet(DatasetsUsed)
    /\ \A list \in {select.skipdatasets, select.usesamples, select.skipsamples} :
          NoName \in ToSet(list) => ToSet(list) = {NoName}
    /\ \A i \in DOMAIN select.skippairs :
          /\ Len(select.skippairs[i].datasets) = 1
          /\ NoName \notin ToSet(select.skippairs[i].datasets)
          /\ NoName \notin ToSet(select.skippairs[i].samples)
    /\ PairsUsed => /\ Len(select.usepairs) = 1
                    /\ Len(select.usepairs[1].datasets) = 1
                    /\ NoName \notin ToSet(select.usepairs[1].samples)

DistinctKeys ==
    \A d, e \in docs : d.sample = e.sample /\ d.expdataset = e.expdataset => d = e

\* The fit is made with exactly the experiments the task asks for, each of
\* them once: whatever the lists, intervals, pairs to be used and pairs to be
\* skipped are, none is lost on the way and none slips in.
LoadedAreMeant ==
    Loaded /\ Followed /\ DistinctKeys =>
        /\ {experiments[i].id : i \in DOMAIN experiments} = {e.id : e \in {d \in docs : IsMeant(d)}}
        /\ \A i, j \in DOMAIN experiments : experiments[i].id = experiments[j].id => i = j

Settled(name, entries) ==
    \A i \in DOMAIN entries : name \notin ToSet(entries[i].syn)

\* No synonym is the GEMS name of another entry, and no name has two entries.
Plain(entries) ==
    \A i, j \in DOMAIN entries :
        /\ entries[i].GemsName \notin ToSet(entries[j].syn)
        /\ entries[i].GemsName = entries[j].GemsName => i = j

\* What the fit looks up by its GEMS name has it: no loaded phase keeps a
\* synonym, and no component of a phase one of this phase's, also when the
\* phase was found under a synonym itself.
NamesAreResolved ==
    (stage \in {"factors", "done"} /\ Plain(syn.SynPHs)) =>
        \A i \in DOMAIN experiments : \A p \in DOMAIN experiments[i].expphases :
            LET ph == experiments[i].expphases[p]
            IN  /\ Settled(ph.phase, syn.SynPHs)
                /\ \A s \in ToSet(syn.SynPHs), d \in DOMAIN ph.phDC :
                      s.GemsName = ph.phase /\ Plain(s.SynDCs)
                          => Settled(ph.phDC[d].DC, s.SynDCs)

\* usepairs is a "list of pairs each consisting of an experimental dataset
\* name and a list of comma-separated sample names to be taken from this
\* dataset only" (gfshell-taskmode.html:249).
UsedPairsOnly ==
    Loaded /\ select.samplelist = <<>> /\ PairsUsed =>
        \A i \in DOMAIN experiments : Meant(select.usepairs, experiments[i])
=============================================================================

--------------------------- MODULE Gemsfit2Proofs ---------------------------
(***************************************************************************)
(* Proofs about the gemsfit2 process, in the order in which it works: what *)
(* it fits against (DataLoad), then the fit and its statistics (FitRun).   *)
(*                                                                         *)
(* DataLoad, for every set of databases, tasks and synonyms: first what    *)
(* each loop computes, however long its lists are; then the invariant,     *)
(* stage by stage.                                                         *)
(*                                                                         *)
(* FitRun, for every set of guesses, number of coordinates, of calls and   *)
(* of Monte Carlo runs, and every choice of settings. In three parts, each *)
(* on top of the one before: in which units the vectors are at every       *)
(* stage, and whose norm is in use; where the results stand between the    *)
(* stages; the ranges of the variables and the differences of the          *)
(* gradient.                                                               *)
(***************************************************************************)
EXTENDS DataLoad, FitRun, Induction, FiniteSetTheorems

-----------------------------------------------------------------------------
(* DataLoad: the loops.                                                    *)

\* A loop that does not leave X.
LEMMA LoopStays ==
    ASSUME NEW n \in Nat, NEW X, NEW f, f[0] \in X,
           \A k \in 1..n : f[k - 1] \in X => f[k] \in X
    PROVE  \A k \in 0..n : f[k] \in X
<1> DEFINE Good == {k \in 0..n : f[k] \in X}
<1>1. 0 \in Good
    OBVIOUS
<1>2. ASSUME NEW k \in 1..n, k - 1 \in Good PROVE k \in Good
    BY <1>2
<1> HIDE DEF Good
<1>3. \A k \in 0..n : k \in Good
    BY <1>1, <1>2, InductionUpTo
<1> QED
    BY <1>3 DEF Good

\* One list behind the other.
LEMMA Concat ==
    ASSUME NEW X, NEW s \in Seq(X), NEW t \in Seq(X)
    PROVE  /\ s \o t \in Seq(X) /\ Len(s \o t) = Len(s) + Len(t)
           /\ \A i \in 1..Len(s) : (s \o t)[i] = s[i]
           /\ \A i \in 1..Len(t) : (s \o t)[Len(s) + i] = t[i]
    OBVIOUS

\* The lists joined so far.
Joining(f, pairs, field) ==
    /\ AllOf(pairs, field) = f[Len(pairs)]
    /\ f[0] = <<>>
    /\ \A k \in 1..Len(pairs) : f[k] = f[k - 1] \o pairs[k][field]

\* The loop of AllOf.
LEMMA AllOfLoop ==
    ASSUME NEW X, NEW pairs, NEW field, Len(pairs) \in Nat,
           \A k \in 1..Len(pairs) : pairs[k][field] \in Seq(X)
    PROVE  \E f \in [0..Len(pairs) -> Seq(X)] : Joining(f, pairs, field)
<1> DEFINE n == Len(pairs)
           After(v, k) == v \o pairs[k][field]
           Step == [k \in 1..n |-> [v \in Seq(X) |-> After(v, k)]]
           f[i \in 0..Len(pairs)] == IF i = 0 THEN <<>> ELSE f[i - 1] \o pairs[i][field]
<1>1. n \in Nat
    OBVIOUS
<1>2. \A k \in 1..n, v \in Seq(X) : After(v, k) \in Seq(X)
    OBVIOUS
<1>3. <<>> \in Seq(X)
    OBVIOUS
<1>4. PICK g \in [0..n -> Seq(X)] : Recursive(g, n, <<>>, Step)
  <2>1. Step \in [1..n -> [Seq(X) -> Seq(X)]]
    BY <1>2
  <2> HIDE DEF Step, n
  <2> QED
    BY <1>1, <1>3, <2>1, RecursionUpTo
<1>5. g = [i \in 0..n |-> IF i = 0 THEN <<>> ELSE After(g[i - 1], i)]
  <2>1. \A k \in 1..n, v \in Seq(X) : Step[k][v] = After(v, k)
    OBVIOUS
  <2> HIDE DEF Step, After, n
  <2>2. \A k \in 0..n : g[k] = IF k = 0 THEN <<>> ELSE Step[k][g[k - 1]]
    BY <1>4 DEF Recursive
  <2>3. \A k \in 1..n : k - 1 \in 0..n /\ k \in 0..n /\ k # 0
    BY <1>1
  <2>4. \A k \in 1..n : g[k] = After(g[k - 1], k)
    BY <2>1, <2>2, <2>3
  <2>5. 0 \in 0..n /\ \A k \in 0..n : k # 0 => k \in 1..n
    BY <1>1
  <2> QED
    BY <2>2, <2>4, <2>5
<1>6. f = [i \in 0..n |-> IF i = 0 THEN <<>> ELSE After(f[i - 1], i)]
    BY <1>5
<1>7. AllOf(pairs, field) = f[n]
    BY DEF AllOf
<1>8. \A k, v : After(v, k) = v \o pairs[k][field]
    OBVIOUS
<1> HIDE DEF f, After
<1>9. f[0] = <<>> /\ \A k \in 1..n : f[k] = After(f[k - 1], k)
  <2> HIDE DEF n
  <2>1. 0 \in 0..n /\ \A k \in 1..n : k \in 0..n /\ k # 0
    BY <1>1
  <2> QED
    BY <1>6, <2>1, Zenon
<1>10. \A k \in 0..n : f[k] \in Seq(X)
  <2>1. \A k \in 1..n : f[k - 1] \in Seq(X) => f[k] \in Seq(X)
    BY <1>2, <1>9
  <2> HIDE DEF n
  <2> QED
    BY <1>1, <1>3, <1>9, <2>1, LoopStays
<1>11. Joining(f, pairs, field)
    BY <1>7, <1>8, <1>9 DEF Joining
<1> QED
    BY <1>6, <1>10, <1>11

\* Passed counts.
LEMMA PassedRange ==
    ASSUME NEW samples \in Seq(Name), NEW k \in 0..Len(samples)
    PROVE  /\ Passed(samples, k) \in 0..k
           /\ IsFiniteSet({m \in 1..k : samples[m] = NoName})
<1> DEFINE S == {m \in 1..k : samples[m] = NoName}
<1>1. IsFiniteSet(1..k) /\ Cardinality(1..k) = k
    BY FS_Interval
<1>2. IsFiniteSet(S) /\ Cardinality(S) <= Cardinality(1..k)
    BY <1>1, FS_Subset
<1> QED
    BY <1>1, <1>2, FS_CardinalityType DEF Passed

\* The pairs found so far.
Pairing(f, datasets, samples) ==
    /\ Paired(datasets, samples) = f[Len(samples)]
    /\ f[0] = <<>>
    /\ \A k \in 1..Len(samples) :
          /\ samples[k] # NoName /\ Passed(samples, k) < Len(datasets) =>
                f[k] = Append(f[k - 1], [expdataset |-> datasets[Passed(samples, k) + 1],
                                         sample     |-> samples[k]])
          /\ ~(samples[k] # NoName /\ Passed(samples, k) < Len(datasets)) =>
                f[k] = f[k - 1]

\* The loops over k and j.
LEMMA PairedLoop ==
    ASSUME NEW datasets \in Seq(Name), NEW samples \in Seq(Name)
    PROVE  \E f \in [0..Len(samples) -> Seq(Key)] : Pairing(f, datasets, samples)
<1> DEFINE n == Len(samples)
           After(v, k) == IF samples[k] # NoName /\ Passed(samples, k) < Len(datasets)
                    THEN Append(v, [expdataset |-> datasets[Passed(samples, k) + 1],
                                      sample     |-> samples[k]])
                    ELSE v
           Step == [k \in 1..n |-> [v \in Seq(Key) |-> After(v, k)]]
           f[k \in 0..Len(samples)] ==
              IF k = 0 THEN <<>>
              ELSE IF samples[k] # NoName /\ Passed(samples, k) < Len(datasets)
                   THEN Append(f[k - 1], [expdataset |-> datasets[Passed(samples, k) + 1],
                                          sample     |-> samples[k]])
                   ELSE f[k - 1]
<1>1. n \in Nat
    OBVIOUS
<1>2. \A k \in 1..n, v \in Seq(Key) : After(v, k) \in Seq(Key)
  <2> SUFFICES ASSUME NEW k \in 1..n, NEW v \in Seq(Key)
               PROVE  After(v, k) \in Seq(Key)
    OBVIOUS
  <2>1. CASE ~(samples[k] # NoName /\ Passed(samples, k) < Len(datasets))
    BY <2>1
  <2>2. CASE samples[k] # NoName /\ Passed(samples, k) < Len(datasets)
    <3> DEFINE p == [expdataset |-> datasets[Passed(samples, k) + 1], sample |-> samples[k]]
    <3>1. k \in 0..Len(samples) /\ k \in Nat /\ samples[k] \in Name
      OBVIOUS
    <3>2. Passed(samples, k) \in 0..k
      BY <3>1, PassedRange
    <3> HIDE DEF n
    <3>3. Passed(samples, k) + 1 \in 1..Len(datasets)
      BY <2>2, <3>1, <3>2
    <3>4. datasets[Passed(samples, k) + 1] \in Name
      BY <3>3
    <3>5. p \in Key
      BY <3>1, <3>4 DEF Key
    <3>6. After(v, k) = Append(v, p)
      BY <2>2
    <3> QED
      BY <3>5, <3>6
  <2> QED
    BY <2>1, <2>2
<1>3. <<>> \in Seq(Key)
    OBVIOUS
<1>4. PICK g \in [0..n -> Seq(Key)] : Recursive(g, n, <<>>, Step)
  <2>1. Step \in [1..n -> [Seq(Key) -> Seq(Key)]]
    BY <1>2
  <2> HIDE DEF Step, n
  <2> QED
    BY <1>1, <1>3, <2>1, RecursionUpTo
<1>5. g = [k \in 0..n |-> IF k = 0 THEN <<>> ELSE After(g[k - 1], k)]
  <2>1. \A k \in 1..n, v \in Seq(Key) : Step[k][v] = After(v, k)
    OBVIOUS
  <2> HIDE DEF Step, After, n
  <2>2. \A k \in 0..n : g[k] = IF k = 0 THEN <<>> ELSE Step[k][g[k - 1]]
    BY <1>4 DEF Recursive
  <2>3. \A k \in 1..n : k - 1 \in 0..n /\ k \in 0..n /\ k # 0
    BY <1>1
  <2>4. \A k \in 1..n : g[k] = After(g[k - 1], k)
    BY <2>1, <2>2, <2>3
  <2>5. 0 \in 0..n /\ \A k \in 0..n : k # 0 => k \in 1..n
    BY <1>1
  <2> QED
    BY <2>2, <2>4, <2>5
<1>6. f = [k \in 0..n |-> IF k = 0 THEN <<>> ELSE After(f[k - 1], k)]
    BY <1>5
<1>7. Paired(datasets, samples) = f[n]
    BY DEF Paired
<1>8. \A k, v : After(v, k) = IF samples[k] # NoName /\ Passed(samples, k) < Len(datasets)
                    THEN Append(v, [expdataset |-> datasets[Passed(samples, k) + 1],
                                      sample     |-> samples[k]])
                    ELSE v
    OBVIOUS
<1> HIDE DEF f, After
<1>9. f[0] = <<>> /\ \A k \in 1..n : f[k] = After(f[k - 1], k)
  <2> HIDE DEF n
  <2>1. 0 \in 0..n /\ \A k \in 1..n : k \in 0..n /\ k # 0
    BY <1>1
  <2> QED
    BY <1>6, <2>1, Zenon
<1>10. \A k \in 0..n : f[k] \in Seq(Key)
  <2>1. \A k \in 1..n : f[k - 1] \in Seq(Key) => f[k] \in Seq(Key)
    BY <1>2, <1>9
  <2> HIDE DEF n
  <2> QED
    BY <1>1, <1>3, <1>9, <2>1, LoopStays
<1>11. Pairing(f, datasets, samples)
    BY <1>7, <1>8, <1>9 DEF Pairing
<1> QED
    BY <1>6, <1>10, <1>11

\* What the erasing loop has kept after each element.
Erasing(f, list, pair) ==
    /\ Erase(list, pair) = f[Len(list)].kept
    /\ f[0].kept = <<>> /\ f[0].erased = FALSE
    /\ \A k \in 1..Len(list) :
          /\ IsPair(list[k], pair) /\ ~f[k - 1].erased =>
                f[k].kept = f[k - 1].kept /\ f[k].erased = TRUE
          /\ ~(IsPair(list[k], pair) /\ ~f[k - 1].erased) =>
                f[k].kept = Append(f[k - 1].kept, list[k]) /\ f[k].erased = FALSE

\* The erasing loop.
LEMMA EraseLoop ==
    ASSUME NEW X, NEW list \in Seq(X), NEW pair
    PROVE  \E f \in [0..Len(list) -> [kept : Seq(X), erased : BOOLEAN]] :
              Erasing(f, list, pair)
<1> DEFINE n == Len(list)
           After(v, k) == IF IsPair(list[k], pair) /\ ~v.erased
                    THEN [kept |-> v.kept, erased |-> TRUE]
                    ELSE [kept |-> Append(v.kept, list[k]), erased |-> FALSE]
           Step == [k \in 1..n |-> [v \in [kept : Seq(X), erased : BOOLEAN] |-> After(v, k)]]
           f[i \in 0..Len(list)] ==
              IF i = 0 THEN [kept |-> <<>>, erased |-> FALSE]
              ELSE IF IsPair(list[i], pair) /\ ~f[i - 1].erased
                   THEN [kept |-> f[i - 1].kept, erased |-> TRUE]
                   ELSE [kept |-> Append(f[i - 1].kept, list[i]), erased |-> FALSE]
<1>1. n \in Nat
    OBVIOUS
<1>2. \A k \in 1..n, v \in [kept : Seq(X), erased : BOOLEAN] : After(v, k) \in [kept : Seq(X), erased : BOOLEAN]
    OBVIOUS
<1>3. [kept |-> <<>>, erased |-> FALSE] \in [kept : Seq(X), erased : BOOLEAN]
    OBVIOUS
<1>4. PICK g \in [0..n -> [kept : Seq(X), erased : BOOLEAN]] : Recursive(g, n, [kept |-> <<>>, erased |-> FALSE], Step)
  <2>1. Step \in [1..n -> [[kept : Seq(X), erased : BOOLEAN] -> [kept : Seq(X), erased : BOOLEAN]]]
    BY <1>2
  <2> HIDE DEF Step, n
  <2> QED
    BY <1>1, <1>3, <2>1, RecursionUpTo
<1>5. g = [i \in 0..n |-> IF i = 0 THEN [kept |-> <<>>, erased |-> FALSE] ELSE After(g[i - 1], i)]
  <2>1. \A k \in 1..n, v \in [kept : Seq(X), erased : BOOLEAN] : Step[k][v] = After(v, k)
    OBVIOUS
  <2> HIDE DEF Step, After, n
  <2>2. \A k \in 0..n : g[k] = IF k = 0 THEN [kept |-> <<>>, erased |-> FALSE] ELSE Step[k][g[k - 1]]
    BY <1>4 DEF Recursive
  <2>3. \A k \in 1..n : k - 1 \in 0..n /\ k \in 0..n /\ k # 0
    BY <1>1
  <2>4. \A k \in 1..n : g[k] = After(g[k - 1], k)
    BY <2>1, <2>2, <2>3
  <2>5. 0 \in 0..n /\ \A k \in 0..n : k # 0 => k \in 1..n
    BY <1>1
  <2> QED
    BY <2>2, <2>4, <2>5
<1>6. f = [i \in 0..n |-> IF i = 0 THEN [kept |-> <<>>, erased |-> FALSE] ELSE After(f[i - 1], i)]
    BY <1>5
<1>7. Erase(list, pair) = f[n].kept
    BY DEF Erase
<1>8. \A k, v : After(v, k) = IF IsPair(list[k], pair) /\ ~v.erased
                    THEN [kept |-> v.kept, erased |-> TRUE]
                    ELSE [kept |-> Append(v.kept, list[k]), erased |-> FALSE]
    OBVIOUS
<1> HIDE DEF f, After
<1>9. f[0] = [kept |-> <<>>, erased |-> FALSE] /\ \A k \in 1..n : f[k] = After(f[k - 1], k)
  <2> HIDE DEF n
  <2>1. 0 \in 0..n /\ \A k \in 1..n : k \in 0..n /\ k # 0
    BY <1>1
  <2> QED
    BY <1>6, <2>1, Zenon
<1>10. \A k \in 0..n : f[k] \in [kept : Seq(X), erased : BOOLEAN]
  <2>1. \A k \in 1..n : f[k - 1] \in [kept : Seq(X), erased : BOOLEAN] => f[k] \in [kept : Seq(X), erased : BOOLEAN]
    BY <1>2, <1>9
  <2> HIDE DEF n
  <2> QED
    BY <1>1, <1>3, <1>9, <2>1, LoopStays
<1>11. Erasing(f, list, pair)
  <2>1. f[0].kept = <<>> /\ f[0].erased = FALSE
    BY <1>9
  <2>2. ASSUME NEW k \in 1..n PROVE f[k] = After(f[k - 1], k)
    BY <1>9
  <2>3. ASSUME NEW k \in 1..n, IsPair(list[k], pair) /\ ~f[k - 1].erased
        PROVE  f[k].kept = f[k - 1].kept /\ f[k].erased = TRUE
    <3>1. f[k] = [kept |-> f[k - 1].kept, erased |-> TRUE]
      BY <1>8, <2>2, <2>3
    <3> QED
      BY <3>1
  <2>4. ASSUME NEW k \in 1..n, ~(IsPair(list[k], pair) /\ ~f[k - 1].erased)
        PROVE  f[k].kept = Append(f[k - 1].kept, list[k]) /\ f[k].erased = FALSE
    <3>1. f[k] = [kept |-> Append(f[k - 1].kept, list[k]), erased |-> FALSE]
      BY <1>8, <2>2, <2>4
    <3> QED
      BY <3>1
  <2> QED
    BY <1>7, <2>1, <2>3, <2>4 DEF Erasing
<1>12. f \in [0..n -> [kept : Seq(X), erased : BOOLEAN]]
    BY <1>6, <1>10
<1> QED
    BY <1>11, <1>12

\* The loop over i of get_distinct_TP.
LEMMA DistinctTPLoop ==
    ASSUME NEW list \in Seq(Experiment)
    PROVE  \E f \in [0..Len(list) -> Seq(Int \X Int)] :
              /\ DistinctTP(list) = f[Len(list)]
              /\ f[0] = <<>>
              /\ \A k \in 1..Len(list) :
                    f[k] = IF IsAlone(list, k) \/ IsNewIn(f[k - 1], list[k])
                    THEN Append(f[k - 1], TP(list[k])) ELSE f[k - 1]
<1> DEFINE n == Len(list)
           After(v, k) == IF IsAlone(list, k) \/ IsNewIn(v, list[k])
                    THEN Append(v, TP(list[k])) ELSE v
           Step == [k \in 1..n |-> [v \in Seq(Int \X Int) |-> After(v, k)]]
           f[i \in 0..Len(list)] ==
              IF i = 0 THEN <<>>
              ELSE IF IsAlone(list, i) \/ IsNewIn(f[i - 1], list[i])
                   THEN Append(f[i - 1], TP(list[i])) ELSE f[i - 1]
<1>1. n \in Nat
    OBVIOUS
<1>2. \A k \in 1..n, v \in Seq(Int \X Int) : After(v, k) \in Seq(Int \X Int)
  <2> SUFFICES ASSUME NEW k \in 1..n, NEW v \in Seq(Int \X Int)
               PROVE  Append(v, TP(list[k])) \in Seq(Int \X Int)
    OBVIOUS
  <2>1. list[k] \in Experiment
    OBVIOUS
  <2>2. list[k].sT \in Int /\ list[k].sP \in Int
    BY <2>1 DEF Experiment
  <2>3. TP(list[k]) \in Int \X Int
    BY <2>2 DEF TP
  <2> QED
    BY <2>3
<1>3. <<>> \in Seq(Int \X Int)
    OBVIOUS
<1>4. PICK g \in [0..n -> Seq(Int \X Int)] : Recursive(g, n, <<>>, Step)
  <2>1. Step \in [1..n -> [Seq(Int \X Int) -> Seq(Int \X Int)]]
    BY <1>2
  <2> HIDE DEF Step, n
  <2> QED
    BY <1>1, <1>3, <2>1, RecursionUpTo
<1>5. g = [i \in 0..n |-> IF i = 0 THEN <<>> ELSE After(g[i - 1], i)]
  <2>1. \A k \in 1..n, v \in Seq(Int \X Int) : Step[k][v] = After(v, k)
    OBVIOUS
  <2> HIDE DEF Step, After, n
  <2>2. \A k \in 0..n : g[k] = IF k = 0 THEN <<>> ELSE Step[k][g[k - 1]]
    BY <1>4 DEF Recursive
  <2>3. \A k \in 1..n : k - 1 \in 0..n /\ k \in 0..n /\ k # 0
    BY <1>1
  <2>4. \A k \in 1..n : g[k] = After(g[k - 1], k)
    BY <2>1, <2>2, <2>3
  <2>5. 0 \in 0..n /\ \A k \in 0..n : k # 0 => k \in 1..n
    BY <1>1
  <2> QED
    BY <2>2, <2>4, <2>5
<1>6. f = [i \in 0..n |-> IF i = 0 THEN <<>> ELSE After(f[i - 1], i)]
    BY <1>5
<1>7. DistinctTP(list) = f[n]
    BY DEF DistinctTP
<1>8. \A k, v : After(v, k) = IF IsAlone(list, k) \/ IsNewIn(v, list[k])
                    THEN Append(v, TP(list[k])) ELSE v
    OBVIOUS
<1> HIDE DEF f, After
<1>9. f[0] = <<>> /\ \A k \in 1..n : f[k] = After(f[k - 1], k)
  <2> HIDE DEF n
  <2>1. 0 \in 0..n /\ \A k \in 1..n : k \in 0..n /\ k # 0
    BY <1>1
  <2> QED
    BY <1>6, <2>1, Zenon
<1>10. \A k \in 0..n : f[k] \in Seq(Int \X Int)
  <2>1. \A k \in 1..n : f[k - 1] \in Seq(Int \X Int) => f[k] \in Seq(Int \X Int)
    BY <1>2, <1>9
  <2> HIDE DEF n
  <2> QED
    BY <1>1, <1>3, <1>9, <2>1, LoopStays
<1> QED
    BY <1>6, <1>7, <1>8, <1>9, <1>10

\* Every entry in turn.
LEMMA RenamedLoop ==
    ASSUME NEW name \in STRING, NEW entries, Len(entries) \in Nat,
           \A k \in 1..Len(entries) : entries[k].GemsName \in STRING
    PROVE  \E f \in [0..Len(entries) -> STRING] :
              /\ Renamed(name, entries) = f[Len(entries)]
              /\ f[0] = name
              /\ \A k \in 1..Len(entries) :
                    f[k] = Rename(f[k - 1], entries[k])
<1> DEFINE n == Len(entries)
           After(v, k) == Rename(v, entries[k])
           Step == [k \in 1..n |-> [v \in STRING |-> After(v, k)]]
           f[k \in 0..Len(entries)] == IF k = 0 THEN name ELSE Rename(f[k - 1], entries[k])
<1>1. n \in Nat
    OBVIOUS
<1>2. \A k \in 1..n, v \in STRING : After(v, k) \in STRING
    BY DEF Rename
<1>3. name \in STRING
    OBVIOUS
<1>4. PICK g \in [0..n -> STRING] : Recursive(g, n, name, Step)
  <2>1. Step \in [1..n -> [STRING -> STRING]]
    BY <1>2
  <2> HIDE DEF Step, n
  <2> QED
    BY <1>1, <1>3, <2>1, RecursionUpTo
<1>5. g = [k \in 0..n |-> IF k = 0 THEN name ELSE After(g[k - 1], k)]
  <2>1. \A k \in 1..n, v \in STRING : Step[k][v] = After(v, k)
    OBVIOUS
  <2> HIDE DEF Step, After, n
  <2>2. \A k \in 0..n : g[k] = IF k = 0 THEN name ELSE Step[k][g[k - 1]]
    BY <1>4 DEF Recursive
  <2>3. \A k \in 1..n : k - 1 \in 0..n /\ k \in 0..n /\ k # 0
    BY <1>1
  <2>4. \A k \in 1..n : g[k] = After(g[k - 1], k)
    BY <2>1, <2>2, <2>3
  <2>5. 0 \in 0..n /\ \A k \in 0..n : k # 0 => k \in 1..n
    BY <1>1
  <2> QED
    BY <2>2, <2>4, <2>5
<1>6. f = [k \in 0..n |-> IF k = 0 THEN name ELSE After(f[k - 1], k)]
    BY <1>5
<1>7. Renamed(name, entries) = f[n]
    BY DEF Renamed
<1>8. \A k, v : After(v, k) = Rename(v, entries[k])
    OBVIOUS
<1> HIDE DEF f, After
<1>9. f[0] = name /\ \A k \in 1..n : f[k] = After(f[k - 1], k)
  <2> HIDE DEF n
  <2>1. 0 \in 0..n /\ \A k \in 1..n : k \in 0..n /\ k # 0
    BY <1>1
  <2> QED
    BY <1>6, <2>1, Zenon
<1>10. \A k \in 0..n : f[k] \in STRING
  <2>1. \A k \in 1..n : f[k - 1] \in STRING => f[k] \in STRING
    BY <1>2, <1>9
  <2> HIDE DEF n
  <2> QED
    BY <1>1, <1>3, <1>9, <2>1, LoopStays
<1> QED
    BY <1>6, <1>7, <1>8, <1>9, <1>10

\* The weights of one list.
LEMMA WeightLoop ==
    ASSUME NEW list, NEW ours, Len(list) \in Nat,
           \A k \in 1..Len(list) : list[k].WT \in Int
    PROVE  \E f \in [0..Len(list) -> Int] :
              /\ WeightBy(list, ours) = f[Len(list)]
              /\ f[0] = 1
              /\ \A k \in 1..Len(list) :
                    f[k] = IF list[k] \in ours THEN f[k - 1] * list[k].WT ELSE f[k - 1]
<1> DEFINE n == Len(list)
           After(v, k) == IF list[k] \in ours THEN v * list[k].WT ELSE v
           Step == [k \in 1..n |-> [v \in Int |-> After(v, k)]]
           f[k \in 0..Len(list)] ==
              IF k = 0 THEN 1
              ELSE IF list[k] \in ours THEN f[k - 1] * list[k].WT ELSE f[k - 1]
<1>1. n \in Nat
    OBVIOUS
<1>2. \A k \in 1..n, v \in Int : After(v, k) \in Int
    OBVIOUS
<1>3. 1 \in Int
    OBVIOUS
<1>4. PICK g \in [0..n -> Int] : Recursive(g, n, 1, Step)
  <2>1. Step \in [1..n -> [Int -> Int]]
    BY <1>2
  <2> HIDE DEF Step, n
  <2> QED
    BY <1>1, <1>3, <2>1, RecursionUpTo
<1>5. g = [k \in 0..n |-> IF k = 0 THEN 1 ELSE After(g[k - 1], k)]
  <2>1. \A k \in 1..n, v \in Int : Step[k][v] = After(v, k)
    OBVIOUS
  <2> HIDE DEF Step, After, n
  <2>2. \A k \in 0..n : g[k] = IF k = 0 THEN 1 ELSE Step[k][g[k - 1]]
    BY <1>4 DEF Recursive
  <2>3. \A k \in 1..n : k - 1 \in 0..n /\ k \in 0..n /\ k # 0
    BY <1>1
  <2>4. \A k \in 1..n : g[k] = After(g[k - 1], k)
    BY <2>1, <2>2, <2>3
  <2>5. 0 \in 0..n /\ \A k \in 0..n : k # 0 => k \in 1..n
    BY <1>1
  <2> QED
    BY <2>2, <2>4, <2>5
<1>6. f = [k \in 0..n |-> IF k = 0 THEN 1 ELSE After(f[k - 1], k)]
    BY <1>5
<1>7. WeightBy(list, ours) = f[n]
    BY DEF WeightBy
<1>8. \A k, v : After(v, k) = IF list[k] \in ours THEN v * list[k].WT ELSE v
    OBVIOUS
<1> HIDE DEF f, After
<1>9. f[0] = 1 /\ \A k \in 1..n : f[k] = After(f[k - 1], k)
  <2> HIDE DEF n
  <2>1. 0 \in 0..n /\ \A k \in 1..n : k \in 0..n /\ k # 0
    BY <1>1
  <2> QED
    BY <1>6, <2>1, Zenon
<1>10. \A k \in 0..n : f[k] \in Int
  <2>1. \A k \in 1..n : f[k - 1] \in Int => f[k] \in Int
    BY <1>2, <1>9
  <2> HIDE DEF n
  <2> QED
    BY <1>1, <1>3, <1>9, <2>1, LoopStays
<1> QED
    BY <1>6, <1>7, <1>8, <1>9, <1>10

-----------------------------------------------------------------------------
(* Erasing a pair, and pair after pair.                                    *)

\* What is left is of the list.
LEMMA EraseTyped ==
    ASSUME NEW X, NEW list \in Seq(X), NEW pair
    PROVE  /\ Erase(list, pair) \in Seq(X)
           /\ \A j \in 1..Len(Erase(list, pair)) :
                 \E i \in 1..Len(list) : Erase(list, pair)[j] = list[i]
<1>1. PICK f \in [0..Len(list) -> [kept : Seq(X), erased : BOOLEAN]] :
          Erasing(f, list, pair)
    BY EraseLoop
<1> DEFINE n == Len(list)
           Of(k) == \A j \in 1..Len(f[k].kept) : \E i \in 1..n : f[k].kept[j] = list[i]
           Good == {k \in 0..n : Of(k)}
<1>2. 0 \in Good
    BY <1>1 DEF Erasing
<1>3. ASSUME NEW k \in 1..n, k - 1 \in Good PROVE k \in Good
  <2>1. k - 1 \in 0..n /\ k \in 0..n /\ f[k - 1].kept \in Seq(X) /\ list[k] \in X
    OBVIOUS
  <2>2. Of(k - 1)
    BY <1>3
  <2>3. CASE IsPair(list[k], pair) /\ ~f[k - 1].erased
    <3>1. f[k].kept = f[k - 1].kept
      BY <1>1, <2>3 DEF Erasing
    <3> QED
      BY <2>1, <2>2, <3>1
  <2>4. CASE ~(IsPair(list[k], pair) /\ ~f[k - 1].erased)
    <3> DEFINE old == f[k - 1].kept
    <3>1. f[k].kept = Append(old, list[k])
      BY <1>1, <2>4 DEF Erasing
    <3>2. /\ Len(f[k].kept) = Len(old) + 1 /\ Len(old) \in Nat
          /\ f[k].kept[Len(old) + 1] = list[k]
          /\ \A j \in 1..Len(old) : f[k].kept[j] = old[j]
      BY <2>1, <3>1
    <3>3. Of(k)
      BY <2>2, <3>2
    <3> QED
      BY <2>1, <3>3
  <2> QED
    BY <2>3, <2>4
<1>4. n \in Nat
    OBVIOUS
<1> HIDE DEF Good, n
<1>5. \A k \in 0..n : k \in Good
    BY <1>2, <1>3, <1>4, InductionUpTo
<1>6. n \in Good /\ f[n].kept \in Seq(X)
    BY <1>4, <1>5
<1> QED
    BY <1>1, <1>6 DEF Good, n, Erasing

\* No two experiments of a list have the same dataset and sample.
OneEach(list) ==
    \A i, j \in DOMAIN list :
        list[i].expdataset = list[j].expdataset /\ list[i].sample = list[j].sample => i = j

\* The experiments that match none of the pairs are left, and no other.
KeepsRest(list, left, P) ==
    /\ \A j \in 1..Len(left) : \E i \in 1..Len(list) :
          left[j] = list[i] /\ \A p \in P : ~IsPair(list[i], p)
    /\ \A i \in 1..Len(list) : (\A p \in P : ~IsPair(list[i], p)) =>
          \E j \in 1..Len(left) : left[j] = list[i]

\* If no two are alike, the experiments that match are erased and no other:
\* there are no two in a row.
LEMMA ErasesMatches ==
    ASSUME NEW X, NEW list \in Seq(X), NEW pair, OneEach(list)
    PROVE  OneEach(Erase(list, pair)) /\ KeepsRest(list, Erase(list, pair), {pair})
<1>1. PICK f \in [0..Len(list) -> [kept : Seq(X), erased : BOOLEAN]] :
          Erasing(f, list, pair)
    BY EraseLoop
<1> DEFINE n == Len(list)
           Of(k) == \A j \in 1..Len(f[k].kept) :
                        \E i \in 1..k : f[k].kept[j] = list[i] /\ ~IsPair(list[i], pair)
           All(k) == \A i \in 1..k : ~IsPair(list[i], pair) =>
                        \E j \in 1..Len(f[k].kept) : f[k].kept[j] = list[i]
           Latest(k) == f[k].erased => k \in 1..n /\ IsPair(list[k], pair)
           Good == {k \in 0..n : Of(k) /\ All(k) /\ Latest(k) /\ OneEach(f[k].kept)}
<1>2. 0 \in Good
  <2>1. f[0].kept = <<>> /\ f[0].erased = FALSE
    BY <1>1 DEF Erasing
  <2>2. OneEach(f[0].kept)
    BY <2>1 DEF OneEach
  <2> QED
    BY <2>1, <2>2
<1>3. ASSUME NEW k \in 1..n, k - 1 \in Good PROVE k \in Good
  <2>1. /\ k - 1 \in 0..n /\ k \in 0..n /\ list[k] \in X
        /\ f[k - 1].kept \in Seq(X) /\ f[k].kept \in Seq(X)
    OBVIOUS
  <2>2. Of(k - 1) /\ All(k - 1) /\ Latest(k - 1) /\ OneEach(f[k - 1].kept)
    BY <1>3
  <2>3. CASE IsPair(list[k], pair)
    <3>1. ~f[k - 1].erased
      <4> SUFFICES ASSUME f[k - 1].erased PROVE FALSE
        OBVIOUS
      <4>1. k - 1 \in 1..n /\ IsPair(list[k - 1], pair)
        BY <2>2
      <4>2. k - 1 \in DOMAIN list /\ k \in DOMAIN list /\ k - 1 # k
        BY <2>1, <4>1
      <4> QED
        BY <2>3, <4>1, <4>2 DEF OneEach, IsPair
    <3>3. f[k].kept = f[k - 1].kept
      BY <1>1, <2>3, <3>1 DEF Erasing
    <3>4. Of(k)
      BY <2>1, <2>2, <3>3
    <3>5. All(k)
      BY <2>1, <2>2, <2>3, <3>3
    <3>6. Latest(k)
      BY <2>3
    <3> QED
      BY <2>1, <2>2, <3>3, <3>4, <3>5, <3>6
  <2>4. CASE ~IsPair(list[k], pair)
    <3> DEFINE old == f[k - 1].kept
    <3>2. f[k].kept = Append(old, list[k]) /\ f[k].erased = FALSE
      BY <1>1, <2>4 DEF Erasing
    <3>3. /\ Len(f[k].kept) = Len(old) + 1 /\ Len(old) \in Nat
          /\ f[k].kept[Len(old) + 1] = list[k]
          /\ \A j \in 1..Len(old) : f[k].kept[j] = old[j]
      BY <2>1, <3>2
    <3>4. \A j \in 1..Len(old) : \E i \in 1..(k - 1) :
              f[k].kept[j] = list[i] /\ ~IsPair(list[i], pair)
      BY <2>2, <3>3
    <3> HIDE DEF old
    <3>5. Of(k)
      BY <2>1, <2>4, <3>3, <3>4
    <3>6. All(k)
      <4> SUFFICES ASSUME NEW i \in 1..k, ~IsPair(list[i], pair)
                   PROVE  \E j \in 1..Len(f[k].kept) : f[k].kept[j] = list[i]
        OBVIOUS
      <4>1. CASE i = k
        BY <3>3, <4>1
      <4>2. CASE i # k
        <5>1. i \in 1..(k - 1)
          BY <4>2
        <5>2. PICK j \in 1..Len(old) : old[j] = list[i]
          BY <2>2, <5>1 DEF old
        <5> QED
          BY <3>3, <5>2
      <4> QED
        BY <4>1, <4>2
    <3>7. OneEach(f[k].kept)
      <4>1. DOMAIN f[k].kept = 1..(Len(old) + 1) /\ DOMAIN old = 1..Len(old)
        BY <2>1, <3>3 DEF old
      <4>2. OneEach(old)
        BY <2>2 DEF old
      <4>3. ASSUME NEW j \in 1..Len(old),
                   f[k].kept[j].expdataset = list[k].expdataset,
                   f[k].kept[j].sample = list[k].sample
            PROVE  FALSE
        <5>1. PICK i \in 1..(k - 1) : f[k].kept[j] = list[i]
          BY <3>4
        <5>2. i \in DOMAIN list /\ k \in DOMAIN list /\ i # k
          BY <2>1
        <5> QED
          BY <4>3, <5>1, <5>2 DEF OneEach
      <4>4. SUFFICES ASSUME NEW i \in 1..(Len(old) + 1), NEW j \in 1..(Len(old) + 1),
                            f[k].kept[i].expdataset = f[k].kept[j].expdataset,
                            f[k].kept[i].sample = f[k].kept[j].sample
                     PROVE  i = j
        BY <4>1 DEF OneEach
      <4>5. CASE i \in 1..Len(old) /\ j \in 1..Len(old)
        BY <3>3, <4>1, <4>2, <4>4, <4>5 DEF OneEach
      <4>6. CASE i = Len(old) + 1 /\ j \in 1..Len(old)
        BY <3>3, <4>3, <4>4, <4>6
      <4>7. CASE j = Len(old) + 1 /\ i \in 1..Len(old)
        BY <3>3, <4>3, <4>4, <4>7
      <4> QED
        BY <3>3, <4>5, <4>6, <4>7
    <3> QED
      BY <2>1, <3>2, <3>5, <3>6, <3>7
  <2> QED
    BY <2>3, <2>4
<1>4. n \in Nat
    OBVIOUS
<1> HIDE DEF Good, n
<1>5. \A k \in 0..n : k \in Good
    BY <1>2, <1>3, <1>4, InductionUpTo
<1>6. n \in Good
    BY <1>4, <1>5
<1>7. n = Len(list)
    BY DEF n
<1>8. Of(n) /\ All(n) /\ OneEach(f[n].kept) /\ Erase(list, pair) = f[n].kept
    BY <1>1, <1>6, <1>7 DEF Good, Erasing
<1> DEFINE left == f[n].kept
<1>9. KeepsRest(list, left, {pair})
    BY <1>7, <1>8 DEF KeepsRest
<1> QED
    BY <1>8, <1>9

\* The loop over the pairs.
LEMMA SkippedLoop ==
    ASSUME NEW X, NEW list \in Seq(X), NEW pairs, Len(pairs) \in Nat
    PROVE  \E f \in [0..Len(pairs) -> Seq(X)] :
              /\ Without(list, pairs) = f[Len(pairs)]
              /\ f[0] = list
              /\ \A k \in 1..Len(pairs) :
                    f[k] = Erase(f[k - 1], pairs[k])
<1> DEFINE n == Len(pairs)
           After(v, k) == Erase(v, pairs[k])
           Step == [k \in 1..n |-> [v \in Seq(X) |-> After(v, k)]]
           f[k \in 0..Len(pairs)] == IF k = 0 THEN list ELSE Erase(f[k - 1], pairs[k])
<1>1. n \in Nat
    OBVIOUS
<1>2. \A k \in 1..n, v \in Seq(X) : After(v, k) \in Seq(X)
    BY EraseTyped
<1>3. list \in Seq(X)
    OBVIOUS
<1>4. PICK g \in [0..n -> Seq(X)] : Recursive(g, n, list, Step)
  <2>1. Step \in [1..n -> [Seq(X) -> Seq(X)]]
    BY <1>2
  <2> HIDE DEF Step, n
  <2> QED
    BY <1>1, <1>3, <2>1, RecursionUpTo
<1>5. g = [k \in 0..n |-> IF k = 0 THEN list ELSE After(g[k - 1], k)]
  <2>1. \A k \in 1..n, v \in Seq(X) : Step[k][v] = After(v, k)
    OBVIOUS
  <2> HIDE DEF Step, After, n
  <2>2. \A k \in 0..n : g[k] = IF k = 0 THEN list ELSE Step[k][g[k - 1]]
    BY <1>4 DEF Recursive
  <2>3. \A k \in 1..n : k - 1 \in 0..n /\ k \in 0..n /\ k # 0
    BY <1>1
  <2>4. \A k \in 1..n : g[k] = After(g[k - 1], k)
    BY <2>1, <2>2, <2>3
  <2>5. 0 \in 0..n /\ \A k \in 0..n : k # 0 => k \in 1..n
    BY <1>1
  <2> QED
    BY <2>2, <2>4, <2>5
<1>6. f = [k \in 0..n |-> IF k = 0 THEN list ELSE After(f[k - 1], k)]
    BY <1>5
<1>7. Without(list, pairs) = f[n]
    BY DEF Without
<1>8. \A k, v : After(v, k) = Erase(v, pairs[k])
    OBVIOUS
<1> HIDE DEF f, After
<1>9. f[0] = list /\ \A k \in 1..n : f[k] = After(f[k - 1], k)
  <2> HIDE DEF n
  <2>1. 0 \in 0..n /\ \A k \in 1..n : k \in 0..n /\ k # 0
    BY <1>1
  <2> QED
    BY <1>6, <2>1, Zenon
<1>10. \A k \in 0..n : f[k] \in Seq(X)
  <2>1. \A k \in 1..n : f[k - 1] \in Seq(X) => f[k] \in Seq(X)
    BY <1>2, <1>9
  <2> HIDE DEF n
  <2> QED
    BY <1>1, <1>3, <1>9, <2>1, LoopStays
<1> QED
    BY <1>6, <1>7, <1>8, <1>9, <1>10

\* Pair after pair, what is left is of the list.
LEMMA WithoutTyped ==
    ASSUME NEW X, NEW list \in Seq(X), NEW pairs, Len(pairs) \in Nat
    PROVE  /\ Without(list, pairs) \in Seq(X)
           /\ \A j \in 1..Len(Without(list, pairs)) :
                 \E i \in 1..Len(list) : Without(list, pairs)[j] = list[i]
<1>1. PICK f \in [0..Len(pairs) -> Seq(X)] :
          /\ Without(list, pairs) = f[Len(pairs)]
          /\ f[0] = list
          /\ \A k \in 1..Len(pairs) : f[k] = Erase(f[k - 1], pairs[k])
    BY SkippedLoop
<1> DEFINE n == Len(pairs)
           Good == {k \in 0..n : \A j \in 1..Len(f[k]) : \E i \in 1..Len(list) : f[k][j] = list[i]}
<1>2. 0 \in Good
    BY <1>1
<1>3. ASSUME NEW k \in 1..n, k - 1 \in Good PROVE k \in Good
  <2>1. k - 1 \in 0..n /\ k \in 0..n /\ f[k - 1] \in Seq(X)
    OBVIOUS
  <2>2. f[k] = Erase(f[k - 1], pairs[k])
    BY <1>1
  <2>3. \A j \in 1..Len(f[k]) : \E i \in 1..Len(f[k - 1]) : f[k][j] = f[k - 1][i]
    BY <2>1, <2>2, EraseTyped
  <2>4. \A j \in 1..Len(f[k - 1]) : \E i \in 1..Len(list) : f[k - 1][j] = list[i]
    BY <1>3
  <2>5. \A j \in 1..Len(f[k]) : \E i \in 1..Len(list) : f[k][j] = list[i]
    BY <2>3, <2>4
  <2> QED
    BY <2>1, <2>5
<1>4. n \in Nat
    OBVIOUS
<1> HIDE DEF Good, n
<1>5. \A k \in 0..n : k \in Good
    BY <1>2, <1>3, <1>4, InductionUpTo
<1>6. n \in Good /\ f[n] \in Seq(X)
    BY <1>4, <1>5 DEF n
<1>7. n = Len(pairs)
    BY DEF n
<1> QED
    BY <1>1, <1>6, <1>7 DEF Good

\* If no two are alike, exactly the experiments that match none of the pairs
\* are left.
LEMMA WithoutMatches ==
    ASSUME NEW X, NEW list \in Seq(X), NEW pairs, Len(pairs) \in Nat, OneEach(list)
    PROVE  /\ OneEach(Without(list, pairs))
           /\ KeepsRest(list, Without(list, pairs), {pairs[m] : m \in 1..Len(pairs)})
<1>1. PICK f \in [0..Len(pairs) -> Seq(X)] :
          /\ Without(list, pairs) = f[Len(pairs)]
          /\ f[0] = list
          /\ \A k \in 1..Len(pairs) : f[k] = Erase(f[k - 1], pairs[k])
    BY SkippedLoop
<1> DEFINE n == Len(pairs)
           P(k) == {pairs[m] : m \in 1..k}
           Good == {k \in 0..n : OneEach(f[k]) /\ KeepsRest(list, f[k], P(k))}
<1>2. 0 \in Good
  <2>1. P(0) = {}
    OBVIOUS
  <2>2. KeepsRest(list, list, {})
    BY DEF KeepsRest
  <2>3. f[0] = list
    BY <1>1
  <2> HIDE DEF P
  <2> QED
    BY <2>1, <2>2, <2>3
<1>3. ASSUME NEW k \in 1..n, k - 1 \in Good PROVE k \in Good
  <2> DEFINE old == f[k - 1]
             new == f[k]
  <2>1. k - 1 \in 0..n /\ k \in 0..n /\ old \in Seq(X)
    OBVIOUS
  <2>2. new = Erase(old, pairs[k])
    BY <1>1
  <2>3. OneEach(old) /\ KeepsRest(list, old, P(k - 1))
    BY <1>3
  <2>4. P(k) = P(k - 1) \cup {pairs[k]}
    <3>1. \A m : m \in 1..k <=> m \in 1..(k - 1) \/ m = k
      BY <2>1
    <3> QED
      BY <3>1
  <2> HIDE DEF P, old, new
  <2>5. OneEach(new) /\ KeepsRest(old, new, {pairs[k]})
    BY <2>1, <2>2, <2>3, ErasesMatches
  <2>6. KeepsRest(list, new, P(k))
    <3>1. ASSUME NEW j \in 1..Len(new)
          PROVE  \E i \in 1..Len(list) : new[j] = list[i] /\ \A p \in P(k) : ~IsPair(list[i], p)
      <4>1. PICK l \in 1..Len(old) : new[j] = old[l] /\ ~IsPair(old[l], pairs[k])
        BY <2>5 DEF KeepsRest
      <4>2. PICK i \in 1..Len(list) : old[l] = list[i] /\ \A p \in P(k - 1) : ~IsPair(list[i], p)
        BY <2>3 DEF KeepsRest
      <4> QED
        BY <2>4, <4>1, <4>2
    <3>2. ASSUME NEW i \in 1..Len(list), \A p \in P(k) : ~IsPair(list[i], p)
          PROVE  \E j \in 1..Len(new) : new[j] = list[i]
      <4>1. PICK l \in 1..Len(old) : old[l] = list[i]
        BY <2>3, <2>4, <3>2 DEF KeepsRest
      <4>2. ~IsPair(old[l], pairs[k])
        BY <2>4, <3>2, <4>1
      <4>3. PICK j \in 1..Len(new) : new[j] = old[l]
        BY <2>5, <4>2 DEF KeepsRest
      <4> QED
        BY <4>1, <4>3
    <3> QED
      BY <3>1, <3>2 DEF KeepsRest
  <2> QED
    BY <2>1, <2>5, <2>6 DEF new
<1>4. n \in Nat /\ n = Len(pairs)
    OBVIOUS
<1> HIDE DEF Good, n
<1>5. \A k \in 0..n : k \in Good
    BY <1>2, <1>3, <1>4, InductionUpTo
<1>6. n \in Good
    BY <1>4, <1>5
<1> QED
    BY <1>1, <1>4, <1>6 DEF Good

-----------------------------------------------------------------------------
(* Which pairs are skipped.                                                *)

\* A list of names for each element.
LEMMA FieldTyped ==
    ASSUME NEW pairs \in Seq(Pair), NEW k \in 1..Len(pairs)
    PROVE  /\ pairs[k].datasets \in Seq(Name) /\ pairs[k].samples \in Seq(Name)
           /\ pairs[k]["datasets"] = pairs[k].datasets
           /\ pairs[k]["samples"] = pairs[k].samples
<1>1. pairs[k] \in Pair
    OBVIOUS
<1> QED
    BY <1>1 DEF Pair

\* The datasets of elements that have one each.
LEMMA AllOfOnes ==
    ASSUME NEW pairs \in Seq(Pair), \A k \in 1..Len(pairs) : Len(pairs[k].datasets) = 1
    PROVE  /\ AllOf(pairs, "datasets") \in Seq(Name)
           /\ Len(AllOf(pairs, "datasets")) = Len(pairs)
           /\ \A k \in 1..Len(pairs) : AllOf(pairs, "datasets")[k] = pairs[k].datasets[1]
<1>1. Len(pairs) \in Nat /\ \A k \in 1..Len(pairs) : pairs[k]["datasets"] \in Seq(Name)
    BY FieldTyped
<1>2. PICK f \in [0..Len(pairs) -> Seq(Name)] : Joining(f, pairs, "datasets")
    BY <1>1, AllOfLoop
<1> DEFINE n == Len(pairs)
           Good == {k \in 0..n : Len(f[k]) = k /\ \A i \in 1..k : f[k][i] = pairs[i].datasets[1]}
<1>3. 0 \in Good
    BY <1>2 DEF Joining
<1>4. ASSUME NEW k \in 1..n, k - 1 \in Good PROVE k \in Good
  <2> DEFINE old == f[k - 1]
             new == f[k]
             d == pairs[k].datasets
  <2>1. k - 1 \in 0..n /\ k \in 0..n /\ k \in Nat /\ old \in Seq(Name) /\ d \in Seq(Name) /\ Len(d) = 1
    BY FieldTyped
  <2>2. new = old \o d
    BY <1>2, FieldTyped DEF Joining
  <2>3. Len(old) = k - 1 /\ \A i \in 1..(k - 1) : old[i] = pairs[i].datasets[1]
    BY <1>4
  <2>4. d = pairs[k].datasets
    OBVIOUS
  <2> HIDE DEF old, new, d
  <2>5. Len(new) = k /\ new[k] = d[1] /\ \A i \in 1..(k - 1) : new[i] = old[i]
    <3>1. /\ Len(old \o d) = Len(old) + Len(d)
          /\ \A i \in 1..Len(old) : (old \o d)[i] = old[i]
          /\ \A i \in 1..Len(d) : (old \o d)[Len(old) + i] = d[i]
      <4>1. old \in Seq(Name) /\ d \in Seq(Name)
        BY <2>1
      <4> QED
        BY <4>1, Concat
    <3>2. \A i \in 1..Len(old) : new[i] = old[i]
      BY <2>2, <3>1
    <3>3. Len(new) = Len(old) + 1 /\ \A i \in 1..Len(d) : new[Len(old) + i] = d[i]
      BY <2>1, <2>2, <3>1
    <3>4. new[Len(old) + 1] = d[1] /\ Len(old) + 1 = k
      BY <2>1, <2>3, <3>3
    <3>5. Len(new) = k /\ new[k] = d[1]
      BY <3>3, <3>4
    <3>6. 1..Len(old) = 1..(k - 1)
      BY <2>3
    <3> QED
      BY <3>2, <3>5, <3>6
  <2>6. ASSUME NEW i \in 1..k PROVE new[i] = pairs[i].datasets[1]
    <3>1. CASE i = k
      BY <2>4, <2>5, <3>1
    <3>2. CASE i # k
      <4>1. i \in 1..(k - 1)
        BY <2>1, <3>2
      <4> QED
        BY <2>3, <2>5, <4>1
    <3> QED
      BY <3>1, <3>2
  <2> QED
    BY <2>1, <2>5, <2>6 DEF new
<1>5. n \in Nat /\ n = Len(pairs)
    OBVIOUS
<1> HIDE DEF Good, n
<1>6. \A k \in 0..n : k \in Good
    BY <1>3, <1>4, <1>5, InductionUpTo
<1>7. n \in Good /\ f[n] \in Seq(Name)
    BY <1>5, <1>6
<1> QED
    BY <1>2, <1>5, <1>7 DEF Good, Joining

\* Passed looks at what is in front.
LEMMA PassedInFront ==
    ASSUME NEW s \in Seq(Name), NEW t \in Seq(Name), NEW k \in 0..Len(s)
    PROVE  Passed(s \o t, k) = Passed(s, k)
<1>1. {m \in 1..k : (s \o t)[m] = NoName} = {m \in 1..k : s[m] = NoName}
    OBVIOUS
<1> QED
    BY <1>1 DEF Passed

\* Names pass no turn, the empty name after them passes one.
LEMMA PassedBehind ==
    ASSUME NEW s \in Seq(Name), NEW t \in Seq(Name), NoName \notin ToSet(t)
    PROVE  /\ \A k \in 0..Len(t) :
                 Passed(s \o Append(t, NoName), Len(s) + k) = Passed(s, Len(s))
           /\ Passed(s \o Append(t, NoName), Len(s) + Len(t) + 1) = Passed(s, Len(s)) + 1
<1> DEFINE r == s \o Append(t, NoName)
           S == {m \in 1..Len(s) : s[m] = NoName}
<1>1. NoName \in Name
    BY DEF NoName, Name
<1>2. /\ Append(t, NoName) \in Seq(Name) /\ Len(Append(t, NoName)) = Len(t) + 1
      /\ \A k \in 1..Len(t) : Append(t, NoName)[k] = t[k]
      /\ Append(t, NoName)[Len(t) + 1] = NoName
      /\ Len(s) \in Nat /\ Len(t) \in Nat
    BY <1>1
<1>3. \A k \in 1..Len(t) : t[k] # NoName
    BY DEF ToSet
<1>4. /\ \A m \in 1..Len(s) : r[m] = s[m]
      /\ \A k \in 1..(Len(t) + 1) : r[Len(s) + k] = Append(t, NoName)[k]
  <2> HIDE DEF NoName, Name
  <2> QED
    BY <1>2
<1> HIDE DEF r
<1>5. \A k \in 1..Len(t) : r[Len(s) + k] # NoName
    BY <1>2, <1>3, <1>4
<1>6. r[Len(s) + Len(t) + 1] = NoName
  <2>1. Len(t) + 1 \in 1..(Len(t) + 1) /\ Len(s) + (Len(t) + 1) = Len(s) + Len(t) + 1
    BY <1>2
  <2> QED
    BY <1>2, <1>4, <2>1
<1>7. ASSUME NEW k \in 0..Len(t)
      PROVE  {m \in 1..(Len(s) + k) : r[m] = NoName} = S
  <2>1. ASSUME NEW m \in 1..(Len(s) + k), r[m] = NoName PROVE m \in S
    <3>1. CASE m <= Len(s)
      BY <1>2, <1>4, <2>1, <3>1
    <3>2. CASE m > Len(s)
      <4>1. m - Len(s) \in 1..Len(t) /\ Len(s) + (m - Len(s)) = m
        BY <1>2, <3>2
      <4> QED
        BY <1>5, <2>1, <4>1
    <3> QED
      BY <1>2, <3>1, <3>2
  <2>2. ASSUME NEW m \in S PROVE m \in 1..(Len(s) + k) /\ r[m] = NoName
    BY <1>2, <1>4
  <2> HIDE DEF S
  <2> QED
    BY <2>1, <2>2
<1>8. Passed(s, Len(s)) = Cardinality(S)
    BY DEF Passed
<1>9. \A k \in 0..Len(t) : Passed(r, Len(s) + k) = Passed(s, Len(s))
    BY <1>7, <1>8 DEF Passed
<1>10. {m \in 1..(Len(s) + Len(t) + 1) : r[m] = NoName} = S \cup {Len(s) + Len(t) + 1}
  <2>1. {m \in 1..(Len(s) + Len(t)) : r[m] = NoName} = S
    BY <1>2, <1>7
  <2>2. \A m : m \in 1..(Len(s) + Len(t) + 1)
                  <=> m \in 1..(Len(s) + Len(t)) \/ m = Len(s) + Len(t) + 1
    BY <1>2
  <2> HIDE DEF S
  <2> QED
    BY <1>6, <2>1, <2>2
<1>11. IsFiniteSet(S)
    BY <1>2, PassedRange
<1>12. Len(s) + Len(t) + 1 \notin S
    BY <1>2
<1>13. Cardinality(S \cup {Len(s) + Len(t) + 1}) = Cardinality(S) + 1
  <2> HIDE DEF S
  <2> QED
    BY <1>11, <1>12, FS_AddElement
<1>14. Passed(r, Len(s) + Len(t) + 1) = Passed(s, Len(s)) + 1
    BY <1>8, <1>10, <1>13 DEF Passed
<1> QED
    BY <1>9, <1>14 DEF r

\* In a row of samples with empty names between, the samples of the m-th
\* element are the ones that m - 1 empty names are in front of.
Turns(row, pairs, n) ==
    /\ row \in Seq(Name)
    /\ Passed(row, Len(row)) = n
    /\ \A j \in 1..Len(row) : row[j] # NoName =>
          Passed(row, j) \in 0..(n - 1) /\ row[j] \in ToSet(pairs[Passed(row, j) + 1].samples)
    /\ \A m \in 1..n : \A s \in ToSet(pairs[m].samples) :
          \E j \in 1..Len(row) : row[j] = s /\ Passed(row, j) = m - 1

LEMMA TurnsOn ==
    ASSUME NEW pairs \in Seq(Pair), NEW k \in 1..Len(pairs),
           NoName \notin ToSet(pairs[k].samples),
           NEW old, Turns(old, pairs, k - 1)
    PROVE  Turns(old \o Append(pairs[k].samples, NoName), pairs, k)
<1> DEFINE t == pairs[k].samples
           new == old \o Append(t, NoName)
<1>1. old \in Seq(Name) /\ t \in Seq(Name) /\ k \in Nat /\ NoName \notin ToSet(t)
    BY FieldTyped DEF Turns
<1>2. t = pairs[k].samples
    OBVIOUS
<1> HIDE DEF t
<1>3. Append(t, NoName) \in Seq(Name) /\ Len(Append(t, NoName)) = Len(t) + 1
  <2>1. NoName \in Name
    BY DEF NoName, Name
  <2> QED
    BY <1>1, <2>1
<1>4. /\ new \in Seq(Name) /\ Len(new) = Len(old) + (Len(t) + 1)
      /\ \A j \in 1..Len(old) : new[j] = old[j]
      /\ \A i \in 1..(Len(t) + 1) : new[Len(old) + i] = Append(t, NoName)[i]
    BY <1>1, <1>3, Concat
<1>5. Len(old) \in Nat /\ Len(t) \in Nat
    BY <1>1
<1>6. /\ \A i \in 1..Len(t) : Append(t, NoName)[i] = t[i]
      /\ Append(t, NoName)[Len(t) + 1] = NoName
    BY <1>1
<1>7. \A j \in 0..Len(old) : Passed(new, j) = Passed(old, j)
    BY <1>1, <1>3, PassedInFront
<1>8. /\ \A i \in 0..Len(t) : Passed(new, Len(old) + i) = Passed(old, Len(old))
      /\ Passed(new, Len(old) + Len(t) + 1) = Passed(old, Len(old)) + 1
    BY <1>1, PassedBehind
<1> HIDE DEF new
<1>9. Passed(old, Len(old)) = k - 1
    BY DEF Turns
<1>10. Passed(new, Len(new)) = k
  <2>1. Len(new) = Len(old) + Len(t) + 1
    BY <1>4, <1>5
  <2> QED
    BY <1>1, <1>8, <1>9, <2>1
<1>11. ASSUME NEW j \in 1..Len(new), new[j] # NoName
       PROVE  Passed(new, j) \in 0..(k - 1) /\ new[j] \in ToSet(pairs[Passed(new, j) + 1].samples)
  <2>1. CASE j \in 1..Len(old)
    <3>1. new[j] = old[j] /\ Passed(new, j) = Passed(old, j)
      BY <1>4, <1>5, <1>7, <2>1
    <3>2. Passed(old, j) \in 0..(k - 2) /\ old[j] \in ToSet(pairs[Passed(old, j) + 1].samples)
      BY <1>1, <1>11, <2>1, <3>1 DEF Turns
    <3> QED
      BY <1>1, <3>1, <3>2
  <2>2. CASE j \notin 1..Len(old)
    <3>1. PICK i \in 1..(Len(t) + 1) : j = Len(old) + i
      <4>1. j - Len(old) \in 1..(Len(t) + 1) /\ Len(old) + (j - Len(old)) = j
        BY <1>4, <1>5, <2>2
      <4> QED
        BY <4>1
    <3>2. new[j] = Append(t, NoName)[i]
      BY <1>4, <3>1
    <3>3. i \in 1..Len(t)
      BY <1>5, <1>6, <1>11, <3>2
    <3>4. new[j] = t[i] /\ Passed(new, j) = k - 1
      BY <1>5, <1>6, <1>8, <1>9, <3>1, <3>2, <3>3
    <3>5. new[j] \in ToSet(t)
      BY <1>1, <3>3, <3>4 DEF ToSet
    <3>6. k - 1 \in 0..(k - 1) /\ k - 1 + 1 = k
      BY <1>1
    <3> QED
      BY <1>2, <3>4, <3>5, <3>6
  <2> QED
    BY <2>1, <2>2
<1>12. ASSUME NEW m \in 1..k, NEW s \in ToSet(pairs[m].samples)
       PROVE  \E j \in 1..Len(new) : new[j] = s /\ Passed(new, j) = m - 1
  <2>1. CASE m \in 1..(k - 1)
    <3>1. PICK j \in 1..Len(old) : old[j] = s /\ Passed(old, j) = m - 1
      BY <2>1 DEF Turns
    <3>2. j \in 1..Len(new) /\ j \in 0..Len(old)
      BY <1>4, <1>5
    <3>3. new[j] = old[j] /\ Passed(new, j) = Passed(old, j)
      BY <1>4, <1>7, <3>2
    <3> QED
      BY <3>1, <3>2, <3>3
  <2>2. CASE m \notin 1..(k - 1)
    <3>1. m = k
      BY <1>1, <2>2
    <3>2. PICK i \in 1..Len(t) : t[i] = s
      BY <1>1, <1>2, <3>1 DEF ToSet
    <3>3. Len(old) + i \in 1..Len(new) /\ i \in 1..(Len(t) + 1) /\ i \in 0..Len(t)
      BY <1>4, <1>5
    <3>4. new[Len(old) + i] = s /\ Passed(new, Len(old) + i) = k - 1
      BY <1>4, <1>6, <1>8, <1>9, <3>2, <3>3
    <3> QED
      BY <3>1, <3>3, <3>4
  <2> QED
    BY <2>1, <2>2
<1>13. Turns(new, pairs, k)
    BY <1>4, <1>10, <1>11, <1>12 DEF Turns
<1> QED
    BY <1>13 DEF new, t

\* What skippairs makes of the samples of its elements.
LEMMA SkippedSamplesTurn ==
    ASSUME NEW pairs \in Seq(Pair),
           \A k \in 1..Len(pairs) : NoName \notin ToSet(pairs[k].samples)
    PROVE  Turns(SkippedSamples(pairs), pairs, Len(pairs))
<1> DEFINE rows == [i \in DOMAIN pairs |-> [samples |-> Append(pairs[i].samples, NoName)]]
           n == Len(pairs)
<1>1. n \in Nat /\ Len(rows) = n
    OBVIOUS
<1>2. \A k \in 1..n : /\ rows[k]["samples"] = Append(pairs[k].samples, NoName)
                      /\ rows[k]["samples"] \in Seq(Name)
  <2> SUFFICES ASSUME NEW k \in 1..n
               PROVE  /\ rows[k]["samples"] = Append(pairs[k].samples, NoName)
                      /\ rows[k]["samples"] \in Seq(Name)
    OBVIOUS
  <2>1. rows[k] = [samples |-> Append(pairs[k].samples, NoName)]
    <3>1. k \in DOMAIN pairs
      OBVIOUS
    <3> QED
      BY <3>1, Zenon
  <2>2. rows[k]["samples"] = Append(pairs[k].samples, NoName)
    BY <2>1
  <2>3. pairs[k].samples \in Seq(Name) /\ NoName \in Name
    BY FieldTyped DEF NoName, Name
  <2> QED
    BY <2>2, <2>3
<1>3. SkippedSamples(pairs) = AllOf(rows, "samples")
    BY DEF SkippedSamples
<1> HIDE DEF rows
<1>4. PICK f \in [0..n -> Seq(Name)] : Joining(f, rows, "samples")
  <2> HIDE DEF n
  <2>1. PICK f \in [0..Len(rows) -> Seq(Name)] : Joining(f, rows, "samples")
    BY <1>1, <1>2, AllOfLoop
  <2> QED
    BY <1>1, <2>1
<1> DEFINE Good == {k \in 0..n : Turns(f[k], pairs, k)}
<1>5. 0 \in Good
  <2>1. f[0] = <<>>
    BY <1>4 DEF Joining
  <2>2. Passed(<<>>, 0) = 0
    <3>1. {m \in 1..0 : <<>>[m] = NoName} = {}
      OBVIOUS
    <3> QED
      BY <3>1, FS_EmptySet DEF Passed
  <2>3. Turns(<<>>, pairs, 0)
    BY <2>2 DEF Turns
  <2> QED
    BY <1>1, <2>1, <2>3
<1>6. ASSUME NEW k \in 1..n, k - 1 \in Good PROVE k \in Good
  <2>1. f[k] = f[k - 1] \o rows[k]["samples"]
    BY <1>1, <1>4 DEF Joining
  <2>2. f[k] = f[k - 1] \o Append(pairs[k].samples, NoName)
    BY <1>2, <2>1
  <2>3. Turns(f[k], pairs, k)
    BY <1>6, <2>2, TurnsOn
  <2> QED
    BY <2>3
<1>7. f[n] = SkippedSamples(pairs)
    BY <1>1, <1>3, <1>4 DEF Joining
<1>8. n = Len(pairs)
    OBVIOUS
<1> HIDE DEF Good, n
<1>9. \A k \in 0..n : k \in Good
    BY <1>1, <1>5, <1>6, InductionUpTo
<1>10. n \in Good
    BY <1>1, <1>9
<1> QED
    BY <1>7, <1>8, <1>10 DEF Good

\* The k-th sample goes with a dataset, and e has both.
NamedAt(datasets, samples, k, e) ==
    /\ samples[k] # NoName
    /\ Passed(samples, k) < Len(datasets)
    /\ e.expdataset = datasets[Passed(samples, k) + 1]
    /\ e.sample = samples[k]

\* An experiment matches a pair if a sample and its dataset are its own.
LEMMA PairedMatches ==
    ASSUME NEW datasets \in Seq(Name), NEW samples \in Seq(Name), NEW e
    PROVE  /\ Paired(datasets, samples) \in Seq(Key)
           /\ (\E m \in 1..Len(Paired(datasets, samples)) :
                  IsPair(e, Paired(datasets, samples)[m]))
                 <=> \E k \in 1..Len(samples) : NamedAt(datasets, samples, k, e)
<1>1. PICK f \in [0..Len(samples) -> Seq(Key)] : Pairing(f, datasets, samples)
    BY PairedLoop
<1> DEFINE n == Len(samples)
           In(k) == \E m \in 1..Len(f[k]) : IsPair(e, f[k][m])
           Named1(k) == \E i \in 1..k : NamedAt(datasets, samples, i, e)
           Good == {k \in 0..n : In(k) <=> Named1(k)}
<1>2. 0 \in Good
    BY <1>1 DEF Pairing
<1>3. ASSUME NEW k \in 1..n, k - 1 \in Good PROVE k \in Good
  <2>1. k - 1 \in 0..n /\ k \in 0..n /\ f[k - 1] \in Seq(Key) /\ f[k] \in Seq(Key)
    OBVIOUS
  <2>2. In(k - 1) <=> Named1(k - 1)
    BY <1>3
  <2>3. Named1(k) <=> Named1(k - 1) \/ NamedAt(datasets, samples, k, e)
    <3>1. \A m : m \in 1..k <=> m \in 1..(k - 1) \/ m = k
      BY <2>1
    <3> QED
      BY <3>1
  <2> DEFINE new == [expdataset |-> datasets[Passed(samples, k) + 1], sample |-> samples[k]]
             old == f[k - 1]
  <2>4. CASE ~(samples[k] # NoName /\ Passed(samples, k) < Len(datasets))
    <3>1. ~NamedAt(datasets, samples, k, e)
      BY <2>4 DEF NamedAt
    <3>2. f[k] = f[k - 1]
      BY <1>1, <2>4 DEF Pairing
    <3> HIDE DEF Named1
    <3> QED
      BY <2>1, <2>2, <2>3, <3>1, <3>2
  <2>5. CASE samples[k] # NoName /\ Passed(samples, k) < Len(datasets)
    <3>1. f[k] = Append(old, new)
      BY <1>1, <2>5 DEF Pairing
    <3>2. IsPair(e, new) <=> NamedAt(datasets, samples, k, e)
      BY <2>5 DEF IsPair, NamedAt
    <3> HIDE DEF new, Named1
    <3>3. /\ Len(f[k]) = Len(old) + 1 /\ Len(old) \in Nat
          /\ f[k][Len(old) + 1] = new
          /\ \A m \in 1..Len(old) : f[k][m] = old[m]
      BY <2>1, <3>1
    <3>4. In(k) <=> In(k - 1) \/ IsPair(e, new)
      <4>1. \A m : m \in 1..Len(f[k]) <=> m \in 1..Len(old) \/ m = Len(old) + 1
        BY <3>3
      <4> QED
        BY <3>3, <4>1
    <3> HIDE DEF In
    <3> QED
      BY <2>1, <2>2, <2>3, <3>2, <3>4
  <2> QED
    BY <2>4, <2>5
<1>4. n \in Nat /\ n = Len(samples)
    OBVIOUS
<1> HIDE DEF Good, n
<1>5. \A k \in 0..n : k \in Good
    BY <1>2, <1>3, <1>4, InductionUpTo
<1>6. n \in Good /\ f[n] \in Seq(Key)
    BY <1>4, <1>5
<1>7. In(n) <=> Named1(n)
    BY <1>6 DEF Good
<1> QED
    BY <1>1, <1>4, <1>6, <1>7 DEF Pairing

\* The elements of skippairs that name one dataset each, none of them by the
\* empty name, and no empty sample among theirs, are read as they are meant.
LEMMA SkippedPairsMeant ==
    ASSUME NEW pairs \in Seq(Pair), NEW e,
           \A k \in 1..Len(pairs) : /\ Len(pairs[k].datasets) = 1
                                    /\ NoName \notin ToSet(pairs[k].samples)
    PROVE  (\E m \in 1..Len(Paired(AllOf(pairs, "datasets"), SkippedSamples(pairs))) :
               IsPair(e, Paired(AllOf(pairs, "datasets"), SkippedSamples(pairs))[m]))
              <=> Meant(pairs, e)
<1> DEFINE D == AllOf(pairs, "datasets")
           S == SkippedSamples(pairs)
           n == Len(pairs)
<1>1. D \in Seq(Name) /\ Len(D) = n /\ \A k \in 1..n : D[k] = pairs[k].datasets[1]
    BY AllOfOnes
<1>2. Turns(S, pairs, n)
    BY SkippedSamplesTurn
<1> HIDE DEF D, S
<1>3. S \in Seq(Name) /\ n \in Nat
    BY <1>2 DEF Turns
<1>4. \A k \in 1..n : ToSet(pairs[k].datasets) = {D[k]}
  <2> SUFFICES ASSUME NEW k \in 1..n PROVE ToSet(pairs[k].datasets) = {D[k]}
    OBVIOUS
  <2>1. pairs[k].datasets \in Seq(Name) /\ Len(pairs[k].datasets) = 1
    BY FieldTyped
  <2>2. DOMAIN pairs[k].datasets = {1}
    BY <2>1
  <2>3. ToSet(pairs[k].datasets) = {pairs[k].datasets[1]}
    BY <2>2 DEF ToSet
  <2> QED
    BY <1>1, <2>3
<1>5. Meant(pairs, e) <=> \E k \in 1..n : e.expdataset = D[k] /\ e.sample \in ToSet(pairs[k].samples)
  <2>1. DOMAIN pairs = 1..n
    OBVIOUS
  <2> HIDE DEF n
  <2> QED
    BY <1>4, <2>1 DEF Meant
<1>6. ASSUME NEW j \in 1..Len(S), NamedAt(D, S, j, e)
      PROVE  \E k \in 1..n : e.expdataset = D[k] /\ e.sample \in ToSet(pairs[k].samples)
  <2>1. S[j] # NoName /\ e.sample = S[j] /\ e.expdataset = D[Passed(S, j) + 1]
    BY <1>6 DEF NamedAt
  <2>2. Passed(S, j) \in 0..(n - 1) /\ S[j] \in ToSet(pairs[Passed(S, j) + 1].samples)
    BY <1>2, <2>1 DEF Turns
  <2>3. Passed(S, j) + 1 \in 1..n
    BY <1>3, <2>2
  <2> QED
    BY <2>1, <2>2, <2>3
<1>7. ASSUME NEW k \in 1..n, e.expdataset = D[k], e.sample \in ToSet(pairs[k].samples)
      PROVE  \E j \in 1..Len(S) : NamedAt(D, S, j, e)
  <2>1. PICK j \in 1..Len(S) : S[j] = e.sample /\ Passed(S, j) = k - 1
    BY <1>2, <1>7 DEF Turns
  <2>2. e.sample # NoName
    BY <1>7
  <2>3. Passed(S, j) < Len(D) /\ Passed(S, j) + 1 = k
    BY <1>1, <1>3, <2>1
  <2> QED
    BY <1>7, <2>1, <2>2, <2>3 DEF NamedAt
<1>8. (\E m \in 1..Len(Paired(D, S)) : IsPair(e, Paired(D, S)[m]))
          <=> \E k \in 1..Len(S) : NamedAt(D, S, k, e)
    BY <1>1, <1>3, PairedMatches
<1>9. (\E m \in 1..Len(Paired(D, S)) : IsPair(e, Paired(D, S)[m])) <=> Meant(pairs, e)
  <2> HIDE DEF n
  <2> QED
    BY <1>5, <1>6, <1>7, <1>8
<1> QED
    BY <1>9 DEF D, S

-----------------------------------------------------------------------------
(* The query selects what is meant.                                        *)

\* A clause by its operator.
LEMMA HoldsBy ==
    ASSUME NEW field, NEW arg, NEW e
    PROVE  /\ (\A c \in Clause(field, "in", arg) : Holds(c, e)) <=> e[field] \in ToSet(arg)
           /\ (\A c \in Clause(field, "nin", arg) : Holds(c, e)) <=> e[field] \notin ToSet(arg)
           /\ (\A c \in Clause(field, "or", arg) : Holds(c, e))
                 <=> \E p \in ToSet(arg) : IsPair(e, p)
<1>1. \A op, c : c \in Clause(field, op, arg) <=> c = [field |-> field, op |-> op, arg |-> arg]
    BY DEF Clause
<1>2. (\A c \in Clause(field, "in", arg) : Holds(c, e)) <=> e[field] \in ToSet(arg)
  <2> DEFINE c == [field |-> field, op |-> "in", arg |-> arg]
  <2>1. c.field = field /\ c.op = "in" /\ c.arg = arg
    OBVIOUS
  <2>2. (\A d \in Clause(field, "in", arg) : Holds(d, e)) <=> Holds(c, e)
    BY <1>1
  <2> HIDE DEF c
  <2> QED
    BY <2>1, <2>2 DEF Holds
<1>3. (\A c \in Clause(field, "nin", arg) : Holds(c, e)) <=> e[field] \notin ToSet(arg)
  <2> DEFINE c == [field |-> field, op |-> "nin", arg |-> arg]
  <2>1. c.field = field /\ c.op = "nin" /\ c.arg = arg
    OBVIOUS
  <2>2. (\A d \in Clause(field, "nin", arg) : Holds(d, e)) <=> Holds(c, e)
    BY <1>1
  <2> HIDE DEF c
  <2> QED
    BY <2>1, <2>2 DEF Holds
<1>4. (\A c \in Clause(field, "or", arg) : Holds(c, e)) <=> \E p \in ToSet(arg) : IsPair(e, p)
  <2> DEFINE c == [field |-> field, op |-> "or", arg |-> arg]
  <2>1. c.field = field /\ c.op = "or" /\ c.arg = arg
    OBVIOUS
  <2>2. (\A d \in Clause(field, "or", arg) : Holds(d, e)) <=> Holds(c, e)
    BY <1>1
  <2> HIDE DEF c
  <2> QED
    BY <2>1, <2>2 DEF Holds
<1> QED
    BY <1>2, <1>3, <1>4

\* A list of names, which holds no empty name among others.
LEMMA NamesMeant ==
    ASSUME NEW field, NEW list \in Seq(Name), NEW e,
           NoName \in ToSet(list) => ToSet(list) = {NoName}
    PROVE  /\ (\A c \in Names(field, "in", list) : Holds(c, e))
                 <=> (NamesIn(list) # {} => e[field] \in NamesIn(list))
           /\ (\A c \in Names(field, "nin", list) : Holds(c, e))
                 <=> e[field] \notin NamesIn(list)
<1>1. CASE Named(list)
  <2>1. list # <<>> /\ list[1] # NoName
    BY <1>1 DEF Named
  <2>2. list[1] \in ToSet(list)
    BY <2>1 DEF ToSet
  <2>3. NoName \notin ToSet(list)
    BY <2>1, <2>2
  <2>4. NamesIn(list) = ToSet(list) /\ NamesIn(list) # {}
    BY <2>2, <2>3 DEF NamesIn
  <2>5. \A op : Names(field, op, list) = Clause(field, op, list)
    BY <1>1 DEF Names
  <2> QED
    BY <2>4, <2>5, HoldsBy
<1>2. CASE ~Named(list)
  <2>1. NamesIn(list) = {}
    <3>1. CASE list = <<>>
      BY <3>1 DEF NamesIn, ToSet
    <3>2. CASE list # <<>>
      <4>1. list[1] = NoName
        BY <1>2, <3>2 DEF Named
      <4>2. list[1] \in ToSet(list)
        BY <3>2 DEF ToSet
      <4> QED
        BY <4>1, <4>2 DEF NamesIn
    <3> QED
      BY <3>1, <3>2
  <2>2. \A op : Names(field, op, list) = {}
    BY <1>2 DEF Names
  <2> QED
    BY <2>1, <2>2
<1> QED
    BY <1>1, <1>2

\* The part of IsMeant that the query is to see to.
Chosen(e) ==
    IF select.samplelist # <<>>
    THEN \E x \in ToSet(select.samplelist) : x.SA = e.sample /\ x.DS = e.expdataset
    ELSE /\ NamesIn(DatasetsUsed) # {} => e.expdataset \in NamesIn(DatasetsUsed)
         /\ e.expdataset \notin NamesIn(select.skipdatasets)
         /\ NamesIn(select.usesamples) # {} => e.sample \in NamesIn(select.usesamples)
         /\ e.sample \notin NamesIn(select.skipsamples)
         /\ \A c \in Values("sT", select.sT) \cup Values("sP", select.sP) : Holds(c, e)
         /\ PairsUsed => Meant(select.usepairs, e)

\* The datasets to be used, given by name and with weights.
LEMMA DatasetsMeant ==
    ASSUME select \in Selection, NoName \notin ToSet(DatasetsUsed), NEW e
    PROVE  (\A c \in DatasetClause(select) : Holds(c, e))
              <=> (NamesIn(DatasetsUsed) # {} => e.expdataset \in NamesIn(DatasetsUsed))
<1> DEFINE list == DatasetsUsed
<1>1. list \in Seq(Name)
  <2>1. select.usedatasets \in Seq(Name) /\ select.datasetlist \in Seq([DS : Name, WT : Int])
    BY DEF Selection
  <2> DEFINE given == select.datasetlist
             Given == [DS : Name, WT : Int]
  <2>2. /\ given \in Seq(Given) /\ Len(given) \in Nat
        /\ DOMAIN given = 1..Len(given)
    BY <2>1
  <2>3. \A g \in Given : g["DS"] \in Name
    OBVIOUS
  <2> HIDE DEF given, Given
  <2>4. Each(given, "DS") \in Seq(Name)
    <3>1. \A i \in 1..Len(given) : given[i]["DS"] \in Name
      BY <2>2, <2>3
    <3> QED
      BY <2>2, <3>1 DEF Each
  <2> QED
    BY <2>1, <2>4 DEF DatasetsUsed, given
<1>2. NamesIn(list) = ToSet(list)
    BY DEF NamesIn
<1>3. DatasetClause(select) = IF list # <<>> THEN Clause("expdataset", "in", list) ELSE {}
    BY DEF DatasetClause, DatasetsUsed
<1>4. e["expdataset"] = e.expdataset
    OBVIOUS
<1> HIDE DEF list
<1>5. CASE list = <<>>
  <2>1. ToSet(list) = {}
    BY <1>5 DEF ToSet
  <2> QED
    BY <1>2, <1>3, <1>5, <2>1 DEF list
<1>6. CASE list # <<>>
  <2>1. list[1] \in ToSet(list)
    BY <1>1, <1>6 DEF ToSet
  <2>2. DatasetClause(select) = Clause("expdataset", "in", list)
    BY <1>3, <1>6
  <2>3. (\A c \in DatasetClause(select) : Holds(c, e)) <=> e["expdataset"] \in ToSet(list)
    BY <2>2, HoldsBy
  <2> QED
    BY <1>2, <1>4, <2>1, <2>3 DEF list
<1> QED
    BY <1>5, <1>6

\* The one element of usepairs, with its one dataset.
LEMMA UsedPairsMeant ==
    ASSUME select \in Selection, NEW e,
           PairsUsed => /\ Len(select.usepairs) = 1
                        /\ Len(select.usepairs[1].datasets) = 1
                        /\ NoName \notin ToSet(select.usepairs[1].samples)
    PROVE  (\A c \in PairClause(select.usepairs) : Holds(c, e))
              <=> (PairsUsed => Meant(select.usepairs, e))
<1>1. CASE ~PairsUsed
  <2>1. PairClause(select.usepairs) = {}
    BY <1>1 DEF PairClause, PairsUsed
  <2> QED
    BY <1>1, <2>1
<1>2. CASE PairsUsed
  <2> DEFINE pairs == select.usepairs
             D == AllOf(pairs, "datasets")
             S == AllOf(pairs, "samples")
             s1 == pairs[1].samples
  <2>1. pairs \in Seq(Pair) /\ Len(pairs) = 1
    BY <1>2 DEF Selection
  <2>2. /\ s1 \in Seq(Name) /\ pairs[1].datasets \in Seq(Name)
        /\ pairs[1]["samples"] = s1 /\ 1 \in 1..Len(pairs)
    BY <2>1, FieldTyped
  <2>3. Len(pairs[1].datasets) = 1 /\ NoName \notin ToSet(s1)
    BY <1>2
  <2>4. D \in Seq(Name) /\ Len(D) = 1 /\ D[1] = pairs[1].datasets[1]
    <3>1. \A k \in 1..Len(pairs) : Len(pairs[k].datasets) = 1
      BY <2>1, <2>3
    <3> HIDE DEF pairs
    <3> QED
      BY <2>1, <3>1, AllOfOnes
  <2>5. S = s1
    <3> HIDE DEF pairs, s1
    <3>1. Len(pairs) \in Nat /\ \A k \in 1..Len(pairs) : pairs[k]["samples"] \in Seq(Name)
      BY <2>1, <2>2
    <3>2. PICK f \in [0..Len(pairs) -> Seq(Name)] : Joining(f, pairs, "samples")
      BY <3>1, AllOfLoop
    <3>3. f[0] = <<>> /\ S = f[1]
      BY <2>1, <3>2 DEF Joining
    <3>4. f[1] = f[1 - 1] \o pairs[1]["samples"]
      BY <2>2, <3>2 DEF Joining
    <3>5. f[1] = <<>> \o s1
      BY <2>2, <3>3, <3>4
    <3> QED
      BY <2>2, <3>3, <3>5
  <2>6. PairClause(pairs) = Clause("$or", "or", Paired(D, S))
    BY <1>2 DEF PairClause, PairsUsed, UsedPairs
  <2>7. (\A c \in PairClause(pairs) : Holds(c, e))
            <=> \E p \in ToSet(Paired(D, S)) : IsPair(e, p)
    BY <2>6, HoldsBy
  <2>8. Meant(pairs, e) <=> e.expdataset = D[1] /\ e.sample \in ToSet(s1)
    <3>1. DOMAIN pairs = {1}
      BY <2>1
    <3>2. DOMAIN pairs[1].datasets = {1}
      BY <2>2, <2>3
    <3>3. ToSet(pairs[1].datasets) = {D[1]}
      BY <2>4, <3>2 DEF ToSet
    <3> QED
      BY <3>1, <3>3 DEF Meant
  <2> HIDE DEF D, S, s1, pairs
  <2>9. /\ Paired(D, S) \in Seq(Key)
        /\ (\E m \in 1..Len(Paired(D, S)) : IsPair(e, Paired(D, S)[m]))
              <=> \E k \in 1..Len(S) : NamedAt(D, S, k, e)
    BY <2>2, <2>4, <2>5, PairedMatches
  <2>10. (\E p \in ToSet(Paired(D, S)) : IsPair(e, p))
             <=> \E m \in 1..Len(Paired(D, S)) : IsPair(e, Paired(D, S)[m])
    <3>1. DOMAIN Paired(D, S) = 1..Len(Paired(D, S))
      BY <2>9
    <3> QED
      BY <3>1 DEF ToSet
  <2>11. \A k \in 1..Len(S) : S[k] # NoName /\ S[k] \in ToSet(S)
    BY <2>2, <2>3, <2>5 DEF ToSet
  <2>12. \A k \in 1..Len(S) : Passed(S, k) = 0
    <3> SUFFICES ASSUME NEW k \in 1..Len(S) PROVE Passed(S, k) = 0
      OBVIOUS
    <3>1. Len(S) \in Nat
      BY <2>2, <2>5
    <3>2. {m \in 1..k : S[m] = NoName} = {}
      BY <2>11, <3>1
    <3> QED
      BY <3>2, FS_EmptySet DEF Passed
  <2>13. (\E k \in 1..Len(S) : NamedAt(D, S, k, e)) <=> e.expdataset = D[1] /\ e.sample \in ToSet(S)
    <3>1. \A k \in 1..Len(S) : NamedAt(D, S, k, e) <=> e.expdataset = D[1] /\ e.sample = S[k]
      BY <2>4, <2>11, <2>12 DEF NamedAt
    <3>2. e.sample \in ToSet(S) <=> \E k \in 1..Len(S) : e.sample = S[k]
      BY <2>2, <2>5 DEF ToSet
    <3> QED
      BY <3>1, <3>2
  <2>14. (\A c \in PairClause(pairs) : Holds(c, e)) <=> Meant(pairs, e)
    BY <2>5, <2>7, <2>8, <2>9, <2>10, <2>13
  <2> QED
    BY <1>2, <2>14 DEF pairs
<1> QED
    BY <1>1, <1>2

\* The sample list.
LEMMA SampleListMeant ==
    ASSUME select \in Selection, NEW e, select.samplelist # <<>>,
           select.samplelist[1].DS # NoName
    PROVE  (\A c \in SampleListClause(select.samplelist) : Holds(c, e)) <=> Chosen(e)
<1> DEFINE list == select.samplelist
           pairs == [k \in DOMAIN list |-> [expdataset |-> list[k].DS, sample |-> list[k].SA]]
<1>1. SampleListClause(list) = Clause("$or", "or", pairs)
    BY DEF SampleListClause
<1>2. (\A c \in SampleListClause(list) : Holds(c, e)) <=> \E p \in ToSet(pairs) : IsPair(e, p)
  <2> HIDE DEF pairs
  <2> QED
    BY <1>1, HoldsBy
<1>3. \A k \in DOMAIN list : IsPair(e, pairs[k]) <=> list[k].SA = e.sample /\ list[k].DS = e.expdataset
    BY DEF IsPair
<1>4. (\E p \in ToSet(pairs) : IsPair(e, p)) <=> \E k \in DOMAIN list : IsPair(e, pairs[k])
    BY DEF ToSet
<1>5. Chosen(e) <=> \E k \in DOMAIN list : list[k].SA = e.sample /\ list[k].DS = e.expdataset
    BY DEF Chosen, ToSet
<1> QED
    BY <1>2, <1>3, <1>4, <1>5

\* For a selection that the program follows, exactly the experiments that
\* are meant match, but for pairs to be skipped.
LEMMA QueryMeant ==
    ASSUME select \in Selection, Followed, NEW e
    PROVE  (\A c \in Query(select, select.sT, select.sP) : Holds(c, e)) <=> Chosen(e)
<1>1. CASE select.samplelist # <<>>
  <2>1. Query(select, select.sT, select.sP) = SampleListClause(select.samplelist)
    BY <1>1 DEF Query
  <2>2. select.samplelist[1].DS # NoName
    BY <1>1 DEF Followed
  <2> QED
    BY <1>1, <2>1, <2>2, SampleListMeant
<1>2. CASE select.samplelist = <<>>
  <2> DEFINE Q1 == DatasetClause(select)
             Q2 == Names("expdataset", "nin", select.skipdatasets)
             Q3 == Names("sample", "in", select.usesamples)
             Q4 == Names("sample", "nin", select.skipsamples)
             Q5 == Values("sT", select.sT)
             Q6 == Values("sP", select.sP)
             Q7 == PairClause(select.usepairs)
  <2>1. Query(select, select.sT, select.sP) =
            Q1 \cup Q2 \cup Q3 \cup Q4 \cup Q5 \cup Q6 \cup Q7
    BY <1>2 DEF Query
  <2>2. /\ select.skipdatasets \in Seq(Name) /\ select.usesamples \in Seq(Name)
        /\ select.skipsamples \in Seq(Name)
    BY DEF Selection
  <2>3. /\ NoName \in ToSet(select.skipdatasets) => ToSet(select.skipdatasets) = {NoName}
        /\ NoName \in ToSet(select.usesamples) => ToSet(select.usesamples) = {NoName}
        /\ NoName \in ToSet(select.skipsamples) => ToSet(select.skipsamples) = {NoName}
    BY DEF Followed
  <2>4. (\A c \in Q1 : Holds(c, e))
            <=> (NamesIn(DatasetsUsed) # {} => e.expdataset \in NamesIn(DatasetsUsed))
    BY DatasetsMeant DEF Followed
  <2>5. e["expdataset"] = e.expdataset /\ e["sample"] = e.sample
    OBVIOUS
  <2>6. (\A c \in Q2 : Holds(c, e)) <=> e.expdataset \notin NamesIn(select.skipdatasets)
    BY <2>2, <2>3, <2>5, NamesMeant
  <2>7. (\A c \in Q3 : Holds(c, e))
            <=> (NamesIn(select.usesamples) # {} => e.sample \in NamesIn(select.usesamples))
    BY <2>2, <2>3, <2>5, NamesMeant
  <2>8. (\A c \in Q4 : Holds(c, e)) <=> e.sample \notin NamesIn(select.skipsamples)
    BY <2>2, <2>3, <2>5, NamesMeant
  <2>9. (\A c \in Q7 : Holds(c, e)) <=> (PairsUsed => Meant(select.usepairs, e))
    BY UsedPairsMeant DEF Followed
  <2>10. Chosen(e) <=>
             /\ NamesIn(DatasetsUsed) # {} => e.expdataset \in NamesIn(DatasetsUsed)
             /\ e.expdataset \notin NamesIn(select.skipdatasets)
             /\ NamesIn(select.usesamples) # {} => e.sample \in NamesIn(select.usesamples)
             /\ e.sample \notin NamesIn(select.skipsamples)
             /\ \A c \in Q5 \cup Q6 : Holds(c, e)
             /\ PairsUsed => Meant(select.usepairs, e)
    BY <1>2 DEF Chosen
  <2> HIDE DEF Q1, Q2, Q3, Q4, Q5, Q6, Q7
  <2>11. (\A c \in Query(select, select.sT, select.sP) : Holds(c, e)) <=>
             /\ \A c \in Q1 : Holds(c, e)
             /\ \A c \in Q2 : Holds(c, e)
             /\ \A c \in Q3 : Holds(c, e)
             /\ \A c \in Q4 : Holds(c, e)
             /\ \A c \in Q5 \cup Q6 : Holds(c, e)
             /\ \A c \in Q7 : Holds(c, e)
    BY <2>1
  <2> QED
    BY <2>4, <2>6, <2>7, <2>8, <2>9, <2>10, <2>11
<1> QED
    BY <1>1, <1>2

-----------------------------------------------------------------------------
(* What is listed, weighed and renamed.                                    *)

\* A list of a finite set has each of its elements once.
LEMMA ListedOnce ==
    ASSUME NEW S, IsFiniteSet(S), NEW s \in Listed(S)
    PROVE  /\ s \in Seq(S)
           /\ \A i, j \in 1..Len(s) : s[i] = s[j] => i = j
           /\ \A x \in S : \E i \in 1..Len(s) : s[i] = x
<1> DEFINE n == Cardinality(S)
<1>1. n \in Nat
    BY FS_CardinalityType
<1>2. s \in [1..n -> S] /\ \A i, j \in 1..n : i # j => s[i] # s[j]
    BY DEF Listed, SetToSeqs
<1> HIDE DEF n
<1>3. s \in Seq(S) /\ Len(s) = n
    BY <1>1, <1>2
<1>4. s \in Injection(1..n, S)
    BY <1>2 DEF Injection, IsInjective
<1>5. IsFiniteSet(1..n) /\ Cardinality(1..n) = n
    BY <1>1, FS_Interval
<1>6. s \in Surjection(1..n, S)
    BY <1>4, <1>5, FS_Injection DEF n
<1>7. \A x \in S : \E i \in 1..n : s[i] = x
    BY <1>6 DEF Surjection
<1> QED
    BY <1>2, <1>3, <1>7

\* Only the weight is changed.
LEMMA WeighedTyped ==
    ASSUME select \in Selection, NEW e \in Experiment
    PROVE  /\ Weighed(e) \in Experiment
           /\ Weighed(e).id = e.id /\ Weighed(e).sample = e.sample
           /\ Weighed(e).expdataset = e.expdataset
<1> DEFINE S == {x \in ToSet(select.samplelist) : x.SA = e.sample /\ x.DS = e.expdataset}
           D == {x \in ToSet(select.datasetlist) : x.DS = e.expdataset}
           ws == WeightBy(select.samplelist, S)
           wd == WeightBy(select.datasetlist, D)
<1>1. ws \in Int
  <2> DEFINE list == select.samplelist
             Given == [SA : Name, DS : Name, WT : Int]
  <2>1. list \in Seq(Given)
    BY DEF Selection
  <2>2. \A g \in Given : g.WT \in Int
    OBVIOUS
  <2> HIDE DEF list, Given, S
  <2>3. Len(list) \in Nat /\ \A k \in 1..Len(list) : list[k].WT \in Int
    BY <2>1, <2>2
  <2>4. PICK f \in [0..Len(list) -> Int] : WeightBy(list, S) = f[Len(list)]
    BY <2>3, WeightLoop
  <2> QED
    BY <2>3, <2>4 DEF list
<1>2. wd \in Int
  <2> DEFINE list == select.datasetlist
             Given == [DS : Name, WT : Int]
  <2>1. list \in Seq(Given)
    BY DEF Selection
  <2>2. \A g \in Given : g.WT \in Int
    OBVIOUS
  <2> HIDE DEF list, Given, D
  <2>3. Len(list) \in Nat /\ \A k \in 1..Len(list) : list[k].WT \in Int
    BY <2>1, <2>2
  <2>4. PICK f \in [0..Len(list) -> Int] : WeightBy(list, D) = f[Len(list)]
    BY <2>3, WeightLoop
  <2> QED
    BY <2>3, <2>4 DEF list
<1>3. Weighed(e) = [e EXCEPT !.weight = @ * ws * wd]
    BY DEF Weighed
<1> HIDE DEF ws, wd
<1>4. e.weight * ws * wd \in Int
    BY <1>1, <1>2 DEF Experiment
<1> QED
    BY <1>3, <1>4 DEF Experiment

\* There are no more temperatures and pressures than experiments.
LEMMA DistinctTPShort ==
    ASSUME NEW list \in Seq(Experiment)
    PROVE  /\ DistinctTP(list) \in Seq(Int \X Int)
           /\ Len(DistinctTP(list)) <= Len(list)
<1>1. PICK f \in [0..Len(list) -> Seq(Int \X Int)] :
          /\ DistinctTP(list) = f[Len(list)]
          /\ f[0] = <<>>
          /\ \A k \in 1..Len(list) :
                f[k] = IF IsAlone(list, k) \/ IsNewIn(f[k - 1], list[k])
                       THEN Append(f[k - 1], TP(list[k])) ELSE f[k - 1]
    BY DistinctTPLoop
<1> DEFINE n == Len(list)
           Good == {k \in 0..n : Len(f[k]) <= k}
<1>2. 0 \in Good
    BY <1>1
<1>3. ASSUME NEW k \in 1..n, k - 1 \in Good PROVE k \in Good
  <2> DEFINE old == f[k - 1]
  <2>1. k - 1 \in 0..n /\ k \in 0..n /\ old \in Seq(Int \X Int) /\ Len(old) <= k - 1
    BY <1>3
  <2>2. f[k] = old \/ f[k] = Append(old, TP(list[k]))
    BY <1>1
  <2> HIDE DEF old
  <2>3. Len(f[k]) <= k
    BY <2>1, <2>2
  <2> QED
    BY <2>1, <2>3
<1>4. n \in Nat /\ n = Len(list)
    OBVIOUS
<1> HIDE DEF Good, n
<1>5. \A k \in 0..n : k \in Good
    BY <1>2, <1>3, <1>4, InductionUpTo
<1>6. n \in Good /\ f[n] \in Seq(Int \X Int)
    BY <1>4, <1>5
<1> QED
    BY <1>1, <1>4, <1>6 DEF Good

\* A name stays a name, and ends up as no synonym if no synonym is the GEMS
\* name of an entry.
LEMMA RenamedSettles ==
    ASSUME NEW name \in STRING, NEW entries, Len(entries) \in Nat,
           DOMAIN entries = 1..Len(entries),
           \A k \in 1..Len(entries) : entries[k].GemsName \in STRING
    PROVE  /\ Renamed(name, entries) \in STRING
           /\ Plain(entries) => Settled(Renamed(name, entries), entries)
<1>1. PICK f \in [0..Len(entries) -> STRING] :
          /\ Renamed(name, entries) = f[Len(entries)]
          /\ f[0] = name
          /\ \A k \in 1..Len(entries) : f[k] = Rename(f[k - 1], entries[k])
    BY RenamedLoop
<1>2. Renamed(name, entries) \in STRING
    BY <1>1
<1>3. ASSUME Plain(entries) PROVE Settled(Renamed(name, entries), entries)
  <2> DEFINE n == Len(entries)
             Good == {k \in 0..n : \A i \in 1..k : f[k] \notin ToSet(entries[i].syn)}
  <2>1. 0 \in Good
      OBVIOUS
  <2>2. ASSUME NEW k \in 1..n, k - 1 \in Good PROVE k \in Good
    <3>1. \A i \in 1..(k - 1) : f[k - 1] \notin ToSet(entries[i].syn)
      BY <2>2
    <3>2. f[k] = Rename(f[k - 1], entries[k]) /\ k \in 0..n
      BY <1>1
    <3>3. \A i \in 1..k : i \in 1..(k - 1) \/ i = k
      OBVIOUS
    <3>4. CASE f[k - 1] \in ToSet(entries[k].syn)
      <4>1. f[k] = entries[k].GemsName
        BY <3>2, <3>4 DEF Rename
      <4>2. \A i \in 1..k : entries[k].GemsName \notin ToSet(entries[i].syn)
        BY <1>3 DEF Plain
      <4> QED
        BY <3>2, <4>1, <4>2
    <3>5. CASE f[k - 1] \notin ToSet(entries[k].syn)
      <4>1. f[k] = f[k - 1]
        BY <3>2, <3>5 DEF Rename
      <4>2. \A i \in 1..k : f[k] \notin ToSet(entries[i].syn)
        BY <3>1, <3>3, <3>5, <4>1
      <4> QED
        BY <3>2, <4>2
    <3> QED
      BY <3>4, <3>5
  <2>3. n \in Nat /\ n = Len(entries)
      OBVIOUS
  <2> HIDE DEF Good, n
  <2>4. \A k \in 0..n : k \in Good
      BY <2>1, <2>2, <2>3, InductionUpTo
  <2>5. n \in Good
      BY <2>3, <2>4
  <2> QED
      BY <1>1, <2>3, <2>5 DEF Good, Settled
<1> QED
    BY <1>2, <1>3

\* Each component is renamed for itself.
LEMMA ComponentsTyped ==
    ASSUME NEW dcs \in Seq(Component), NEW entries \in Seq(Synonym)
    PROVE  /\ ComponentsRenamed(dcs, entries) \in Seq(Component)
           /\ Plain(entries) =>
                 \A d \in DOMAIN ComponentsRenamed(dcs, entries) :
                     Settled(ComponentsRenamed(dcs, entries)[d].DC, entries)
<1>1. /\ Len(entries) \in Nat /\ DOMAIN entries = 1..Len(entries)
      /\ \A k \in 1..Len(entries) : entries[k].GemsName \in STRING
  <2>1. \A k \in 1..Len(entries) : entries[k] \in Synonym
    OBVIOUS
  <2> QED
    BY <2>1 DEF Synonym
<1> DEFINE new == ComponentsRenamed(dcs, entries)
<1>2. Len(dcs) \in Nat /\ DOMAIN dcs = 1..Len(dcs) /\ \A d \in 1..Len(dcs) : dcs[d] \in Component
    OBVIOUS
<1>3. new = [d \in 1..Len(dcs) |-> [dcs[d] EXCEPT !.DC = Renamed(@, entries)]]
    BY <1>2 DEF ComponentsRenamed
<1> HIDE DEF new
<1>4. ASSUME NEW d \in 1..Len(dcs)
      PROVE  /\ new[d] \in Component
             /\ Plain(entries) => Settled(new[d].DC, entries)
  <2> DEFINE c == dcs[d]
             r == Renamed(c.DC, entries)
  <2>1. c \in Component /\ c.DC \in STRING
    BY <1>2 DEF Component
  <2>2. new[d] = [c EXCEPT !.DC = r]
    BY <1>3
  <2>3. r \in STRING /\ (Plain(entries) => Settled(r, entries))
    BY <1>1, <2>1, RenamedSettles
  <2> HIDE DEF c, r
  <2>4. new[d] \in Component /\ new[d].DC = r
    BY <2>1, <2>2, <2>3 DEF Component
  <2> QED
    BY <2>3, <2>4
<1>5. DOMAIN new = 1..Len(dcs) /\ new = [d \in 1..Len(dcs) |-> new[d]]
    BY <1>3
<1>6. new \in [1..Len(dcs) -> Component]
    BY <1>4, <1>5
<1>7. new \in Seq(Component)
    BY <1>2, <1>6
<1> QED
    BY <1>4, <1>5, <1>7 DEF new

\* One entry leaves a phase a phase.
LEMMA PhaseTyped ==
    ASSUME NEW ph \in Phase, NEW s \in PhaseSynonym
    PROVE  PhaseRenamed(ph, s) \in Phase
<1> DEFINE dcs == IF Rename(ph.phase, s) = s.GemsName
                  THEN ComponentsRenamed(ph.phDC, s.SynDCs) ELSE ph.phDC
           name == Rename(ph.phase, s)
<1>1. ph.phDC \in Seq(Component) /\ ph.phase \in STRING
    BY DEF Phase
<1>2. s.SynDCs \in Seq(Synonym) /\ s.GemsName \in STRING
    BY DEF PhaseSynonym
<1>3. dcs \in Seq(Component) /\ name \in STRING
    BY <1>1, <1>2, ComponentsTyped DEF Rename
<1>4. PhaseRenamed(ph, s) = [ph EXCEPT !.phase = name, !.phDC = dcs]
    BY DEF PhaseRenamed
<1> HIDE DEF dcs, name
<1> QED
    BY <1>3, <1>4 DEF Phase

\* The entries for phases in turn.
LEMMA PhasesLoop ==
    ASSUME NEW ph \in Phase, syn \in DataSyn
    PROVE  \E f \in [0..Len(syn.SynPHs) -> Phase] :
              /\ PhasesRenamed(ph) = f[Len(syn.SynPHs)]
              /\ f[0] = ph
              /\ \A k \in 1..Len(syn.SynPHs) :
                    f[k] = PhaseRenamed(f[k - 1], syn.SynPHs[k])
<1> DEFINE n == Len(syn.SynPHs)
           After(v, k) == PhaseRenamed(v, syn.SynPHs[k])
           Step == [k \in 1..n |-> [v \in Phase |-> After(v, k)]]
           f[k \in 0..Len(syn.SynPHs)] ==
              IF k = 0 THEN ph ELSE PhaseRenamed(f[k - 1], syn.SynPHs[k])
<1>1. n \in Nat
    OBVIOUS
<1>2. \A k \in 1..n, v \in Phase : After(v, k) \in Phase
    BY PhaseTyped DEF DataSyn
<1>3. ph \in Phase
    OBVIOUS
<1>4. PICK g \in [0..n -> Phase] : Recursive(g, n, ph, Step)
  <2>1. Step \in [1..n -> [Phase -> Phase]]
    BY <1>2
  <2> HIDE DEF Step, n
  <2> QED
    BY <1>1, <1>3, <2>1, RecursionUpTo
<1>5. g = [k \in 0..n |-> IF k = 0 THEN ph ELSE After(g[k - 1], k)]
  <2>1. \A k \in 1..n, v \in Phase : Step[k][v] = After(v, k)
    OBVIOUS
  <2> HIDE DEF Step, After, n
  <2>2. \A k \in 0..n : g[k] = IF k = 0 THEN ph ELSE Step[k][g[k - 1]]
    BY <1>4 DEF Recursive
  <2>3. \A k \in 1..n : k - 1 \in 0..n /\ k \in 0..n /\ k # 0
    BY <1>1
  <2>4. \A k \in 1..n : g[k] = After(g[k - 1], k)
    BY <2>1, <2>2, <2>3
  <2>5. 0 \in 0..n /\ \A k \in 0..n : k # 0 => k \in 1..n
    BY <1>1
  <2> QED
    BY <2>2, <2>4, <2>5
<1>6. f = [k \in 0..n |-> IF k = 0 THEN ph ELSE After(f[k - 1], k)]
    BY <1>5
<1>7. PhasesRenamed(ph) = f[n]
    BY DEF PhasesRenamed
<1>8. \A k, v : After(v, k) = PhaseRenamed(v, syn.SynPHs[k])
    OBVIOUS
<1> HIDE DEF f, After
<1>9. f[0] = ph /\ \A k \in 1..n : f[k] = After(f[k - 1], k)
  <2> HIDE DEF n
  <2>1. 0 \in 0..n /\ \A k \in 1..n : k \in 0..n /\ k # 0
    BY <1>1
  <2> QED
    BY <1>6, <2>1, Zenon
<1>10. \A k \in 0..n : f[k] \in Phase
  <2>1. \A k \in 1..n : f[k - 1] \in Phase => f[k] \in Phase
    BY <1>2, <1>9
  <2> HIDE DEF n
  <2> QED
    BY <1>1, <1>3, <1>9, <2>1, LoopStays
<1> QED
    BY <1>6, <1>7, <1>8, <1>9, <1>10

\* A phase ends up with no synonym for its name, and with none of its own
\* synonyms for a component, however many entries it has passed.
PhaseSettled(ph, entries) ==
    Plain(entries) =>
        /\ Settled(ph.phase, entries)
        /\ \A s \in ToSet(entries), d \in DOMAIN ph.phDC :
              s.GemsName = ph.phase /\ Plain(s.SynDCs) => Settled(ph.phDC[d].DC, s.SynDCs)

LEMMA PhasesSettle ==
    ASSUME NEW ph \in Phase, syn \in DataSyn
    PROVE  PhasesRenamed(ph) \in Phase /\ PhaseSettled(PhasesRenamed(ph), syn.SynPHs)
<1> DEFINE entries == syn.SynPHs
           n == Len(entries)
<1>1. entries \in Seq(PhaseSynonym) /\ n \in Nat /\ DOMAIN entries = 1..n
    BY DEF DataSyn
<1>2. PICK f \in [0..n -> Phase] :
          /\ PhasesRenamed(ph) = f[n]
          /\ f[0] = ph
          /\ \A k \in 1..n : f[k] = PhaseRenamed(f[k - 1], entries[k])
    BY PhasesLoop
<1> HIDE DEF entries
<1>3. PhasesRenamed(ph) \in Phase
    BY <1>1, <1>2
<1>4. ASSUME Plain(entries) PROVE PhaseSettled(f[n], entries)
  <2> DEFINE NameFree(k) == \A i \in 1..k : f[k].phase \notin ToSet(entries[i].syn)
             DCsFree(k) == \A i \in 1..k :
                 entries[i].GemsName = f[k].phase /\ Plain(entries[i].SynDCs) =>
                     \A d \in DOMAIN f[k].phDC : Settled(f[k].phDC[d].DC, entries[i].SynDCs)
             Good == {k \in 0..n : NameFree(k) /\ DCsFree(k)}
  <2>1. 0 \in Good
    BY <1>1
  <2>2. ASSUME NEW k \in 1..n, k - 1 \in Good PROVE k \in Good
    <3> DEFINE old == f[k - 1]
               new == f[k]
               s == entries[k]
    <3>1. k - 1 \in 0..n /\ k \in 0..n /\ old \in Phase /\ s \in PhaseSynonym
      BY <1>1
    <3>2. NameFree(k - 1) /\ DCsFree(k - 1)
      BY <2>2
    <3>3. new = PhaseRenamed(old, s)
      BY <1>2
    <3>4. /\ new.phase = Rename(old.phase, s)
          /\ Rename(old.phase, s) = s.GemsName => new.phDC = ComponentsRenamed(old.phDC, s.SynDCs)
          /\ Rename(old.phase, s) # s.GemsName => new.phDC = old.phDC
      <4> HIDE DEF old, new, s
      <4> QED
        BY <3>1, <3>3 DEF PhaseRenamed, Phase
    <3>5. \A i \in 1..k : i \in 1..(k - 1) \/ i = k
      OBVIOUS
    <3>6. \A i \in 1..k : s.GemsName \notin ToSet(entries[i].syn)
      BY <1>1, <1>4 DEF Plain
    <3>7. NameFree(k)
      <4>1. CASE old.phase \in ToSet(s.syn)
        <5>1. new.phase = s.GemsName
          BY <3>4, <4>1 DEF Rename
        <5> QED
          BY <3>6, <5>1
      <4>2. CASE old.phase \notin ToSet(s.syn)
        <5>1. new.phase = old.phase
          BY <3>4, <4>2 DEF Rename
        <5> QED
          BY <3>2, <3>5, <4>2, <5>1
      <4> QED
        BY <4>1, <4>2
    <3>8. DCsFree(k)
      <4> SUFFICES ASSUME NEW i \in 1..k, entries[i].GemsName = new.phase,
                          Plain(entries[i].SynDCs), NEW d \in DOMAIN new.phDC
                   PROVE  Settled(new.phDC[d].DC, entries[i].SynDCs)
        OBVIOUS
      <4>1. CASE new.phase = s.GemsName
        <5>1. i = k
          <6>1. i \in DOMAIN entries /\ k \in DOMAIN entries
            BY <1>1
          <6> QED
            BY <1>4, <4>1, <6>1 DEF Plain
        <5>2. new.phDC = ComponentsRenamed(old.phDC, s.SynDCs)
          BY <3>4, <4>1
        <5>3. old.phDC \in Seq(Component) /\ s.SynDCs \in Seq(Synonym)
          BY <3>1 DEF Phase, PhaseSynonym
        <5> HIDE DEF old, new
        <5> QED
          BY <5>1, <5>2, <5>3, ComponentsTyped
      <4>2. CASE new.phase # s.GemsName
        <5>1. new.phDC = old.phDC
          BY <3>4, <4>2
        <5>2. new.phase = old.phase
          BY <3>4, <4>2 DEF Rename
        <5>3. i \in 1..(k - 1)
          BY <3>5, <4>2
        <5> QED
          BY <3>2, <5>1, <5>2, <5>3
      <4> QED
        BY <4>1, <4>2
    <3> HIDE DEF NameFree, DCsFree
    <3> QED
      BY <3>1, <3>7, <3>8
  <2> HIDE DEF Good, n
  <2>3. \A k \in 0..n : k \in Good
    BY <1>1, <2>1, <2>2, InductionUpTo
  <2>4. n \in Good
    BY <1>1, <2>3
  <2>5. NameFree(n) /\ DCsFree(n)
    BY <2>4 DEF Good
  <2>6. Settled(f[n].phase, entries)
    BY <1>1, <2>5 DEF Settled
  <2>7. \A s \in ToSet(entries) : \E i \in 1..n : s = entries[i]
    BY <1>1 DEF ToSet
  <2>8. \A s \in ToSet(entries), d \in DOMAIN f[n].phDC :
            s.GemsName = f[n].phase /\ Plain(s.SynDCs) => Settled(f[n].phDC[d].DC, s.SynDCs)
    BY <2>5, <2>7
  <2> QED
    BY <2>6, <2>8 DEF PhaseSettled
<1>5. PhaseSettled(f[n], entries)
    BY <1>4 DEF PhaseSettled
<1> QED
    BY <1>2, <1>3, <1>5 DEF entries

\* Properties are renamed in what the names have become.
LEMMA ResolvedSettles ==
    ASSUME NEW ph \in Phase, syn \in DataSyn
    PROVE  Resolved(ph) \in Phase /\ PhaseSettled(Resolved(ph), syn.SynPHs)
<1> DEFINE old == PhasesRenamed(ph)
           new == Resolved(ph)
           dcs == [d \in DOMAIN old.phDC |->
                      [old.phDC[d] EXCEPT !.DCprop = Renamed(@, syn.SynDCPs)]]
           prop == Renamed(old.phprop, syn.SynPHPs)
<1>1. old \in Phase /\ PhaseSettled(old, syn.SynPHs)
    BY PhasesSettle
<1>2. new = [old EXCEPT !.phDC = dcs, !.phprop = prop]
    BY DEF Resolved, PropertiesRenamed
<1> HIDE DEF old, new
<1>3. old.phDC \in Seq(Component) /\ old.phprop \in STRING
    BY <1>1 DEF Phase
<1>4. ASSUME NEW entries \in Seq(Synonym), NEW name \in STRING
      PROVE  Renamed(name, entries) \in STRING
  <2>1. \A k \in 1..Len(entries) : entries[k] \in Synonym
    OBVIOUS
  <2>2. \A k \in 1..Len(entries) : entries[k].GemsName \in STRING
    BY <2>1 DEF Synonym
  <2>3. Len(entries) \in Nat /\ DOMAIN entries = 1..Len(entries)
    OBVIOUS
  <2> QED
    BY <2>2, <2>3, RenamedSettles
<1>5. syn.SynDCPs \in Seq(Synonym) /\ syn.SynPHPs \in Seq(Synonym)
    BY DEF DataSyn
<1>6. prop \in STRING
    BY <1>3, <1>4, <1>5
<1>7. dcs \in Seq(Component) /\ DOMAIN dcs = DOMAIN old.phDC
      /\ \A d \in DOMAIN dcs : dcs[d].DC = old.phDC[d].DC
  <2> DEFINE n == Len(old.phDC)
  <2>1. n \in Nat /\ DOMAIN old.phDC = 1..n /\ \A d \in 1..n : old.phDC[d] \in Component
    BY <1>3
  <2> HIDE DEF n
  <2>2. ASSUME NEW d \in 1..n
        PROVE  dcs[d] \in Component /\ dcs[d].DC = old.phDC[d].DC
    <3> DEFINE c == old.phDC[d]
               r == Renamed(c.DCprop, syn.SynDCPs)
    <3>1. c \in Component /\ c.DCprop \in STRING
      BY <2>1 DEF Component
    <3>2. r \in STRING
      BY <1>4, <1>5, <3>1
    <3>3. dcs[d] = [c EXCEPT !.DCprop = r]
      BY <2>1
    <3> HIDE DEF c, r, dcs
    <3>4. dcs[d] \in Component /\ dcs[d].DC = c.DC
      BY <3>1, <3>2, <3>3 DEF Component
    <3> QED
      BY <3>4 DEF c
  <2>3. DOMAIN dcs = 1..n /\ dcs = [d \in 1..n |-> dcs[d]]
    BY <2>1
  <2> HIDE DEF dcs
  <2>4. dcs \in [1..n -> Component]
    BY <2>2, <2>3
  <2> QED
    BY <2>1, <2>2, <2>3, <2>4
<1> HIDE DEF dcs, prop
<1>8. new \in Phase /\ new.phase = old.phase /\ new.phDC = dcs
    BY <1>1, <1>2, <1>6, <1>7 DEF Phase
<1>9. PhaseSettled(new, syn.SynPHs)
    BY <1>1, <1>7, <1>8 DEF PhaseSettled
<1> QED
    BY <1>8, <1>9 DEF new

-----------------------------------------------------------------------------
(* The invariants.                                                         *)

\* An experiment as it is loaded, and the one in the database.
CopyOf(e, d) == e.id = d.id /\ e.sample = d.sample /\ e.expdataset = d.expdataset

\* The list has each experiment of S once, and no other.
Are(list, S) ==
    /\ OneEach(list)
    /\ \A i \in DOMAIN list : \E d \in S : CopyOf(list[i], d)
    /\ \A d \in S : \E i \in DOMAIN list : CopyOf(list[i], d)

\* What the stages add to the types: nothing is listed before its stage.
StagesInv ==
    /\ TP_pairs \in Seq(Int \X Int)
    /\ stage \in {"select", "query", "weigh", "skip", "TP", "stopped"} => TP_pairs = <<>>
    /\ stage \in {"select", "query", "stopped"} => experiments = <<>>
    /\ stage # "done" => factor = [objfun |-> <<>>, nestfun |-> <<>>]

\* What the query is and what the experiments are until they are loaded.
SelectionInv ==
    Followed /\ DistinctKeys =>
        /\ stage = "query" => query = Query(select, select.sT, select.sP)
        /\ stage \in {"weigh", "skip"} => Are(experiments, {d \in docs : Chosen(d)})
        /\ Loaded => Are(experiments, {d \in docs : IsMeant(d)})

\* Every phase of every experiment is settled once check_Syn has been.
NamesInv ==
    stage \in {"factors", "done"} =>
        \A i \in DOMAIN experiments : \A p \in DOMAIN experiments[i].expphases :
            PhaseSettled(experiments[i].expphases[p], syn.SynPHs)

LoadInv == LoadTypeOK /\ StagesInv /\ SelectionInv /\ NamesInv

\* What the constants are.
LEMMA TaskTyped ==
    ASSUME LoadTypeOK
    PROVE  /\ select \in Selection /\ syn \in DataSyn /\ IsFiniteSet(docs)
           /\ \A d \in docs : d \in Experiment
           /\ \A d, e \in docs : d.id = e.id => d = e
    BY DataLoadConstants DEF LoadTypeOK

\* IsMeant is what the query sees to and what skipping does.
LEMMA MeantParts == \A e : IsMeant(e) <=> ~Meant(select.skippairs, e) /\ Chosen(e)
    BY DEF IsMeant, Chosen

\* The task does not change.
LEMMA TaskKept ==
    ASSUME UNCHANGED task
    PROVE  /\ docs' = docs /\ select' = select /\ syn' = syn /\ OptUserWeight' = OptUserWeight
           /\ Followed' <=> Followed
           /\ DistinctKeys' <=> DistinctKeys
           /\ \A e : Chosen(e)' <=> Chosen(e)
           /\ \A e : IsMeant(e)' <=> IsMeant(e)
<1>1. docs' = docs /\ select' = select /\ syn' = syn /\ OptUserWeight' = OptUserWeight
    BY DEF task
<1>2. PairsUsed' <=> PairsUsed
    BY <1>1 DEF PairsUsed
<1>3. DatasetsUsed' = DatasetsUsed
    BY <1>1 DEF DatasetsUsed
<1>4. Followed' <=> Followed
    BY <1>1, <1>2, <1>3 DEF Followed
<1>5. DistinctKeys' <=> DistinctKeys
    BY <1>1 DEF DistinctKeys
<1>6. \A e : Chosen(e)' <=> Chosen(e)
    BY <1>1, <1>2, <1>3 DEF Chosen
<1>7. \A e : IsMeant(e)' <=> IsMeant(e)
    BY <1>1, <1>2, <1>3 DEF IsMeant
<1> QED
    BY <1>1, <1>4, <1>5, <1>6, <1>7

\* A list that differs only in what is no part of the key.
LEMMA AreKept ==
    ASSUME NEW list, NEW new, NEW S, DOMAIN new = DOMAIN list, Are(list, S),
           \A i \in DOMAIN list : CopyOf(new[i], list[i])
    PROVE  Are(new, S)
    BY DEF Are, CopyOf, OneEach

\* Skipping pairs leaves what is not meant to be skipped.
LEMMA AreSkipped ==
    ASSUME select \in Selection, Followed, NEW list \in Seq(Experiment), NEW S, Are(list, S)
    PROVE  Are(Skipped(list), {d \in S : ~Meant(select.skippairs, d)})
<1> DEFINE pairs == select.skippairs
           left == Skipped(list)
           Q == {SkippedPairs[m] : m \in 1..Len(SkippedPairs)}
<1>1. pairs \in Seq(Pair)
    BY DEF Selection
<1>2. \A k \in 1..Len(pairs) : /\ Len(pairs[k].datasets) = 1
                               /\ NoName \notin ToSet(pairs[k].datasets)
                               /\ NoName \notin ToSet(pairs[k].samples)
    BY <1>1 DEF Followed
<1>3. \A e : (\A p \in Q : ~IsPair(e, p)) <=> ~Meant(pairs, e)
  <2> TAKE e
  <2>1. (\E m \in 1..Len(SkippedPairs) : IsPair(e, SkippedPairs[m])) <=> Meant(pairs, e)
    BY <1>1, <1>2, SkippedPairsMeant DEF SkippedPairs
  <2> QED
    BY <2>1
<1>4. OneEach(list)
    BY DEF Are
<1>5. CASE pairs = <<>>
  <2>1. AllOf(pairs, "datasets") = <<>>
    <3>1. /\ AllOf(pairs, "datasets") \in Seq(Name)
          /\ Len(AllOf(pairs, "datasets")) = Len(pairs)
      <4> HIDE DEF pairs
      <4> QED
        BY <1>1, <1>2, AllOfOnes
    <3> QED
      BY <1>5, <3>1
  <2>2. left = list
    BY <2>1 DEF Skipped, Named
  <2>3. \A e : ~Meant(pairs, e)
    BY <1>5 DEF Meant
  <2>4. {d \in S : ~Meant(pairs, d)} = S
    BY <2>3
  <2> QED
    BY <2>2, <2>4
<1>6. CASE pairs # <<>>
  <2>1. Named(AllOf(pairs, "datasets"))
    <3> DEFINE D == AllOf(pairs, "datasets")
    <3>1. /\ D \in Seq(Name) /\ Len(D) = Len(pairs)
          /\ \A k \in 1..Len(pairs) : D[k] = pairs[k].datasets[1]
      <4> HIDE DEF pairs
      <4> QED
        BY <1>1, <1>2, AllOfOnes
    <3>2. 1 \in 1..Len(pairs)
      BY <1>1, <1>6
    <3> HIDE DEF D, pairs
    <3>3. D[1] = pairs[1].datasets[1] /\ D # <<>>
      BY <3>1, <3>2
    <3>4. pairs[1].datasets \in Seq(Name) /\ Len(pairs[1].datasets) = 1
      BY <1>1, <1>2, <3>2, FieldTyped
    <3>5. pairs[1].datasets[1] \in ToSet(pairs[1].datasets)
      BY <3>4 DEF ToSet
    <3>6. D[1] # NoName
      BY <1>2, <3>2, <3>3, <3>5
    <3>7. Named(D)
      BY <3>3, <3>6 DEF Named
    <3> QED
      BY <3>7 DEF D
  <2>2. left = Without(list, SkippedPairs)
    BY <2>1 DEF Skipped
  <2>3. Len(SkippedPairs) \in Nat
    <3> DEFINE D == AllOf(pairs, "datasets")
               R == SkippedSamples(pairs)
    <3>1. D \in Seq(Name) /\ R \in Seq(Name)
      <4> HIDE DEF pairs
      <4> QED
        BY <1>1, <1>2, AllOfOnes, SkippedSamplesTurn DEF Turns
    <3>2. SkippedPairs = Paired(D, R)
      BY DEF SkippedPairs
    <3> HIDE DEF D, R
    <3>3. SkippedPairs \in Seq(Key)
      BY <3>1, <3>2, PairedMatches
    <3> QED
      BY <3>3
  <2>4. OneEach(left) /\ KeepsRest(list, left, Q)
    BY <1>4, <2>2, <2>3, WithoutMatches
  <2>5. left \in Seq(Experiment)
    BY <2>2, <2>3, WithoutTyped
  <2> HIDE DEF left, Q, pairs
  <2>6. DOMAIN left = 1..Len(left) /\ DOMAIN list = 1..Len(list)
    BY <2>5
  <2>7. \A d, e : CopyOf(e, d) => (Meant(pairs, e) <=> Meant(pairs, d))
    BY DEF CopyOf, Meant
  <2>8. ASSUME NEW j \in 1..Len(left)
        PROVE  \E d \in S : ~Meant(pairs, d) /\ CopyOf(left[j], d)
    <3>1. PICK i \in 1..Len(list) : left[j] = list[i] /\ \A p \in Q : ~IsPair(list[i], p)
      BY <2>4 DEF KeepsRest
    <3>2. PICK d \in S : CopyOf(list[i], d)
      BY <2>6 DEF Are
    <3> QED
      BY <1>3, <2>7, <3>1, <3>2
  <2>9. ASSUME NEW d \in S, ~Meant(pairs, d)
        PROVE  \E j \in 1..Len(left) : CopyOf(left[j], d)
    <3>1. PICK i \in 1..Len(list) : CopyOf(list[i], d)
      BY <2>6 DEF Are
    <3>2. \A p \in Q : ~IsPair(list[i], p)
      BY <1>3, <2>7, <2>9, <3>1
    <3>3. PICK j \in 1..Len(left) : left[j] = list[i]
      BY <2>4, <3>2 DEF KeepsRest
    <3> QED
      BY <3>1, <3>3
  <2>10. Are(left, {d \in S : ~Meant(pairs, d)})
    BY <2>4, <2>6, <2>8, <2>9 DEF Are
  <2> QED
    BY <2>10 DEF left, pairs
<1> QED
    BY <1>5, <1>6

\* The part of the type invariant that is about the task and the stage.
LEMMA PassTyped ==
    ASSUME LoadTypeOK, NEW from, NEW to \in LoadStages, Pass(from, to)
    PROVE  /\ docs' \in Collections /\ select' \in Selections /\ syn' \in Synonyms
           /\ OptUserWeight' \in BOOLEAN /\ stage' \in LoadStages
           /\ docs' = docs /\ select' = select /\ syn' = syn
           /\ stage = from /\ stage' = to
    BY DEF LoadTypeOK, Pass, task

\* Before anything is loaded.
THEOREM LoadInitInv == LoadInit => LoadInv
<1> SUFFICES ASSUME LoadInit PROVE LoadInv
    OBVIOUS
<1>1. LoadTypeOK
  <2>1. experiments = <<>> /\ TP_pairs = <<>> /\ factor = [objfun |-> <<>>, nestfun |-> <<>>]
    BY DEF LoadInit
  <2>2. experiments \in Seq(Experiment) /\ DOMAIN experiments = {}
    BY <2>1
  <2>3. Len(TP_pairs) <= Len(experiments)
    BY <2>1
  <2>4. factor.objfun = <<>> /\ factor.nestfun = <<>>
    BY <2>1
  <2>5. stage \in LoadStages /\ h_datasetlist \in BOOLEAN
    BY DEF LoadInit, LoadStages
  <2> QED
    BY <2>2, <2>3, <2>4, <2>5 DEF LoadInit, LoadTypeOK
<1>2. StagesInv
    BY DEF LoadInit, StagesInv
<1>3. SelectionInv
    BY DEF LoadInit, SelectionInv, Loaded
<1>4. NamesInv
    BY DEF LoadInit, NamesInv
<1> QED
    BY <1>1, <1>2, <1>3, <1>4 DEF LoadInv

\* The program gives up with nothing loaded.
LEMMA StoppedInv ==
    ASSUME LoadInv, NEW from \in {"select", "query"}, Pass(from, "stopped"),
           UNCHANGED <<query, h_datasetlist, experiments, TP_pairs, factor>>
    PROVE  LoadInv'
<1>1. LoadTypeOK /\ StagesInv
    BY DEF LoadInv
<1>2. "stopped" \in LoadStages
    BY DEF LoadStages
<1>3. /\ docs' \in Collections /\ select' \in Selections /\ syn' \in Synonyms
      /\ OptUserWeight' \in BOOLEAN /\ stage' \in LoadStages /\ docs' = docs
      /\ stage = from /\ stage' = "stopped"
    BY <1>1, <1>2, PassTyped
<1>4. LoadTypeOK'
    BY <1>1, <1>3 DEF LoadTypeOK
<1>5. StagesInv'
    BY <1>1, <1>3 DEF StagesInv
<1>6. SelectionInv'
    BY <1>3 DEF SelectionInv, Loaded
<1>7. NamesInv'
    BY <1>3 DEF NamesInv
<1> QED
    BY <1>4, <1>5, <1>6, <1>7 DEF LoadInv

LEMMA GenerateQueryInv == LoadInv /\ GenerateQuery => LoadInv'
<1> SUFFICES ASSUME LoadInv, GenerateQuery PROVE LoadInv'
    OBVIOUS
<1>1. LoadTypeOK /\ StagesInv
    BY DEF LoadInv
<1>2. Pass("select", "query") /\ "query" \in LoadStages
    BY DEF GenerateQuery, LoadStages
<1>3. /\ docs' \in Collections /\ select' \in Selections /\ syn' \in Synonyms
      /\ OptUserWeight' \in BOOLEAN /\ stage' \in LoadStages
      /\ docs' = docs /\ select' = select /\ stage = "select" /\ stage' = "query"
    BY <1>1, <1>2, PassTyped
<1>4. h_datasetlist' \in BOOLEAN
    BY DEF GenerateQuery, Weights
<1>5. LoadTypeOK'
    BY <1>1, <1>3, <1>4 DEF LoadTypeOK, GenerateQuery
<1>6. StagesInv'
    BY <1>1, <1>3 DEF StagesInv, GenerateQuery
<1>7. SelectionInv'
  <2>1. ASSUME Followed PROVE query' = Query(select, select.sT, select.sP)
    <3>1. NoNumber \notin ToSet(select.sT) /\ NoNumber \notin ToSet(select.sP)
      BY <2>1 DEF Followed
    <3>2. NoNumber \in ToSet(<<NoNumber>>)
      BY DEF ToSet
    <3>3. Numbers(select.sT) = {select.sT} /\ Numbers(select.sP) = {select.sP}
      BY <3>1, <3>2 DEF Numbers
    <3> QED
      BY <3>3 DEF GenerateQuery
  <2>2. Followed' <=> Followed
    BY <1>2, TaskKept DEF Pass
  <2> QED
    BY <1>3, <2>1, <2>2 DEF SelectionInv, Loaded
<1>8. NamesInv'
    BY <1>3 DEF NamesInv
<1> QED
    BY <1>5, <1>6, <1>7, <1>8 DEF LoadInv

\* What is read is selected, each experiment once.
LEMMA ReadExperimentsInv == LoadInv /\ ReadExperiments => LoadInv'
<1> SUFFICES ASSUME LoadInv, ReadExperiments PROVE LoadInv'
    OBVIOUS
<1>1. LoadTypeOK /\ StagesInv /\ SelectionInv
    BY DEF LoadInv
<1>2. Pass("query", "weigh") /\ "weigh" \in LoadStages
    BY DEF ReadExperiments, LoadStages
<1>3. /\ docs' \in Collections /\ select' \in Selections /\ syn' \in Synonyms
      /\ OptUserWeight' \in BOOLEAN /\ stage' \in LoadStages
      /\ docs' = docs /\ select' = select /\ stage = "query" /\ stage' = "weigh"
    BY <1>1, <1>2, PassTyped
<1> DEFINE S == {e \in docs : \A c \in query : Holds(c, e)}
<1>4. IsFiniteSet(S) /\ S \subseteq docs
    BY <1>1, TaskTyped, FS_Subset
<1>5. experiments' \in Listed(S)
    BY DEF ReadExperiments
<1> HIDE DEF S
<1>6. /\ experiments' \in Seq(S)
      /\ \A i, j \in 1..Len(experiments') : experiments'[i] = experiments'[j] => i = j
      /\ \A x \in S : \E i \in 1..Len(experiments') : experiments'[i] = x
    BY <1>4, <1>5, ListedOnce
<1>7. /\ DOMAIN experiments' = 1..Len(experiments') /\ Len(experiments') \in Nat
      /\ \A i \in DOMAIN experiments' : experiments'[i] \in S
    BY <1>6
<1>8. experiments' \in Seq(Experiment)
  <2>1. \A i \in 1..Len(experiments') : experiments'[i] \in Experiment
    BY <1>1, <1>4, <1>7, TaskTyped
  <2>2. experiments' = [i \in 1..Len(experiments') |-> experiments'[i]]
    BY <1>6
  <2>3. experiments' \in [1..Len(experiments') -> Experiment]
    BY <2>1, <2>2
  <2> QED
    BY <1>7, <2>3
<1>9. \A i \in DOMAIN experiments' : \E d \in docs : experiments'[i].id = d.id
    BY <1>4, <1>7
<1>10. LoadTypeOK'
  <2>1. /\ UNCHANGED <<h_datasetlist, TP_pairs, factor>>
        /\ TP_pairs = <<>> /\ factor.objfun = <<>>
    BY <1>1, <1>3 DEF ReadExperiments, StagesInv
  <2>2. Len(TP_pairs') <= Len(experiments')
    BY <1>7, <2>1
  <2> QED
    BY <1>1, <1>3, <1>8, <1>9, <2>1, <2>2 DEF LoadTypeOK
<1>11. StagesInv'
    BY <1>1, <1>3 DEF StagesInv, ReadExperiments
<1>12. SelectionInv'
  <2>1. ASSUME Followed, DistinctKeys PROVE Are(experiments', {d \in docs : Chosen(d)})
    <3>1. S = {d \in docs : Chosen(d)}
      <4>1. query = Query(select, select.sT, select.sP)
        BY <1>1, <1>3, <2>1 DEF SelectionInv
      <4>2. \A d : (\A c \in query : Holds(c, d)) <=> Chosen(d)
        BY <1>1, <2>1, <4>1, TaskTyped, QueryMeant
      <4> QED
        BY <4>2 DEF S
    <3>2. OneEach(experiments')
      BY <1>4, <1>6, <1>7, <2>1 DEF OneEach, DistinctKeys
    <3>3. \A d : CopyOf(d, d)
      BY DEF CopyOf
    <3>4. Are(experiments', S)
      BY <1>6, <1>7, <3>2, <3>3 DEF Are
    <3> QED
      BY <3>1, <3>4
  <2>2. /\ Followed' <=> Followed
        /\ DistinctKeys' <=> DistinctKeys
        /\ \A e : Chosen(e)' <=> Chosen(e)
    BY <1>2, TaskKept DEF Pass
  <2>3. {d \in docs : Chosen(d)}' = {d \in docs : Chosen(d)}
    BY <1>3, <2>2
  <2> QED
    BY <1>3, <2>1, <2>2, <2>3 DEF SelectionInv, Loaded
<1>13. NamesInv'
    BY <1>3 DEF NamesInv
<1> QED
    BY <1>10, <1>11, <1>12, <1>13 DEF LoadInv

\* Weights do not touch what an experiment is.
LEMMA WeighInv == LoadInv /\ Weigh => LoadInv'
<1> SUFFICES ASSUME LoadInv, Weigh PROVE LoadInv'
    OBVIOUS
<1>1. LoadTypeOK /\ StagesInv /\ SelectionInv
    BY DEF LoadInv
<1>2. Pass("weigh", "skip") /\ "skip" \in LoadStages
    BY DEF Weigh, LoadStages
<1>3. /\ docs' \in Collections /\ select' \in Selections /\ syn' \in Synonyms
      /\ OptUserWeight' \in BOOLEAN /\ stage' \in LoadStages
      /\ docs' = docs /\ select' = select /\ stage = "weigh" /\ stage' = "skip"
    BY <1>1, <1>2, PassTyped
<1>4. experiments' = [i \in DOMAIN experiments |-> Weighed(experiments[i])]
    BY DEF Weigh
<1>5. /\ experiments \in Seq(Experiment) /\ DOMAIN experiments = 1..Len(experiments)
      /\ Len(experiments) \in Nat /\ \A i \in DOMAIN experiments : experiments[i] \in Experiment
    BY <1>1 DEF LoadTypeOK
<1>6. \A i \in DOMAIN experiments :
          experiments'[i] \in Experiment /\ CopyOf(experiments'[i], experiments[i])
    BY <1>1, <1>4, <1>5, TaskTyped, WeighedTyped DEF CopyOf
<1>7. DOMAIN experiments' = DOMAIN experiments
    BY <1>4
<1>8. experiments' \in Seq(Experiment) /\ Len(experiments') = Len(experiments)
  <2>1. experiments' = [i \in 1..Len(experiments) |-> experiments'[i]]
    BY <1>4, <1>5
  <2>2. experiments' \in [1..Len(experiments) -> Experiment]
    BY <1>5, <1>6, <2>1
  <2> QED
    BY <1>5, <2>2
<1>9. \A i \in DOMAIN experiments' : \E d \in docs : experiments'[i].id = d.id
    BY <1>1, <1>6, <1>7 DEF LoadTypeOK, CopyOf
<1>10. LoadTypeOK'
  <2>1. UNCHANGED <<h_datasetlist, TP_pairs, factor>> /\ factor.objfun = <<>>
    BY <1>1, <1>3 DEF Weigh, StagesInv
  <2> QED
    BY <1>1, <1>3, <1>8, <1>9, <2>1 DEF LoadTypeOK
<1>11. StagesInv'
    BY <1>1, <1>3 DEF StagesInv, Weigh
<1>12. SelectionInv'
  <2>1. ASSUME Followed, DistinctKeys PROVE Are(experiments', {d \in docs : Chosen(d)})
    <3>1. Are(experiments, {d \in docs : Chosen(d)})
      BY <1>1, <1>3, <2>1 DEF SelectionInv
    <3> QED
      BY <1>6, <1>7, <3>1, AreKept
  <2>2. /\ Followed' <=> Followed
        /\ DistinctKeys' <=> DistinctKeys
        /\ \A e : Chosen(e)' <=> Chosen(e)
    BY <1>2, TaskKept DEF Pass
  <2>3. {d \in docs : Chosen(d)}' = {d \in docs : Chosen(d)}
    BY <1>3, <2>2
  <2> QED
    BY <1>3, <2>1, <2>2, <2>3 DEF SelectionInv, Loaded
<1>13. NamesInv'
    BY <1>3 DEF NamesInv
<1> QED
    BY <1>10, <1>11, <1>12, <1>13 DEF LoadInv

\* Lists of names in a row are a list of names.
LEMMA AllOfTyped ==
    ASSUME NEW rows, NEW field, Len(rows) \in Nat,
           \A k \in 1..Len(rows) : rows[k][field] \in Seq(Name)
    PROVE  AllOf(rows, field) \in Seq(Name)
<1>1. PICK f \in [0..Len(rows) -> Seq(Name)] : Joining(f, rows, field)
    BY AllOfLoop
<1>2. Len(rows) \in 0..Len(rows)
    OBVIOUS
<1> QED
    BY <1>1, <1>2 DEF Joining

\* So are the samples with an empty name after those of each element.
LEMMA SkippedSamplesTyped ==
    ASSUME NEW pairs \in Seq(Pair)
    PROVE  SkippedSamples(pairs) \in Seq(Name)
<1> DEFINE rows == [i \in DOMAIN pairs |-> [samples |-> Append(pairs[i].samples, NoName)]]
<1>1. Len(rows) = Len(pairs) /\ Len(pairs) \in Nat
    OBVIOUS
<1>2. ASSUME NEW k \in 1..Len(pairs) PROVE rows[k]["samples"] \in Seq(Name)
  <2>1. rows[k] = [samples |-> Append(pairs[k].samples, NoName)]
    <3>1. k \in DOMAIN pairs
      OBVIOUS
    <3> QED
      BY <3>1, Zenon
  <2>2. rows[k]["samples"] = Append(pairs[k].samples, NoName)
    BY <2>1
  <2>3. pairs[k].samples \in Seq(Name) /\ NoName \in Name
    BY FieldTyped DEF NoName, Name
  <2> QED
    BY <2>2, <2>3
<1>3. SkippedSamples(pairs) = AllOf(rows, "samples")
    BY DEF SkippedSamples
<1> HIDE DEF rows
<1> QED
    BY <1>1, <1>2, <1>3, AllOfTyped

\* What is left of a list is of the list.
LEMMA SkippedTyped ==
    ASSUME select \in Selection, NEW list \in Seq(Experiment)
    PROVE  /\ Skipped(list) \in Seq(Experiment)
           /\ \A j \in 1..Len(Skipped(list)) : \E i \in 1..Len(list) : Skipped(list)[j] = list[i]
<1> DEFINE pairs == select.skippairs
<1>1. pairs \in Seq(Pair)
    BY DEF Selection
<1>2. Len(SkippedPairs) \in Nat
  <2> DEFINE D == AllOf(pairs, "datasets")
             R == SkippedSamples(pairs)
  <2>1. D \in Seq(Name)
    <3>1. Len(pairs) \in Nat /\ \A k \in 1..Len(pairs) : pairs[k]["datasets"] \in Seq(Name)
      BY <1>1, FieldTyped
    <3> HIDE DEF pairs
    <3> QED
      BY <3>1, AllOfTyped
  <2>2. R \in Seq(Name)
    <3> HIDE DEF pairs
    <3> QED
      BY <1>1, SkippedSamplesTyped
  <2>3. SkippedPairs = Paired(D, R)
    BY DEF SkippedPairs
  <2> HIDE DEF D, R
  <2>4. SkippedPairs \in Seq(Key)
    BY <2>1, <2>2, <2>3, PairedMatches
  <2> QED
    BY <2>4
<1>3. CASE Named(AllOf(pairs, "datasets"))
  <2>1. Skipped(list) = Without(list, SkippedPairs)
    BY <1>3 DEF Skipped
  <2> DEFINE left == Without(list, SkippedPairs)
  <2>2. left \in Seq(Experiment)
    BY <1>2, WithoutTyped
  <2>3. \A j \in 1..Len(left) : \E i \in 1..Len(list) : left[j] = list[i]
    BY <1>2, WithoutTyped
  <2>4. Skipped(list) = left
    BY <2>1
  <2> HIDE DEF left
  <2> QED
    BY <2>2, <2>3, <2>4
<1>4. CASE ~Named(AllOf(pairs, "datasets"))
  <2>1. Skipped(list) = list
    BY <1>4 DEF Skipped
  <2> QED
    BY <2>1
<1> QED
    BY <1>3, <1>4

\* What is skipped is what is meant to be.
LEMMA SkipPairsInv == LoadInv /\ SkipPairs => LoadInv'
<1> SUFFICES ASSUME LoadInv, SkipPairs PROVE LoadInv'
    OBVIOUS
<1>1. LoadTypeOK /\ StagesInv /\ SelectionInv
    BY DEF LoadInv
<1>2. Pass("skip", "TP") /\ "TP" \in LoadStages
    BY DEF SkipPairs, LoadStages
<1>3. /\ docs' \in Collections /\ select' \in Selections /\ syn' \in Synonyms
      /\ OptUserWeight' \in BOOLEAN /\ stage' \in LoadStages
      /\ docs' = docs /\ select' = select /\ stage = "skip" /\ stage' = "TP"
    BY <1>1, <1>2, PassTyped
<1>4. experiments' = Skipped(experiments) /\ experiments \in Seq(Experiment)
    BY <1>1 DEF SkipPairs, LoadTypeOK
<1>5. select \in Selection
    BY <1>1, TaskTyped
<1>6. /\ experiments' \in Seq(Experiment)
      /\ \A j \in 1..Len(experiments') : \E i \in 1..Len(experiments) : experiments'[j] = experiments[i]
    BY <1>4, <1>5, SkippedTyped
<1>7. DOMAIN experiments' = 1..Len(experiments') /\ DOMAIN experiments = 1..Len(experiments)
    BY <1>4, <1>6
<1>8. \A i \in DOMAIN experiments' : \E d \in docs : experiments'[i].id = d.id
    BY <1>1, <1>6, <1>7 DEF LoadTypeOK
<1>9. LoadTypeOK'
  <2>1. /\ UNCHANGED <<h_datasetlist, TP_pairs, factor>>
        /\ TP_pairs = <<>> /\ factor.objfun = <<>>
    BY <1>1, <1>3 DEF SkipPairs, StagesInv
  <2>2. Len(TP_pairs') <= Len(experiments')
    BY <1>6, <2>1
  <2> QED
    BY <1>1, <1>3, <1>6, <1>8, <2>1, <2>2 DEF LoadTypeOK
<1>10. StagesInv'
    BY <1>1, <1>3 DEF StagesInv, SkipPairs
<1>11. SelectionInv'
  <2>1. ASSUME Followed, DistinctKeys PROVE Are(experiments', {d \in docs : IsMeant(d)})
    <3> DEFINE S == {d \in docs : Chosen(d)}
    <3>1. Are(experiments, S)
      BY <1>1, <1>3, <2>1 DEF SelectionInv
    <3>2. {d \in S : ~Meant(select.skippairs, d)} = {d \in docs : IsMeant(d)}
      BY MeantParts
    <3> HIDE DEF S
    <3>3. Are(experiments', {d \in S : ~Meant(select.skippairs, d)})
      BY <1>4, <1>5, <2>1, <3>1, AreSkipped
    <3> QED
      BY <3>2, <3>3
  <2>2. /\ Followed' <=> Followed
        /\ DistinctKeys' <=> DistinctKeys
        /\ \A e : IsMeant(e)' <=> IsMeant(e)
    BY <1>2, TaskKept DEF Pass
  <2>3. {d \in docs : IsMeant(d)}' = {d \in docs : IsMeant(d)}
    BY <1>3, <2>2
  <2> QED
    BY <1>3, <2>1, <2>2, <2>3 DEF SelectionInv, Loaded
<1>12. NamesInv'
    BY <1>3 DEF NamesInv
<1> QED
    BY <1>9, <1>10, <1>11, <1>12 DEF LoadInv

\* The experiments stay as they are.
LEMMA get_distinct_TPInv == LoadInv /\ get_distinct_TP => LoadInv'
<1> SUFFICES ASSUME LoadInv, get_distinct_TP PROVE LoadInv'
    OBVIOUS
<1>1. LoadTypeOK /\ StagesInv /\ SelectionInv
    BY DEF LoadInv
<1>2. Pass("TP", "synonyms") /\ "synonyms" \in LoadStages
    BY DEF get_distinct_TP, LoadStages
<1>3. /\ docs' \in Collections /\ select' \in Selections /\ syn' \in Synonyms
      /\ OptUserWeight' \in BOOLEAN /\ stage' \in LoadStages
      /\ docs' = docs /\ select' = select /\ stage = "TP" /\ stage' = "synonyms"
    BY <1>1, <1>2, PassTyped
<1>4. /\ UNCHANGED <<h_datasetlist, experiments, factor>>
      /\ TP_pairs' = DistinctTP(experiments) /\ experiments \in Seq(Experiment)
    BY <1>1 DEF get_distinct_TP, LoadTypeOK
<1>5. TP_pairs' \in Seq(Int \X Int) /\ Len(TP_pairs') <= Len(experiments')
    BY <1>4, DistinctTPShort
<1>6. LoadTypeOK'
    BY <1>1, <1>3, <1>4, <1>5 DEF LoadTypeOK
<1>7. StagesInv'
    BY <1>1, <1>3, <1>4, <1>5 DEF StagesInv
<1>8. SelectionInv'
  <2>1. Loaded
    BY <1>3 DEF Loaded
  <2>2. /\ Followed' <=> Followed
        /\ DistinctKeys' <=> DistinctKeys
        /\ \A e : IsMeant(e)' <=> IsMeant(e)
    BY <1>2, TaskKept DEF Pass
  <2>3. {d \in docs : IsMeant(d)}' = {d \in docs : IsMeant(d)}
    BY <1>3, <2>2
  <2> QED
    BY <1>1, <1>3, <1>4, <2>1, <2>2, <2>3 DEF SelectionInv
<1>9. NamesInv'
    BY <1>3 DEF NamesInv
<1> QED
    BY <1>6, <1>7, <1>8, <1>9 DEF LoadInv

\* check_Syn settles every phase, and touches nothing else.
LEMMA check_SynInv == LoadInv /\ check_Syn => LoadInv'
<1> SUFFICES ASSUME LoadInv, check_Syn PROVE LoadInv'
    OBVIOUS
<1>1. LoadTypeOK /\ StagesInv /\ SelectionInv
    BY DEF LoadInv
<1>2. Pass("synonyms", "factors") /\ "factors" \in LoadStages
    BY DEF check_Syn, LoadStages
<1>3. /\ docs' \in Collections /\ select' \in Selections /\ syn' \in Synonyms
      /\ OptUserWeight' \in BOOLEAN /\ stage' \in LoadStages
      /\ docs' = docs /\ select' = select /\ syn' = syn
      /\ stage = "synonyms" /\ stage' = "factors"
    BY <1>1, <1>2, PassTyped
<1>4. /\ experiments \in Seq(Experiment) /\ DOMAIN experiments = 1..Len(experiments)
      /\ Len(experiments) \in Nat /\ \A i \in DOMAIN experiments : experiments[i] \in Experiment
    BY <1>1 DEF LoadTypeOK
<1> DEFINE AllResolved(list) == [p \in DOMAIN list |-> Resolved(list[p])]
<1>5. experiments' = [i \in DOMAIN experiments |->
                         [experiments[i] EXCEPT !.expphases = AllResolved(@)]]
    BY DEF check_Syn
<1>6. ASSUME NEW list \in Seq(Phase)
      PROVE  /\ AllResolved(list) \in Seq(Phase)
             /\ \A p \in DOMAIN AllResolved(list) : PhaseSettled(AllResolved(list)[p], syn.SynPHs)
  <2>1. Len(list) \in Nat /\ DOMAIN list = 1..Len(list) /\ \A p \in 1..Len(list) : list[p] \in Phase
    OBVIOUS
  <2>2. syn \in DataSyn
    BY <1>1, TaskTyped
  <2>3. \A p \in 1..Len(list) :
            Resolved(list[p]) \in Phase /\ PhaseSettled(Resolved(list[p]), syn.SynPHs)
    BY <2>1, <2>2, ResolvedSettles
  <2> QED
    BY <2>1, <2>3
<1> HIDE DEF AllResolved
<1>7. ASSUME NEW i \in DOMAIN experiments
      PROVE  /\ experiments'[i] \in Experiment /\ CopyOf(experiments'[i], experiments[i])
             /\ \A p \in DOMAIN experiments'[i].expphases :
                   PhaseSettled(experiments'[i].expphases[p], syn.SynPHs)
  <2> DEFINE e == experiments[i]
             list == AllResolved(e.expphases)
  <2>1. e \in Experiment /\ e.expphases \in Seq(Phase)
    BY <1>4 DEF Experiment
  <2>2. /\ list \in Seq(Phase)
        /\ \A p \in DOMAIN list : PhaseSettled(list[p], syn.SynPHs)
    BY <1>6, <2>1
  <2>3. experiments'[i] = [e EXCEPT !.expphases = list]
    BY <1>5
  <2> HIDE DEF e, list
  <2>4. experiments'[i] \in Experiment /\ experiments'[i].expphases = list
        /\ CopyOf(experiments'[i], e)
    BY <2>1, <2>2, <2>3 DEF Experiment, CopyOf
  <2> QED
    BY <2>2, <2>4 DEF e
<1>8. DOMAIN experiments' = DOMAIN experiments
    BY <1>5
<1>9. experiments' \in Seq(Experiment) /\ Len(experiments') = Len(experiments)
  <2>1. experiments' = [i \in 1..Len(experiments) |-> experiments'[i]]
    BY <1>4, <1>5
  <2>2. experiments' \in [1..Len(experiments) -> Experiment]
    BY <1>4, <1>7, <2>1
  <2> QED
    BY <1>4, <2>2
<1>10. \A i \in DOMAIN experiments' : \E d \in docs : experiments'[i].id = d.id
    BY <1>1, <1>7, <1>8 DEF LoadTypeOK, CopyOf
<1>11. LoadTypeOK'
  <2>1. UNCHANGED <<h_datasetlist, TP_pairs, factor>>
    BY DEF check_Syn
  <2> QED
    BY <1>1, <1>3, <1>8, <1>9, <1>10, <2>1 DEF LoadTypeOK
<1>12. StagesInv'
    BY <1>1, <1>3 DEF StagesInv, check_Syn
<1>13. SelectionInv'
  <2>1. ASSUME Followed, DistinctKeys PROVE Are(experiments', {d \in docs : IsMeant(d)})
    <3>1. Are(experiments, {d \in docs : IsMeant(d)})
      BY <1>1, <1>3, <2>1 DEF SelectionInv, Loaded
    <3> QED
      BY <1>7, <1>8, <3>1, AreKept
  <2>2. /\ Followed' <=> Followed
        /\ DistinctKeys' <=> DistinctKeys
        /\ \A e : IsMeant(e)' <=> IsMeant(e)
    BY <1>2, TaskKept DEF Pass
  <2>3. {d \in docs : IsMeant(d)}' = {d \in docs : IsMeant(d)}
    BY <1>3, <2>2
  <2> QED
    BY <1>3, <2>1, <2>2, <2>3 DEF SelectionInv
<1>14. NamesInv'
    BY <1>3, <1>7, <1>8 DEF NamesInv, PhaseSettled
<1> QED
    BY <1>11, <1>12, <1>13, <1>14 DEF LoadInv

\* Each experiment gets its two factors.
LEMMA set_weightsInv == LoadInv /\ set_weights => LoadInv'
<1> SUFFICES ASSUME LoadInv, set_weights PROVE LoadInv'
    OBVIOUS
<1>1. LoadTypeOK /\ StagesInv /\ SelectionInv /\ NamesInv
    BY DEF LoadInv
<1>2. Pass("factors", "done") /\ "done" \in LoadStages
    BY DEF set_weights, LoadStages
<1>3. /\ docs' \in Collections /\ select' \in Selections /\ syn' \in Synonyms
      /\ OptUserWeight' \in BOOLEAN /\ stage' \in LoadStages
      /\ docs' = docs /\ select' = select /\ syn' = syn
      /\ stage = "factors" /\ stage' = "done"
    BY <1>1, <1>2, PassTyped
<1>4. UNCHANGED <<h_datasetlist, experiments, TP_pairs>>
    BY DEF set_weights
<1>5. DOMAIN factor'.objfun = DOMAIN experiments /\ DOMAIN factor'.nestfun = DOMAIN experiments
  <2>1. \A given : DOMAIN WeightIf(given) = DOMAIN experiments
    BY DEF WeightIf
  <2>2. factor'.objfun = WeightIf(h_datasetlist) /\ factor'.nestfun = WeightIf(FALSE)
    BY DEF set_weights
  <2> QED
    BY <2>1, <2>2
<1>6. LoadTypeOK'
    BY <1>1, <1>3, <1>4, <1>5 DEF LoadTypeOK
<1>7. StagesInv'
    BY <1>1, <1>3, <1>4 DEF StagesInv
<1>8. SelectionInv'
  <2>1. Loaded
    BY <1>3 DEF Loaded
  <2>2. /\ Followed' <=> Followed
        /\ DistinctKeys' <=> DistinctKeys
        /\ \A e : IsMeant(e)' <=> IsMeant(e)
    BY <1>2, TaskKept DEF Pass
  <2>3. {d \in docs : IsMeant(d)}' = {d \in docs : IsMeant(d)}
    BY <1>3, <2>2
  <2> QED
    BY <1>1, <1>3, <1>4, <2>1, <2>2, <2>3 DEF SelectionInv
<1>9. NamesInv'
    BY <1>1, <1>3, <1>4 DEF NamesInv
<1> QED
    BY <1>6, <1>7, <1>8, <1>9 DEF LoadInv

\* Every stage keeps the invariant.
THEOREM LoadNextInv == LoadInv /\ [LoadNext]_loadVars => LoadInv'
<1> SUFFICES ASSUME LoadInv, [LoadNext]_loadVars PROVE LoadInv'
    OBVIOUS
<1>1. CASE Exit
    BY <1>1, StoppedInv DEF Exit
<1>2. CASE GenerateQuery
    BY <1>2, GenerateQueryInv
<1>3. CASE QueryRejected
    BY <1>3, StoppedInv DEF QueryRejected
<1>4. CASE ReadExperiments
    BY <1>4, ReadExperimentsInv
<1>5. CASE Weigh
    BY <1>5, WeighInv
<1>6. CASE SkipPairs
    BY <1>6, SkipPairsInv
<1>7. CASE get_distinct_TP
    BY <1>7, get_distinct_TPInv
<1>8. CASE check_Syn
    BY <1>8, check_SynInv
<1>9. CASE set_weights
    BY <1>9, set_weightsInv
<1>10. CASE UNCHANGED loadVars
  <2>1. UNCHANGED task /\ UNCHANGED <<stage, query, h_datasetlist, experiments, TP_pairs, factor>>
    BY <1>10 DEF loadVars
  <2>2. docs' = docs /\ select' = select /\ syn' = syn /\ OptUserWeight' = OptUserWeight
    BY <2>1 DEF task
  <2>3. LoadTypeOK' /\ StagesInv'
    BY <2>1, <2>2 DEF LoadInv, LoadTypeOK, StagesInv
  <2>4. SelectionInv'
    <3>1. /\ Followed' <=> Followed
          /\ DistinctKeys' <=> DistinctKeys
          /\ \A e : Chosen(e)' <=> Chosen(e)
          /\ \A e : IsMeant(e)' <=> IsMeant(e)
      BY <2>1, TaskKept
    <3>2. /\ {d \in docs : Chosen(d)}' = {d \in docs : Chosen(d)}
          /\ {d \in docs : IsMeant(d)}' = {d \in docs : IsMeant(d)}
      BY <2>2, <3>1
    <3>3. Loaded' <=> Loaded
      BY <2>1 DEF Loaded
    <3> QED
      BY <2>1, <2>2, <3>1, <3>2, <3>3 DEF LoadInv, SelectionInv
  <2>5. NamesInv'
    BY <2>1, <2>2 DEF LoadInv, NamesInv
  <2> QED
    BY <2>3, <2>4, <2>5 DEF LoadInv
<1> QED
    BY <1>1, <1>2, <1>3, <1>4, <1>5, <1>6, <1>7, <1>8, <1>9, <1>10 DEF LoadNext

\* What holds whatever the database, the task and the synonyms are.
THEOREM LoadInvariant == LoadSpec => []LoadInv
<1> QED
    BY LoadInitInv, LoadNextInv, PTL DEF LoadSpec

\* Nothing is fitted that is not in the database, with as many factors of
\* either kind as there are experiments and no more temperatures and pressures.
THEOREM LoadTypeCorrect == LoadSpec => []LoadTypeOK
<1>1. LoadInv => LoadTypeOK
    BY DEF LoadInv
<1> QED
    BY <1>1, LoadInvariant, PTL

\* However the loops over lists, intervals and pairs go, and whatever order
\* the database answers in, the experiments loaded are the ones meant.
THEOREM LoadedExperimentsAreMeant == LoadSpec => []LoadedAreMeant
<1>1. LoadInv => LoadedAreMeant
  <2> SUFFICES ASSUME LoadInv, Loaded, Followed, DistinctKeys
               PROVE  /\ {experiments[i].id : i \in DOMAIN experiments}
                           = {e.id : e \in {d \in docs : IsMeant(d)}}
                      /\ \A i, j \in DOMAIN experiments :
                            experiments[i].id = experiments[j].id => i = j
    BY DEF LoadedAreMeant
  <2> DEFINE S == {d \in docs : IsMeant(d)}
  <2>1. Are(experiments, S) /\ LoadTypeOK
    BY DEF LoadInv, SelectionInv
  <2>2. \A d, e \in S : d.id = e.id => d = e
    BY <2>1, TaskTyped
  <2> HIDE DEF S
  <2>3. \A i \in DOMAIN experiments : \E d \in S : experiments[i].id = d.id
    BY <2>1 DEF Are, CopyOf
  <2>4. \A d \in S : \E i \in DOMAIN experiments : experiments[i].id = d.id
    BY <2>1 DEF Are, CopyOf
  <2>5. ASSUME NEW i \in DOMAIN experiments, NEW j \in DOMAIN experiments,
               experiments[i].id = experiments[j].id
        PROVE  i = j
    <3>1. PICK d \in S : CopyOf(experiments[i], d)
      BY <2>1 DEF Are
    <3>2. PICK e \in S : CopyOf(experiments[j], e)
      BY <2>1 DEF Are
    <3>3. d = e
      BY <2>2, <2>5, <3>1, <3>2 DEF CopyOf
    <3>4. IsPair(experiments[i], experiments[j])
      BY <3>1, <3>2, <3>3 DEF CopyOf, IsPair
    <3> QED
      BY <2>1, <3>4 DEF Are, OneEach, IsPair
  <2>6. {experiments[i].id : i \in DOMAIN experiments} = {e.id : e \in S}
    BY <2>3, <2>4
  <2> QED
    BY <2>5, <2>6 DEF S
<1> QED
    BY <1>1, LoadInvariant, PTL

\* However many synonyms there are, none is left that the fit would look up.
THEOREM LoadedNamesAreResolved == LoadSpec => []NamesAreResolved
<1>1. LoadInv => NamesAreResolved
    BY DEF LoadInv, NamesInv, NamesAreResolved, PhaseSettled
<1> QED
    BY <1>1, LoadInvariant, PTL

-----------------------------------------------------------------------------
(* FitRun.                                                                 *)

\* The callback has been called and not returned yet.
Calling == pc \in {"gradient", "evaluate"}

\* Between the call of NLopt and the end of build_optim.
Searching ==
    \/ pc \in {"optimize", "built"}
    \/ Calling /\ caller \in {"nlopt", "build"}

\* The unit in which NLopt works.
Unit == IF opts.OptNormParam THEN optv_0 ELSE Real

Kinds ==
    /\ opts \in Setting
    /\ pc \in {"main", "build", "optimize", "gradient", "evaluate", "built",
               "basic_stat", "sensitivity", "digits", "MC", "MC_store", "print",
               "done", "exited"}
    /\ caller \in {"main", "nlopt", "build"}
    /\ optv \in Vector
    /\ optv_0 \in Guesses
    /\ NormParams \in BOOLEAN
    /\ master_counter \in 0..CountCap
    /\ imc \in Nat

\* What statistics work from is not normalized; a search starts from optv_0.
RealUnits ==
    /\ (~Searching /\ pc # "exited") => optv.unit = Real /\ optv.off = 0
    /\ imc > 0 => backup \in Vector /\ backup.unit = Real /\ backup.off = 0
    /\ pc \in {"main", "build"} => optv.x = optv_0

\* During a search NLopt and what it was told are in its units.
SearchUnits ==
    Searching =>
        /\ optv.unit = Unit /\ optv.off = 0
        /\ \A r \in told : r.asked \in Vector /\ r.asked.unit = Unit /\ r.asked.off = 0
        /\ Calling \/ told # {} => asked \in Vector /\ asked.unit = Unit /\ asked.off = 0

\* The flag tells what the settings tell, once it is set.
Flag ==
    /\ (opts.OptNormParam /\ Searching) => NormParams
    /\ ~opts.OptNormParam => NormParams = opts.garbage

\* The norm of a search is about its measurements, and what NLopt was told has
\* this norm.
Norms ==
    Searching =>
        /\ master_counter >= 1 => norm.data = data
        /\ (told # {} /\ opts.OptEquilibrium) => master_counter >= 1
        /\ \A r \in told :
              /\ r.value.data = data
              /\ r.value.norm = IF opts.OptEquilibrium THEN norm ELSE None

IInv ==
    /\ Kinds
    /\ RealUnits
    /\ SearchUnits
    /\ Flag
    /\ Norms
    /\ SharedNorm
    /\ EvaluatedIsAsked

USE DEF CountCap, Original

\* A vector of a guess, given a unit, is a vector.
LEMMA VectorUnits ==
    ASSUME NEW v \in Vector, NEW u \in Guesses \cup {Real, Misscaled}
    PROVE  /\ [v EXCEPT !.unit = u] \in Vector
           /\ [v EXCEPT !.unit = u].unit = u
           /\ [v EXCEPT !.unit = u].off = v.off
           /\ [v EXCEPT !.unit = u].x = v.x
           /\ v.unit = u => [v EXCEPT !.unit = u] = v
BY DEF Vector

\* The first state satisfies the invariant.
THEOREM InitIInv == Init => IInv
<1> SUFFICES ASSUME Init PROVE IInv
    OBVIOUS
<1> USE RunConstants DEF Init
<1>1. At(Initial) \in Vector /\ At(Initial).unit = Real /\ At(Initial).off = 0
          /\ At(Initial).x = Initial
    BY DEF At, Vector, Rounded
<1>2. Kinds
    BY <1>1 DEF Kinds, Setting
<1>3. RealUnits /\ SearchUnits /\ Flag /\ Norms
    BY <1>1 DEF RealUnits, SearchUnits, Flag, Norms, Searching, Calling
<1>4. SharedNorm /\ EvaluatedIsAsked
    BY DEF SharedNorm, EvaluatedIsAsked
<1> QED
    BY <1>2, <1>3, <1>4 DEF IInv


\* run_optim before build_optim: the vector is still the one in optv_0.
LEMMA RunOptimIInv ==
    ASSUME IInv, RunOptim
    PROVE  IInv'
<1> USE RunConstants DEF IInv, RunOptim, settings, search, model, outcome
<1>1. Kinds'
    BY DEF Kinds, Setting, Searching, Calling, RealUnits, SearchUnits, Steps
<1>2. RealUnits'
    BY DEF Kinds, RealUnits, SearchUnits, Searching, Calling, Unit
<1>3. SearchUnits'
    BY DEF Kinds, RealUnits, SearchUnits, Searching, Calling, Unit
<1>4. Flag'
    BY DEF Kinds, Setting, Flag, Searching, Calling
<1>5. Norms'
    BY DEF Kinds, Norms, Searching, Calling
<1>6. SharedNorm'
    BY DEF Kinds, Norms, SharedNorm, Searching, Calling
<1>7. EvaluatedIsAsked'
    BY DEF Kinds, Setting, EvaluatedIsAsked, Trusted, Flag, SearchUnits, Searching,
           Calling, Unit
<1> QED
    BY <1>1, <1>2, <1>3, <1>4, <1>5, <1>6, <1>7

\* The evaluation main.cpp makes without optimization.
LEMMA EvaluateOnlyIInv ==
    ASSUME IInv, EvaluateOnly
    PROVE  IInv'
<1> USE RunConstants DEF IInv, EvaluateOnly, Call, settings, search, model, outcome
<1>1. Kinds'
    BY DEF Kinds, Setting, Searching, Calling, RealUnits, SearchUnits, Steps
<1>2. RealUnits'
    BY DEF Kinds, RealUnits, SearchUnits, Searching, Calling, Unit
<1>3. SearchUnits'
    BY DEF Kinds, RealUnits, SearchUnits, Searching, Calling, Unit
<1>4. Flag'
    BY DEF Kinds, Setting, Flag, Searching, Calling
<1>5. Norms'
    BY DEF Kinds, Norms, Searching, Calling
<1>6. SharedNorm'
    BY DEF Kinds, Norms, SharedNorm, Searching, Calling
<1>7. EvaluatedIsAsked'
    BY DEF Kinds, Setting, EvaluatedIsAsked, Trusted, Flag, SearchUnits, Searching,
           Calling, Unit
<1> QED
    BY <1>1, <1>2, <1>3, <1>4, <1>5, <1>6, <1>7

\* build_optim resets the counter and forgets what NLopt was told; from here on
\* the units are those of the search.
LEMMA BuildIInv ==
    ASSUME IInv, Build
    PROVE  IInv'
<1> USE RunConstants DEF IInv, Build, Normalized, settings, search, model, outcome
<1>1. Kinds'
    BY VectorUnits DEF Kinds, Setting, Searching, Calling, RealUnits, SearchUnits, Steps
<1>2. RealUnits'
    BY VectorUnits DEF Kinds, RealUnits, SearchUnits, Searching, Calling, Unit
<1>3. SearchUnits'
    BY VectorUnits DEF Kinds, RealUnits, SearchUnits, Searching, Calling, Unit
<1>4. Flag'
    BY DEF Kinds, Setting, Flag, Searching, Calling
<1>5. Norms'
    BY DEF Kinds, Norms, Searching, Calling
<1>6. SharedNorm'
    BY DEF Kinds, Norms, SharedNorm, Searching, Calling
<1>7. EvaluatedIsAsked'
    BY VectorUnits
    DEF Kinds, Setting, EvaluatedIsAsked, Trusted, Flag, SearchUnits, Searching,
        Calling, Unit
<1> QED
    BY <1>1, <1>2, <1>3, <1>4, <1>5, <1>6, <1>7

\* NLopt asks about a guess, in its units.
LEMMA AskIInv ==
    ASSUME IInv, NEW g \in Guesses, Ask(g)
    PROVE  IInv'
<1> USE RunConstants DEF IInv, Ask, Call, settings, search, model, outcome
<1>1. Kinds'
    BY DEF Kinds, Setting, Searching, Calling, RealUnits, SearchUnits, Steps, Vector,
           Rounded
<1>2. RealUnits'
    BY DEF Kinds, RealUnits, SearchUnits, Searching, Calling, Unit
<1>3. SearchUnits'
    BY DEF Kinds, RealUnits, SearchUnits, Searching, Calling, Unit, Vector, Rounded
<1>4. Flag'
    BY DEF Kinds, Setting, Flag, Searching, Calling
<1>5. Norms'
    BY DEF Kinds, Norms, Searching, Calling
<1>6. SharedNorm'
    BY DEF Kinds, Norms, SharedNorm, Searching, Calling
<1>7. EvaluatedIsAsked'
    BY DEF Kinds, Setting, EvaluatedIsAsked, Trusted, Flag, SearchUnits, Searching,
           Calling, Unit
<1> QED
    BY <1>1, <1>2, <1>3, <1>4, <1>5, <1>6, <1>7

\* NLopt returns a vector it was told about.
LEMMA FoundIInv ==
    ASSUME IInv, Found
    PROVE  IInv'
<1> USE RunConstants DEF IInv, Found, Call, settings, search, model, outcome
<1>1. Kinds'
    BY DEF Kinds, Setting, Searching, Calling, RealUnits, SearchUnits, Steps
<1>2. RealUnits'
    BY DEF Kinds, RealUnits, SearchUnits, Searching, Calling, Unit
<1>3. SearchUnits'
    BY DEF Kinds, RealUnits, SearchUnits, Searching, Calling, Unit
<1>4. Flag'
    BY DEF Kinds, Setting, Flag, Searching, Calling
<1>5. Norms'
    BY DEF Kinds, Norms, Searching, Calling
<1>6. SharedNorm'
    BY DEF Kinds, Norms, SharedNorm, Searching, Calling
<1>7. EvaluatedIsAsked'
    BY DEF Kinds, Setting, EvaluatedIsAsked, Trusted, Flag, SearchUnits, Searching,
           Calling, Unit
<1> QED
    BY <1>1, <1>2, <1>3, <1>4, <1>5, <1>6, <1>7

\* The exits of build_optim; nothing is claimed of the state they leave.
LEMMA AbortIInv ==
    ASSUME IInv, Abort
    PROVE  IInv'
<1> USE RunConstants DEF IInv, Abort, settings, search, model, outcome
<1>1. Kinds'
    BY DEF Kinds, Setting, Searching, Calling, RealUnits, SearchUnits, Steps
<1>2. RealUnits'
    BY DEF Kinds, RealUnits, SearchUnits, Searching, Calling, Unit
<1>3. SearchUnits'
    BY DEF Kinds, RealUnits, SearchUnits, Searching, Calling, Unit
<1>4. Flag'
    BY DEF Kinds, Setting, Flag, Searching, Calling
<1>5. Norms'
    BY DEF Kinds, Norms, Searching, Calling
<1>6. SharedNorm'
    BY DEF Kinds, Norms, SharedNorm, Searching, Calling
<1>7. EvaluatedIsAsked'
    BY DEF Kinds, Setting, EvaluatedIsAsked, Trusted, Flag, SearchUnits, Searching,
           Calling, Unit
<1> QED
    BY <1>1, <1>2, <1>3, <1>4, <1>5, <1>6, <1>7

\* gradient may set the norm, never change one NLopt has been told with.
LEMMA GradientIInv ==
    ASSUME IInv, Gradient
    PROVE  IInv'
<1> USE RunConstants DEF IInv, Gradient, gems3k_wrap, Counted, Evaluation, settings,
        search, model, outcome
<1>1. Kinds'
    BY DEF Kinds, Setting, Searching, Calling, RealUnits, SearchUnits, Steps
<1>2. RealUnits'
    BY DEF Kinds, RealUnits, SearchUnits, Searching, Calling, Unit
<1>3. SearchUnits'
    BY DEF Kinds, RealUnits, SearchUnits, Searching, Calling, Unit
<1>4. Flag'
    BY DEF Kinds, Setting, Flag, Searching, Calling
<1>5. Norms'
    BY DEF Kinds, Norms, Searching, Calling
<1>6. SharedNorm'
    BY DEF Kinds, Norms, SharedNorm, Searching, Calling
<1>7. EvaluatedIsAsked'
    BY DEF Kinds, Setting, EvaluatedIsAsked, Trusted, Flag, SearchUnits, Searching,
           Calling, Unit
<1> QED
    BY <1>1, <1>2, <1>3, <1>4, <1>5, <1>6, <1>7

\* The callback: the vector evaluated is in real units whatever NLopt's are, and
\* what NLopt is told has the norm in use.
LEMMA EvaluateIInv ==
    ASSUME IInv, Evaluate
    PROVE  IInv'
<1> USE RunConstants DEF IInv, Evaluate, Wrap, gems3k_wrap, tsolmod_wrap, Counted,
        Evaluation, Rescaled, settings, search, model, outcome
<1>1. Kinds'
    BY VectorUnits DEF Kinds, Setting, Searching, Calling, RealUnits, SearchUnits, Steps
<1>2. RealUnits'
    BY VectorUnits DEF Kinds, RealUnits, SearchUnits, Searching, Calling, Unit
<1>3. SearchUnits'
    BY VectorUnits DEF Kinds, RealUnits, SearchUnits, Searching, Calling, Unit
<1>4. Flag'
    BY DEF Kinds, Setting, Flag, Searching, Calling
<1>5. Norms'
    BY DEF Kinds, Norms, Searching, Calling
<1>6. SharedNorm'
    BY DEF Kinds, Norms, SharedNorm, Searching, Calling
<1>7. EvaluatedIsAsked'
  <2>1. SUFFICES ASSUME Trusted, pc' \in {"optimize", "built"}
                 PROVE  point' = [asked EXCEPT !.unit = Real]
    BY DEF EvaluatedIsAsked, Trusted
  <2>2. Searching
    BY <2>1 DEF Kinds, Searching, Calling
  <2>3. asked \in Vector /\ asked.unit = Unit
    BY <2>2 DEF SearchUnits, Searching, Calling
  <2>4. CASE opts.OptNormParam
    <3>1. NormParams /\ Unit = optv_0
      BY <2>2, <2>4 DEF Flag, Unit
    <3>2. point' = Rescaled(asked, optv_0)
      BY <3>1
    <3>3. Rescaled(asked, optv_0) = [asked EXCEPT !.unit = Real]
      BY <2>3, <3>1
    <3> QED
      BY <3>2, <3>3
  <2>5. CASE ~opts.OptNormParam
    <3>1. ~NormParams /\ Unit = Real
      BY <2>1, <2>5 DEF Flag, Unit, Trusted
    <3>2. point' = asked
      BY <3>1
    <3>3. [asked EXCEPT !.unit = Real] = asked
      BY <2>3, <3>1, VectorUnits
    <3> QED
      BY <3>2, <3>3
  <2> QED
    BY <2>4, <2>5
<1> QED
    BY <1>1, <1>2, <1>3, <1>4, <1>5, <1>6, <1>7

\* The end of build_optim: the vector found is in real units again.
LEMMA BuiltIInv ==
    ASSUME IInv, Built
    PROVE  IInv'
<1> USE RunConstants DEF IInv, Built, Rescaled, settings, search, model, outcome
<1>1. Kinds'
    BY VectorUnits DEF Kinds, Setting, Searching, Calling, RealUnits, SearchUnits, Steps
<1>2. RealUnits'
    BY VectorUnits DEF Kinds, RealUnits, SearchUnits, Searching, Calling, Unit
<1>3. SearchUnits'
    BY VectorUnits DEF Kinds, RealUnits, SearchUnits, Searching, Calling, Unit
<1>4. Flag'
    BY DEF Kinds, Setting, Flag, Searching, Calling
<1>5. Norms'
    BY DEF Kinds, Norms, Searching, Calling
<1>6. SharedNorm'
    BY DEF Kinds, Norms, SharedNorm, Searching, Calling
<1>7. EvaluatedIsAsked'
    BY VectorUnits
    DEF Kinds, Setting, EvaluatedIsAsked, Trusted, Flag, SearchUnits, Searching,
        Calling, Unit
<1> QED
    BY <1>1, <1>2, <1>3, <1>4, <1>5, <1>6, <1>7

\* basic_stat keeps the fitted vector.
LEMMA BasicStatIInv ==
    ASSUME IInv, basic_stat
    PROVE  IInv'
<1> USE RunConstants DEF IInv, basic_stat, settings, search, model, outcome
<1>1. Kinds'
    BY DEF Kinds, Setting, Searching, Calling, RealUnits, SearchUnits, Steps
<1>2. RealUnits'
    BY DEF Kinds, RealUnits, SearchUnits, Searching, Calling, Unit
<1>3. SearchUnits'
    BY DEF Kinds, RealUnits, SearchUnits, Searching, Calling, Unit
<1>4. Flag'
    BY DEF Kinds, Setting, Flag, Searching, Calling
<1>5. Norms'
    BY DEF Kinds, Norms, Searching, Calling
<1>6. SharedNorm'
    BY DEF Kinds, Norms, SharedNorm, Searching, Calling
<1>7. EvaluatedIsAsked'
    BY DEF Kinds, Setting, EvaluatedIsAsked, Trusted, Flag, SearchUnits, Searching,
           Calling, Unit
<1> QED
    BY <1>1, <1>2, <1>3, <1>4, <1>5, <1>6, <1>7

\* The sensitivities are evaluated outside a search.
LEMMA SensitivityIInv ==
    ASSUME IInv, Sensitivity
    PROVE  IInv'
<1> USE RunConstants DEF IInv, Sensitivity, Wrap, gems3k_wrap, tsolmod_wrap, Counted,
        settings, search, model, outcome
<1>1. Kinds'
    BY DEF Kinds, Setting, Searching, Calling, RealUnits, SearchUnits, Steps
<1>2. RealUnits'
    BY DEF Kinds, RealUnits, SearchUnits, Searching, Calling, Unit
<1>3. SearchUnits'
    BY DEF Kinds, RealUnits, SearchUnits, Searching, Calling, Unit
<1>4. Flag'
    BY DEF Kinds, Setting, Flag, Searching, Calling
<1>5. Norms'
    BY DEF Kinds, Norms, Searching, Calling
<1>6. SharedNorm'
    BY DEF Kinds, Norms, SharedNorm, Searching, Calling
<1>7. EvaluatedIsAsked'
    BY DEF Kinds, Setting, EvaluatedIsAsked, Trusted, Flag, SearchUnits, Searching,
           Calling, Unit
<1> QED
    BY <1>1, <1>2, <1>3, <1>4, <1>5, <1>6, <1>7

\* So is the fitted vector after them.
LEMMA SensitivityEndIInv ==
    ASSUME IInv, SensitivityEnd
    PROVE  IInv'
<1> USE RunConstants DEF IInv, SensitivityEnd, Wrap, gems3k_wrap, tsolmod_wrap,
        Counted, settings, search, model, outcome
<1>1. Kinds'
    BY DEF Kinds, Setting, Searching, Calling, RealUnits, SearchUnits, Steps
<1>2. RealUnits'
    BY DEF Kinds, RealUnits, SearchUnits, Searching, Calling, Unit
<1>3. SearchUnits'
    BY DEF Kinds, RealUnits, SearchUnits, Searching, Calling, Unit
<1>4. Flag'
    BY DEF Kinds, Setting, Flag, Searching, Calling
<1>5. Norms'
    BY DEF Kinds, Norms, Searching, Calling
<1>6. SharedNorm'
    BY DEF Kinds, Norms, SharedNorm, Searching, Calling
<1>7. EvaluatedIsAsked'
    BY DEF Kinds, Setting, EvaluatedIsAsked, Trusted, Flag, SearchUnits, Searching,
           Calling, Unit
<1> QED
    BY <1>1, <1>2, <1>3, <1>4, <1>5, <1>6, <1>7

\* So are the rounded vectors,
LEMMA DigitIInv ==
    ASSUME IInv, Digit
    PROVE  IInv'
<1> USE RunConstants DEF IInv, Digit, Wrap, gems3k_wrap, tsolmod_wrap, Counted,
        settings, search, model, outcome
<1>1. Kinds'
    BY DEF Kinds, Setting, Searching, Calling, RealUnits, SearchUnits, Steps
<1>2. RealUnits'
    BY DEF Kinds, RealUnits, SearchUnits, Searching, Calling, Unit
<1>3. SearchUnits'
    BY DEF Kinds, RealUnits, SearchUnits, Searching, Calling, Unit
<1>4. Flag'
    BY DEF Kinds, Setting, Flag, Searching, Calling
<1>5. Norms'
    BY DEF Kinds, Norms, Searching, Calling
<1>6. SharedNorm'
    BY DEF Kinds, Norms, SharedNorm, Searching, Calling
<1>7. EvaluatedIsAsked'
    BY DEF Kinds, Setting, EvaluatedIsAsked, Trusted, Flag, SearchUnits, Searching,
           Calling, Unit
<1> QED
    BY <1>1, <1>2, <1>3, <1>4, <1>5, <1>6, <1>7

\* and the last of them.
LEMMA DigitsEndIInv ==
    ASSUME IInv, DigitsEnd
    PROVE  IInv'
<1> USE RunConstants DEF IInv, DigitsEnd, Wrap, gems3k_wrap, tsolmod_wrap, Counted,
        settings, search, model, outcome
<1>1. Kinds'
    BY DEF Kinds, Setting, Searching, Calling, RealUnits, SearchUnits, Steps
<1>2. RealUnits'
    BY DEF Kinds, RealUnits, SearchUnits, Searching, Calling, Unit
<1>3. SearchUnits'
    BY DEF Kinds, RealUnits, SearchUnits, Searching, Calling, Unit
<1>4. Flag'
    BY DEF Kinds, Setting, Flag, Searching, Calling
<1>5. Norms'
    BY DEF Kinds, Norms, Searching, Calling
<1>6. SharedNorm'
    BY DEF Kinds, Norms, SharedNorm, Searching, Calling
<1>7. EvaluatedIsAsked'
    BY DEF Kinds, Setting, EvaluatedIsAsked, Trusted, Flag, SearchUnits, Searching,
           Calling, Unit
<1> QED
    BY <1>1, <1>2, <1>3, <1>4, <1>5, <1>6, <1>7

\* A Monte Carlo run starts from the copy of the fitted vector, which is in real
\* units, and makes it the vector normalized ones are multiplied by.
LEMMA MC_runIInv ==
    ASSUME IInv, MC_run
    PROVE  IInv'
<1> USE RunConstants DEF IInv, MC_run, settings, search, model, outcome
<1>1. Kinds'
    BY DEF Kinds, Vector, Setting, Searching, Calling, RealUnits, SearchUnits, Steps
<1>2. RealUnits'
    BY DEF Kinds, RealUnits, SearchUnits, Searching, Calling, Unit
<1>3. SearchUnits'
    BY DEF Kinds, RealUnits, SearchUnits, Searching, Calling, Unit
<1>4. Flag'
    BY DEF Kinds, Setting, Flag, Searching, Calling
<1>5. Norms'
    BY DEF Kinds, Norms, Searching, Calling
<1>6. SharedNorm'
    BY DEF Kinds, Norms, SharedNorm, Searching, Calling
<1>7. EvaluatedIsAsked'
    BY DEF Kinds, Setting, EvaluatedIsAsked, Trusted, Flag, SearchUnits, Searching,
           Calling, Unit
<1> QED
    BY <1>1, <1>2, <1>3, <1>4, <1>5, <1>6, <1>7

\* The measurements are put back after the search, not during it.
LEMMA MC_storeIInv ==
    ASSUME IInv, MC_store
    PROVE  IInv'
<1> USE RunConstants DEF IInv, MC_store, settings, search, model, outcome
<1>1. Kinds'
    BY DEF Kinds, Setting, Searching, Calling, RealUnits, SearchUnits, Steps
<1>2. RealUnits'
    BY DEF Kinds, RealUnits, SearchUnits, Searching, Calling, Unit
<1>3. SearchUnits'
    BY DEF Kinds, RealUnits, SearchUnits, Searching, Calling, Unit
<1>4. Flag'
    BY DEF Kinds, Setting, Flag, Searching, Calling
<1>5. Norms'
    BY DEF Kinds, Norms, Searching, Calling
<1>6. SharedNorm'
    BY DEF Kinds, Norms, SharedNorm, Searching, Calling
<1>7. EvaluatedIsAsked'
    BY DEF Kinds, Setting, EvaluatedIsAsked, Trusted, Flag, SearchUnits, Searching,
           Calling, Unit
<1> QED
    BY <1>1, <1>2, <1>3, <1>4, <1>5, <1>6, <1>7

\* After the Monte Carlo runs the fitted vector is evaluated once more.
LEMMA MC_endIInv ==
    ASSUME IInv, MC_end
    PROVE  IInv'
<1> USE RunConstants DEF IInv, MC_end, Wrap, gems3k_wrap, tsolmod_wrap, Counted,
        settings, search, model, outcome
<1>1. Kinds'
    BY DEF Kinds, Setting, Searching, Calling, RealUnits, SearchUnits, Steps
<1>2. RealUnits'
    BY DEF Kinds, RealUnits, SearchUnits, Searching, Calling, Unit
<1>3. SearchUnits'
    BY DEF Kinds, RealUnits, SearchUnits, Searching, Calling, Unit
<1>4. Flag'
    BY DEF Kinds, Setting, Flag, Searching, Calling
<1>5. Norms'
    BY DEF Kinds, Norms, Searching, Calling
<1>6. SharedNorm'
    BY DEF Kinds, Norms, SharedNorm, Searching, Calling
<1>7. EvaluatedIsAsked'
    BY DEF Kinds, Setting, EvaluatedIsAsked, Trusted, Flag, SearchUnits, Searching,
           Calling, Unit
<1> QED
    BY <1>1, <1>2, <1>3, <1>4, <1>5, <1>6, <1>7

\* Without Monte Carlo runs nothing is evaluated.
LEMMA NoMCIInv ==
    ASSUME IInv, NoMC
    PROVE  IInv'
<1> USE RunConstants DEF IInv, NoMC, settings, search, model, outcome
<1>1. Kinds'
    BY DEF Kinds, Setting, Searching, Calling, RealUnits, SearchUnits, Steps
<1>2. RealUnits'
    BY DEF Kinds, RealUnits, SearchUnits, Searching, Calling, Unit
<1>3. SearchUnits'
    BY DEF Kinds, RealUnits, SearchUnits, Searching, Calling, Unit
<1>4. Flag'
    BY DEF Kinds, Setting, Flag, Searching, Calling
<1>5. Norms'
    BY DEF Kinds, Norms, Searching, Calling
<1>6. SharedNorm'
    BY DEF Kinds, Norms, SharedNorm, Searching, Calling
<1>7. EvaluatedIsAsked'
    BY DEF Kinds, Setting, EvaluatedIsAsked, Trusted, Flag, SearchUnits, Searching,
           Calling, Unit
<1> QED
    BY <1>1, <1>2, <1>3, <1>4, <1>5, <1>6, <1>7

\* Printing evaluates nothing.
LEMMA PrintResultsIInv ==
    ASSUME IInv, PrintResults
    PROVE  IInv'
<1> USE RunConstants DEF IInv, PrintResults, settings, search, model, outcome
<1>1. Kinds'
    BY DEF Kinds, Setting, Searching, Calling, RealUnits, SearchUnits, Steps
<1>2. RealUnits'
    BY DEF Kinds, RealUnits, SearchUnits, Searching, Calling, Unit
<1>3. SearchUnits'
    BY DEF Kinds, RealUnits, SearchUnits, Searching, Calling, Unit
<1>4. Flag'
    BY DEF Kinds, Setting, Flag, Searching, Calling
<1>5. Norms'
    BY DEF Kinds, Norms, Searching, Calling
<1>6. SharedNorm'
    BY DEF Kinds, Norms, SharedNorm, Searching, Calling
<1>7. EvaluatedIsAsked'
    BY DEF Kinds, Setting, EvaluatedIsAsked, Trusted, Flag, SearchUnits, Searching,
           Calling, Unit
<1> QED
    BY <1>1, <1>2, <1>3, <1>4, <1>5, <1>6, <1>7

\* A step that changes nothing.
LEMMA StutterIInv ==
    ASSUME IInv, UNCHANGED vars
    PROVE  IInv'
BY DEF vars, IInv, Kinds, RealUnits, SearchUnits, Flag, Norms, SharedNorm,
       EvaluatedIsAsked, Trusted, Searching, Calling, Unit

\* Every step of the program keeps the invariant.
THEOREM NextIInv == IInv /\ [Next]_vars => IInv'
BY RunOptimIInv, EvaluateOnlyIInv, BuildIInv, AskIInv, FoundIInv,
   AbortIInv, GradientIInv, EvaluateIInv, BuiltIInv, BasicStatIInv,
   SensitivityIInv, SensitivityEndIInv, DigitIInv, DigitsEndIInv, MC_runIInv,
   MC_storeIInv, MC_endIInv, NoMCIInv, PrintResultsIInv,
   StutterIInv DEF Next

\* So it holds in every run.
THEOREM Invariant == Spec => []IInv
BY InitIInv, NextIInv, PTL DEF Spec

\* In every run of the program, the values NLopt compares in one optimization are
\* divided by the residuals of one evaluation, made for the same measurements.
THEOREM SharedNormHolds == Spec => []SharedNorm
<1>1. IInv => SharedNorm
    BY DEF IInv
<1> QED
    BY Invariant, <1>1, PTL

\* In every run of the program whose flag is set before it is read, or is FALSE
\* in memory, the objective function is computed at the vector NLopt asked about.
THEOREM EvaluatedIsAskedHolds == Spec => []EvaluatedIsAsked
<1>1. IInv => EvaluatedIsAsked
    BY DEF IInv
<1> QED
    BY Invariant, <1>1, PTL

----------------------------------------------------------------------------
(***************************************************************************)
(* The results a run prints. The invariant so far says in which units the  *)
(* vectors are; here it follows the fitted vector through the stages after *)
(* the optimization, which evaluate other vectors and measurements and     *)
(* come back to it.                                                        *)
(***************************************************************************)

\* The vector that is printed.
Shown == IF rounded THEN Stepped(fitted, Rounded) ELSE fitted

\* Before the fitted vector is kept.
Early ==
    /\ imc = 0
    /\ pc \in {"main", "build", "basic_stat"} \/ Searching \/ Calling

\* After it is kept.
Late == imc > 0 \/ pc \in {"sensitivity", "digits", "MC", "print", "done"}

\* Which stages come when; the measurements are put back after every search.
Stages ==
    /\ imc = 0 \/ pc \in {"MC", "print", "done"} => data = Original
    /\ pc \in {"main", "basic_stat", "sensitivity", "digits"} => imc = 0
    /\ pc = "MC_store" => imc > 0
    /\ rounded => opts.digits
    /\ imc > 0 => opts.MCbool
    /\ pc = "digits" => opts.digits /\ ~rounded
    /\ pc = "sensitivity" => ~rounded
    /\ Early => fitted = None /\ ~rounded

\* What the callback is called with other than by NLopt.
Calls ==
    /\ pc = "built" \/ (Calling /\ caller = "build") => asked = optv /\ told # {}
    /\ Calling /\ caller = "main" => asked = optv /\ imc = 0 /\ opts.OptDoWhat = 0
    /\ opts.OptDoWhat = 0 /\ imc = 0 =>
          NormParams = opts.garbage /\ pc # "build" /\ ~Searching

\* The fitted vector is kept in optv, from the first Monte Carlo run on in backup.
Kept == (Trusted /\ Late) => fitted = IF imc = 0 THEN optv ELSE backup

\* Where the results are at each stage.
Results ==
    Trusted =>
        /\ pc = "built" => table.at = point /\ table.data = data
        /\ pc = "basic_stat" =>
              point = optv /\ table.at = optv /\ table.data = Original
        /\ pc = "sensitivity" /\ coord = 1 => table.at = fitted /\ table.data = Original
        /\ pc = "digits" =>
              /\ table.at.x = fitted.x
              /\ table.at.unit = Real
              /\ table.data = Original
        /\ pc = "MC" /\ imc = 0 => table.at = Shown /\ table.data = Original
        /\ pc = "print" =>
              /\ table.at.x = fitted.x
              /\ table.at.unit = Real
              /\ table.data = Original
              /\ ~(opts.digits /\ opts.MCbool) => table.at = Shown

RInv ==
    /\ IInv
    /\ Stages
    /\ Calls
    /\ Kept
    /\ Results
    /\ TableMatchesParameters

\* A step changes nothing else of a vector.
LEMMA VectorSteps ==
    ASSUME NEW v \in Vector, NEW n
    PROVE  Stepped(v, n).x = v.x /\ Stepped(v, n).unit = v.unit
BY DEF Vector, Stepped

\* The first state satisfies the invariant.
THEOREM InitRInv == Init => RInv
<1> SUFFICES ASSUME Init PROVE RInv
    OBVIOUS
<1>1. IInv
    BY InitIInv
<1>2. Stages /\ Calls /\ Kept /\ Results /\ TableMatchesParameters
    BY DEF Init, Stages, Calls, Kept, Results, TableMatchesParameters, Early, Late,
           Searching, Calling
<1> QED
    BY <1>1, <1>2 DEF RInv

\* The fitted vector, once it is kept, is a vector in real units.
LEMMA KeptUnits ==
    ASSUME IInv, Kept, Trusted, Late, ~Searching, pc # "exited"
    PROVE  fitted \in Vector /\ fitted.unit = Real /\ fitted.off = 0
BY DEF IInv, Kinds, RealUnits, Kept

\* run_optim is entered once, before anything is fitted.
LEMMA RunOptimRInv ==
    ASSUME RInv, RunOptim
    PROVE  RInv'
<1> USE RunConstants DEF RInv, RunOptim, settings, search, model, outcome
<1>1. IInv'
    BY RunOptimIInv
<1>2. Stages'
    BY DEF IInv, Kinds, Stages, Calls, Early, Searching, Calling
<1>3. Calls'
    BY DEF IInv, Kinds, SearchUnits, RealUnits, Stages, Calls, Searching, Calling
<1>4. Kept'
    BY DEF IInv, Kinds, Trusted, Stages, Kept, Late, Results
<1>5. Results'
    BY KeptUnits, VectorSteps
    DEF IInv, Kinds, Setting, Trusted, Stages, Calls, Kept, Results, Early, Late,
        Shown, Steps, Searching, Calling
<1>6. TableMatchesParameters'
    BY DEF IInv, Kinds, Stages, Trusted, TableMatchesParameters, Results, Shown,
           Searching, Calling
<1> QED
    BY <1>1, <1>2, <1>3, <1>4, <1>5, <1>6

\* Without optimization the initial values are evaluated.
LEMMA EvaluateOnlyRInv ==
    ASSUME RInv, EvaluateOnly
    PROVE  RInv'
<1> USE RunConstants DEF RInv, EvaluateOnly, Call, settings, search, model, outcome
<1>1. IInv'
    BY EvaluateOnlyIInv
<1>2. Stages'
    BY DEF IInv, Kinds, Stages, Calls, Early, Searching, Calling
<1>3. Calls'
    BY DEF IInv, Kinds, SearchUnits, RealUnits, Stages, Calls, Searching, Calling
<1>4. Kept'
    BY DEF IInv, Kinds, Trusted, Stages, Kept, Late, Results
<1>5. Results'
    BY KeptUnits, VectorSteps
    DEF IInv, Kinds, Setting, Trusted, Stages, Calls, Kept, Results, Early, Late,
        Shown, Steps, Searching, Calling
<1>6. TableMatchesParameters'
    BY DEF IInv, Kinds, Stages, Trusted, TableMatchesParameters, Results, Shown,
           Searching, Calling
<1> QED
    BY <1>1, <1>2, <1>3, <1>4, <1>5, <1>6

\* A search does not touch what is kept.
LEMMA BuildRInv ==
    ASSUME RInv, Build
    PROVE  RInv'
<1> USE RunConstants DEF RInv, Build, settings, search, model, outcome
<1>1. IInv'
    BY BuildIInv
<1>2. Stages'
    BY DEF IInv, Kinds, Stages, Calls, Early, Searching, Calling
<1>3. Calls'
    BY DEF IInv, Kinds, SearchUnits, RealUnits, Stages, Calls, Searching, Calling
<1>4. Kept'
    BY DEF IInv, Kinds, Trusted, Stages, Kept, Late, Results
<1>5. Results'
    BY KeptUnits, VectorSteps
    DEF IInv, Kinds, Setting, Trusted, Stages, Calls, Kept, Results, Early, Late,
        Shown, Steps, Searching, Calling
<1>6. TableMatchesParameters'
    BY DEF IInv, Kinds, Stages, Trusted, TableMatchesParameters, Results, Shown,
           Searching, Calling
<1> QED
    BY <1>1, <1>2, <1>3, <1>4, <1>5, <1>6

\* Nor does NLopt.
LEMMA AskRInv ==
    ASSUME RInv, NEW g \in Guesses, Ask(g)
    PROVE  RInv'
<1> USE RunConstants DEF RInv, Ask, Call, settings, search, model, outcome
<1>1. IInv'
    BY AskIInv
<1>2. Stages'
    BY DEF IInv, Kinds, Stages, Calls, Early, Searching, Calling
<1>3. Calls'
    BY DEF IInv, Kinds, SearchUnits, RealUnits, Stages, Calls, Searching, Calling
<1>4. Kept'
    BY DEF IInv, Kinds, Trusted, Stages, Kept, Late, Results
<1>5. Results'
    BY KeptUnits, VectorSteps
    DEF IInv, Kinds, Setting, Trusted, Stages, Calls, Kept, Results, Early, Late,
        Shown, Steps, Searching, Calling
<1>6. TableMatchesParameters'
    BY DEF IInv, Kinds, Stages, Trusted, TableMatchesParameters, Results, Shown,
           Searching, Calling
<1> QED
    BY <1>1, <1>2, <1>3, <1>4, <1>5, <1>6

\* The vector NLopt returns is the one evaluated last.
LEMMA FoundRInv ==
    ASSUME RInv, Found
    PROVE  RInv'
<1> USE RunConstants DEF RInv, Found, Call, settings, search, model, outcome
<1>1. IInv'
    BY FoundIInv
<1>2. Stages'
    BY DEF IInv, Kinds, Stages, Calls, Early, Searching, Calling
<1>3. Calls'
    BY DEF IInv, Kinds, SearchUnits, RealUnits, Stages, Calls, Searching, Calling
<1>4. Kept'
    BY DEF IInv, Kinds, Trusted, Stages, Kept, Late, Results
<1>5. Results'
    BY KeptUnits, VectorSteps
    DEF IInv, Kinds, Setting, Trusted, Stages, Calls, Kept, Results, Early, Late,
        Shown, Steps, Searching, Calling
<1>6. TableMatchesParameters'
    BY DEF IInv, Kinds, Stages, Trusted, TableMatchesParameters, Results, Shown,
           Searching, Calling
<1> QED
    BY <1>1, <1>2, <1>3, <1>4, <1>5, <1>6

\* After an exit nothing is printed.
LEMMA AbortRInv ==
    ASSUME RInv, Abort
    PROVE  RInv'
<1> USE RunConstants DEF RInv, Abort, settings, search, model, outcome
<1>1. IInv'
    BY AbortIInv
<1>2. Stages'
    BY DEF IInv, Kinds, Stages, Calls, Early, Searching, Calling
<1>3. Calls'
    BY DEF IInv, Kinds, SearchUnits, RealUnits, Stages, Calls, Searching, Calling
<1>4. Kept'
    BY DEF IInv, Kinds, Trusted, Stages, Kept, Late, Results
<1>5. Results'
    BY KeptUnits, VectorSteps
    DEF IInv, Kinds, Setting, Trusted, Stages, Calls, Kept, Results, Early, Late,
        Shown, Steps, Searching, Calling
<1>6. TableMatchesParameters'
    BY DEF IInv, Kinds, Stages, Trusted, TableMatchesParameters, Results, Shown,
           Searching, Calling
<1> QED
    BY <1>1, <1>2, <1>3, <1>4, <1>5, <1>6

\* The gradient evaluates within a search only.
LEMMA GradientRInv ==
    ASSUME RInv, Gradient
    PROVE  RInv'
<1> USE RunConstants DEF RInv, Gradient, gems3k_wrap, Evaluation, settings, search,
        model, outcome
<1>1. IInv'
    BY GradientIInv
<1>2. Stages'
    BY DEF IInv, Kinds, Stages, Calls, Early, Searching, Calling
<1>3. Calls'
    BY DEF IInv, Kinds, SearchUnits, RealUnits, Stages, Calls, Searching, Calling
<1>4. Kept'
    BY DEF IInv, Kinds, Trusted, Stages, Kept, Late, Results
<1>5. Results'
    BY KeptUnits, VectorSteps
    DEF IInv, Kinds, Setting, Trusted, Stages, Calls, Kept, Results, Early, Late,
        Shown, Steps, Searching, Calling
<1>6. TableMatchesParameters'
    BY DEF IInv, Kinds, Stages, Trusted, TableMatchesParameters, Results, Shown,
           Searching, Calling
<1> QED
    BY <1>1, <1>2, <1>3, <1>4, <1>5, <1>6

\* The last evaluation of a search is at the vector found.
LEMMA EvaluateRInv ==
    ASSUME RInv, Evaluate
    PROVE  RInv'
<1> USE RunConstants DEF RInv, Evaluate, Wrap, gems3k_wrap, tsolmod_wrap, Evaluation,
        settings, search, model, outcome
<1>1. IInv'
    BY EvaluateIInv
<1>2. Stages'
    BY DEF IInv, Kinds, Stages, Calls, Early, Searching, Calling
<1>3. Calls'
    BY DEF IInv, Kinds, SearchUnits, RealUnits, Stages, Calls, Searching, Calling
<1>4. Kept'
    BY DEF IInv, Kinds, Trusted, Stages, Kept, Late, Results
<1>5. Results'
    BY KeptUnits, VectorSteps
    DEF IInv, Kinds, Setting, Trusted, Stages, Calls, Kept, Results, Early, Late,
        Shown, Steps, Searching, Calling
<1>6. TableMatchesParameters'
    BY DEF IInv, Kinds, Stages, Trusted, TableMatchesParameters, Results, Shown,
           Searching, Calling
<1> QED
    BY <1>1, <1>2, <1>3, <1>4, <1>5, <1>6

\* In real units that vector is the one the nodes were computed at.
LEMMA BuiltRInv ==
    ASSUME RInv, Built
    PROVE  RInv'
<1> USE RunConstants DEF RInv, Built, settings, search, model, outcome
<1>1. IInv'
    BY BuiltIInv
<1>2. Stages'
    BY DEF IInv, Kinds, Stages, Calls, Early, Searching, Calling
<1>3. Calls'
    BY DEF IInv, Kinds, SearchUnits, RealUnits, Stages, Calls, Searching, Calling
<1>4. Kept'
    BY DEF IInv, Kinds, Trusted, Stages, Kept, Late, Results
<1>5. Results'
  <2>1. SUFFICES ASSUME Trusted, imc = 0
                 PROVE  point = optv' /\ table.at = optv' /\ table.data = Original
    BY DEF IInv, Kinds, Trusted, Results
  <2>2. asked = optv /\ told # {} /\ Searching
    BY DEF Calls, Searching
  <2>3. table.at = point /\ table.data = Original
    BY <2>1 DEF Results, Stages
  <2>4. optv \in Vector /\ optv.unit = Unit
    BY <2>2 DEF IInv, Kinds, SearchUnits
  <2>5. point = [optv EXCEPT !.unit = Real]
    <3>1. point = [asked EXCEPT !.unit = Real]
      BY <2>1, <2>2 DEF IInv, EvaluatedIsAsked
    <3> QED
      BY <2>2, <3>1
  <2>6. optv' = [optv EXCEPT !.unit = Real]
    <3>1. CASE opts.OptNormParam
      BY <2>4, <3>1 DEF Unit, Rescaled
    <3>2. CASE ~opts.OptNormParam
      <4>1. optv' = optv /\ optv.unit = Real
        BY <2>4, <3>2 DEF Unit
      <4>2. [optv EXCEPT !.unit = Real] = optv
        BY <2>4, <4>1, VectorUnits
      <4> QED
        BY <4>1, <4>2
    <3> QED
      BY <3>1, <3>2
  <2> QED
    BY <2>3, <2>5, <2>6
<1>6. TableMatchesParameters'
    BY DEF IInv, Kinds, Stages, Trusted, TableMatchesParameters, Results, Shown,
           Searching, Calling
<1> QED
    BY <1>1, <1>2, <1>3, <1>4, <1>5, <1>6

\* It is kept.
LEMMA BasicStatRInv ==
    ASSUME RInv, basic_stat
    PROVE  RInv'
<1> USE RunConstants DEF RInv, basic_stat, settings, search, model, outcome
<1>1. IInv'
    BY BasicStatIInv
<1>2. Stages'
    BY DEF IInv, Kinds, Stages, Calls, Early, Searching, Calling
<1>3. Calls'
    BY DEF IInv, Kinds, SearchUnits, RealUnits, Stages, Calls, Searching, Calling
<1>4. Kept'
    BY DEF IInv, Kinds, Trusted, Stages, Kept, Late, Results
<1>5. Results'
    BY KeptUnits, VectorSteps
    DEF IInv, Kinds, Setting, Trusted, Stages, Calls, Kept, Results, Early, Late,
        Shown, Steps, Searching, Calling
<1>6. TableMatchesParameters'
    BY DEF IInv, Kinds, Stages, Trusted, TableMatchesParameters, Results, Shown,
           Searching, Calling
<1> QED
    BY <1>1, <1>2, <1>3, <1>4, <1>5, <1>6

\* The differences are evaluated elsewhere,
LEMMA SensitivityRInv ==
    ASSUME RInv, Sensitivity
    PROVE  RInv'
<1> USE RunConstants DEF RInv, Sensitivity, Wrap, gems3k_wrap, tsolmod_wrap,
        Evaluation, settings, search, model, outcome
<1>1. IInv'
    BY SensitivityIInv
<1>2. Stages'
    BY DEF IInv, Kinds, Stages, Calls, Early, Searching, Calling
<1>3. Calls'
    BY DEF IInv, Kinds, SearchUnits, RealUnits, Stages, Calls, Searching, Calling
<1>4. Kept'
    BY DEF IInv, Kinds, Trusted, Stages, Kept, Late, Results
<1>5. Results'
    BY KeptUnits, VectorSteps
    DEF IInv, Kinds, Setting, Trusted, Stages, Calls, Kept, Results, Early, Late,
        Shown, Steps, Searching, Calling
<1>6. TableMatchesParameters'
    BY DEF IInv, Kinds, Stages, Trusted, TableMatchesParameters, Results, Shown,
           Searching, Calling
<1> QED
    BY <1>1, <1>2, <1>3, <1>4, <1>5, <1>6

\* and the results are put back.
LEMMA SensitivityEndRInv ==
    ASSUME RInv, SensitivityEnd
    PROVE  RInv'
<1> USE RunConstants DEF RInv, SensitivityEnd, Wrap, gems3k_wrap, tsolmod_wrap,
        Evaluation, settings, search, model, outcome
<1>1. IInv'
    BY SensitivityEndIInv
<1>2. Stages'
    BY DEF IInv, Kinds, Stages, Calls, Early, Searching, Calling
<1>3. Calls'
    BY DEF IInv, Kinds, SearchUnits, RealUnits, Stages, Calls, Searching, Calling
<1>4. Kept'
    BY DEF IInv, Kinds, Trusted, Stages, Kept, Late, Results
<1>5. Results'
    BY KeptUnits, VectorSteps
    DEF IInv, Kinds, Setting, Trusted, Stages, Calls, Kept, Results, Early, Late,
        Shown, Steps, Searching, Calling
<1>6. TableMatchesParameters'
    BY DEF IInv, Kinds, Stages, Trusted, TableMatchesParameters, Results, Shown,
           Searching, Calling
<1> QED
    BY <1>1, <1>2, <1>3, <1>4, <1>5, <1>6

\* Rounding stays within the guess.
LEMMA DigitRInv ==
    ASSUME RInv, Digit
    PROVE  RInv'
<1> USE RunConstants DEF RInv, Digit, Wrap, gems3k_wrap, tsolmod_wrap, Evaluation,
        settings, search, model, outcome
<1>1. IInv'
    BY DigitIInv
<1>2. Stages'
    BY DEF IInv, Kinds, Stages, Calls, Early, Searching, Calling
<1>3. Calls'
    BY DEF IInv, Kinds, SearchUnits, RealUnits, Stages, Calls, Searching, Calling
<1>4. Kept'
    BY DEF IInv, Kinds, Trusted, Stages, Kept, Late, Results
<1>5. Results'
    BY KeptUnits, VectorSteps
    DEF IInv, Kinds, Setting, Trusted, Stages, Calls, Kept, Results, Early, Late,
        Shown, Steps, Searching, Calling
<1>6. TableMatchesParameters'
    BY DEF IInv, Kinds, Stages, Trusted, TableMatchesParameters, Results, Shown,
           Searching, Calling
<1> QED
    BY <1>1, <1>2, <1>3, <1>4, <1>5, <1>6

\* The last evaluation is at the rounded vector.
LEMMA DigitsEndRInv ==
    ASSUME RInv, DigitsEnd
    PROVE  RInv'
<1> USE RunConstants DEF RInv, DigitsEnd, Wrap, gems3k_wrap, tsolmod_wrap, Evaluation,
        settings, search, model, outcome
<1>1. IInv'
    BY DigitsEndIInv
<1>2. Stages'
    BY DEF IInv, Kinds, Stages, Calls, Early, Searching, Calling
<1>3. Calls'
    BY DEF IInv, Kinds, SearchUnits, RealUnits, Stages, Calls, Searching, Calling
<1>4. Kept'
    BY DEF IInv, Kinds, Trusted, Stages, Kept, Late, Results
<1>5. Results'
    BY KeptUnits, VectorSteps
    DEF IInv, Kinds, Setting, Trusted, Stages, Calls, Kept, Results, Early, Late,
        Shown, Steps, Searching, Calling
<1>6. TableMatchesParameters'
    BY DEF IInv, Kinds, Stages, Trusted, TableMatchesParameters, Results, Shown,
           Searching, Calling
<1> QED
    BY <1>1, <1>2, <1>3, <1>4, <1>5, <1>6

\* The first Monte Carlo run copies the fitted vector.
LEMMA MC_runRInv ==
    ASSUME RInv, MC_run
    PROVE  RInv'
<1> USE RunConstants DEF RInv, MC_run, settings, search, model, outcome
<1>1. IInv'
    BY MC_runIInv
<1>2. Stages'
    BY DEF IInv, Kinds, Stages, Calls, Early, Searching, Calling
<1>3. Calls'
    BY DEF IInv, Kinds, SearchUnits, RealUnits, Stages, Calls, Searching, Calling
<1>4. Kept'
    BY DEF IInv, Kinds, Trusted, Stages, Kept, Late, Results
<1>5. Results'
    BY KeptUnits, VectorSteps
    DEF IInv, Kinds, Setting, Trusted, Stages, Calls, Kept, Results, Early, Late,
        Shown, Steps, Searching, Calling
<1>6. TableMatchesParameters'
    BY DEF IInv, Kinds, Stages, Trusted, TableMatchesParameters, Results, Shown,
           Searching, Calling
<1> QED
    BY <1>1, <1>2, <1>3, <1>4, <1>5, <1>6

\* The measurements are put back.
LEMMA MC_storeRInv ==
    ASSUME RInv, MC_store
    PROVE  RInv'
<1> USE RunConstants DEF RInv, MC_store, settings, search, model, outcome
<1>1. IInv'
    BY MC_storeIInv
<1>2. Stages'
    BY DEF IInv, Kinds, Stages, Calls, Early, Searching, Calling
<1>3. Calls'
    BY DEF IInv, Kinds, SearchUnits, RealUnits, Stages, Calls, Searching, Calling
<1>4. Kept'
    BY DEF IInv, Kinds, Trusted, Stages, Kept, Late, Results
<1>5. Results'
    BY KeptUnits, VectorSteps
    DEF IInv, Kinds, Setting, Trusted, Stages, Calls, Kept, Results, Early, Late,
        Shown, Steps, Searching, Calling
<1>6. TableMatchesParameters'
    BY DEF IInv, Kinds, Stages, Trusted, TableMatchesParameters, Results, Shown,
           Searching, Calling
<1> QED
    BY <1>1, <1>2, <1>3, <1>4, <1>5, <1>6

\* The results are put back at the copy.
LEMMA MC_endRInv ==
    ASSUME RInv, MC_end
    PROVE  RInv'
<1> USE RunConstants DEF RInv, MC_end, Wrap, gems3k_wrap, tsolmod_wrap, Evaluation,
        settings, search, model, outcome
<1>1. IInv'
    BY MC_endIInv
<1>2. Stages'
    BY DEF IInv, Kinds, Stages, Calls, Early, Searching, Calling
<1>3. Calls'
    BY DEF IInv, Kinds, SearchUnits, RealUnits, Stages, Calls, Searching, Calling
<1>4. Kept'
    BY DEF IInv, Kinds, Trusted, Stages, Kept, Late, Results
<1>5. Results'
    BY KeptUnits, VectorSteps
    DEF IInv, Kinds, Setting, Trusted, Stages, Calls, Kept, Results, Early, Late,
        Shown, Steps, Searching, Calling
<1>6. TableMatchesParameters'
    BY DEF IInv, Kinds, Stages, Trusted, TableMatchesParameters, Results, Shown,
           Searching, Calling
<1> QED
    BY <1>1, <1>2, <1>3, <1>4, <1>5, <1>6

\* Without Monte Carlo runs the results are left.
LEMMA NoMCRInv ==
    ASSUME RInv, NoMC
    PROVE  RInv'
<1> USE RunConstants DEF RInv, NoMC, settings, search, model, outcome
<1>1. IInv'
    BY NoMCIInv
<1>2. Stages'
    BY DEF IInv, Kinds, Stages, Calls, Early, Searching, Calling
<1>3. Calls'
    BY DEF IInv, Kinds, SearchUnits, RealUnits, Stages, Calls, Searching, Calling
<1>4. Kept'
    BY DEF IInv, Kinds, Trusted, Stages, Kept, Late, Results
<1>5. Results'
    BY KeptUnits, VectorSteps
    DEF IInv, Kinds, Setting, Trusted, Stages, Calls, Kept, Results, Early, Late,
        Shown, Steps, Searching, Calling
<1>6. TableMatchesParameters'
    BY DEF IInv, Kinds, Stages, Trusted, TableMatchesParameters, Results, Shown,
           Searching, Calling
<1> QED
    BY <1>1, <1>2, <1>3, <1>4, <1>5, <1>6

\* The printed table is the one at the printed vector.
LEMMA PrintResultsRInv ==
    ASSUME RInv, PrintResults
    PROVE  RInv'
<1> USE RunConstants DEF RInv, PrintResults, settings, search, model, outcome
<1>1. IInv'
    BY PrintResultsIInv
<1>2. Stages'
    BY DEF IInv, Kinds, Stages, Calls, Early, Searching, Calling
<1>3. Calls'
    BY DEF IInv, Kinds, SearchUnits, RealUnits, Stages, Calls, Searching, Calling
<1>4. Kept'
    BY DEF IInv, Kinds, Trusted, Stages, Kept, Late, Results
<1>5. Results'
    BY KeptUnits, VectorSteps
    DEF IInv, Kinds, Setting, Trusted, Stages, Calls, Kept, Results, Early, Late,
        Shown, Steps, Searching, Calling
<1>6. TableMatchesParameters'
    BY DEF IInv, Kinds, Stages, Trusted, TableMatchesParameters, Results, Shown,
           Searching, Calling
<1> QED
    BY <1>1, <1>2, <1>3, <1>4, <1>5, <1>6

\* A step that changes nothing.
LEMMA StutterRInv ==
    ASSUME RInv, UNCHANGED vars
    PROVE  RInv'
<1>1. IInv'
    BY StutterIInv DEF RInv
<1>2. Stages' /\ Calls' /\ Kept' /\ Results' /\ TableMatchesParameters'
    BY DEF vars, RInv, Stages, Calls, Kept, Results, TableMatchesParameters, Early,
           Late, Shown, Trusted, Searching, Calling
<1> QED
    BY <1>1, <1>2 DEF RInv

\* Every step of the program keeps the invariant.
THEOREM NextRInv == RInv /\ [Next]_vars => RInv'
BY RunOptimRInv, EvaluateOnlyRInv, BuildRInv, AskRInv, FoundRInv,
   AbortRInv, GradientRInv, EvaluateRInv, BuiltRInv, BasicStatRInv,
   SensitivityRInv, SensitivityEndRInv, DigitRInv, DigitsEndRInv, MC_runRInv,
   MC_storeRInv, MC_endRInv, NoMCRInv, PrintResultsRInv,
   StutterRInv DEF Next

\* The invariant says what the two properties ask for.
LEMMA RInvResults == RInv => ResultsReturnToFit /\ TableMatchesParameters
<1> SUFFICES ASSUME RInv PROVE ResultsReturnToFit
    BY DEF RInv
<1> USE DEF RInv, Stages, Kept, Results, Late, Shown
<1>1. CASE pc = "basic_stat"
    BY <1>1 DEF ResultsReturnToFit, IInv, Kinds, RealUnits, Early, Searching, Calling
<1>2. CASE pc \in {"sensitivity", "digits", "MC", "print"}
    BY <1>2, KeptUnits, VectorSteps
    DEF ResultsReturnToFit, IInv, Kinds, Searching, Calling
<1> QED
    BY <1>1, <1>2 DEF ResultsReturnToFit

\* In every run of the program, the results are back at the fitted vector and the
\* original measurements after the optimization, the sensitivities, the rounding
\* and the Monte Carlo runs, with any settings and any number of evaluations.
THEOREM ResultsReturnToFitHolds == Spec => []ResultsReturnToFit
BY InitRInv, NextRInv, RInvResults, PTL DEF Spec

\* In every run of the program that does not both round and scatter, the printed
\* table was computed at the printed parameters.
THEOREM TableMatchesParametersHolds == Spec => []TableMatchesParameters
BY InitRInv, NextRInv, RInvResults, PTL DEF Spec

----------------------------------------------------------------------------
(***************************************************************************)
(* The ranges of the variables, and the gradient: the differences are taken*)
(* around the vector NLopt asks about, of a function that has a divisor.   *)
(***************************************************************************)

\* Vectors where vectors are expected, and the counters within their bounds.
Ranges ==
    /\ opts \in Settings
    /\ coord \in 1..Rounded
    /\ evals \in 0..MaxEval
    /\ data \in 0..MCRuns
    /\ imc \in 0..MCRuns
    /\ asked \in Points
    /\ point \in Points
    /\ backup \in Points
    /\ fitted \in Points
    /\ rounded \in BOOLEAN
    /\ Calling => asked \in Vector
    /\ \A r \in told : r.asked \in Vector

\* Once an evaluation has been counted there is a divisor.
NormIsSet == master_counter >= 1 => norm \in Norm

GInv ==
    /\ IInv
    /\ Ranges
    /\ NormIsSet
    /\ NormalizedGradientIsCentral

\* The vectors the program makes of others are vectors.
LEMMA SteppedType ==
    ASSUME NEW v \in Vector, NEW n \in 0..Rounded
    PROVE  Stepped(v, n) \in Vector
BY DEF Vector, Stepped

LEMMA RescaledType ==
    ASSUME NEW v \in Vector, NEW g
    PROVE  Rescaled(v, g) \in Vector
BY DEF Vector, Rescaled

LEMMA NormalizedType ==
    ASSUME NEW v \in Vector
    PROVE  Normalized(v) \in Vector
BY DEF Vector, Normalized

\* A vector divided by the guess it is multiplied by, and not stepped, is the
\* guess meant.
LEMMA RescaledIsAt ==
    ASSUME NEW v \in Vector, v.off = 0
    PROVE  Rescaled(v, v.unit) = At(v.x)
BY DEF Vector, Rescaled, At

\* An evaluation of GEMS3K at a vector leaves the nodes there, and a divisor.
LEMMA GemsSetsNorm ==
    ASSUME NEW v \in Vector, IInv, Ranges, NormIsSet, gems3k_wrap(v)
    PROVE  /\ point' = v
           /\ NormIsSet'
           /\ table'.norm \in Norm
<1> USE DEF gems3k_wrap, Counted, Evaluation
<1>1. point' = v
    OBVIOUS
<1>2. norm' \in Norm
  <2>1. CASE master_counter' = 1
    BY <2>1 DEF Norm, Ranges
  <2>2. CASE master_counter' # 1
    BY <2>2 DEF IInv, Kinds, NormIsSet
  <2> QED
    BY <2>1, <2>2
<1> QED
    BY <1>1, <1>2 DEF NormIsSet

\* An evaluation with or without GEMS3K.
LEMMA WrapSetsPoint ==
    ASSUME NEW v \in Vector, IInv, Ranges, NormIsSet, Wrap(v)
    PROVE  point' \in Vector /\ NormIsSet'
BY GemsSetsNorm DEF Wrap, tsolmod_wrap, NormIsSet

\* The first state is in the ranges, and nothing is evaluated in it.
THEOREM InitGInv == Init => GInv
<1> SUFFICES ASSUME Init PROVE GInv
    OBVIOUS
<1>1. IInv
    BY InitIInv
<1>2. Ranges
  <2>1. coord = 1 /\ evals = 0 /\ data = 0 /\ imc = 0
    BY DEF Init
  <2>2. coord \in 1..Rounded /\ evals \in 0..MaxEval /\ data \in 0..MCRuns
            /\ imc \in 0..MCRuns
    BY <2>1, RunConstants DEF Rounded
  <2> QED
    BY <2>2 DEF Init, Ranges, Points, Calling
<1>3. NormIsSet /\ NormalizedGradientIsCentral
    BY DEF Init, NormIsSet, NormalizedGradientIsCentral
<1> QED
    BY <1>1, <1>2, <1>3 DEF GInv

\* No action leaves the ranges.
LEMMA RangesKept ==
    ASSUME IInv, Ranges, NormIsSet, Next
    PROVE  Ranges' /\ NormIsSet'
<1> USE RunConstants DEF Ranges, Points, settings, search, model, outcome
<1>1. CASE RunOptim
    BY <1>1 DEF RunOptim, NormIsSet, Calling
<1>2. CASE EvaluateOnly
    BY <1>2 DEF EvaluateOnly, Call, IInv, Kinds, NormIsSet, Rounded, Calling
<1>3. CASE Build
    BY <1>3 DEF Build, NormIsSet, Calling
<1>4. ASSUME NEW g \in Guesses, Ask(g)
      PROVE  Ranges' /\ NormIsSet'
  <2>1. asked' \in Vector
    BY <1>4 DEF Ask, Call, IInv, Kinds, Vector, Rounded
  <2> QED
    BY <1>4, <2>1 DEF Ask, Call, NormIsSet, Rounded, Calling
<1>5. CASE Found
    BY <1>5 DEF Found, Call, NormIsSet, Rounded, Calling
<1>6. CASE Abort
    BY <1>6 DEF Abort, NormIsSet, Calling
<1>7. CASE Gradient
  <2> DEFINE v == Stepped(Rescaled(asked, optv_0), coord)
  <2>1. v \in Vector
    BY <1>7, RescaledType, SteppedType DEF Gradient, Calling, Steps, Rounded
  <2>2. gems3k_wrap(v)
    BY <1>7 DEF Gradient
  <2> HIDE DEF v
  <2>3. point' = v /\ NormIsSet'
    BY <2>1, <2>2, GemsSetsNorm
  <2> QED
    BY <1>7, <2>1, <2>3 DEF Gradient, Steps, Rounded, Calling
<1>8. CASE Evaluate
  <2> DEFINE v == IF NormParams THEN Rescaled(asked, optv_0) ELSE asked
  <2>1. asked \in Vector
    BY <1>8 DEF Evaluate, Calling
  <2>2. v \in Vector
    BY <2>1, RescaledType
  <2>3. Wrap(v)
    BY <1>8 DEF Evaluate
  <2> HIDE DEF v
  <2>4. point' \in Vector /\ NormIsSet'
    BY <2>2, <2>3, WrapSetsPoint
  <2>5. ~Calling'
    BY <1>8 DEF Evaluate, Calling, IInv, Kinds
  <2>6. \A r \in told' : r.asked \in Vector
    BY <1>8, <2>1 DEF Evaluate
  <2> QED
    BY <1>8, <2>4, <2>5, <2>6 DEF Evaluate
<1>9. CASE Built
    BY <1>9 DEF Built, NormIsSet, Calling
<1>10. CASE basic_stat
    BY <1>10 DEF basic_stat, NormIsSet, Calling, Rounded
<1>11. CASE Sensitivity
  <2>1. Stepped(optv, coord) \in Vector
    BY <1>11, SteppedType DEF Sensitivity, Steps, Rounded, IInv, Kinds
  <2>2. point' \in Vector /\ NormIsSet'
    BY <1>11, <2>1, WrapSetsPoint DEF Sensitivity
  <2> QED
    BY <1>11, <2>2 DEF Sensitivity, Steps, Rounded, Calling
<1>12. CASE SensitivityEnd
  <2>1. point' \in Vector /\ NormIsSet'
    BY <1>12, WrapSetsPoint DEF SensitivityEnd, IInv, Kinds
  <2> QED
    BY <1>12, <2>1 DEF SensitivityEnd, Rounded, Calling
<1>13. CASE Digit
  <2>1. Stepped(optv, Rounded) \in Vector
    BY SteppedType DEF Rounded, IInv, Kinds
  <2>2. point' \in Vector /\ NormIsSet'
    BY <1>13, <2>1, WrapSetsPoint DEF Digit
  <2> QED
    BY <1>13, <2>2 DEF Digit, Rounded, Calling
<1>14. CASE DigitsEnd
  <2>1. Stepped(optv, Rounded) \in Vector
    BY SteppedType DEF Rounded, IInv, Kinds
  <2>2. point' \in Vector /\ NormIsSet'
    BY <1>14, <2>1, WrapSetsPoint DEF DigitsEnd
  <2> QED
    BY <1>14, <2>2 DEF DigitsEnd, Calling
<1>15. CASE MC_run
    BY <1>15 DEF MC_run, IInv, Kinds, NormIsSet, Calling
<1>16. CASE MC_store
    BY <1>16 DEF MC_store, NormIsSet, Calling
<1>17. CASE MC_end
  <2>1. backup \in Vector
    BY <1>17 DEF MC_end, IInv, RealUnits
  <2>2. point' \in Vector /\ NormIsSet'
    BY <1>17, <2>1, WrapSetsPoint DEF MC_end
  <2> QED
    BY <1>17, <2>2 DEF MC_end, Calling
<1>18. CASE NoMC
    BY <1>18 DEF NoMC, NormIsSet, Calling
<1>19. CASE PrintResults
    BY <1>19 DEF PrintResults, NormIsSet, Calling
<1> QED
    BY <1>1, <1>2, <1>3, <1>4, <1>5, <1>6, <1>7, <1>8, <1>9, <1>10, <1>11, <1>12,
       <1>13, <1>14, <1>15, <1>16, <1>17, <1>18, <1>19 DEF Next

\* Only Gradient goes on taking differences; every call starts at the first
\* coordinate. In a search with normalized parameters the vector asked about is
\* divided by the guess gradient multiplies it by.
LEMMA GradientKept ==
    ASSUME GInv, Next
    PROVE  NormalizedGradientIsCentral'
<1> SUFFICES ASSUME opts'.OptNormParam, opts'.OptEquilibrium,
                    caller' = "nlopt", pc' = "gradient", coord' > 1
             PROVE  point' = Stepped(At(asked'.x), coord' - 1) /\ table'.norm # None
    BY DEF NormalizedGradientIsCentral
<1>1. Gradient
    BY DEF Next, RunOptim, EvaluateOnly, Call, Build, Ask, Found, Abort, Evaluate, Built,
           basic_stat, Sensitivity, SensitivityEnd, Digit, DigitsEnd, MC_run, MC_store,
           MC_end, NoMC, PrintResults, GInv, IInv, Kinds
<1> DEFINE v == Stepped(Rescaled(asked, optv_0), coord)
<1>2. asked \in Vector /\ asked.unit = optv_0 /\ asked.off = 0
    BY <1>1 DEF Gradient, GInv, IInv, SearchUnits, Searching, Calling, Unit, search
<1>3. v = Stepped(At(asked.x), coord)
    BY <1>2, RescaledIsAt
<1>4. v \in Vector
    BY <1>1, <1>2, RescaledType, SteppedType DEF Gradient, Steps, Rounded, GInv, Ranges
<1>5. gems3k_wrap(v)
    BY <1>1 DEF Gradient
<1> HIDE DEF v
<1>6. point' = v /\ table'.norm \in Norm
    BY <1>4, <1>5, GemsSetsNorm DEF GInv
<1>7. asked' = asked /\ coord' - 1 = coord
    BY <1>1 DEF Gradient, search, GInv, Ranges
<1> QED
    BY <1>3, <1>6, <1>7, NoNorm

\* Every step of the program keeps the invariant.
THEOREM NextGInv == GInv /\ [Next]_vars => GInv'
<1> SUFFICES ASSUME GInv, [Next]_vars PROVE GInv'
    OBVIOUS
<1>1. IInv'
    BY NextIInv DEF GInv
<1>2. CASE Next
    BY <1>1, <1>2, RangesKept, GradientKept DEF GInv
<1>3. CASE UNCHANGED vars
    BY <1>1, <1>3
    DEF vars, GInv, Ranges, NormIsSet, NormalizedGradientIsCentral, Calling
<1> QED
    BY <1>2, <1>3

\* The variables of a run stay in their ranges: no stage of the program leaves a
\* coordinate, a counter or a vector it does not have.
THEOREM TypeCorrect == Spec => []TypeOK
<1>1. GInv => TypeOK
    BY DEF GInv, IInv, Kinds, Ranges, TypeOK
<1> QED
    BY InitGInv, NextGInv, <1>1, PTL DEF Spec

\* In every run of the program, with any number of coordinates, the gradient NLopt
\* is given with normalized parameters and GEMS3K is made of central differences
\* around the vector it asks about, of a function that already has its divisor.
THEOREM NormalizedGradientIsCentralHolds == Spec => []NormalizedGradientIsCentral
<1>1. GInv => NormalizedGradientIsCentral
    BY DEF GInv
<1> QED
    BY InitGInv, NextGInv, <1>1, PTL DEF Spec
=============================================================================

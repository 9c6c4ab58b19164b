-------------------------- MODULE NestedFitProofs ---------------------------
(***************************************************************************)
(* Proofs about NestedFit, for any numbers of threads, samples, nested     *)
(* functions and parameters: the loops that gather parameters and give     *)
(* them values; that the threads of the parallel loop stay apart, and      *)
(* nothing but the slots tells the objective function what to work on;     *)
(* then types, what an evaluation leaves in the nodes, and which           *)
(* optimizers have a stop criterion.                                       *)
(***************************************************************************)
EXTENDS NestedFit, Induction, TLAPS

-----------------------------------------------------------------------------
(* The loops over the parameters.                                          *)

\* A nested parameter.
ParameterSet == [group : Nat \ {0}, index : Nat \ {0}, Fndx : 1..Functions]

LEMMA ParameterType ==
    ASSUME NEW k \in Order
    PROVE  /\ Parameters[k] \in ParameterSet
           /\ Parameters[k].group \in Nat \ {0}
<1>1. Parameters \in Seq(ParameterSet)
    BY NestedConstants DEF ParameterSet
<1>2. Parameters[k] \in ParameterSet
    BY <1>1 DEF Order
<1> QED
    BY <1>2 DEF ParameterSet

\* SetBy(s) is the last value of a function on 0..Len(Parameters) that starts
\* with the empty sequence and appends a parameter that is next.
LEMMA SetByLoop ==
    ASSUME NEW s \in Seq(Order)
    PROVE  \E f \in [0..Len(Parameters) -> Seq(Order)] :
              /\ SetBy(s) = f[Len(Parameters)]
              /\ f[0] = <<>>
              /\ \A k \in Order : f[k] = IF IsNext(Parameters[k], s, Len(f[k - 1]) + 1)
                                         THEN Append(f[k - 1], k) ELSE f[k - 1]
<1> DEFINE n == Len(Parameters)
           After(v, k) == IF IsNext(Parameters[k], s, Len(v) + 1) THEN Append(v, k) ELSE v
           Step == [k \in 1..n |-> [v \in Seq(Order) |-> After(v, k)]]
           Set[k \in 0..Len(Parameters)] ==
              IF k = 0 THEN <<>>
              ELSE IF IsNext(Parameters[k], s, Len(Set[k - 1]) + 1)
                   THEN Append(Set[k - 1], k) ELSE Set[k - 1]
           Typed == {k \in 0..n : Set[k] \in Seq(Order)}
<1>1. n \in Nat /\ Order = 1..n /\ <<>> \in Seq(Order)
    BY NestedConstants DEF Order
<1>2. \A v \in Seq(Order), k \in 1..n : After(v, k) \in Seq(Order)
  <2> SUFFICES ASSUME NEW v \in Seq(Order), NEW k \in Order
               PROVE  Append(v, k) \in Seq(Order)
    BY <1>1
  <2> QED
    OBVIOUS
<1>3. SetBy(s) = Set[n]
    BY DEF SetBy
<1>4. \A k, v : After(v, k) = IF IsNext(Parameters[k], s, Len(v) + 1) THEN Append(v, k) ELSE v
    OBVIOUS
<1>5. (\E g : g = [k \in 0..n |-> IF k = 0 THEN <<>> ELSE After(g[k - 1], k)]) =>
      Set = [k \in 0..n |-> IF k = 0 THEN <<>> ELSE After(Set[k - 1], k)]
    OBVIOUS
<1> HIDE DEF n, After, Set
<1>6. \E g : g = [k \in 0..n |-> IF k = 0 THEN <<>> ELSE After(g[k - 1], k)]
  <2>1. Step \in [1..n -> [Seq(Order) -> Seq(Order)]]
    BY <1>2
  <2>2. \A k \in 1..n, v \in Seq(Order) : Step[k][v] = After(v, k)
    OBVIOUS
  <2> HIDE DEF Step
  <2>3. PICK g \in [0..n -> Seq(Order)] : Recursive(g, n, <<>>, Step)
    BY <1>1, <2>1, RecursionUpTo
  <2>4. g = [k \in 0..n |-> IF k = 0 THEN <<>> ELSE Step[k][g[k - 1]]]
    BY <2>3 DEF Recursive
  <2>5. \A k \in 1..n : k - 1 \in 0..n /\ Step[k][g[k - 1]] = After(g[k - 1], k)
    BY <1>1, <2>2
  <2>6. \A k \in 0..n : k # 0 => k \in 1..n
    BY <1>1
  <2>7. \A k \in 0..n : (IF k = 0 THEN <<>> ELSE Step[k][g[k - 1]])
                        = (IF k = 0 THEN <<>> ELSE After(g[k - 1], k))
    BY <2>5, <2>6
  <2>8. g = [k \in 0..n |-> IF k = 0 THEN <<>> ELSE After(g[k - 1], k)]
    BY <2>4, <2>7, Zenon
  <2> QED
    BY <2>8
<1>7. Set = [k \in 0..n |-> IF k = 0 THEN <<>> ELSE After(Set[k - 1], k)]
    BY <1>5, <1>6
<1>8. Set[0] = <<>> /\ \A k \in 1..n : Set[k] = After(Set[k - 1], k)
    BY <1>1, <1>7
<1>9. \A k \in 0..n : Set[k] \in Seq(Order)
  <2>1. 0 \in 0..n /\ Set[0] \in Seq(Order)
    BY <1>1, <1>8
  <2>2. 0 \in Typed
    BY <2>1
  <2>3. ASSUME NEW k \in 1..n, k - 1 \in Typed
        PROVE  k \in Typed
    BY <1>1, <1>2, <1>8, <2>3
  <2> HIDE DEF Typed
  <2>4. \A k \in 0..n : k \in Typed
    BY <1>1, <2>2, <2>3, InductionUpTo
  <2> QED
    BY <2>4 DEF Typed
<1>10. Set \in [0..n -> Seq(Order)]
    BY <1>7, <1>9
<1> QED
    BY <1>1, <1>3, <1>4, <1>8, <1>10 DEF n

\* The parameters that are given values are no more than there are values, and each
\* is of the group of one in s.
LEMMA SetBySound ==
    ASSUME NEW s \in Seq(Order)
    PROVE  /\ SetBy(s) \in Seq(Order)
           /\ DOMAIN SetBy(s) \subseteq DOMAIN s
           /\ \A m \in DOMAIN SetBy(s) : \E g \in DOMAIN s :
                  Parameters[s[g]].group = Parameters[SetBy(s)[m]].group
<1> DEFINE n == Len(Parameters)
           Ours(k) == \E g \in DOMAIN s : Parameters[s[g]].group = Parameters[k].group
<1>1. PICK f \in [0..n -> Seq(Order)] :
              /\ SetBy(s) = f[n]
              /\ f[0] = <<>>
              /\ \A k \in Order : f[k] = IF IsNext(Parameters[k], s, Len(f[k - 1]) + 1)
                                         THEN Append(f[k - 1], k) ELSE f[k - 1]
    BY SetByLoop
<1>2. n \in Nat /\ Order = 1..n /\ 0 \in 0..n /\ n \in 0..n
    BY NestedConstants DEF Order
<1>3. \A k \in Order : \A op : IsNext(Parameters[k], s, op) => Ours(k) /\ op <= Len(s)
  <2> SUFFICES ASSUME NEW k \in Order, NEW op, IsNext(Parameters[k], s, op)
               PROVE  Ours(k) /\ op <= Len(s)
    OBVIOUS
  <2>1. Parameters[k].group \in Nat \ {0}
    BY ParameterType
  <2>2. Parameters[k].group \in DOMAIN s
    BY <2>1 DEF IsNext
  <2> QED
    BY <2>2 DEF IsNext
<1> HIDE DEF n, Ours
<1> DEFINE Good == {k \in 0..n : /\ Len(f[k]) <= Len(s)
                                 /\ \A m \in 1..Len(f[k]) : Ours(f[k][m])}
<1>4. 0 \in Good
    BY <1>1, <1>2
<1>5. ASSUME NEW k \in 1..n, k - 1 \in Good
      PROVE  k \in Good
  <2>1. k \in Order /\ f[k - 1] \in Seq(Order) /\ k \in 0..n /\ k - 1 \in 0..n
    BY <1>1, <1>2
  <2>2. CASE IsNext(Parameters[k], s, Len(f[k - 1]) + 1)
    <3>1. f[k] = Append(f[k - 1], k) /\ Ours(k) /\ Len(f[k - 1]) + 1 <= Len(s)
        BY <1>1, <1>3, <2>1, <2>2
    <3>2. /\ Len(f[k]) = Len(f[k - 1]) + 1
          /\ \A m \in 1..Len(f[k]) : f[k][m] = IF m = Len(f[k]) THEN k ELSE f[k - 1][m]
        BY <2>1, <3>1
    <3>3. \A m \in 1..Len(f[k]) : Ours(f[k][m])
        BY <1>5, <2>1, <3>1, <3>2
    <3> QED
        BY <2>1, <3>1, <3>2, <3>3
  <2>3. CASE ~IsNext(Parameters[k], s, Len(f[k - 1]) + 1)
    BY <1>1, <1>5, <2>1, <2>3
  <2> QED
    BY <2>2, <2>3
<1> HIDE DEF Good
<1>6. \A k \in 0..n : k \in Good
    BY <1>2, <1>4, <1>5, InductionUpTo
<1>7. Len(f[n]) <= Len(s) /\ \A m \in 1..Len(f[n]) : Ours(f[n][m])
    BY <1>2, <1>6 DEF Good
<1>8. f[n] \in Seq(Order)
    BY <1>1, <1>2
<1>9. DOMAIN f[n] = 1..Len(f[n]) /\ DOMAIN s = 1..Len(s) /\ Len(f[n]) \in Nat
    BY <1>8
<1>10. \A m \in DOMAIN f[n] : \E g \in DOMAIN s :
           Parameters[s[g]].group = Parameters[f[n][m]].group
    BY <1>7, <1>9 DEF Ours
<1> QED
    BY <1>1, <1>7, <1>8, <1>9, <1>10

Increasing(s) == \A l, m \in DOMAIN s : l < m => s[l] < s[m]

\* With one group, whose parameters are numbered in order, every parameter of an
\* increasing sequence is next in its turn.
LEMMA SetByAll ==
    ASSUME NEW s \in Seq(Order), Increasing(s), 
           \A k \in Order : Parameters[k].group = 1 /\ Parameters[k].index = k
    PROVE  SetBy(s) = s
<1> DEFINE n == Len(Parameters)
<1>1. PICK f \in [0..n -> Seq(Order)] :
              /\ SetBy(s) = f[n]
              /\ f[0] = <<>>
              /\ \A k \in Order : f[k] = IF IsNext(Parameters[k], s, Len(f[k - 1]) + 1)
                                         THEN Append(f[k - 1], k) ELSE f[k - 1]
    BY SetByLoop
<1>2. n \in Nat /\ Order = 1..n /\ 0 \in 0..n /\ n \in 0..n
    BY NestedConstants DEF Order
<1>3. \A k \in Order, op \in Nat \ {0} :
          IsNext(Parameters[k], s, op) <=> op <= Len(s) /\ s[op] = k
    BY DEF IsNext
<1> HIDE DEF n
<1>4. \A m \in 1..Len(s) : s[m] \in 1..n
    BY <1>2
\* After k turns those up to k have been given.
<1> DEFINE Good == {k \in 0..n : /\ Len(f[k]) <= Len(s)
                                 /\ \A m \in 1..Len(s) : m <= Len(f[k]) <=> s[m] <= k
                                 /\ \A m \in 1..Len(f[k]) : f[k][m] = s[m]}
<1>5. 0 \in Good
  <2>1. Len(f[0]) = 0 /\ 0 <= Len(s)
    BY <1>1
  <2>2. \A m \in 1..Len(s) : ~(m <= 0) /\ ~(s[m] <= 0)
    BY <1>4, <1>2
  <2>3. \A m \in 1..Len(s) : m <= Len(f[0]) <=> s[m] <= 0
    BY <2>1, <2>2
  <2>4. \A m \in 1..Len(f[0]) : f[0][m] = s[m]
    BY <2>1
  <2> QED
    BY <1>2, <2>1, <2>3, <2>4
<1>6. ASSUME NEW k \in 1..n, k - 1 \in Good
      PROVE  k \in Good
  <2>1. k \in Order /\ f[k - 1] \in Seq(Order) /\ k \in 0..n /\ k - 1 \in 0..n
    BY <1>1, <1>2
  <2> DEFINE l == Len(f[k - 1])
  <2>2. l \in Nat /\ l <= Len(s) /\ (\A m \in 1..Len(s) : m <= l <=> s[m] <= k - 1)
    BY <1>6, <2>1
  <2>3. \A m \in 1..Len(s) : s[m] \in 1..n
    BY <1>4
  <2>4. CASE l + 1 <= Len(s) /\ s[l + 1] = k
    <3>0. IsNext(Parameters[k], s, l + 1)
        BY <1>3, <2>1, <2>2, <2>4
    <3>1. f[k] = Append(f[k - 1], k)
        BY <1>1, <2>1, <3>0
    <3>2. /\ Len(f[k]) = l + 1
          /\ \A m \in 1..Len(f[k]) : f[k][m] = IF m = l + 1 THEN k ELSE f[k - 1][m]
        BY <2>1, <3>1
    <3>3. \A m \in 1..Len(f[k]) : f[k][m] = s[m]
        BY <1>6, <2>1, <2>2, <2>4, <3>2
    <3>4. \A m \in 1..Len(s) : m > l + 1 => s[m] > k
        BY <2>2, <2>4 DEF Increasing
    <3>5. \A m \in 1..Len(s) : m <= l + 1 <=> s[m] <= k
        BY <2>2, <2>3, <2>4, <3>4
    <3> QED
        BY <2>1, <2>4, <3>2, <3>3, <3>5
  <2>5. CASE ~(l + 1 <= Len(s) /\ s[l + 1] = k)
    <3>0. ~IsNext(Parameters[k], s, l + 1)
        BY <1>3, <2>1, <2>2, <2>5
    <3>1. f[k] = f[k - 1]
        BY <1>1, <2>1, <3>0
    <3>2. \A m \in 1..Len(s) : s[m] # k
      <4> SUFFICES ASSUME NEW m \in 1..Len(s), s[m] = k
                   PROVE  FALSE
        OBVIOUS
      <4>1. m > l /\ m # l + 1
        BY <2>2, <2>3, <2>5
      <4>2. l + 1 \in 1..Len(s) /\ l + 1 < m
        BY <2>2, <4>1
      <4>3. s[l + 1] < k
        BY <4>2 DEF Increasing
      <4>4. s[l + 1] <= k - 1
        BY <2>3, <4>2, <4>3
      <4> QED
        BY <2>2, <4>2, <4>4
    <3>3. \A m \in 1..Len(s) : s[m] <= k <=> s[m] <= k - 1
        BY <2>3, <3>2
    <3> QED
        BY <1>6, <2>1, <3>1, <3>3
  <2> QED
    BY <2>4, <2>5
<1> HIDE DEF Good
<1>7. \A k \in 0..n : k \in Good
    BY <1>2, <1>5, <1>6, InductionUpTo
<1>8. /\ Len(f[n]) <= Len(s)
      /\ \A m \in 1..Len(s) : m <= Len(f[n]) <=> s[m] <= n
      /\ \A m \in 1..Len(f[n]) : f[n][m] = s[m]
    BY <1>2, <1>7 DEF Good
<1>9. f[n] \in Seq(Order) /\ \A m \in 1..Len(s) : s[m] <= n
    BY <1>2, <1>4
<1>10. Len(f[n]) = Len(s)
    BY <1>8, <1>9
<1>11. /\ f[n] = [m \in 1..Len(f[n]) |-> f[n][m]]
       /\ s = [m \in 1..Len(s) |-> s[m]]
    BY <1>9
<1>12. f[n] = s
    BY <1>8, <1>10, <1>11, Zenon
<1> QED
    BY <1>1, <1>12

\* The parameters gathered for a function are in the order of the loops.
LEMMA GatheredIncreasing ==
    ASSUME NEW j, NEW e
    PROVE  Gathered(j, e) \in Seq(Order) /\ Increasing(Gathered(j, e))
<1> DEFINE n == Len(Parameters)
           After(v, k) == IF Parameters[k].Fndx = j /\ (Kind[j] = "titration" => k \in e)
                          THEN Append(v, k) ELSE v
           Step == [k \in 1..n |-> [v \in Seq(Order) |-> After(v, k)]]
           Found[k \in 0..Len(Parameters)] ==
              IF k = 0 THEN <<>>
              ELSE IF Parameters[k].Fndx = j /\ (Kind[j] = "titration" => k \in e)
                   THEN Append(Found[k - 1], k) ELSE Found[k - 1]
           Good == {k \in 0..n : /\ Found[k] \in Seq(Order)
                                 /\ Increasing(Found[k])
                                 /\ \A m \in DOMAIN Found[k] : Found[k][m] <= k}
<1>1. n \in Nat /\ Order = 1..n /\ <<>> \in Seq(Order) /\ 0 \in 0..n /\ n \in 0..n
    BY NestedConstants DEF Order
<1>2. \A v \in Seq(Order), k \in 1..n : After(v, k) \in Seq(Order)
  <2> SUFFICES ASSUME NEW v \in Seq(Order), NEW k \in Order
               PROVE  Append(v, k) \in Seq(Order)
    BY <1>1
  <2> QED
    OBVIOUS
<1>3. Gathered(j, e) = Found[n]
    BY DEF Gathered
<1>4. \A k, v : After(v, k) = v \/ After(v, k) = Append(v, k)
    OBVIOUS
<1>5. (\E g : g = [k \in 0..n |-> IF k = 0 THEN <<>> ELSE After(g[k - 1], k)]) =>
      Found = [k \in 0..n |-> IF k = 0 THEN <<>> ELSE After(Found[k - 1], k)]
    OBVIOUS
<1> HIDE DEF n, After, Found
<1>6. \E g : g = [k \in 0..n |-> IF k = 0 THEN <<>> ELSE After(g[k - 1], k)]
  <2>1. Step \in [1..n -> [Seq(Order) -> Seq(Order)]]
    BY <1>2
  <2>2. \A k \in 1..n, v \in Seq(Order) : Step[k][v] = After(v, k)
    OBVIOUS
  <2> HIDE DEF Step
  <2>3. PICK g \in [0..n -> Seq(Order)] : Recursive(g, n, <<>>, Step)
    BY <1>1, <2>1, RecursionUpTo
  <2>4. g = [k \in 0..n |-> IF k = 0 THEN <<>> ELSE Step[k][g[k - 1]]]
    BY <2>3 DEF Recursive
  <2>5. \A k \in 1..n : k - 1 \in 0..n /\ Step[k][g[k - 1]] = After(g[k - 1], k)
    BY <1>1, <2>2
  <2>6. \A k \in 0..n : k # 0 => k \in 1..n
    BY <1>1
  <2>7. \A k \in 0..n : (IF k = 0 THEN <<>> ELSE Step[k][g[k - 1]])
                        = (IF k = 0 THEN <<>> ELSE After(g[k - 1], k))
    BY <2>5, <2>6
  <2>8. g = [k \in 0..n |-> IF k = 0 THEN <<>> ELSE After(g[k - 1], k)]
    BY <2>4, <2>7, Zenon
  <2> QED
    BY <2>8
<1>7. Found = [k \in 0..n |-> IF k = 0 THEN <<>> ELSE After(Found[k - 1], k)]
    BY <1>5, <1>6
<1>8. Found[0] = <<>> /\ \A k \in 1..n : Found[k] = After(Found[k - 1], k)
    BY <1>1, <1>7
<1>9. 0 \in Good
  <2>1. DOMAIN <<>> = {} /\ Increasing(<<>>)
    BY DEF Increasing
  <2> QED
    BY <1>1, <1>8, <2>1
<1>10. ASSUME NEW k \in 1..n, k - 1 \in Good
       PROVE  k \in Good
  <2> DEFINE v == Found[k - 1]
  <2>1. /\ v \in Seq(Order) /\ Increasing(v)
        /\ \A m \in DOMAIN v : v[m] <= k - 1
        /\ k \in 0..n /\ k \in Order
    BY <1>1, <1>10
  <2>2. Found[k] = v \/ Found[k] = Append(v, k)
    BY <1>4, <1>8
  <2> HIDE DEF v
  <2>3. CASE Found[k] = v
    <3>1. \A m \in DOMAIN v : v[m] \in Nat /\ v[m] <= k
        BY <1>1, <2>1
    <3> QED
        BY <2>1, <2>3, <3>1
  <2>4. CASE Found[k] = Append(v, k)
    <3> DEFINE w == Append(v, k)
    <3>1. w \in Seq(Order) /\ Len(v) \in Nat
        BY <2>1
    <3>2. /\ DOMAIN w = 1..(Len(v) + 1) /\ DOMAIN v = 1..Len(v)
          /\ \A m \in DOMAIN w : w[m] = IF m = Len(v) + 1 THEN k ELSE v[m]
        BY <2>1
    <3>3. \A m \in DOMAIN v : v[m] \in Nat
        BY <1>1, <2>1
    <3> HIDE DEF w
    <3>4. \A m \in DOMAIN w : w[m] <= k
        BY <1>1, <2>1, <3>1, <3>2, <3>3
    <3>5. Increasing(w)
      <4> SUFFICES ASSUME NEW l \in DOMAIN w, NEW m \in DOMAIN w, l < m
                   PROVE  w[l] < w[m]
        BY DEF Increasing
      <4>1. l \in DOMAIN v /\ w[l] = v[l]
        BY <3>1, <3>2
      <4>2. CASE m = Len(v) + 1
        BY <2>1, <3>2, <3>3, <4>1, <4>2
      <4>3. CASE m # Len(v) + 1
        <5>1. m \in DOMAIN v /\ w[m] = v[m]
            BY <3>1, <3>2, <4>3
        <5> QED
            BY <2>1, <4>1, <5>1 DEF Increasing
      <4> QED
        BY <4>2, <4>3
    <3>6. Found[k] = w
      BY <2>4 DEF w
    <3> QED
      BY <2>1, <3>1, <3>4, <3>5, <3>6
  <2> QED
    BY <2>2, <2>3, <2>4
<1> HIDE DEF Good
<1>11. \A k \in 0..n : k \in Good
    BY <1>1, <1>9, <1>10, InductionUpTo
<1>12. Found[n] \in Seq(Order) /\ Increasing(Found[n])
    BY <1>1, <1>11 DEF Good
<1> QED
    BY <1>3, <1>12

-----------------------------------------------------------------------------
(* The threads stay apart.                                                 *)

IsWorker(w) ==
    w = [at |-> w.at, sample |-> w.sample, j |-> w.j, bounds |-> w.bounds, x |-> w.x,
         asks |-> w.asks]

IsSlot(s) == s = [EXPndx |-> s.EXPndx, NEFndx |-> s.NEFndx, s |-> s.s]

Records ==
    /\ worker = [t \in Threads |-> worker[t]]
    /\ slot = [t \in Threads |-> slot[t]]
    /\ \A t \in Threads : IsWorker(worker[t]) /\ IsSlot(slot[t])

\* A thread works in the loop only, on a sample that is not to be taken any more.
Owners ==
    \A t \in Threads : worker[t].at # "idle" =>
        /\ stage \in {"nested", "exited"}
        /\ worker[t].sample \notin todo

Inv ==
    /\ Records
    /\ Owners
    /\ SlotsPrivate

\* Outside the loop all threads are idle.
LEMMA IdleOutside ==
    ASSUME Inv, stage \notin {"nested", "exited"}
    PROVE  \A t \in Threads : worker[t].at = "idle"
BY DEF Inv, Owners

\* The first state satisfies the invariant.
THEOREM InitInv == Init => Inv
BY DEF Init, Inv, Records, Owners, SlotsPrivate, IsWorker, IsSlot, Idle, Free, Busy

\* The steps between the loops leave threads and slots alone.
LEMMA LoopsInv ==
    ASSUME Inv, (\E o \in Vectors : Evaluate(o)) \/ NestedOnly \/ Loops
    PROVE  Inv'
<1>1. UNCHANGED <<worker, slot>>
    BY DEF Evaluate, NestedOnly, Loops, AdjustNode, ComputeNode, StartNested, EndNested,
           Return
<1>2. stage' = "exited" => FALSE
    BY DEF Evaluate, NestedOnly, Loops, AdjustNode, ComputeNode, StartNested, EndNested,
           Return
<1>3. \A t \in Threads : worker[t].at = "idle"
    BY IdleOutside
    DEF Evaluate, NestedOnly, Loops, AdjustNode, ComputeNode, StartNested, EndNested,
        Return
<1> QED
    BY <1>1, <1>3 DEF Inv, Records, Owners, SlotsPrivate, Busy

\* Taking a sample: it was nobody's, and is nobody else's now.
LEMMA TakeInv ==
    ASSUME Inv, NEW t \in Threads, NEW i \in Samples, Take(t, i)
    PROVE  Inv'
<1> USE DEF Inv, Records, IsWorker, IsSlot, Take, Idle
<1>1. Records'
    OBVIOUS
<1>2. Owners'
    BY DEF Owners
<1>3. SlotsPrivate'
    BY DEF Owners, SlotsPrivate, Busy
<1> QED
    BY <1>1, <1>2, <1>3

\* A function is passed over.
LEMMA SkipInv ==
    ASSUME Inv, NEW t \in Threads, Skip(t)
    PROVE  Inv'
<1> USE DEF Inv, Records, IsWorker, IsSlot, Skip
<1>1. Records'
    OBVIOUS
<1>2. Owners'
    BY DEF Owners
<1>3. SlotsPrivate'
    BY DEF Owners, SlotsPrivate, Busy
<1> QED
    BY <1>1, <1>2, <1>3

\* The slot is filled for the sample and function at hand.
LEMMA GatherInv ==
    ASSUME Inv, NEW t \in Threads, NEW e \in SUBSET Order, Gather(t, e)
    PROVE  Inv'
<1> DEFINE w == worker[t]
           s == Gathered(w.j, e)
           x == [m \in DOMAIN s |-> EVv[w.sample][s[m]]]
           b == CASE Kind[w.j] \in {"titration", "loga"} -> 1
                  [] Kind[w.j] = "PpG" -> 3
                  [] Kind[w.j] = "plain" -> w.bounds
           W == [w EXCEPT !.at = "optimize", !.x = x, !.asks = 0, !.bounds = b]
           S == [EXPndx |-> w.sample, NEFndx |-> w.j, s |-> s]
<1> HIDE DEF s, x, b
<1>0. IsWorker(w) /\ DOMAIN x = DOMAIN s
  BY DEF Inv, Records, x
<1>1. worker' = [worker EXCEPT ![t] = W]
  BY DEF Gather, s, x, b
<1>2. slot' = [slot EXCEPT ![t] = S]
  BY DEF Gather, P_id, s
<1>3. /\ stage = "nested" /\ w.at = "test"
      /\ UNCHANGED <<stage, todo>>
  BY DEF Gather
<1>4. W.at = "optimize" /\ W.sample = w.sample /\ W.j = w.j /\ DOMAIN W.x = DOMAIN s
  BY <1>0 DEF IsWorker
<1>5. IsWorker(W)
  <2> DEFINE W1 == [w EXCEPT !.at = "optimize"]
             W2 == [W1 EXCEPT !.x = x]
             W3 == [W2 EXCEPT !.asks = 0]
             W4 == [W3 EXCEPT !.bounds = b]
  <2>1. IsWorker(W1)
    BY <1>0 DEF IsWorker
  <2> HIDE DEF W1
  <2>2. IsWorker(W2)
    BY <2>1 DEF IsWorker
  <2> HIDE DEF W2
  <2>3. IsWorker(W3)
    BY <2>2 DEF IsWorker
  <2> HIDE DEF W3
  <2>4. IsWorker(W4)
    BY <2>3 DEF IsWorker
  <2>5. W = W4
    BY DEF W1, W2, W3
  <2> QED
    BY <2>4, <2>5
<1>6. S.EXPndx = w.sample /\ S.NEFndx = w.j /\ S.s = s /\ IsSlot(S)
  BY DEF IsSlot
<1> HIDE DEF W, S, s
<1>7. Records'
  BY <1>1, <1>2, <1>5, <1>6 DEF Inv, Records, IsWorker, IsSlot
<1>8. Owners'
  BY <1>1, <1>3, <1>4 DEF Inv, Records, Owners
<1>9. SlotsPrivate'
  BY <1>1, <1>2, <1>3, <1>4, <1>6 DEF Inv, Records, SlotsPrivate, Busy
<1> QED
  BY <1>7, <1>8, <1>9 DEF Inv

\* The program exits.
LEMMA NoParametersInv ==
    ASSUME Inv, NEW t \in Threads, NEW e \in SUBSET Order, NoParameters(t, e)
    PROVE  Inv'
<1> USE DEF Inv, Records, IsWorker, IsSlot, NoParameters
<1>1. Records'
    OBVIOUS
<1>2. Owners'
    BY DEF Owners
<1>3. SlotsPrivate'
    BY DEF Owners, SlotsPrivate, Busy
<1> QED
    BY <1>1, <1>2, <1>3

\* The optimizer asks with a vector of the length it was made for.
LEMMA AskInv ==
    ASSUME Inv, NEW t \in Threads, NEW x, Ask(t, x)
    PROVE  Inv'
<1> USE DEF Inv, Records, IsWorker, IsSlot, Ask
<1>1. Records'
    OBVIOUS
<1>2. Owners'
    BY DEF Owners
<1>3. SlotsPrivate'
    BY DEF Owners, SlotsPrivate, Busy
<1> QED
    BY <1>1, <1>2, <1>3

\* It returns one of that length.
LEMMA StopInv ==
    ASSUME Inv, NEW t \in Threads, NEW x, Stop(t, x)
    PROVE  Inv'
<1> USE DEF Inv, Records, IsWorker, IsSlot, Stop
<1>1. Records'
    OBVIOUS
<1>2. Owners'
    BY DEF Owners
<1>3. SlotsPrivate'
    BY DEF Owners, SlotsPrivate, Busy
<1> QED
    BY <1>1, <1>2, <1>3

\* The program ends.
LEMMA ThrowInv ==
    ASSUME Inv, NEW t \in Threads, Throw(t)
    PROVE  Inv'
<1> USE DEF Inv, Records, IsWorker, IsSlot, Throw
<1>1. Records'
    OBVIOUS
<1>2. Owners'
    BY DEF Owners
<1>3. SlotsPrivate'
    BY DEF Owners, SlotsPrivate, Busy
<1> QED
    BY <1>1, <1>2, <1>3

\* The objective function changes neither slots nor who works on what.
LEMMA NestminfuncInv ==
    ASSUME Inv, NEW t \in Threads, nestminfunc(t)
    PROVE  Inv'
<1> USE DEF Inv, Records, IsWorker, IsSlot, nestminfunc
<1>1. Records'
    OBVIOUS
<1>2. Owners'
  <2>1. /\ UNCHANGED <<stage, todo>>
        /\ worker[t].at # "idle"
        /\ \A u \in Threads : worker'[u].sample = worker[u].sample
        /\ \A u \in Threads : u # t => worker'[u] = worker[u]
    OBVIOUS
  <2> QED
    BY <2>1 DEF Owners
<1>3. SlotsPrivate'
    BY DEF Owners, SlotsPrivate, Busy
<1> QED
    BY <1>1, <1>2, <1>3

\* The program ends.
LEMMA OutOfRangeInv ==
    ASSUME Inv, NEW t \in Threads, OutOfRange(t)
    PROVE  Inv'
<1> USE DEF Inv, Records, IsWorker, IsSlot, OutOfRange
<1>1. Records'
    OBVIOUS
<1>2. Owners'
    BY DEF Owners
<1>3. SlotsPrivate'
    BY DEF Owners, SlotsPrivate, Busy
<1> QED
    BY <1>1, <1>2, <1>3

\* The slot is emptied; the thread does not use it any more.
LEMMA StoreInv ==
    ASSUME Inv, NEW t \in Threads, Store(t)
    PROVE  Inv'
<1> USE DEF Inv, Records, IsWorker, IsSlot, Store, P_id
<1>1. Records'
    OBVIOUS
<1>2. Owners'
  <2>1. /\ UNCHANGED <<stage, todo>>
        /\ worker[t].at # "idle"
        /\ \A u \in Threads : worker'[u].sample = worker[u].sample
        /\ \A u \in Threads : u # t => worker'[u] = worker[u]
    OBVIOUS
  <2> QED
    BY <2>1 DEF Owners
<1>3. SlotsPrivate'
    BY DEF Owners, SlotsPrivate, Busy
<1> QED
    BY <1>1, <1>2, <1>3

\* The thread is idle again.
LEMMA LeaveInv ==
    ASSUME Inv, NEW t \in Threads, Leave(t)
    PROVE  Inv'
<1> USE DEF Inv, Records, IsWorker, IsSlot, Leave, Idle
<1>1. Records'
    OBVIOUS
<1>2. Owners'
    BY DEF Owners
<1>3. SlotsPrivate'
    BY DEF Owners, SlotsPrivate, Busy
<1> QED
    BY <1>1, <1>2, <1>3

\* A step that changes nothing.
LEMMA StutterInv ==
    ASSUME Inv, UNCHANGED vars
    PROVE  Inv'
BY DEF vars, Inv, Records, Owners, SlotsPrivate, Busy, IsWorker, IsSlot

\* Every step of a thread keeps the invariant.
LEMMA WorkInv ==
    ASSUME Inv, NEW t \in Threads, Work(t)
    PROVE  Inv'
<1>1. CASE \E i \in Samples : Take(t, i)
    BY <1>1, TakeInv
<1>2. CASE \E e \in SUBSET Order : Gather(t, e) \/ NoParameters(t, e)
    BY <1>2, GatherInv, NoParametersInv
<1>3. CASE \E x \in UNION {[1..n -> Values \cup {Start}] : n \in Order} :
               Ask(t, x) \/ Stop(t, x)
    BY <1>3, AskInv, StopInv
<1> QED
    BY <1>1, <1>2, <1>3, SkipInv, ThrowInv, NestminfuncInv, OutOfRangeInv, StoreInv,
       LeaveInv DEF Work

\* Every step keeps the invariant.
THEOREM NextInv == Inv /\ [Next]_vars => Inv'
BY LoopsInv, WorkInv, StutterInv DEF Next

\* For any numbers of threads, samples and nested functions: what nestminfunc reads
\* is about the sample and function its own thread works on.
THEOREM SlotsPrivateHolds == Spec => []SlotsPrivate
<1>1. Inv => SlotsPrivate
    BY DEF Inv
<1> QED
    BY InitInv, NextInv, <1>1, PTL DEF Spec

\* And a node changes in the parallel loop by the thread that has its sample only.
THEOREM NodesOwnedHolds == Spec => NodesOwned
<1>1. ASSUME Inv, [Next]_vars
      PROVE  [stage = "nested" =>
                  \A i \in Samples : node[i]' # node[i] =>
                      \E t \in Threads : /\ worker[t].sample = i
                                         /\ worker[t]' # worker[t]]_vars
  <2> SUFFICES ASSUME Next, stage = "nested", NEW i \in Samples, node[i]' # node[i]
               PROVE  \E t \in Threads : worker[t].sample = i /\ worker[t]' # worker[t]
    BY <1>1
  <2>1. PICK t \in Threads : nestminfunc(t)
    BY DEF Next, Evaluate, NestedOnly, Loops, AdjustNode, ComputeNode, StartNested,
           EndNested, Return, Work, Take, Skip, Gather, NoParameters, Ask, Stop, Throw,
           OutOfRange, Store, Leave
  <2>2. slot[t].EXPndx = worker[t].sample
    BY <1>1, <2>1 DEF Inv, SlotsPrivate, Busy, nestminfunc
  <2>3. i = slot[t].EXPndx
    BY <2>1 DEF nestminfunc, P_id
  <2>4. worker[t].at \in {"ask", "last"} /\ worker'[t].at \in {"optimize", "store"}
    BY <1>1, <2>1 DEF nestminfunc, Inv, Records, IsWorker
  <2> QED
    BY <2>2, <2>3, <2>4
<1> QED
    BY InitInv, NextInv, <1>1, PTL DEF Spec, NodesOwned

-----------------------------------------------------------------------------
(* Types.                                                                  *)

Scalars ==
    /\ objectives \in BOOLEAN
    /\ stage \in {"idle", "adjust", "nested", "compute", "exited"}
    /\ todo \subseteq Samples
    /\ opt \in Vectors \cup {None}
    /\ evaluations \in 0..MaxEvaluations

NodeOK(v) ==
    /\ v = [opt |-> v.opt, amounts |-> v.amounts, linked |-> v.linked,
            computed |-> v.computed]
    /\ v.opt \in Vectors \cup {None}
    /\ v.amounts \in Amounts
    /\ v.computed \in Points

NodesOK ==
    /\ node = [i \in Samples |-> node[i]]
    /\ \A i \in Samples : NodeOK(node[i])
    /\ EVv \in [Samples -> Amounts]

\* An optimization under way: its function, parameters and values.
Optimizing(w, s) ==
    /\ w.j \in 1..Functions
    /\ \E e \in SUBSET Order : s = Gathered(w.j, e)
    /\ w.x \in [DOMAIN s -> Values \cup {Start}]

WorkerOK(w, z) ==
    /\ w.sample \in Samples \cup {None}
    /\ w.j \in 1..(Functions + 1)
    /\ w.bounds \in {0, 1, 3}
    /\ z.EXPndx \in Samples \cup {None}
    /\ w.at # "idle" => w.sample \in Samples
    /\ w.at \in {"optimize", "ask", "last", "store"} => Optimizing(w, z.s)

WorkersOK == \A t \in Threads : WorkerOK(worker[t], slot[t])

Typed == Inv /\ Scalars /\ NodesOK /\ WorkersOK

LEMMA TypedIsTypeOK == Typed => TypeOK
BY DEF Typed, Scalars, NodesOK, NodeOK, WorkersOK, WorkerOK, TypeOK

\* The first state.
LEMMA InitTyped == Init => Typed
<1> SUFFICES ASSUME Init PROVE Typed
    OBVIOUS
<1>1. Scalars
    BY NestedConstants DEF Init, Scalars
<1>2. NodesOK
    BY DEF Init, NodesOK, NodeOK, Amounts, Points
<1>3. WorkersOK
    BY NestedConstants DEF Init, WorkersOK, WorkerOK, Idle, Free
<1> QED
    BY <1>1, <1>2, <1>3, InitInv DEF Typed

\* Giving values to parameters gives amounts.
LEMMA GivenType ==
    ASSUME NEW a \in Amounts, NEW q, NEW s, DOMAIN q \subseteq DOMAIN s,
           NEW x \in [DOMAIN s -> Values \cup {Start}]
    PROVE  Given(a, q, x) \in Amounts
<1> SUFFICES ASSUME NEW k \in Order, \E m \in DOMAIN q : q[m] = k
             PROVE  x[CHOOSE m \in DOMAIN q : q[m] = k] \in Values \cup {Start}
    BY DEF Given, Amounts
<1>1. (CHOOSE m \in DOMAIN q : q[m] = k) \in DOMAIN s
    OBVIOUS
<1> QED
    BY <1>1

\* One thread and its slot change.
LEMMA WorkerStep ==
    ASSUME Typed, NEW t \in Threads, NEW w, NEW z, WorkerOK(w, z),
           worker' = [worker EXCEPT ![t] = w], slot' = [slot EXCEPT ![t] = z]
    PROVE  WorkersOK'
BY DEF Typed, Inv, Records, WorkersOK

\* A thread changes and its slot does not.
LEMMA WorkerAlone ==
    ASSUME Typed, NEW t \in Threads, NEW w, WorkerOK(w, slot[t]),
           worker' = [worker EXCEPT ![t] = w], slot' = slot
    PROVE  WorkersOK'
BY DEF Typed, Inv, Records, WorkersOK

\* Nodes, threads and slots that do not change.
LEMMA NodesKept ==
    ASSUME NodesOK, UNCHANGED <<node, EVv>>
    PROVE  NodesOK'
BY DEF NodesOK, NodeOK

LEMMA WorkersKept ==
    ASSUME WorkersOK, UNCHANGED <<worker, slot>>
    PROVE  WorkersOK'
BY DEF WorkersOK, WorkerOK, Optimizing

LEMMA ScalarsKept ==
    ASSUME Scalars, UNCHANGED <<objectives, stage, todo, opt, evaluations>>
    PROVE  Scalars'
BY DEF Scalars

\* The steps between the loops.
LEMMA LoopsTyped ==
    ASSUME Typed, (\E o \in Vectors : Evaluate(o)) \/ NestedOnly \/ Loops
    PROVE  Scalars' /\ NodesOK' /\ WorkersOK'
<1>1. Scalars'
    BY NestedConstants DEF Typed, Scalars, Evaluate, NestedOnly, Loops, AdjustNode,
       ComputeNode, StartNested, EndNested, Return
<1>2. WorkersOK'
  <2>1. UNCHANGED <<worker, slot>>
    BY DEF Evaluate, NestedOnly, Loops, AdjustNode, ComputeNode, StartNested, EndNested,
           Return
  <2> QED
    BY <2>1, WorkersKept DEF Typed
<1>3. NodesOK'
  <2>1. CASE \E i \in Samples : AdjustNode(i)
    BY <2>1 DEF Typed, Scalars, NodesOK, NodeOK, AdjustNode
  <2>2. CASE \E i \in Samples : ComputeNode(i)
    BY <2>2 DEF Typed, NodesOK, NodeOK, Points, ComputeNode
  <2>3. CASE UNCHANGED <<node, EVv>>
    BY <2>3, NodesKept DEF Typed
  <2> QED
    BY <2>1, <2>2, <2>3 DEF Evaluate, NestedOnly, Loops, StartNested, EndNested, Return
<1> QED
    BY <1>1, <1>2, <1>3

\* A sample is taken.
LEMMA TakeTyped ==
    ASSUME Typed, NEW t \in Threads, NEW i \in Samples, Take(t, i)
    PROVE  Scalars' /\ NodesOK' /\ WorkersOK'
<1> DEFINE w == [Idle EXCEPT !.at = "test", !.sample = i]
<1>1. Scalars' /\ NodesOK'
    BY NodesKept DEF Typed, Scalars, Take
<1>2. worker' = [worker EXCEPT ![t] = w] /\ slot' = slot
    BY DEF Take
<1>3. WorkerOK(w, slot[t])
    BY NestedConstants DEF Typed, WorkersOK, WorkerOK, Idle
<1> QED
    BY <1>1, <1>2, <1>3, WorkerAlone

\* A function is passed over.
LEMMA SkipTyped ==
    ASSUME Typed, NEW t \in Threads, Skip(t)
    PROVE  Scalars' /\ NodesOK' /\ WorkersOK'
<1>1. Scalars' /\ NodesOK'
    BY NodesKept, ScalarsKept DEF Typed, Skip
<1>2. WorkersOK'
  <2>1. \A u \in Threads : u # t => worker'[u] = worker[u]
    BY DEF Skip, Typed, Inv, Records
  <2> DEFINE b == IF Kind[worker[t].j] = "loga" THEN 1 ELSE worker[t].bounds
  <2>2. b \in {1, worker[t].bounds}
    OBVIOUS
  <2>3. worker' = [worker EXCEPT ![t].j = @ + 1, ![t].bounds = b]
    BY DEF Skip, Typed, Inv, Records, IsWorker
  <2>4. worker[t].at = "test" /\ worker[t].j <= Functions /\ slot' = slot
    BY DEF Skip
  <2> HIDE DEF b
  <2>5. /\ worker'[t].at = "test" /\ worker'[t].sample = worker[t].sample
        /\ worker'[t].j = worker[t].j + 1
        /\ worker'[t].bounds \in {1, worker[t].bounds}
        /\ worker[t].at = "test" /\ worker[t].j <= Functions /\ slot' = slot
    BY <2>2, <2>3, <2>4 DEF Typed, Inv, Records, IsWorker
  <2>6. WorkerOK(worker'[t], slot[t])
    BY NestedConstants, <2>5 DEF Typed, WorkersOK, WorkerOK
  <2> QED
    BY <2>1, <2>5, <2>6 DEF Typed, WorkersOK
<1> QED
    BY <1>1, <1>2

\* The slot is filled with the parameters gathered, the vector with their values.
LEMMA GatherTyped ==
    ASSUME Typed, NEW t \in Threads, NEW e \in SUBSET Order, Gather(t, e)
    PROVE  Scalars' /\ NodesOK' /\ WorkersOK'
<1> DEFINE w == worker[t]
           s == Gathered(w.j, e)
           x == [m \in DOMAIN s |-> EVv[w.sample][s[m]]]
           b == CASE Kind[w.j] \in {"titration", "loga"} -> 1
                  [] Kind[w.j] = "PpG" -> 3
                  [] Kind[w.j] = "plain" -> w.bounds
           W == [w EXCEPT !.at = "optimize", !.x = x, !.asks = 0, !.bounds = b]
           S == [EXPndx |-> w.sample, NEFndx |-> w.j, s |-> s]
<1>1. Scalars' /\ NodesOK'
    BY NodesKept, ScalarsKept DEF Typed, Gather
<1>2. w.at = "test" /\ w.j \in 1..Functions /\ w.sample \in Samples /\ w.bounds \in {0, 1, 3}
    BY NestedConstants DEF Typed, WorkersOK, WorkerOK, Gather
<1>3. b \in {0, 1, 3}
    BY <1>2, NestedConstants
<1>4. s \in Seq(Order)
    BY GatheredIncreasing
<1>5. x \in [DOMAIN s -> Values \cup {Start}]
  <2>1. \A m \in DOMAIN s : s[m] \in Order
    BY <1>4
  <2> QED
    BY <1>2, <2>1 DEF Typed, NodesOK, Amounts
<1> HIDE DEF s, x, b
<1>6. worker' = [worker EXCEPT ![t] = W] /\ slot' = [slot EXCEPT ![t] = S]
    BY DEF Gather, P_id, s, x, b
<1>7. W.sample = w.sample /\ W.j = w.j /\ W.bounds = b /\ W.x = x
    BY DEF Typed, Inv, Records, IsWorker
<1>8. S.EXPndx = w.sample /\ S.s = s
    OBVIOUS
<1> HIDE DEF W, S
<1>9. Optimizing(W, s)
    BY <1>2, <1>5, <1>7 DEF Optimizing, s
<1>10. WorkerOK(W, S)
    BY <1>2, <1>3, <1>7, <1>8, <1>9, NestedConstants DEF WorkerOK
<1> QED
    BY <1>1, <1>6, <1>10, WorkerStep

\* The program ends.
LEMMA ExitTyped ==
    ASSUME Typed, NEW t \in Threads,
           (\E e \in SUBSET Order : NoParameters(t, e)) \/ Throw(t) \/ OutOfRange(t)
    PROVE  Scalars' /\ NodesOK' /\ WorkersOK'
<1>1. /\ stage' = "exited"
      /\ UNCHANGED <<objectives, todo, opt, evaluations, node, EVv, worker, slot>>
    BY DEF NoParameters, Throw, OutOfRange
<1> QED
    BY <1>1, NodesKept, WorkersKept DEF Typed, Scalars

\* The optimizer asks with values, or ends with values or those it has.
LEMMA AskTyped ==
    ASSUME Typed, NEW t \in Threads, NEW x, Ask(t, x) \/ Stop(t, x)
    PROVE  Scalars' /\ NodesOK' /\ WorkersOK'
<1>1. Scalars' /\ NodesOK'
    BY NodesKept, ScalarsKept DEF Typed, Ask, Stop
<1>2. WorkersOK'
  <2>1. \A u \in Threads : u # t => worker'[u] = worker[u]
    BY DEF Ask, Stop, Typed, Inv, Records
  <2>2. /\ worker'[t].at \in {"ask", "last"} /\ worker'[t].sample = worker[t].sample
        /\ worker'[t].j = worker[t].j /\ worker'[t].bounds = worker[t].bounds
        /\ worker'[t].x = x
        /\ worker[t].at = "optimize" /\ slot' = slot
    BY DEF Ask, Stop, Typed, Inv, Records, IsWorker
  <2>3. Optimizing(worker[t], slot[t].s)
    BY <2>2 DEF Typed, WorkersOK, WorkerOK
  <2>4. x \in [DOMAIN slot[t].s -> Values \cup {Start}]
    BY <2>3 DEF Optimizing, Ask, Stop
  <2>5. Optimizing(worker'[t], slot[t].s)
    BY <2>2, <2>3, <2>4 DEF Optimizing
  <2>6. WorkerOK(worker'[t], slot[t])
    BY <2>2, <2>5 DEF Typed, WorkersOK, WorkerOK
  <2> QED
    BY <2>1, <2>2, <2>6 DEF Typed, WorkersOK
<1> QED
    BY <1>1, <1>2

\* What the objective function works on, and what it leaves.
LEMMA NestminfuncWorks ==
    ASSUME Typed, NEW t \in Threads, nestminfunc(t)
    PROVE  /\ Busy(t)
           /\ slot[t].EXPndx = worker[t].sample /\ worker[t].sample \in Samples
           /\ slot[t].s \in Seq(Order) /\ worker[t].x \in [DOMAIN slot[t].s -> Values \cup {Start}]
           /\ \E e \in SUBSET Order : slot[t].s = Gathered(worker[t].j, e)
           /\ worker[t].j \in 1..Functions
<1>1. worker[t].at \in {"ask", "last"}
    BY DEF nestminfunc
<1>2. Busy(t) /\ slot[t].EXPndx = worker[t].sample
    BY <1>1 DEF Typed, Inv, SlotsPrivate, Busy
<1>3. worker[t].sample \in Samples /\ Optimizing(worker[t], slot[t].s)
    BY <1>1 DEF Typed, WorkersOK, WorkerOK
<1> QED
    BY <1>2, <1>3, GatheredIncreasing DEF Optimizing

\* A node that is computed.
LEMMA ComputedIs ==
    ASSUME NEW v, NodeOK(v), NEW a, NEW s
    PROVE  Computed(v, a, s) = [opt |-> v.opt, amounts |-> a, linked |-> Follow(v.linked, a, s),
                                computed |-> [opt |-> v.opt, amounts |-> a]]
<1> DEFINE f == Follow(v.linked, a, s)
           c == [opt |-> v.opt, amounts |-> a]
           V == [v EXCEPT !.amounts = a, !.linked = f, !.computed = c]
<1>1. Computed(v, a, s) = V
    BY DEF Computed
<1> HIDE DEF f, c
<1> DEFINE V1 == [v EXCEPT !.amounts = a]
           V2 == [V1 EXCEPT !.linked = f]
           V3 == [V2 EXCEPT !.computed = c]
<1>2. V = V3
    OBVIOUS
<1>3. V1 = [opt |-> v.opt, amounts |-> a, linked |-> v.linked, computed |-> v.computed]
    BY DEF NodeOK
<1> HIDE DEF V1
<1>4. V2 = [opt |-> v.opt, amounts |-> a, linked |-> f, computed |-> v.computed]
    BY <1>3
<1> HIDE DEF V2
<1>5. V3 = [opt |-> v.opt, amounts |-> a, linked |-> f, computed |-> c]
    BY <1>4
<1> QED
    BY <1>1, <1>2, <1>5 DEF f, c

\* Values and amounts that the objective function has set.
LEMMA NestminfuncSets ==
    ASSUME Typed, NEW t \in Threads, nestminfunc(t)
    PROVE  LET i == worker[t].sample
               s == slot[t].s
               a == Given(node[i].amounts, SetBy(s), worker[t].x)
           IN  /\ EVv' = [EVv EXCEPT ![i] = Given(EVv[i], SetBy(s), worker[t].x)]
               /\ node' = [node EXCEPT ![i] = Computed(node[i], a, s)]
<1> DEFINE i == worker[t].sample
           s == slot[t].s
<1>1. i \in Samples /\ slot[t].EXPndx = i
    BY NestminfuncWorks
<1>2. EVv' = [EVv EXCEPT ![i] = Given(EVv[i], SetBy(s), worker[t].x)]
    BY <1>1 DEF nestminfunc, P_id
<1>3. node' = [node EXCEPT ![i] =
                  Computed(node[i], Given(node[i].amounts, SetBy(s), worker[t].x), s)]
    BY <1>1 DEF nestminfunc, P_id
<1> QED
    BY <1>2, <1>3

LEMMA NestminfuncTyped ==
    ASSUME Typed, NEW t \in Threads, nestminfunc(t)
    PROVE  Scalars' /\ NodesOK' /\ WorkersOK'
<1> DEFINE i == worker[t].sample
           s == slot[t].s
           x == worker[t].x
           a == Given(node[i].amounts, SetBy(s), x)
           v == Given(EVv[i], SetBy(s), x)
           n == Computed(node[i], a, s)
<1>1. /\ i \in Samples /\ s \in Seq(Order) /\ x \in [DOMAIN s -> Values \cup {Start}]
    BY NestminfuncWorks
<1>2. Scalars'
    BY ScalarsKept DEF Typed, nestminfunc
<1>3. DOMAIN SetBy(s) \subseteq DOMAIN s
    BY <1>1, SetBySound
<1>4. NodeOK(node[i]) /\ EVv[i] \in Amounts /\ node[i].amounts \in Amounts
    BY <1>1 DEF Typed, NodesOK, NodeOK
<1>5. a \in Amounts /\ v \in Amounts
  <2> HIDE DEF s, x
  <2> QED
    BY <1>1, <1>3, <1>4, GivenType
<1>6. EVv' = [EVv EXCEPT ![i] = v] /\ node' = [node EXCEPT ![i] = n]
    BY NestminfuncSets
<1> HIDE DEF a, v, s, x
<1>7. NodeOK(n)
    BY <1>4, <1>5, ComputedIs DEF NodeOK, Points
<1> HIDE DEF n
<1>8. NodesOK'
    BY <1>1, <1>5, <1>6, <1>7 DEF Typed, NodesOK
<1>9. WorkersOK'
  <2>1. \A u \in Threads : u # t => worker'[u] = worker[u]
    BY DEF nestminfunc, Typed, Inv, Records
  <2>2. /\ worker'[t].at \in {"optimize", "store"} /\ worker'[t].sample = worker[t].sample
        /\ worker'[t].j = worker[t].j /\ worker'[t].bounds = worker[t].bounds
        /\ worker'[t].x = worker[t].x
        /\ worker[t].at \in {"ask", "last"} /\ slot' = slot
    BY DEF nestminfunc, Typed, Inv, Records, IsWorker
  <2>3. WorkerOK(worker'[t], slot[t])
    BY <2>2 DEF Typed, WorkersOK, WorkerOK, Optimizing
  <2> QED
    BY <2>1, <2>2, <2>3 DEF Typed, WorkersOK
<1> QED
    BY <1>2, <1>8, <1>9

\* The result is stored.
LEMMA StoreWorks ==
    ASSUME Typed, NEW t \in Threads, Store(t)
    PROVE  /\ worker[t].sample \in Samples
           /\ slot[t].s \in Seq(Order) /\ worker[t].x \in [DOMAIN slot[t].s -> Values \cup {Start}]
           /\ worker[t].j \in 1..Functions
           /\ EVv' = [EVv EXCEPT ![worker[t].sample] =
                         Given(EVv[worker[t].sample], slot[t].s, worker[t].x)]
<1>1. worker[t].at = "store"
    BY DEF Store
<1>2. worker[t].sample \in Samples /\ Optimizing(worker[t], slot[t].s)
    BY <1>1 DEF Typed, WorkersOK, WorkerOK
<1>3. EVv' = [EVv EXCEPT ![worker[t].sample] =
                 Given(EVv[worker[t].sample], slot[t].s, worker[t].x)]
    BY <1>2 DEF Store, P_id
<1> QED
    BY <1>2, <1>3, GatheredIncreasing DEF Optimizing

LEMMA StoreTyped ==
    ASSUME Typed, NEW t \in Threads, Store(t)
    PROVE  Scalars' /\ NodesOK' /\ WorkersOK'
<1> DEFINE i == worker[t].sample
           s == slot[t].s
           x == worker[t].x
           v == Given(EVv[i], s, x)
<1>1. i \in Samples /\ x \in [DOMAIN s -> Values \cup {Start}] /\ worker[t].j \in 1..Functions
    BY StoreWorks
<1>2. Scalars'
    BY ScalarsKept DEF Typed, Store
<1>3. NodesOK'
  <2>1. EVv[i] \in Amounts
    BY <1>1 DEF Typed, NodesOK
  <2>2. v \in Amounts
    <3> HIDE DEF s, x, i
    <3> QED
      BY <1>1, <2>1, GivenType
  <2>3. EVv' = [EVv EXCEPT ![i] = v] /\ node' = node
    BY StoreWorks DEF Store
  <2> HIDE DEF v, s, x
  <2> QED
    BY <1>1, <2>2, <2>3 DEF Typed, NodesOK, NodeOK
<1>4. WorkersOK'
  <2> DEFINE W == [worker[t] EXCEPT !.at = "test", !.j = @ + 1, !.x = <<>>]
             S == [slot[t] EXCEPT !.s = <<>>]
  <2>1. worker' = [worker EXCEPT ![t] = W] /\ slot' = [slot EXCEPT ![t] = S]
    BY DEF Store, P_id, Typed, Inv, Records
  <2>2. W.at = "test" /\ W.sample = i /\ W.j = worker[t].j + 1 /\ W.bounds = worker[t].bounds
    BY DEF Typed, Inv, Records, IsWorker
  <2>3. S.EXPndx = slot[t].EXPndx
    BY DEF Typed, Inv, Records, IsSlot
  <2> HIDE DEF W, S
  <2>4. WorkerOK(W, S)
    BY <1>1, <2>2, <2>3, NestedConstants DEF Typed, WorkersOK, WorkerOK
  <2> QED
    BY <2>1, <2>4, WorkerStep
<1> QED
    BY <1>2, <1>3, <1>4

\* The thread is idle again.
LEMMA LeaveTyped ==
    ASSUME Typed, NEW t \in Threads, Leave(t)
    PROVE  Scalars' /\ NodesOK' /\ WorkersOK'
<1>1. Scalars' /\ NodesOK'
    BY NodesKept, ScalarsKept DEF Typed, Leave
<1>2. worker' = [worker EXCEPT ![t] = Idle] /\ slot' = slot
    BY DEF Leave
<1>3. WorkerOK(Idle, slot[t])
    BY NestedConstants DEF Typed, WorkersOK, WorkerOK, Idle
<1> QED
    BY <1>1, <1>2, <1>3, WorkerAlone

\* Every step keeps the types.
LEMMA WorkTyped ==
    ASSUME Typed, NEW t \in Threads, Work(t)
    PROVE  Scalars' /\ NodesOK' /\ WorkersOK'
<1>1. CASE \E i \in Samples : Take(t, i)
    BY <1>1, TakeTyped
<1>2. CASE \E e \in SUBSET Order : Gather(t, e)
    BY <1>2, GatherTyped
<1>3. CASE (\E e \in SUBSET Order : NoParameters(t, e)) \/ Throw(t) \/ OutOfRange(t)
    BY <1>3, ExitTyped
<1>4. CASE \E x \in UNION {[1..n -> Values \cup {Start}] : n \in Order} :
               Ask(t, x) \/ Stop(t, x)
    BY <1>4, AskTyped
<1> QED
    BY <1>1, <1>2, <1>3, <1>4, SkipTyped, NestminfuncTyped, StoreTyped, LeaveTyped DEF Work

THEOREM NextTyped == Typed /\ [Next]_vars => Typed'
<1> SUFFICES ASSUME Typed, [Next]_vars PROVE Typed'
    OBVIOUS
<1>1. Inv'
    BY NextInv DEF Typed
<1>2. CASE UNCHANGED vars
    BY <1>1, <1>2, NodesKept, WorkersKept, ScalarsKept DEF Typed, vars
<1>3. CASE (\E o \in Vectors : Evaluate(o)) \/ NestedOnly \/ Loops
    BY <1>1, <1>3, LoopsTyped DEF Typed
<1>4. CASE \E t \in Threads : Work(t)
    BY <1>1, <1>4, WorkTyped DEF Typed
<1> QED
    BY <1>2, <1>3, <1>4 DEF Next

\* For all values of the constants.
THEOREM TypeCorrect == Spec => []TypeOK
BY InitTyped, NextTyped, TypedIsTypeOK, PTL DEF Spec

-----------------------------------------------------------------------------
(* What an evaluation leaves in the nodes.                                 *)

\* The results of a sample are of the vector evaluated, at the amounts its node has.
Evaluated(i) ==
    /\ result[i] = [opt |-> opt, amounts |-> node[i].amounts, types |-> {"configured"}]
    /\ node[i].computed = [opt |-> opt, amounts |-> node[i].amounts]

Phases ==
    /\ result = [i \in Samples |-> result[i]]
    /\ ~objectives => opt = None /\ stage \in {"idle", "nested", "exited"}
    /\ stage \in {"idle", "adjust", "compute"} =>
          type = "configured" /\ \A i \in Samples : atype[i] = "configured"
    /\ stage = "adjust" => \A i \in Samples \ todo : node[i].opt = opt
    /\ stage \in {"nested", "compute"} /\ objectives => \A i \in Samples : node[i].opt = opt
    /\ stage = "compute" => \A i \in Samples \ todo : Evaluated(i)
    /\ stage = "idle" /\ opt # None => \A i \in Samples : Evaluated(i)

LEMMA InitPhases == Init => Phases
BY DEF Init, Phases

\* The steps between the loops.
LEMMA EvaluatePhases ==
    ASSUME Typed, Phases, NEW o \in Vectors, Evaluate(o)
    PROVE  Phases'
BY DEF Phases, Evaluate, Evaluated

LEMMA NestedOnlyPhases ==
    ASSUME Typed, Phases, NestedOnly
    PROVE  Phases'
BY DEF Phases, NestedOnly, Evaluated

LEMMA AdjustNodePhases ==
    ASSUME Typed, Phases, NEW i \in Samples, AdjustNode(i)
    PROVE  Phases'
<1>1. \A k \in Samples \ todo' : node'[k].opt = opt'
  <2>1. \A k \in Samples : node'[k].opt = IF k = i THEN opt ELSE node[k].opt
    BY DEF Typed, NodesOK, NodeOK, AdjustNode
  <2> QED
    BY <2>1 DEF AdjustNode, Phases
<1> QED
    BY <1>1 DEF Phases, AdjustNode, Evaluated

LEMMA StartNestedPhases ==
    ASSUME Typed, Phases, StartNested
    PROVE  Phases'
BY DEF Phases, StartNested, Evaluated

LEMMA EndNestedPhases ==
    ASSUME Typed, Phases, EndNested
    PROVE  Phases'
BY DEF Phases, EndNested, Evaluated, Typed, Scalars

LEMMA ComputeNodePhases ==
    ASSUME Typed, Phases, NEW i \in Samples, ComputeNode(i)
    PROVE  Phases'
<1>1. \A k \in Samples :
          /\ node'[k].opt = node[k].opt /\ node'[k].amounts = node[k].amounts
          /\ node'[k].computed = IF k = i THEN [opt |-> node[i].opt, amounts |-> node[i].amounts]
                                          ELSE node[k].computed
    BY DEF Typed, NodesOK, NodeOK, ComputeNode
<1>2. \A k \in Samples :
          result'[k] = IF k = i THEN [opt |-> node[i].opt, amounts |-> node[i].amounts,
                                      types |-> {type, atype[i]}]
                                ELSE result[k]
    BY DEF Phases, ComputeNode
<1>3. node[i].opt = opt /\ type = "configured" /\ atype[i] = "configured"
    BY DEF Phases, ComputeNode, Typed, Scalars
<1>4. result' = [k \in Samples |-> result'[k]]
    BY DEF Phases, ComputeNode
<1>5. \A k \in Samples \ todo' : Evaluated(k)'
  <2>1. stage = "compute" /\ todo' = todo \ {i} /\ opt' = opt
    BY DEF ComputeNode
  <2>2. Evaluated(i)'
    BY <1>1, <1>2, <1>3, <2>1 DEF Evaluated
  <2>3. ASSUME NEW k \in Samples \ todo, k # i
        PROVE  Evaluated(k)'
    <3>1. Evaluated(k)
        BY <2>1, <2>3 DEF Phases
    <3> QED
        BY <1>1, <1>2, <2>1, <2>3, <3>1 DEF Evaluated
  <2> QED
    BY <2>1, <2>2, <2>3
<1> QED
    BY <1>1, <1>4, <1>5 DEF Phases, ComputeNode

LEMMA ReturnPhases ==
    ASSUME Typed, Phases, Return
    PROVE  Phases'
BY DEF Phases, Return, Evaluated

\* The steps of a thread keep the vector in the nodes.
LEMMA WorkPhases ==
    ASSUME Typed, Phases, NEW t \in Threads, Work(t)
    PROVE  Phases'
<1>1. /\ stage = "nested" /\ stage' \in {"nested", "exited"}
      /\ UNCHANGED <<objectives, opt, result, type, atype>>
    BY DEF Work, Take, Skip, Gather, NoParameters, Ask, Stop, Throw, nestminfunc, OutOfRange,
           Store, Leave
<1>2. \A i \in Samples : node'[i].opt = node[i].opt
  <2>1. CASE nestminfunc(t)
    <3> DEFINE i == worker[t].sample
               a == Given(node[i].amounts, SetBy(slot[t].s), worker[t].x)
    <3>1. node' = [node EXCEPT ![i] = Computed(node[i], a, slot[t].s)]
        BY <2>1, NestminfuncSets
    <3>2. \A k \in Samples : NodeOK(node[k])
        BY DEF Typed, NodesOK
    <3> HIDE DEF a
    <3>3. i \in Samples
        BY <2>1, NestminfuncWorks
    <3>4. Computed(node[i], a, slot[t].s).opt = node[i].opt
        BY <3>2, <3>3, ComputedIs
    <3> QED
        BY <3>1, <3>4 DEF Typed, NodesOK
  <2>2. CASE UNCHANGED node
    BY <2>2
  <2> QED
    BY <2>1, <2>2 DEF Work, Take, Skip, Gather, NoParameters, Ask, Stop, Throw, OutOfRange,
       Store, Leave
<1> QED
    BY <1>1, <1>2 DEF Phases

LEMMA NextPhases == Typed /\ Phases /\ [Next]_vars => Phases'
<1> SUFFICES ASSUME Typed, Phases, [Next]_vars PROVE Phases'
    OBVIOUS
<1>1. CASE UNCHANGED vars
    BY <1>1 DEF vars, Phases, Evaluated
<1>2. CASE \E o \in Vectors : Evaluate(o)
    BY <1>2, EvaluatePhases
<1>3. CASE Loops
    BY <1>3, AdjustNodePhases, ComputeNodePhases, StartNestedPhases, EndNestedPhases,
       ReturnPhases DEF Loops
<1>4. CASE \E t \in Threads : Work(t)
    BY <1>4, WorkPhases
<1> QED
    BY <1>1, <1>2, <1>3, <1>4, NestedOnlyPhases DEF Next

\* An evaluation returns results of its own vector in all samples, compared as the
\* task says, wherever the parameters of the nested functions end.
ResultsAreOfOpt ==
    (stage = "idle" /\ opt # None) => \A i \in Samples : Evaluated(i)

\* For all values of the constants.
THEOREM ResultsAreOfOptHolds == Spec => []ResultsAreOfOpt
<1>1. Phases => ResultsAreOfOpt
    BY DEF Phases, ResultsAreOfOpt
<1> QED
    BY InitTyped, NextTyped, InitPhases, NextPhases, <1>1, PTL DEF Spec

-----------------------------------------------------------------------------
(* Stop criteria.                                                          *)

\* The last function the thread was fitted or skipped, or is fitting.
Last(w) == IF w.at = "test" THEN w.j - 1 ELSE w.j

\* One of the functions in S up to number l is of property PpG, and none after it
\* is an activity in loga.
FromPpG(S, l) ==
    \E p \in S : p <= l /\ Kind[p] = "PpG" /\ \A q \in (p + 1)..l : Kind[q] # "loga"

\* The inductive fact about a thread: bounds of a PpG function come from one, and are
\* not those of a titration.
Bounded(w) ==
    /\ w.bounds = 3 => FromPpG(Has[w.sample], Last(w))
    /\ w.at \notin {"idle", "test"} /\ Kind[w.j] = "titration" => w.bounds # 3

AllBounded == \A t \in Threads : Bounded(worker[t])

LEMMA FromPpGOn ==
    ASSUME NEW S \in SUBSET (1..Functions), NEW l \in 1..Functions,
           FromPpG(S, l - 1), Kind[l] # "loga"
    PROVE  FromPpG(S, l)
<1>1. PICK p \in S : p <= l - 1 /\ Kind[p] = "PpG" /\ \A q \in (p + 1)..(l - 1) : Kind[q] # "loga"
    BY DEF FromPpG
<1>2. p \in Int /\ p <= l
    BY <1>1, NestedConstants
<1>3. \A q \in (p + 1)..l : Kind[q] # "loga"
    BY <1>1, <1>2
<1> QED
    BY <1>1, <1>2, <1>3 DEF FromPpG

LEMMA FromPpGHere ==
    ASSUME NEW S, NEW l \in S, l \in 1..Functions, Kind[l] = "PpG"
    PROVE  FromPpG(S, l)
<1>1. l <= l /\ \A q \in (l + 1)..l : Kind[q] # "loga"
    BY NestedConstants
<1> QED
    BY <1>1 DEF FromPpG

LEMMA SkipBounded ==
    ASSUME Typed, AllBounded, NEW t \in Threads, Skip(t)
    PROVE  AllBounded'
<1> DEFINE w == worker[t]
           W == worker'[t]
<1>1. \A u \in Threads : u # t => worker'[u] = worker[u]
    BY DEF Skip, Typed, Inv, Records
<1> DEFINE b == IF Kind[w.j] = "loga" THEN 1 ELSE w.bounds
<1>2. /\ W.at = "test" /\ W.sample = w.sample /\ W.j = w.j + 1 /\ W.bounds = b
      /\ w.at = "test" /\ w.j <= Functions
  <2>1. worker' = [worker EXCEPT ![t].j = @ + 1, ![t].bounds = b]
    BY DEF Skip, Typed, Inv, Records, IsWorker
  <2>2. w.at = "test" /\ w.j <= Functions
    BY DEF Skip
  <2> HIDE DEF b
  <2>3. W = [w EXCEPT !.j = @ + 1, !.bounds = b] /\ IsWorker(w)
    BY <2>1 DEF Typed, Inv, Records
  <2> HIDE DEF w, W
  <2>4. W = [at |-> w.at, sample |-> w.sample, j |-> w.j + 1, bounds |-> b, x |-> w.x,
             asks |-> w.asks]
    BY <2>3 DEF IsWorker
  <2> QED
    BY <2>2, <2>4
<1>3. b = IF Kind[w.j] = "loga" THEN 1 ELSE w.bounds
    OBVIOUS
<1>4. w.j \in 1..Functions /\ w.sample \in Samples /\ Bounded(w)
    BY <1>2, NestedConstants DEF Typed, WorkersOK, WorkerOK, AllBounded
<1> HIDE DEF w, W, b
<1>5. Last(w) = w.j - 1 /\ Last(W) = w.j
    BY <1>2, <1>4 DEF Last
<1>6. ASSUME W.bounds = 3 PROVE FromPpG(Has[W.sample], Last(W))
  <2>1. Kind[w.j] # "loga" /\ w.bounds = 3
    BY <1>2, <1>3, <1>6
  <2>2. FromPpG(Has[w.sample], w.j - 1)
    BY <1>4, <1>5, <2>1 DEF Bounded
  <2>3. Has[w.sample] \in SUBSET (1..Functions)
    BY <1>4, NestedConstants
  <2>4. FromPpG(Has[w.sample], w.j)
    BY <1>4, <2>1, <2>2, <2>3, FromPpGOn
  <2> QED
    BY <1>2, <1>5, <2>4
<1>7. Bounded(W)
    BY <1>2, <1>6 DEF Bounded
<1> QED
    BY <1>1, <1>7 DEF AllBounded, W

LEMMA GatherBounded ==
    ASSUME Typed, AllBounded, NEW t \in Threads, NEW e \in SUBSET Order, Gather(t, e)
    PROVE  AllBounded'
<1> DEFINE w == worker[t]
           W == worker'[t]
           b == CASE Kind[w.j] \in {"titration", "loga"} -> 1
                  [] Kind[w.j] = "PpG" -> 3
                  [] Kind[w.j] = "plain" -> w.bounds
<1>1. \A u \in Threads : u # t => worker'[u] = worker[u]
    BY DEF Gather, Typed, Inv, Records
<1>2. W = [w EXCEPT !.at = "optimize", !.x = W.x, !.asks = 0, !.bounds = b]
  <2> DEFINE x == [m \in DOMAIN Gathered(w.j, e) |-> EVv[w.sample][Gathered(w.j, e)[m]]]
  <2>1. W = [w EXCEPT !.at = "optimize", !.x = x, !.asks = 0, !.bounds = b]
    BY DEF Gather, Typed, Inv, Records
  <2> HIDE DEF x, b, w
  <2>2. IsWorker(w)
    BY DEF w, Typed, Inv, Records
  <2>3. W.x = x
    BY <2>1, <2>2 DEF IsWorker
  <2> QED
    BY <2>1, <2>3
<1>3. /\ W.at = "optimize" /\ W.sample = w.sample /\ W.j = w.j /\ W.bounds = b
  <2> HIDE DEF b
  <2> QED
    BY <1>2 DEF Typed, Inv, Records, IsWorker
<1>4. w.at = "test" /\ w.j \in Has[w.sample] /\ w.j <= Functions
    BY DEF Gather
<1>5. w.j \in 1..Functions /\ w.sample \in Samples /\ Bounded(w)
    BY <1>4, NestedConstants DEF Typed, WorkersOK, WorkerOK, AllBounded
<1>6. /\ Kind[w.j] \in {"titration", "loga"} => b = 1
      /\ Kind[w.j] = "plain" => b = w.bounds
      /\ Kind[w.j] \in {"titration", "PpG", "loga", "plain"}
    BY <1>5, NestedConstants
<1> HIDE DEF w, W, b
<1>7. Last(w) = w.j - 1 /\ Last(W) = w.j
    BY <1>3, <1>4, <1>5 DEF Last
<1>8. ASSUME W.bounds = 3 PROVE FromPpG(Has[W.sample], Last(W))
  <2>1. CASE Kind[w.j] = "PpG"
    BY <1>3, <1>4, <1>5, <1>7, <2>1, FromPpGHere
  <2>2. CASE Kind[w.j] = "plain"
    <3>1. FromPpG(Has[w.sample], w.j - 1)
      BY <1>3, <1>5, <1>6, <1>7, <1>8, <2>2 DEF Bounded
    <3> QED
      BY <1>3, <1>5, <1>7, <2>2, <3>1, FromPpGOn, NestedConstants
  <2> QED
    BY <1>3, <1>6, <1>8, <2>1, <2>2
<1>9. Bounded(W)
    BY <1>3, <1>6, <1>8 DEF Bounded
<1> QED
    BY <1>1, <1>9 DEF AllBounded, W

\* A thread that goes on with a function, or with the next one after it, keeps what
\* its bounds are.
LEMMA FittingBounded ==
    ASSUME Typed, AllBounded, NEW t \in Threads,
           (\E x : Ask(t, x) \/ Stop(t, x)) \/ nestminfunc(t) \/ Store(t)
    PROVE  AllBounded'
<1> DEFINE w == worker[t]
           W == worker'[t]
<1>1. \A u \in Threads : u # t => worker'[u] = worker[u]
    BY DEF Ask, Stop, nestminfunc, Store, Typed, Inv, Records
<1>2. w.j \in 1..(Functions + 1) /\ Functions \in Nat /\ Bounded(w)
    BY NestedConstants DEF Typed, WorkersOK, WorkerOK, AllBounded
<1>3. CASE (\E x : Ask(t, x) \/ Stop(t, x)) \/ nestminfunc(t)
  <2>1. /\ w.at \notin {"idle", "test"} /\ W.at \notin {"idle", "test"}
        /\ W.sample = w.sample /\ W.j = w.j /\ W.bounds = w.bounds
    <3>1. ASSUME NEW x, Ask(t, x) \/ Stop(t, x)
          PROVE  /\ w.at = "optimize" /\ W.at \in {"ask", "last"}
                 /\ W.sample = w.sample /\ W.j = w.j /\ W.bounds = w.bounds
      BY <3>1 DEF Ask, Stop, Typed, Inv, Records, IsWorker
    <3>2. ASSUME nestminfunc(t)
          PROVE  /\ w.at \in {"ask", "last"} /\ W.at \in {"optimize", "store"}
                 /\ W.sample = w.sample /\ W.j = w.j /\ W.bounds = w.bounds
      BY <3>2 DEF nestminfunc, Typed, Inv, Records, IsWorker
    <3> HIDE DEF w, W
    <3> QED
      BY <1>3, <3>1, <3>2
  <2> HIDE DEF w, W
  <2>2. Bounded(W)
    BY <1>2, <2>1 DEF Bounded, Last
  <2> QED
    BY <1>1, <2>2 DEF AllBounded, W
<1>4. CASE Store(t)
  <2>1. /\ w.at \notin {"idle", "test"} /\ W.at = "test"
        /\ W.sample = w.sample /\ W.j = w.j + 1 /\ W.bounds = w.bounds
    <3> DEFINE R == [w EXCEPT !.at = "test", !.j = @ + 1, !.x = <<>>]
    <3>1. worker' = [worker EXCEPT ![t] = R] /\ w.at = "store"
      BY <1>4 DEF Store, Typed, Inv, Records
    <3>2. R.at = "test" /\ R.sample = w.sample /\ R.j = w.j + 1 /\ R.bounds = w.bounds
      BY DEF Typed, Inv, Records, IsWorker
    <3> HIDE DEF R
    <3>3. W = R
      BY <3>1 DEF Typed, Inv, Records
    <3> HIDE DEF w, W
    <3> QED
      BY <3>1, <3>2, <3>3
  <2> HIDE DEF w, W
  <2>2. Last(W) = Last(w)
    BY <1>2, <2>1 DEF Last
  <2>3. Bounded(W)
    BY <1>2, <2>1, <2>2 DEF Bounded
  <2> QED
    BY <1>1, <2>3 DEF AllBounded, W
<1> QED
    BY <1>3, <1>4

\* A thread that takes a sample or leaves it has no bounds.
LEMMA IdleBounded ==
    ASSUME Typed, AllBounded, NEW t \in Threads, (\E i \in Samples : Take(t, i)) \/ Leave(t)
    PROVE  AllBounded'
<1>1. \A u \in Threads : u # t => worker'[u] = worker[u]
    BY DEF Take, Leave, Typed, Inv, Records
<1>2. worker'[t].bounds = 0 /\ worker'[t].at \in {"idle", "test"}
  <2>1. CASE Leave(t)
    BY <2>1 DEF Leave, Typed, Inv, Records, Idle
  <2>2. ASSUME NEW i \in Samples, Take(t, i)
        PROVE  worker'[t].bounds = 0 /\ worker'[t].at = "test"
    <3> DEFINE R == [Idle EXCEPT !.at = "test", !.sample = i]
    <3>1. worker' = [worker EXCEPT ![t] = R]
      BY <2>2 DEF Take
    <3>2. R.bounds = 0 /\ R.at = "test"
      BY DEF Idle
    <3> QED
      BY <3>1, <3>2 DEF Typed, Inv, Records
  <2> QED
    BY <2>1, <2>2
<1>3. Bounded(worker'[t])
    BY <1>2 DEF Bounded
<1> QED
    BY <1>1, <1>3 DEF AllBounded

LEMMA NextBounded == Typed /\ AllBounded /\ [Next]_vars => AllBounded'
<1> SUFFICES ASSUME Typed, AllBounded, [Next]_vars PROVE AllBounded'
    OBVIOUS
<1>1. CASE worker' = worker
    BY <1>1 DEF AllBounded
<1>2. CASE \E t \in Threads : \E e \in SUBSET Order : Gather(t, e)
    BY <1>2, GatherBounded
<1>3. CASE \E t \in Threads : \/ \E x : Ask(t, x) \/ Stop(t, x)
                              \/ nestminfunc(t) \/ Store(t)
    BY <1>3, FittingBounded
<1>4. CASE \E t \in Threads : (\E i \in Samples : Take(t, i)) \/ Leave(t)
    BY <1>4, IdleBounded
<1>5. CASE \E t \in Threads : Skip(t)
    BY <1>5, SkipBounded
<1>6. CASE \E t \in Threads : \/ \E e \in SUBSET Order : NoParameters(t, e)
                              \/ Throw(t) \/ OutOfRange(t)
    BY <1>1, <1>6 DEF NoParameters, Throw, OutOfRange
<1>7. CASE (\E o \in Vectors : Evaluate(o)) \/ NestedOnly \/ Loops
    BY <1>1, <1>7 DEF Evaluate, NestedOnly, Loops, AdjustNode, ComputeNode, StartNested,
       EndNested, Return
<1>8. CASE UNCHANGED vars
    BY <1>1, <1>8 DEF vars
<1> QED
    BY <1>2, <1>3, <1>4, <1>5, <1>6, <1>7, <1>8 DEF Next, Work

\* The only optimizers without a stop criterion are those of ordinary functions that
\* follow a PpG one.
LEMMA BoundedStops == Typed /\ AllBounded => StopsUnlessAfterPpG
<1> SUFFICES ASSUME Typed, AllBounded, NEW t \in Threads, Fitting(t), ~Criterion(worker[t])
             PROVE  AfterPpG(t)
    BY DEF StopsUnlessAfterPpG
<1> DEFINE w == worker[t]
<1>1. /\ Bounded(w) /\ w.bounds \in {0, 1, 3} /\ w.j \in 1..Functions /\ w.sample \in Samples
    BY DEF Typed, WorkersOK, WorkerOK, Optimizing, AllBounded, Fitting
<1>2. w.bounds = 3 /\ Kind[w.j] # "PpG" /\ w.at \notin {"idle", "test"}
    BY <1>1 DEF Criterion, Fitting
<1>3. Kind[w.j] \in {"loga", "plain"}
    BY <1>1, <1>2, NestedConstants DEF Bounded
<1>4. FromPpG(Has[w.sample], w.j)
    BY <1>1, <1>2 DEF Bounded, Last
<1>5. PICK p \in Has[w.sample] :
              p <= w.j /\ Kind[p] = "PpG" /\ \A q \in (p + 1)..w.j : Kind[q] # "loga"
    BY <1>4 DEF FromPpG
<1>6. p \in Int /\ p # w.j /\ Functions \in Nat
    BY <1>1, <1>2, <1>5, NestedConstants
<1> DEFINE j == w.j
<1>7. j \in Int /\ p < j /\ j \in (p + 1)..j /\ \A q \in (p + 1)..(j - 1) : q \in (p + 1)..j
    BY <1>1, <1>5, <1>6
<1>8. Kind[j] = "plain"
    BY <1>3, <1>5, <1>7
<1> QED
    BY <1>5, <1>7, <1>8 DEF AfterPpG

\* For all values of the constants: which functions of a sample are fitted without a
\* stop criterion depends on the functions before them in this sample only, whatever
\* samples the thread had before and whichever functions it skipped.
THEOREM StopsUnlessAfterPpGHolds == Spec => []StopsUnlessAfterPpG
<1>1. Init => AllBounded
    BY DEF Init, AllBounded, Bounded, Idle
<1> QED
    BY InitTyped, NextTyped, NextBounded, BoundedStops, <1>1, PTL DEF Spec

-----------------------------------------------------------------------------
(* Recorded values.                                                        *)

\* nestminfunc gives values to all the parameters gathered, in their order.
Addressed ==
    \A j \in 1..Functions : \A e \in SUBSET Order : SetBy(Gathered(j, e)) = Gathered(j, e)

\* All nested parameters are of one kind, for instance amounts of elements.
OneGroup == \A k \in Order : Parameters[k].group = 1 /\ Parameters[k].index = k

\* The tests of nestminfunc find the parameters if there is one group.
THEOREM OneGroupIsAddressed == OneGroup => Addressed
BY GatheredIncreasing, SetByAll DEF OneGroup, Addressed

Applied ==
    /\ \A i \in Samples : EVv[i] = node[i].amounts
    /\ \A t \in Threads : worker[t].at = "store" =>
          Given(EVv[worker[t].sample], slot[t].s, worker[t].x) = EVv[worker[t].sample]

LEMMA GivenTwice ==
    ASSUME NEW a, NEW q, NEW x
    PROVE  Given(Given(a, q, x), q, x) = Given(a, q, x)
<1> DEFINE T(k) == \E m \in DOMAIN q : q[m] = k
           y == [k \in Order |-> x[CHOOSE m \in DOMAIN q : q[m] = k]]
           b == [k \in Order |-> IF T(k) THEN y[k] ELSE a[k]]
<1>1. b = Given(a, q, x)
    BY DEF Given
<1>2. Given(b, q, x) = [k \in Order |-> IF T(k) THEN y[k] ELSE b[k]]
    BY DEF Given
<1> HIDE DEF T, y
<1>3. [k \in Order |-> IF T(k) THEN y[k] ELSE b[k]] = b
    OBVIOUS
<1> QED
    BY <1>1, <1>2, <1>3

\* The objective function gives node and record the same values.
LEMMA NestminfuncApplied ==
    ASSUME Addressed, Typed, Applied, NEW t \in Threads, nestminfunc(t)
    PROVE  Applied'
<1> DEFINE i == worker[t].sample
           s == slot[t].s
           x == worker[t].x
           v == Given(EVv[i], s, x)
<1>1. i \in Samples /\ SetBy(s) = s
    BY NestminfuncWorks DEF Addressed
<1>2. EVv[i] = node[i].amounts /\ NodeOK(node[i])
    BY <1>1 DEF Applied, Typed, NodesOK
<1>3. EVv' = [EVv EXCEPT ![i] = v] /\ node' = [node EXCEPT ![i] = Computed(node[i], v, s)]
    BY <1>1, <1>2, NestminfuncSets
<1>4. Computed(node[i], v, s).amounts = v
    BY <1>2, ComputedIs
<1>5. Given(v, s, x) = v
    BY GivenTwice
<1>6. /\ \A u \in Threads : u # t => worker'[u] = worker[u]
      /\ worker'[t].sample = i /\ worker'[t].x = x /\ slot' = slot
    BY DEF nestminfunc, Typed, Inv, Records, IsWorker
<1> HIDE DEF v
<1>7. \A k \in Samples : EVv'[k] = node'[k].amounts
    BY <1>1, <1>3, <1>4 DEF Typed, NodesOK, Applied
<1>8. ASSUME NEW u \in Threads, worker'[u].at = "store"
      PROVE  Given(EVv'[worker'[u].sample], slot'[u].s, worker'[u].x) = EVv'[worker'[u].sample]
  <2>1. EVv'[i] = v
    BY <1>1, <1>3 DEF Typed, NodesOK
  <2>2. CASE u = t
    BY <1>5, <1>6, <2>1, <2>2
  <2>3. CASE u # t
    <3>1. worker'[u] = worker[u] /\ worker[u].at = "store"
        BY <1>6, <1>8, <2>3
    <3>2. worker[u].sample # i
        BY <2>3, <3>1 DEF Typed, Inv, SlotsPrivate, nestminfunc
    <3>3. EVv'[worker[u].sample] = EVv[worker[u].sample]
        BY <1>3, <3>2 DEF Typed, NodesOK
    <3> QED
        BY <1>6, <3>1, <3>3 DEF Applied
  <2> QED
    BY <2>2, <2>3
<1> QED
    BY <1>7, <1>8 DEF Applied

\* The values stored are those the node has.
LEMMA StoreApplied ==
    ASSUME Typed, Applied, NEW t \in Threads, Store(t)
    PROVE  Applied'
<1> DEFINE i == worker[t].sample
<1>1. i \in Samples /\ EVv' = [EVv EXCEPT ![i] = Given(EVv[i], slot[t].s, worker[t].x)]
    BY StoreWorks
<1>2. Given(EVv[i], slot[t].s, worker[t].x) = EVv[i]
    BY DEF Store, Applied
<1>3. EVv' = EVv /\ node' = node
    BY <1>1, <1>2 DEF Typed, NodesOK, Store
<1>4. /\ \A u \in Threads : u # t => worker'[u] = worker[u] /\ slot'[u] = slot[u]
      /\ worker'[t].at = "test"
  <2> DEFINE W == [worker[t] EXCEPT !.at = "test", !.j = @ + 1, !.x = <<>>]
             S == [slot[t] EXCEPT !.s = <<>>]
  <2>1. worker' = [worker EXCEPT ![t] = W] /\ slot' = [slot EXCEPT ![t] = S]
    BY DEF Store, P_id, Typed, Inv, Records
  <2>2. W.at = "test"
    BY DEF Typed, Inv, Records, IsWorker
  <2> HIDE DEF W, S
  <2> QED
    BY <2>1, <2>2 DEF Typed, Inv, Records
<1> QED
    BY <1>3, <1>4 DEF Applied

\* Other steps leave the values alone; a thread comes to "store" by nestminfunc only.
LEMMA QuietApplied ==
    ASSUME Typed, Applied, NEW t \in Threads,
           EVv' = EVv, node' = node,
           \A u \in Threads : u # t => worker'[u] = worker[u] /\ slot'[u] = slot[u],
           worker'[t].at # "store"
    PROVE  Applied'
BY DEF Applied

LEMMA WorkApplied ==
    ASSUME Addressed, Typed, Applied, NEW t \in Threads, Work(t)
    PROVE  Applied'
<1>1. CASE \E i \in Samples : Take(t, i)
    BY <1>1, QuietApplied DEF Take, Idle, Typed, Inv, Records
<1>2. CASE Skip(t)
  <2> DEFINE b == IF Kind[worker[t].j] = "loga" THEN 1 ELSE worker[t].bounds
  <2>1. worker' = [worker EXCEPT ![t].j = @ + 1, ![t].bounds = b]
    BY <1>2 DEF Skip, Typed, Inv, Records, IsWorker
  <2> HIDE DEF b
  <2>2. /\ worker'[t].at = worker[t].at
        /\ \A u \in Threads : u # t => worker'[u] = worker[u]
    BY <2>1 DEF Typed, Inv, Records, IsWorker
  <2>3. worker[t].at = "test" /\ EVv' = EVv /\ node' = node /\ slot' = slot
    BY <1>2 DEF Skip
  <2> QED
    BY <2>2, <2>3, QuietApplied
<1>3. CASE \E e \in SUBSET Order : Gather(t, e)
  <2>1. PICK e \in SUBSET Order : Gather(t, e)
    BY <1>3
  <2>2. /\ EVv' = EVv /\ node' = node
        /\ \A u \in Threads : u # t => worker'[u] = worker[u] /\ slot'[u] = slot[u]
    BY <2>1 DEF Gather, P_id, Typed, Inv, Records
  <2>3. worker'[t].at = "optimize"
    <3> DEFINE w == worker[t]
               s == Gathered(w.j, e)
               x == [m \in DOMAIN s |-> EVv[w.sample][s[m]]]
               b == CASE Kind[w.j] \in {"titration", "loga"} -> 1
                      [] Kind[w.j] = "PpG" -> 3
                      [] Kind[w.j] = "plain" -> w.bounds
               W == [w EXCEPT !.at = "optimize", !.x = x, !.asks = 0, !.bounds = b]
    <3> HIDE DEF s, x, b
    <3>1. worker' = [worker EXCEPT ![t] = W]
        BY <2>1 DEF Gather, s, x, b
    <3>2. W.at = "optimize"
        BY DEF Typed, Inv, Records, IsWorker
    <3> HIDE DEF W
    <3> QED
        BY <3>1, <3>2 DEF Typed, Inv, Records
  <2> QED
    BY <2>2, <2>3, QuietApplied
<1>4. CASE \E x \in UNION {[1..n -> Values \cup {Start}] : n \in Order} :
               Ask(t, x) \/ Stop(t, x)
  <2>1. /\ EVv' = EVv /\ node' = node /\ slot' = slot
        /\ \A u \in Threads : u # t => worker'[u] = worker[u]
        /\ worker'[t].at \in {"ask", "last"}
    BY <1>4 DEF Ask, Stop, Typed, Inv, Records, IsWorker
  <2> QED
    BY <2>1, QuietApplied
<1>5. CASE Leave(t)
    BY <1>5, QuietApplied DEF Leave, Idle, Typed, Inv, Records
<1>6. CASE (\E e \in SUBSET Order : NoParameters(t, e)) \/ Throw(t) \/ OutOfRange(t)
    BY <1>6 DEF NoParameters, Throw, OutOfRange, Applied
<1> QED
    BY <1>1, <1>2, <1>3, <1>4, <1>5, <1>6, NestminfuncApplied, StoreApplied DEF Work

LEMMA NextApplied ==
    ASSUME Addressed
    PROVE  Typed /\ Applied /\ [Next]_vars => Applied'
<1> SUFFICES ASSUME Typed, Applied, [Next]_vars PROVE Applied'
    OBVIOUS
<1>1. CASE \E t \in Threads : Work(t)
    BY <1>1, WorkApplied
<1>2. CASE \E i \in Samples : AdjustNode(i) \/ ComputeNode(i)
  <2>1. \A k \in Samples : node'[k].amounts = node[k].amounts
    BY <1>2 DEF Typed, NodesOK, NodeOK, AdjustNode, ComputeNode
  <2>2. UNCHANGED <<EVv, worker, slot>>
    BY <1>2 DEF AdjustNode, ComputeNode
  <2> QED
    BY <2>1, <2>2 DEF Applied
<1>3. CASE UNCHANGED <<node, EVv, worker, slot>>
    BY <1>3 DEF Applied
<1> QED
    BY <1>1, <1>2, <1>3 DEF Next, vars, Evaluate, NestedOnly, Loops, StartNested, EndNested,
       Return

LEMMA InitApplied == Init => Applied
BY DEF Init, Applied, Idle

\* With one group of nested parameters, the values printed are those the nodes have been
\* computed with.
THEOREM RecordedIsAppliedHolds ==
    ASSUME Addressed
    PROVE  Spec => []RecordedIsApplied
<1>1. Applied => RecordedIsApplied
    BY DEF Applied, RecordedIsApplied
<1>2. Typed /\ Applied /\ [Next]_vars => Applied'
    BY NextApplied
<1> QED
    BY InitTyped, NextTyped, InitApplied, <1>2, <1>1, PTL DEF Spec

\* And an evaluation is of one vector in all samples and of the values recorded.
THEOREM EvaluatedWholeHolds ==
    ASSUME Addressed
    PROVE  Spec => []EvaluatedWhole
<1>1. Phases /\ Applied => EvaluatedWhole
    BY DEF Phases, Applied, EvaluatedWhole, Evaluated
<1>2. Typed /\ Applied /\ [Next]_vars => Applied'
    BY NextApplied
<1> QED
    BY InitTyped, NextTyped, InitPhases, NextPhases, InitApplied, <1>2, <1>1, PTL DEF Spec

=============================================================================

-------------------------- MODULE StoredDataProofs --------------------------
(***************************************************************************)
(* Theorems about what is stored, and their proofs: the keys that records  *)
(* are stored and found under, as texts (RecordKeys), and the fits that    *)
(* are stored under the keys of tasks (StoredFits).                        *)
(***************************************************************************)
EXTENDS RecordKeys, StoredFits, Induction

-----------------------------------------------------------------------------
(* Numbers.                                                                *)

\* A set of natural numbers has a least one.
LEMMA MinIsLeast ==
    ASSUME NEW S, S \subseteq Nat, S # {}
    PROVE  Min(S) \in S /\ \A y \in S : Min(S) <= y
<1>1. PICK m \in S : \A x \in S : <<x, m>> \notin Less
  <2>1. PICK x \in S : TRUE
    OBVIOUS
  <2> QED
    BY <2>1, LessIsWellFounded, WFMin
<1>2. ASSUME NEW x \in S PROVE m <= x
  <2>1. x \in Nat /\ m \in Nat
    OBVIOUS
  <2>2. x < m => <<x, m>> \in Less
    BY <2>1 DEF Less
  <2>3. ~(x < m)
    BY <1>1, <2>2
  <2> QED
    BY <2>1, <2>3
<1>3. \E x \in S : \A y \in S : x <= y
    BY <1>2
<1> QED
    BY <1>3 DEF Min

\* A bounded one has a greatest.
LEMMA MaxIsGreatest ==
    ASSUME NEW n \in Nat, NEW S, S \subseteq 0..n, S # {}
    PROVE  Max(S) \in S /\ \A y \in S : Max(S) >= y
<1> DEFINE T == {n - x : x \in S}
<1>1. T \subseteq Nat /\ T # {}
  <2>1. \A x \in S : n - x \in Nat
    OBVIOUS
  <2> QED
    BY <2>1
<1>2. Min(T) \in T /\ \A y \in T : Min(T) <= y
    BY <1>1, MinIsLeast
<1>3. PICK m \in S : Min(T) = n - m
    BY <1>2
<1>4. \A y \in S : m >= y
  <2> TAKE y \in S
  <2>1. n - m <= n - y
    BY <1>2, <1>3
  <2> QED
    BY <2>1
<1>5. \E x \in S : \A y \in S : x >= y
    BY <1>4
<1> QED
    BY <1>5 DEF Max

\* The part between two positions of a text.
LEMMA PartOfText ==
    ASSUME NEW X, NEW s \in Seq(X), NEW a \in 1..(Len(s) + 1), NEW b \in 0..Len(s), a <= b + 1
    PROVE  /\ SubSeq(s, a, b) \in Seq(X) /\ Len(SubSeq(s, a, b)) = b - a + 1
           /\ \A i \in 1..(b - a + 1) : SubSeq(s, a, b)[i] = s[a + i - 1]
    OBVIOUS

\* Two sequences with the same elements.
LEMMA SameText ==
    ASSUME NEW X, NEW s \in Seq(X), NEW t \in Seq(X), Len(s) = Len(t),
           \A i \in 1..Len(s) : s[i] = t[i]
    PROVE  s = t
    OBVIOUS

\* A text behind another.
LEMMA Behind ==
    ASSUME NEW X, NEW s \in Seq(X), NEW t \in Seq(X)
    PROVE  /\ s \o t \in Seq(X) /\ Len(s \o t) = Len(s) + Len(t)
           /\ \A i \in 1..Len(s) : (s \o t)[i] = s[i]
           /\ \A i \in 1..Len(t) : (s \o t)[Len(s) + i] = t[i]
    OBVIOUS

-----------------------------------------------------------------------------
(* Blanks.                                                                 *)

\* What is in a text.
LEMMA TextHas ==
    ASSUME NEW s \in Text
    PROVE  /\ Len(s) \in Nat /\ DOMAIN s = 1..Len(s)
           /\ \A i \in 1..Len(s) : s[i] \in Char /\ s[i] \in Range(s)
           /\ \A x \in Range(s) : \E i \in 1..Len(s) : x = s[i]
    BY DEF Text, Range

\* Strip takes off what is in front of the first other character and behind
\* the last one.
LEMMA StripIs ==
    ASSUME NEW s \in Text, NEW a \in 1..Len(s), NEW b \in 1..Len(s), s[a] # Blank, s[b] # Blank,
           \A i \in 1..Len(s) : i < a \/ i > b => s[i] = Blank
    PROVE  Strip(s) = SubSeq(s, a, b)
<1> DEFINE ink == {i \in DOMAIN s : s[i] # Blank}
<1>1. Len(s) \in Nat /\ DOMAIN s = 1..Len(s)
    BY TextHas
<1>2. a \in ink /\ b \in ink /\ ink \subseteq 0..Len(s) /\ ink \subseteq Nat /\ ink # {}
    BY <1>1
<1>3. \A i \in ink : a <= i /\ i <= b
    BY <1>1
<1>4. Strip(s) = IF ink = {} THEN <<>> ELSE SubSeq(s, Min(ink), Max(ink))
    BY DEF Strip
<1> HIDE DEF ink
<1>5. Min(ink) = a
  <2>1. Min(ink) \in ink /\ \A y \in ink : Min(ink) <= y
    BY <1>2, MinIsLeast
  <2>2. Min(ink) \in Nat /\ a \in Nat /\ a <= Min(ink) /\ Min(ink) <= a
    BY <1>2, <1>3, <2>1
  <2> QED
    BY <2>2
<1>6. Max(ink) = b
  <2>1. Max(ink) \in ink /\ \A y \in ink : Max(ink) >= y
    BY <1>1, <1>2, MaxIsGreatest
  <2>2. Max(ink) \in Nat /\ b \in Nat /\ b <= Max(ink) /\ Max(ink) <= b
    BY <1>2, <1>3, <2>1
  <2> QED
    BY <2>2
<1> QED
    BY <1>2, <1>4, <1>5, <1>6

\* Of a text without other characters nothing is left.
LEMMA StripBlank ==
    ASSUME NEW s \in Text, \A i \in 1..Len(s) : s[i] = Blank
    PROVE  Strip(s) = <<>>
<1>1. {i \in DOMAIN s : s[i] # Blank} = {}
    BY TextHas
<1> QED
    BY <1>1 DEF Strip

\* Of another one, the part from its first to its last other character.
LEMMA StripFinds ==
    ASSUME NEW s \in Text, NEW c \in 1..Len(s), s[c] # Blank
    PROVE  \E a, b \in 1..Len(s) :
              /\ a <= c /\ c <= b /\ s[a] # Blank /\ s[b] # Blank
              /\ \A i \in 1..Len(s) : i < a \/ i > b => s[i] = Blank
              /\ Strip(s) = SubSeq(s, a, b)
<1> DEFINE ink == {i \in 1..Len(s) : s[i] # Blank}
<1>1. Len(s) \in Nat
    BY TextHas
<1>2. c \in ink /\ ink \subseteq 0..Len(s) /\ ink \subseteq Nat /\ ink # {}
    BY <1>1
<1>3. /\ \A i \in ink : i \in 1..Len(s) /\ s[i] # Blank
      /\ \A i \in 1..Len(s) : i \notin ink => s[i] = Blank
    OBVIOUS
<1> HIDE DEF ink
<1>4. PICK a \in ink : \A y \in ink : a <= y
    BY <1>2, MinIsLeast
<1>5. PICK b \in ink : \A y \in ink : b >= y
    BY <1>1, <1>2, MaxIsGreatest
<1>6. a \in 1..Len(s) /\ b \in 1..Len(s) /\ s[a] # Blank /\ s[b] # Blank
    BY <1>3
<1>7. \A i \in 1..Len(s) : i < a \/ i > b => s[i] = Blank
    BY <1>1, <1>3, <1>4, <1>5, <1>6
<1>8. Strip(s) = SubSeq(s, a, b)
    BY <1>6, <1>7, StripIs
<1> QED
    BY <1>2, <1>4, <1>5, <1>6, <1>7, <1>8

\* No blank at either end.
Tight(s) == s # <<>> => s[1] # Blank /\ s[Len(s)] # Blank

\* A stripped text is part of the text, with all that is no blank, and
\* stripping it again changes nothing.
LEMMA StripFacts ==
    ASSUME NEW s \in Text
    PROVE  /\ Strip(s) \in Text /\ Tight(Strip(s))
           /\ Range(Strip(s)) \subseteq Range(s)
           /\ \A x \in Range(s) : x # Blank => x \in Range(Strip(s))
           /\ Tight(s) => Strip(s) = s
<1>1. Len(s) \in Nat /\ s \in Seq(Char)
    BY TextHas DEF Text
<1>2. CASE \A i \in 1..Len(s) : s[i] = Blank
  <2>1. Strip(s) = <<>>
    BY <1>2, StripBlank
  <2>2. \A x \in Range(s) : x = Blank
    BY <1>2, TextHas
  <2>3. Tight(s) => s = <<>>
    <3>1. ASSUME s # <<>> PROVE 1 \in 1..Len(s)
      BY <1>1, <3>1
    <3> QED
      BY <1>2, <3>1 DEF Tight
  <2>4. <<>> \in Text /\ Range(<<>>) = {}
    BY DEF Text, Range
  <2> QED
    BY <2>1, <2>2, <2>3, <2>4 DEF Tight
<1>3. CASE \E c \in 1..Len(s) : s[c] # Blank
  <2>1. PICK a \in 1..Len(s), b \in 1..Len(s) :
            /\ a <= b /\ s[a] # Blank /\ s[b] # Blank
            /\ \A i \in 1..Len(s) : i < a \/ i > b => s[i] = Blank
            /\ Strip(s) = SubSeq(s, a, b)
    <3>1. PICK c \in 1..Len(s) : s[c] # Blank
      BY <1>3
    <3>2. PICK a \in 1..Len(s), b \in 1..Len(s) :
              /\ a <= c /\ c <= b /\ s[a] # Blank /\ s[b] # Blank
              /\ \A i \in 1..Len(s) : i < a \/ i > b => s[i] = Blank
              /\ Strip(s) = SubSeq(s, a, b)
      BY <3>1, StripFinds
    <3>3. a <= b
      BY <1>1, <3>2
    <3> QED
      BY <3>2, <3>3
  <2> DEFINE t == SubSeq(s, a, b)
  <2>2. /\ t \in Seq(Char) /\ Len(t) = b - a + 1
        /\ \A i \in 1..(b - a + 1) : t[i] = s[a + i - 1]
    <3>1. a \in 1..(Len(s) + 1) /\ b \in 0..Len(s) /\ a <= b + 1
      BY <1>1, <2>1
    <3> QED
      BY <1>1, <3>1, PartOfText
  <2>3. t = Strip(s)
    BY <2>1
  <2> HIDE DEF t
  <2>4. t[1] = s[a] /\ t[Len(t)] = s[b]
    BY <1>1, <2>1, <2>2
  <2>5. t \in Text /\ Tight(t)
    BY <2>1, <2>2, <2>4 DEF Text, Tight
  <2>6. \A i \in 1..Len(t) : a + i - 1 \in 1..Len(s) /\ t[i] = s[a + i - 1]
    BY <1>1, <2>1, <2>2
  <2>7. Range(t) \subseteq Range(s)
    BY <2>5, <2>6, TextHas
  <2>8. ASSUME NEW x \in Range(s), x # Blank PROVE x \in Range(t)
    <3>1. PICK i \in 1..Len(s) : x = s[i]
      BY TextHas
    <3>2. a <= i /\ i <= b
      BY <1>1, <2>1, <2>8, <3>1
    <3>3. i - a + 1 \in 1..Len(t) /\ t[i - a + 1] = s[i]
      BY <1>1, <2>2, <3>2
    <3> QED
      BY <2>5, <3>1, <3>3, TextHas
  <2>9. ASSUME Tight(s) PROVE t = s
    <3>1. s[1] # Blank /\ s[Len(s)] # Blank
      BY <2>9, <1>1, <2>1 DEF Tight
    <3>2. a = 1 /\ b = Len(s)
      BY <1>1, <2>1, <3>1
    <3>3. Len(t) = Len(s) /\ \A i \in 1..Len(t) : t[i] = s[i]
      BY <1>1, <2>2, <3>2
    <3> QED
      BY <1>1, <2>2, <3>3, SameText
  <2> QED
    BY <2>3, <2>5, <2>7, <2>8, <2>9
<1> QED
    BY <1>2, <1>3

\* Behind a text that ends with no blank, only blanks at the end are lost.
LEMMA StripBehind ==
    ASSUME NEW p \in Text, p # <<>>, Tight(p), NEW f \in Text
    PROVE  \E r \in Text : /\ Strip(p \o f) = p \o r
                           /\ Strip(r) = Strip(f) /\ Range(r) \subseteq Range(f)
<1> DEFINE s == p \o f
<1>1. p \in Seq(Char) /\ f \in Seq(Char) /\ Len(p) \in Nat /\ Len(f) \in Nat /\ Len(p) > 0
    BY DEF Text
<1>2. /\ s \in Seq(Char) /\ s \in Text /\ Len(s) = Len(p) + Len(f)
      /\ \A i \in 1..Len(p) : s[i] = p[i]
      /\ \A i \in 1..Len(f) : s[Len(p) + i] = f[i]
    BY <1>1 DEF Text
<1>3. p[1] # Blank /\ p[Len(p)] # Blank
    BY DEF Tight
<1> HIDE DEF s
<1>4. CASE \A i \in 1..Len(f) : f[i] = Blank
  <2>1. \A i \in 1..Len(s) : i > Len(p) => s[i] = Blank
    <3> SUFFICES ASSUME NEW i \in 1..Len(s), i > Len(p) PROVE s[i] = Blank
      OBVIOUS
    <3>1. i - Len(p) \in 1..Len(f) /\ i = Len(p) + (i - Len(p))
      BY <1>1, <1>2
    <3> QED
      BY <1>2, <1>4, <3>1
  <2>2. /\ 1 \in 1..Len(s) /\ Len(p) \in 1..Len(s) /\ s[1] # Blank /\ s[Len(p)] # Blank
        /\ \A i \in 1..Len(s) : i < 1 \/ i > Len(p) => s[i] = Blank
    BY <1>1, <1>2, <1>3, <2>1
  <2>3. Strip(s) = SubSeq(s, 1, Len(p))
    BY <1>2, <2>2, StripIs
  <2>4. SubSeq(s, 1, Len(p)) = p
    <3> DEFINE t == SubSeq(s, 1, Len(p))
    <3>1. t \in Seq(Char) /\ Len(t) = Len(p) /\ \A i \in 1..Len(p) : t[i] = s[i]
      <4>1. 1 \in 1..(Len(s) + 1) /\ Len(p) \in 0..Len(s) /\ 1 <= Len(p) + 1
        BY <1>1, <1>2
      <4> QED
        BY <1>1, <1>2, <4>1, PartOfText
    <3> HIDE DEF t
    <3>2. t = p
      BY <1>1, <1>2, <3>1, SameText
    <3> QED
      BY <3>2 DEF t
  <2>5. <<>> \in Text /\ p \o <<>> = p /\ Range(<<>>) = {}
    BY <1>1 DEF Text, Range
  <2>6. Strip(f) = <<>> /\ Strip(<<>>) = <<>>
    <3>1. \A i \in 1..Len(<<>>) : <<>>[i] = Blank
      OBVIOUS
    <3> QED
      BY <1>4, <2>5, <3>1, StripBlank
  <2> QED
    BY <2>3, <2>4, <2>5, <2>6 DEF s
<1>5. CASE \E c \in 1..Len(f) : f[c] # Blank
  <2>1. PICK a \in 1..Len(f), b \in 1..Len(f) :
            /\ a <= b /\ f[a] # Blank /\ f[b] # Blank
            /\ \A i \in 1..Len(f) : i < a \/ i > b => f[i] = Blank
            /\ Strip(f) = SubSeq(f, a, b)
    <3>1. PICK c \in 1..Len(f) : f[c] # Blank
      BY <1>5
    <3>2. PICK a \in 1..Len(f), b \in 1..Len(f) :
              /\ a <= c /\ c <= b /\ f[a] # Blank /\ f[b] # Blank
              /\ \A i \in 1..Len(f) : i < a \/ i > b => f[i] = Blank
              /\ Strip(f) = SubSeq(f, a, b)
      BY <3>1, StripFinds
    <3>3. a <= b
      BY <1>1, <3>2
    <3> QED
      BY <3>2, <3>3
  <2> DEFINE r == SubSeq(f, 1, b)
             t == SubSeq(s, 1, Len(p) + b)
  <2>2. r \in Seq(Char) /\ Len(r) = b /\ \A i \in 1..b : r[i] = f[i]
    <3>1. 1 \in 1..(Len(f) + 1) /\ b \in 0..Len(f) /\ 1 <= b + 1
      BY <1>1
    <3> QED
      BY <1>1, <3>1, PartOfText
  <2>3. t \in Seq(Char) /\ Len(t) = Len(p) + b /\ \A i \in 1..(Len(p) + b) : t[i] = s[i]
    <3>1. 1 \in 1..(Len(s) + 1) /\ Len(p) + b \in 0..Len(s) /\ 1 <= Len(p) + b + 1
      BY <1>1, <1>2
    <3> QED
      BY <1>2, <3>1, PartOfText
  <2>4. \A i \in 1..Len(s) : i > Len(p) + b => s[i] = Blank
    <3> SUFFICES ASSUME NEW i \in 1..Len(s), i > Len(p) + b PROVE s[i] = Blank
      OBVIOUS
    <3>1. i - Len(p) \in 1..Len(f) /\ i = Len(p) + (i - Len(p)) /\ i - Len(p) > b
      BY <1>1, <1>2
    <3> QED
      BY <1>2, <2>1, <3>1
  <2>5. Strip(s) = t
    <3>1. 1 \in 1..Len(s) /\ Len(p) + b \in 1..Len(s) /\ 1 \in 1..Len(p)
      BY <1>1, <1>2
    <3>2. s[1] = p[1] /\ s[Len(p) + b] = f[b]
      BY <1>2, <3>1
    <3>3. \A i \in 1..Len(s) : i < 1 \/ i > Len(p) + b => s[i] = Blank
      BY <1>1, <1>2, <2>4
    <3> QED
      BY <1>2, <1>3, <2>1, <3>1, <3>2, <3>3, StripIs
  <2>6. r \in Text
    BY <2>2 DEF Text
  <2> HIDE DEF r, t
  <2>7. t = p \o r
    <3>1. p \o r \in Seq(Char) /\ Len(p \o r) = Len(p) + Len(r)
      BY <1>1, <2>2, Behind
    <3>2. Len(p \o r) = Len(t)
      BY <2>2, <2>3, <3>1
    <3>3. \A i \in 1..Len(t) : t[i] = (p \o r)[i]
      <4> SUFFICES ASSUME NEW i \in 1..Len(t) PROVE t[i] = (p \o r)[i]
        OBVIOUS
      <4>1. CASE i <= Len(p)
        BY <1>1, <1>2, <2>2, <2>3, <4>1
      <4>2. CASE i > Len(p)
        <5> DEFINE k == i - Len(p)
        <5>1. k \in 1..b /\ k \in 1..Len(f) /\ i = Len(p) + k
          BY <1>1, <2>3, <4>2
        <5> HIDE DEF k
        <5>2. t[i] = f[k]
          BY <1>2, <2>3, <5>1
        <5>3. (p \o r)[Len(p) + k] = r[k]
          BY <1>1, <2>2, <5>1, Behind
        <5> QED
          BY <2>2, <5>1, <5>2, <5>3
      <4>3. i <= Len(p) \/ i > Len(p)
        BY <1>1, <2>3
      <4> QED
        BY <4>1, <4>2, <4>3
    <3> QED
      BY <2>3, <3>1, <3>2, <3>3, SameText
  <2>8. Strip(r) = SubSeq(r, a, b)
    <3>1. /\ a \in 1..Len(r) /\ b \in 1..Len(r) /\ r[a] # Blank /\ r[b] # Blank
          /\ \A i \in 1..Len(r) : i < a \/ i > b => r[i] = Blank
      BY <1>1, <2>1, <2>2
    <3> QED
      BY <2>6, <3>1, StripIs
  <2>9. SubSeq(r, a, b) = SubSeq(f, a, b)
    <3>1. a \in 1..(Len(f) + 1) /\ b \in 0..Len(f) /\ a <= b + 1 /\ a \in 1..(Len(r) + 1) /\ b \in 0..Len(r)
      BY <1>1, <2>1, <2>2
    <3>2. /\ SubSeq(f, a, b) \in Seq(Char) /\ Len(SubSeq(f, a, b)) = b - a + 1
          /\ \A i \in 1..(b - a + 1) : SubSeq(f, a, b)[i] = f[a + i - 1]
      BY <1>1, <3>1, PartOfText
    <3>3. /\ SubSeq(r, a, b) \in Seq(Char) /\ Len(SubSeq(r, a, b)) = b - a + 1
          /\ \A i \in 1..(b - a + 1) : SubSeq(r, a, b)[i] = r[a + i - 1]
      BY <2>2, <3>1, PartOfText
    <3>4. \A i \in 1..(b - a + 1) : a + i - 1 \in 1..b
      BY <1>1, <2>1
    <3> QED
      BY <2>2, <3>2, <3>3, <3>4, SameText
  <2>10. Range(r) \subseteq Range(f)
    <3>1. \A i \in 1..b : i \in 1..Len(f)
      BY <1>1
    <3> QED
      BY <2>2, <2>6, <3>1, TextHas
  <2> QED
    BY <2>1, <2>5, <2>6, <2>7, <2>8, <2>9, <2>10 DEF s
<1> QED
    BY <1>4, <1>5

-----------------------------------------------------------------------------
(* Where a text is cut.                                                    *)

\* The next ':' is behind p, and there is none in between; behind the last
\* one comes the end.
LEMMA NextColonFacts ==
    ASSUME NEW s \in Text, NEW p \in 0..(Len(s) + 1)
    PROVE  /\ NextColon(s, p) \in 1..(Len(s) + 1) /\ p <= NextColon(s, p)
           /\ p <= Len(s) => p < NextColon(s, p)
           /\ NextColon(s, p) <= Len(s) => s[NextColon(s, p)] = ":"
           /\ \A x \in 1..Len(s) : p < x /\ x < NextColon(s, p) => s[x] # ":"
<1> DEFINE colons == {c \in DOMAIN s : c > p /\ s[c] = ":"}
<1>1. Len(s) \in Nat /\ DOMAIN s = 1..Len(s)
    BY TextHas
<1>2. NextColon(s, p) = IF colons = {} THEN Len(s) + 1 ELSE Min(colons)
    BY DEF NextColon
<1>3. /\ colons \subseteq Nat
      /\ \A c \in colons : c \in 1..Len(s) /\ c > p /\ s[c] = ":"
      /\ \A c \in 1..Len(s) : c > p /\ s[c] = ":" => c \in colons
    BY <1>1
<1> HIDE DEF colons
<1>4. CASE colons = {}
    BY <1>1, <1>2, <1>3, <1>4
<1>5. CASE colons # {}
  <2>1. Min(colons) \in colons /\ \A c \in colons : Min(colons) <= c
    BY <1>3, <1>5, MinIsLeast
  <2> DEFINE m == Min(colons)
  <2>2. NextColon(s, p) = m
    BY <1>2, <1>5
  <2> HIDE DEF m
  <2>3. m \in 1..Len(s) /\ m > p /\ s[m] = ":"
    BY <1>3, <2>1 DEF m
  <2>4. ASSUME NEW x \in 1..Len(s), p < x, x < m PROVE s[x] # ":"
    <3>1. s[x] = ":" => m <= x
      BY <1>1, <1>3, <2>1, <2>4 DEF m
    <3> QED
      BY <1>1, <2>3, <2>4, <3>1
  <2> QED
    BY <1>1, <2>2, <2>3, <2>4
<1> QED
    BY <1>4, <1>5

\* It is the first one there is.
LEMMA NextColonIs ==
    ASSUME NEW s \in Text, NEW p \in 0..(Len(s) + 1), NEW c \in 1..(Len(s) + 1),
           p < c, c <= Len(s) => s[c] = ":",
           \A x \in 1..Len(s) : p < x /\ x < c => s[x] # ":"
    PROVE  NextColon(s, p) = c
<1> DEFINE n == NextColon(s, p)
<1>1. Len(s) \in Nat
    BY TextHas
<1>2. /\ n \in 1..(Len(s) + 1) /\ p <= n /\ (p <= Len(s) => p < n)
      /\ n <= Len(s) => s[n] = ":"
      /\ \A x \in 1..Len(s) : p < x /\ x < n => s[x] # ":"
    BY NextColonFacts
<1> HIDE DEF n
<1>3. ~(n < c)
    BY <1>1, <1>2
<1>4. ~(c < n)
    BY <1>1, <1>2
<1> QED
    BY <1>1, <1>2, <1>3, <1>4 DEF n

\* The positions of the cuts.
CutAt(cut, s) == cut[0] = 0 /\ \A i \in Part : cut[i] = NextColon(s, cut[i - 1])

\* The loop of setKey.
LEMMA CutsLoop ==
    ASSUME NEW s \in Text
    PROVE  Cuts(s) \in [0..KeySize -> 0..(Len(s) + 1)] /\ CutAt(Cuts(s), s)
<1> DEFINE X == 0..(Len(s) + 1)
           Step == [k \in 1..KeySize |-> [v \in X |-> NextColon(s, v)]]
           cut[i \in 0..KeySize] == IF i = 0 THEN 0 ELSE NextColon(s, cut[i - 1])
<1>1. KeySize \in Nat /\ Len(s) \in Nat
    BY RecordKeysConstants, TextHas
<1>2. \A v \in X : NextColon(s, v) \in X
    BY <1>1, NextColonFacts
<1>3. 0 \in X
    BY <1>1
<1>4. PICK g \in [0..KeySize -> X] : Recursive(g, KeySize, 0, Step)
  <2>1. Step \in [1..KeySize -> [X -> X]]
    BY <1>2
  <2> HIDE DEF Step, X
  <2> QED
    BY <1>1, <1>3, <2>1, RecursionUpTo
<1>5. g = [k \in 0..KeySize |-> IF k = 0 THEN 0 ELSE NextColon(s, g[k - 1])]
  <2>1. \A k \in 1..KeySize, v \in X : Step[k][v] = NextColon(s, v)
    OBVIOUS
  <2> HIDE DEF Step, X
  <2>2. g = [k \in 0..KeySize |-> IF k = 0 THEN 0 ELSE Step[k][g[k - 1]]]
    BY <1>4 DEF Recursive
  <2>3. \A k \in 0..KeySize : k # 0 => k \in 1..KeySize /\ k - 1 \in 0..KeySize
    BY <1>1
  <2>4. \A k \in 0..KeySize : g[k] = IF k = 0 THEN 0 ELSE NextColon(s, g[k - 1])
    <3> TAKE k \in 0..KeySize
    <3>1. g[k] = IF k = 0 THEN 0 ELSE Step[k][g[k - 1]]
      BY <2>2
    <3>2. k # 0 => Step[k][g[k - 1]] = NextColon(s, g[k - 1])
      BY <2>1, <2>3
    <3> QED
      BY <3>1, <3>2
  <2> QED
    BY <2>2, <2>4
<1>6. cut = [k \in 0..KeySize |-> IF k = 0 THEN 0 ELSE NextColon(s, cut[k - 1])]
    BY <1>5
<1>7. Cuts(s) = cut
    BY DEF Cuts
<1> HIDE DEF cut, Step
<1>8. cut[0] = 0 /\ \A k \in 1..KeySize : cut[k] = NextColon(s, cut[k - 1])
  <2>1. 0 \in 0..KeySize /\ \A k \in 1..KeySize : k \in 0..KeySize /\ k # 0
    BY <1>1
  <2> QED
    BY <1>6, <2>1, Zenon
<1>9. \A k \in 0..KeySize : cut[k] \in X
  <2> DEFINE Good == {k \in 0..KeySize : cut[k] \in X}
  <2>1. 0 \in Good
    BY <1>1, <1>8
  <2>2. ASSUME NEW k \in 1..KeySize, k - 1 \in Good PROVE k \in Good
    <3>1. k \in 0..KeySize /\ cut[k - 1] \in X
      BY <1>1, <2>2
    <3> HIDE DEF X
    <3>2. cut[k] \in X
      BY <1>2, <1>8, <3>1
    <3> QED
      BY <3>1, <3>2
  <2> HIDE DEF Good
  <2>3. \A k \in 0..KeySize : k \in Good
    BY <1>1, <2>1, <2>2, InductionUpTo
  <2> QED
    BY <2>3 DEF Good
<1>10. cut \in [0..KeySize -> X]
    BY <1>6, <1>9
<1> QED
    BY <1>7, <1>8, <1>10 DEF CutAt, Part

\* What is between two cuts.
LEMMA BetweenCuts ==
    ASSUME NEW s \in Text, NEW p \in 0..(Len(s) + 1), NEW q \in 1..(Len(s) + 1), p <= q
    PROVE  /\ SubSeq(s, p + 1, q - 1) \in Text
           /\ p < q => Len(SubSeq(s, p + 1, q - 1)) = q - p - 1
           /\ p = q => Len(SubSeq(s, p + 1, q - 1)) = 0
           /\ \A x \in 1..Len(SubSeq(s, p + 1, q - 1)) :
                 p + x \in 1..Len(s) /\ p + x < q /\ SubSeq(s, p + 1, q - 1)[x] = s[p + x]
<1>1. Len(s) \in Nat /\ s \in Seq(Char)
    BY TextHas DEF Text
<1> DEFINE t == SubSeq(s, p + 1, q - 1)
<1>2. CASE p < q
  <2>1. p + 1 \in 1..(Len(s) + 1) /\ q - 1 \in 0..Len(s) /\ p + 1 <= (q - 1) + 1
    BY <1>1, <1>2
  <2>2. /\ t \in Seq(Char) /\ Len(t) = (q - 1) - (p + 1) + 1
        /\ \A x \in 1..((q - 1) - (p + 1) + 1) : t[x] = s[p + 1 + x - 1]
    BY <1>1, <2>1, PartOfText
  <2> HIDE DEF t
  <2>3. Len(t) = q - p - 1 /\ t \in Text
    BY <1>1, <2>2 DEF Text
  <2>4. ASSUME NEW x \in 1..Len(t) PROVE p + x \in 1..Len(s) /\ p + x < q /\ t[x] = s[p + x]
    <3>1. x \in 1..((q - 1) - (p + 1) + 1) /\ p + 1 + x - 1 = p + x
      BY <1>1, <2>3
    <3>2. t[x] = s[p + x]
      BY <2>2, <3>1
    <3>3. p + x \in 1..Len(s) /\ p + x < q
      BY <1>1, <2>3
    <3> QED
      BY <3>2, <3>3
  <2>5. p # q
    BY <1>1, <1>2
  <2> QED
    BY <2>3, <2>4, <2>5 DEF t
<1>3. CASE p = q
  <2>1. t = <<>>
    BY <1>1, <1>3
  <2>2. <<>> \in Text /\ Len(<<>>) = 0 /\ \A x \in 1..Len(<<>>) : FALSE
    BY DEF Text
  <2>3. ~(p < q)
    BY <1>1, <1>3
  <2> HIDE DEF t
  <2>4. t \in Text /\ Len(t) = 0 /\ \A x \in 1..Len(t) : FALSE
    BY <2>1, <2>2
  <2> QED
    BY <1>3, <2>3, <2>4 DEF t
<1> QED
    BY <1>1, <1>2, <1>3

\* The fields of a key: no ':', and no blank at either end.
Plain == {t \in Text : ":" \notin Range(t)}
Tidy == [Part -> {t \in Plain : Tight(t)}]

\* The parameters, and the characters with a meaning.
LEMMA Fields ==
    /\ KeySize \in Nat \ {0} /\ Part = 1..KeySize /\ 0 \in 0..KeySize
    /\ \A i \in Part : i \in 0..KeySize /\ i - 1 \in 0..KeySize
    /\ ":" \in Char /\ "*" \in Char /\ ":" # Blank /\ "*" # Blank /\ "*" # ":"
<1>1. ":" \in Char /\ "*" \in Char
    BY DEF Char
<1>2. ":" # Blank /\ "*" # Blank
    BY Zenon DEF Blank
<1>3. "*" # ":"
    BY Zenon
<1> QED
    BY <1>1, <1>2, <1>3, RecordKeysConstants DEF Part

\* The key that stands for all is one.
LEMMA StarIsPlain == <<"*">> \in Plain /\ Tight(<<"*">>) /\ ALLKEY \in Text
<1>1. <<"*">> \in Seq(Char) /\ Len(<<"*">>) = 1 /\ <<"*">>[1] = "*"
    BY Fields
<1>2. <<"*">> \in Text
    BY <1>1 DEF Text
<1>3. ":" \notin Range(<<"*">>)
  <2>1. DOMAIN <<"*">> = 1..1
    OBVIOUS
  <2>2. \A i \in 1..1 : <<"*">>[i] = "*"
    OBVIOUS
  <2> QED
    BY <2>1, <2>2, Fields DEF Range
<1>4. Tight(<<"*">>)
    BY <1>1, Fields DEF Tight
<1> QED
    BY <1>2, <1>3, <1>4 DEF Plain, ALLKEY

\* Any text gives such a key.
LEMMA SetKeyTyped ==
    ASSUME NEW s \in Text
    PROVE  SetKey(s) \in Tidy
<1> DEFINE c == Cuts(s)
           part(i) == SubSeq(s, c[i - 1] + 1, c[i] - 1)
<1>1. c \in [0..KeySize -> 0..(Len(s) + 1)] /\ \A i \in Part : c[i] = NextColon(s, c[i - 1])
    BY CutsLoop DEF CutAt
<1>2. Len(s) \in Nat
    BY TextHas
<1> HIDE DEF c
<1>3. ASSUME NEW i \in Part PROVE Strip(part(i)) \in Plain /\ Tight(Strip(part(i)))
  <2> DEFINE p == c[i - 1]
             q == c[i]
             t == SubSeq(s, p + 1, q - 1)
  <2>1. p \in 0..(Len(s) + 1) /\ q = NextColon(s, p)
    BY <1>1, Fields
  <2> HIDE DEF p, q
  <2>2. /\ q \in 1..(Len(s) + 1) /\ p <= q
        /\ \A x \in 1..Len(s) : p < x /\ x < q => s[x] # ":"
    BY <2>1, NextColonFacts
  <2>3. /\ t \in Text
        /\ \A x \in 1..Len(t) : p + x \in 1..Len(s) /\ p + x < q /\ t[x] = s[p + x]
    BY <2>1, <2>2, BetweenCuts
  <2> HIDE DEF t
  <2>4. \A x \in 1..Len(t) : t[x] # ":"
    <3> TAKE x \in 1..Len(t)
    <3>1. p < p + x
      BY <1>2, <2>1, <2>3, TextHas
    <3> QED
      BY <2>2, <2>3, <3>1
  <2>5. ":" \notin Range(t)
    BY <2>3, <2>4, TextHas
  <2>6. Strip(t) \in Text /\ Tight(Strip(t)) /\ Range(Strip(t)) \subseteq Range(t)
    BY <2>3, StripFacts
  <2>7. Strip(t) \in Plain /\ Tight(Strip(t))
    BY <2>5, <2>6 DEF Plain
  <2> QED
    BY <2>7 DEF t, p, q
<1>4. SetKey(s) = IF s = ALLKEY THEN [i \in Part |-> <<"*">>]
                  ELSE [i \in Part |-> Strip(part(i))]
    BY DEF SetKey, c
<1> HIDE DEF part
<1> QED
    BY <1>3, <1>4, StarIsPlain DEF Tidy

-----------------------------------------------------------------------------
(* Blanks next to a ':'.                                                   *)

\* Blanks around a text are stripped with its own.
LEMMA StripPadded ==
    ASSUME NEW t \in Text, NEW z \in Text, NEW o \in Nat, o + Len(z) <= Len(t),
           \A x \in 1..Len(z) : t[o + x] = z[x],
           \A j \in 1..Len(t) : j <= o \/ j > o + Len(z) => t[j] = Blank
    PROVE  Strip(t) = Strip(z)
<1>1. Len(t) \in Nat /\ Len(z) \in Nat /\ t \in Seq(Char) /\ z \in Seq(Char)
    BY TextHas DEF Text
<1>2. \A j \in 1..Len(t) : j > o /\ j <= o + Len(z) => j - o \in 1..Len(z) /\ t[j] = z[j - o]
  <2> SUFFICES ASSUME NEW j \in 1..Len(t), j > o, j <= o + Len(z)
               PROVE  j - o \in 1..Len(z) /\ t[j] = z[j - o]
    OBVIOUS
  <2>1. j - o \in 1..Len(z) /\ o + (j - o) = j
    BY <1>1
  <2> QED
    BY <2>1
<1>3. CASE \A x \in 1..Len(z) : z[x] = Blank
  <2>1. \A j \in 1..Len(t) : t[j] = Blank
    BY <1>1, <1>2, <1>3
  <2> QED
    BY <1>3, <2>1, StripBlank
<1>4. CASE \E x \in 1..Len(z) : z[x] # Blank
  <2>1. PICK c \in 1..Len(z) : z[c] # Blank
    BY <1>4
  <2>2. PICK a \in 1..Len(z), b \in 1..Len(z) :
            /\ a <= c /\ c <= b /\ z[a] # Blank /\ z[b] # Blank
            /\ \A i \in 1..Len(z) : i < a \/ i > b => z[i] = Blank
            /\ Strip(z) = SubSeq(z, a, b)
    BY <2>1, StripFinds
  <2>3. o + a \in 1..Len(t) /\ o + b \in 1..Len(t) /\ a <= b
    BY <1>1, <2>2
  <2>4. t[o + a] # Blank /\ t[o + b] # Blank
    BY <2>2
  <2>5. \A j \in 1..Len(t) : j < o + a \/ j > o + b => t[j] = Blank
    <3> SUFFICES ASSUME NEW j \in 1..Len(t), j < o + a \/ j > o + b PROVE t[j] = Blank
      OBVIOUS
    <3>1. CASE j <= o \/ j > o + Len(z)
      BY <3>1
    <3>2. CASE j > o /\ j <= o + Len(z)
      <4>1. j - o \in 1..Len(z) /\ t[j] = z[j - o]
        BY <1>2, <3>2
      <4>2. j - o < a \/ j - o > b
        BY <1>1
      <4> QED
        BY <2>2, <4>1, <4>2
    <3> QED
      BY <1>1, <3>1, <3>2
  <2>6. Strip(t) = SubSeq(t, o + a, o + b)
    BY <2>3, <2>4, <2>5, StripIs
  <2>7. SubSeq(t, o + a, o + b) = SubSeq(z, a, b)
    <3> DEFINE tt == SubSeq(t, o + a, o + b)
               zz == SubSeq(z, a, b)
    <3>1. /\ o + a \in 1..(Len(t) + 1) /\ o + b \in 0..Len(t) /\ o + a <= (o + b) + 1
          /\ a \in 1..(Len(z) + 1) /\ b \in 0..Len(z) /\ a <= b + 1
      BY <1>1, <2>3
    <3>2. /\ tt \in Seq(Char) /\ Len(tt) = (o + b) - (o + a) + 1
          /\ \A i \in 1..((o + b) - (o + a) + 1) : tt[i] = t[o + a + i - 1]
      BY <1>1, <3>1, PartOfText
    <3>3. /\ zz \in Seq(Char) /\ Len(zz) = b - a + 1
          /\ \A i \in 1..(b - a + 1) : zz[i] = z[a + i - 1]
      BY <1>1, <3>1, PartOfText
    <3> HIDE DEF tt, zz
    <3>4. Len(tt) = Len(zz)
      BY <1>1, <3>2, <3>3
    <3>5. ASSUME NEW i \in 1..Len(zz) PROVE tt[i] = zz[i]
      <4>1. /\ i \in 1..((o + b) - (o + a) + 1) /\ i \in 1..(b - a + 1)
            /\ a + i - 1 \in 1..Len(z) /\ o + a + i - 1 = o + (a + i - 1)
        BY <1>1, <2>3, <3>3
      <4>2. tt[i] = t[o + (a + i - 1)]
        BY <3>2, <4>1
      <4> QED
        BY <3>3, <4>1, <4>2
    <3>6. tt = zz
      BY <3>2, <3>3, <3>4, <3>5, SameText
    <3> QED
      BY <3>6 DEF tt, zz
  <2> QED
    BY <2>2, <2>6, <2>7
<1> QED
    BY <1>3, <1>4

\* The text w is s without some blanks, all of them next to a ':' or to an
\* end: a[x] is the position in s of what is at x in w.
Thins(s, w, a) ==
    /\ a \in [0..(Len(w) + 1) -> 0..(Len(s) + 1)]
    /\ a[0] = 0 /\ a[Len(w) + 1] = Len(s) + 1
    /\ \A x \in 0..Len(w) : a[x] < a[x + 1]
    /\ \A x \in 1..Len(w) : s[a[x]] = w[x]
    /\ \A x \in 0..Len(w) : \A y \in 1..Len(s) : a[x] < y /\ y < a[x + 1] => s[y] = Blank
    /\ \A x \in 1..(Len(w) - 1) : w[x] # ":" /\ w[x + 1] # ":" => a[x + 1] = a[x] + 1

\* The positions rise.
LEMMA ThinsRise ==
    ASSUME NEW s \in Text, NEW w \in Text, NEW a, Thins(s, w, a),
           NEW x \in 0..(Len(w) + 1), NEW y \in 0..(Len(w) + 1), x < y
    PROVE  a[x] < a[y]
<1> DEFINE n == Len(w) + 1
           Good == {k \in 0..n : x < k => a[x] < a[k]}
<1>1. n \in Nat /\ Len(s) \in Nat /\ Len(w) \in Nat
    BY TextHas
<1>2. a \in [0..n -> 0..(Len(s) + 1)] /\ \A k \in 0..Len(w) : a[k] < a[k + 1]
    BY DEF Thins
<1>3. \A k \in 0..n : a[k] \in Int
  <2>1. \A k \in 0..n : a[k] \in 0..(Len(s) + 1)
    BY <1>2
  <2> QED
    BY <1>1, <2>1
<1>4. 0 \in Good
    BY <1>1
<1>5. ASSUME NEW k \in 1..n, k - 1 \in Good PROVE k \in Good
  <2>1. k \in 0..n /\ k - 1 \in 0..Len(w) /\ k - 1 + 1 = k /\ k - 1 \in 0..n
    BY <1>1
  <2>2. a[k - 1] < a[k]
    BY <1>2, <2>1
  <2>3. a[k] \in Int /\ a[k - 1] \in Int /\ a[x] \in Int
    BY <1>3, <2>1
  <2>4. x < k - 1 => a[x] < a[k - 1]
    BY <1>5
  <2>5. x < k => x = k - 1 \/ x < k - 1
    BY <1>1, <2>1
  <2> QED
    BY <2>1, <2>2, <2>3, <2>4, <2>5
<1> HIDE DEF Good
<1>6. \A k \in 0..n : k \in Good
    BY <1>1, <1>4, <1>5, InductionUpTo
<1> QED
    BY <1>6 DEF Good

\* A position of s is that of one in w, or a blank between two.
LEMMA ThinsFinds ==
    ASSUME NEW s \in Text, NEW w \in Text, NEW a, Thins(s, w, a), NEW y \in 1..Len(s)
    PROVE  \E x \in 0..Len(w) : a[x] <= y /\ y < a[x + 1]
<1> DEFINE below == {x \in 0..Len(w) : a[x] <= y}
<1>1. Len(s) \in Nat /\ Len(w) \in Nat
    BY TextHas
<1>2. /\ a \in [0..(Len(w) + 1) -> 0..(Len(s) + 1)]
      /\ a[0] = 0 /\ a[Len(w) + 1] = Len(s) + 1
    BY DEF Thins
<1>3. 0 \in below /\ below \subseteq 0..Len(w)
    BY <1>1, <1>2
<1>4. PICK x \in below : \A z \in below : x >= z
    BY <1>1, <1>3, MaxIsGreatest
<1>5. x \in 0..Len(w) /\ a[x] <= y
    OBVIOUS
<1>6. CASE x = Len(w)
    BY <1>1, <1>2, <1>5, <1>6
<1>7. CASE x # Len(w)
  <2>1. x + 1 \in 0..Len(w) /\ x + 1 \in 0..(Len(w) + 1) /\ ~(x >= x + 1)
    BY <1>1, <1>5, <1>7
  <2>2. ~(a[x + 1] <= y)
    BY <1>4, <2>1
  <2> QED
    BY <1>1, <1>2, <1>5, <2>1, <2>2
<1> QED
    BY <1>6, <1>7

\* A ':' of the one is where that of the other is.
LEMMA ThinsCut ==
    ASSUME NEW s \in Text, NEW w \in Text, NEW a, Thins(s, w, a), NEW p \in 0..(Len(w) + 1)
    PROVE  NextColon(s, a[p]) = a[NextColon(w, p)]
<1>1. Len(s) \in Nat /\ Len(w) \in Nat
    BY TextHas
<1>2. /\ a \in [0..(Len(w) + 1) -> 0..(Len(s) + 1)]
      /\ a[0] = 0 /\ a[Len(w) + 1] = Len(s) + 1
      /\ \A x \in 1..Len(w) : s[a[x]] = w[x]
      /\ \A x \in 0..Len(w) : \A y \in 1..Len(s) : a[x] < y /\ y < a[x + 1] => s[y] = Blank
    BY DEF Thins
<1> DEFINE c == NextColon(w, p)
<1>3. /\ c \in 1..(Len(w) + 1) /\ p <= c /\ (p <= Len(w) => p < c)
      /\ c <= Len(w) => w[c] = ":"
      /\ \A x \in 1..Len(w) : p < x /\ x < c => w[x] # ":"
    BY NextColonFacts
<1> HIDE DEF c
<1>4. a[p] \in 0..(Len(s) + 1)
    BY <1>2
<1>5. CASE p = Len(w) + 1
  <2>1. c = Len(w) + 1
    BY <1>1, <1>3, <1>5
  <2>2. a[p] = Len(s) + 1
    BY <1>2, <1>5
  <2> DEFINE n == NextColon(s, a[p])
  <2>3. n \in 1..(Len(s) + 1) /\ a[p] <= n
    BY <1>4, NextColonFacts
  <2> HIDE DEF n
  <2>4. n = Len(s) + 1
    BY <1>1, <2>2, <2>3
  <2> QED
    BY <1>2, <2>1, <2>4 DEF n, c
<1>6. CASE p # Len(w) + 1
  <2>1. p < c /\ c \in 0..(Len(w) + 1)
    BY <1>1, <1>3, <1>6
  <2>2. a[p] < a[c]
    BY <2>1, ThinsRise
  <2>3. a[c] \in 1..(Len(s) + 1)
    BY <1>1, <1>2, <1>4, <2>1, <2>2
  <2>4. ASSUME a[c] <= Len(s) PROVE s[a[c]] = ":"
    <3>1. c # Len(w) + 1
      BY <1>1, <1>2, <2>4
    <3>2. c \in 1..Len(w)
      BY <1>1, <1>3, <3>1
    <3> QED
      BY <1>1, <1>2, <1>3, <3>2
  <2>5. ASSUME NEW y \in 1..Len(s), a[p] < y, y < a[c] PROVE s[y] # ":"
    <3>1. PICK x \in 0..Len(w) : a[x] <= y /\ y < a[x + 1]
      BY ThinsFinds
    <3>2. x \in 0..(Len(w) + 1) /\ a[x] \in 0..(Len(s) + 1)
      BY <1>1, <1>2
    <3>3. CASE a[x] < y
      BY <1>2, <3>1, <3>3, Fields
    <3>4. CASE a[x] = y
      <4>1. ~(x < p) /\ ~(c < x)
        <5>1. x < p => a[x] < a[p]
          BY <3>2, ThinsRise
        <5>2. c < x => a[c] < a[x]
          BY <2>1, <3>2, ThinsRise
        <5> QED
          BY <1>1, <1>4, <2>3, <2>5, <3>2, <3>4, <5>1, <5>2
      <4>2. x # p /\ x # c
        BY <1>1, <1>4, <2>3, <2>5, <3>4
      <4>3. x \in 1..Len(w) /\ p < x /\ x < c
        BY <1>1, <1>3, <4>1, <4>2
      <4> QED
        BY <1>2, <1>3, <3>4, <4>3
    <3> QED
      BY <1>1, <3>1, <3>2, <3>3, <3>4
  <2>6. NextColon(s, a[p]) = a[c]
    BY <1>4, <2>2, <2>3, <2>4, <2>5, NextColonIs
  <2> QED
    BY <2>6 DEF c
<1> QED
    BY <1>5, <1>6

\* Between two cuts nothing is lost inside.
LEMMA ThinsShift ==
    ASSUME NEW s \in Text, NEW w \in Text, NEW a, Thins(s, w, a),
           NEW p \in 0..Len(w), NEW q \in 1..(Len(w) + 1), p < q,
           \A x \in 1..Len(w) : p < x /\ x < q => w[x] # ":"
    PROVE  \A x \in 1..(q - p - 1) : a[p + x] = a[p + 1] + (x - 1)
<1> DEFINE n == q - p - 1
           Good == {x \in 0..n : x > 0 => a[p + x] = a[p + 1] + (x - 1)}
<1>1. n \in Nat /\ Len(s) \in Nat /\ Len(w) \in Nat /\ p + n <= Len(w)
    BY TextHas
<1>2. /\ a \in [0..(Len(w) + 1) -> 0..(Len(s) + 1)]
      /\ \A x \in 1..(Len(w) - 1) : w[x] # ":" /\ w[x + 1] # ":" => a[x + 1] = a[x] + 1
    BY DEF Thins
<1>3. 0 \in Good
    BY <1>1
<1>4. ASSUME NEW x \in 1..n, x - 1 \in Good PROVE x \in Good
  <2>1. CASE x = 1
    <3>1. p + 1 \in 0..(Len(w) + 1)
      BY <1>1, <2>1
    <3>2. a[p + 1] \in 0..(Len(s) + 1)
      BY <1>2, <3>1
    <3>3. a[p + 1] = a[p + 1] + (1 - 1)
      BY <1>1, <3>2
    <3> QED
      BY <1>1, <2>1, <3>3
  <2>2. CASE x # 1
    <3> DEFINE z == p + x - 1
    <3>1. z \in 1..(Len(w) - 1) /\ p < z /\ z + 1 < q /\ z < q /\ z + 1 = p + x
      BY <1>1, <2>2
    <3>2. z = p + (x - 1) /\ x - 1 > 0
      BY <1>1, <2>2
    <3> HIDE DEF z
    <3>3. z \in 1..Len(w) /\ z + 1 \in 1..Len(w) /\ p < z + 1
      BY <1>1, <3>1
    <3>4. a[z + 1] = a[z] + 1
      BY <1>2, <3>1, <3>3
    <3>5. a[z] = a[p + 1] + ((x - 1) - 1)
      BY <1>4, <3>2
    <3>6. a[p + 1] \in Int
      <4>1. p + 1 \in 0..(Len(w) + 1)
        BY <1>1
      <4>2. a[p + 1] \in 0..(Len(s) + 1)
        BY <1>2, <4>1
      <4> QED
        BY <1>1, <4>2
    <3>7. a[p + x] = a[p + 1] + (x - 1)
      BY <1>1, <3>1, <3>4, <3>5, <3>6
    <3> QED
      BY <1>1, <3>7
  <2> QED
    BY <2>1, <2>2
<1> HIDE DEF Good
<1>5. \A x \in 0..n : x \in Good
    BY <1>1, <1>3, <1>4, InductionUpTo
<1>6. \A x \in 1..n : x \in 0..n /\ x > 0
    BY <1>1
<1> QED
    BY <1>5, <1>6 DEF Good

\* What is between two cuts differs in the blanks around it.
LEMMA ThinsPart ==
    ASSUME NEW s \in Text, NEW w \in Text, NEW a, Thins(s, w, a),
           NEW p \in 0..(Len(w) + 1), NEW q, q = NextColon(w, p)
    PROVE  Strip(SubSeq(s, a[p] + 1, a[q] - 1)) = Strip(SubSeq(w, p + 1, q - 1))
<1>1. Len(s) \in Nat /\ Len(w) \in Nat
    BY TextHas
<1>2. /\ a \in [0..(Len(w) + 1) -> 0..(Len(s) + 1)]
      /\ \A x \in 0..Len(w) : a[x] < a[x + 1]
      /\ \A x \in 1..Len(w) : s[a[x]] = w[x]
      /\ \A x \in 0..Len(w) : \A y \in 1..Len(s) : a[x] < y /\ y < a[x + 1] => s[y] = Blank
    BY DEF Thins
<1>3. /\ q \in 1..(Len(w) + 1) /\ p <= q /\ (p <= Len(w) => p < q)
      /\ \A x \in 1..Len(w) : p < x /\ x < q => w[x] # ":"
    BY NextColonFacts
<1>4. a[p] \in 0..(Len(s) + 1) /\ a[q] \in 0..(Len(s) + 1) /\ q \in 0..(Len(w) + 1)
    BY <1>1, <1>2, <1>3
<1>5. CASE p = q
  <2>1. \A m \in Nat, v \in Text : SubSeq(v, m + 1, m - 1) = <<>>
    OBVIOUS
  <2>2. a[p] \in Nat /\ p \in Nat
    BY <1>1, <1>4
  <2>3. SubSeq(s, a[p] + 1, a[p] - 1) = <<>> /\ SubSeq(w, p + 1, p - 1) = <<>>
    BY <2>1, <2>2
  <2> QED
    BY <1>5, <2>3
<1>6. CASE p # q
  <2> DEFINE t == SubSeq(s, a[p] + 1, a[q] - 1)
             z == SubSeq(w, p + 1, q - 1)
             o == IF q = p + 1 THEN 0 ELSE a[p + 1] - 1 - a[p]
  <2>1. p < q /\ p \in 0..Len(w)
    BY <1>1, <1>3, <1>6
  <2>2. a[p] < a[q]
    BY <1>4, <2>1, ThinsRise
  <2>3. a[q] \in 1..(Len(s) + 1) /\ a[p] <= a[q]
    BY <1>1, <1>4, <2>2
  <2>4. /\ t \in Text /\ Len(t) = a[q] - a[p] - 1
        /\ \A x \in 1..Len(t) :
              a[p] + x \in 1..Len(s) /\ a[p] + x < a[q] /\ t[x] = s[a[p] + x]
    BY <1>4, <2>2, <2>3, BetweenCuts
  <2>5. /\ z \in Text /\ Len(z) = q - p - 1
        /\ \A x \in 1..Len(z) : p + x \in 1..Len(w) /\ p + x < q /\ z[x] = w[p + x]
    BY <1>3, <2>1, BetweenCuts
  <2> HIDE DEF t, z
  <2>6. CASE q = p + 1
    <3>1. Len(z) = 0
      BY <1>1, <2>1, <2>5, <2>6
    <3>2. \A j \in 1..Len(t) : t[j] = Blank
      <4> TAKE j \in 1..Len(t)
      <4>1. a[p] < a[p] + j
        BY <1>1, <1>4, <2>4, TextHas
      <4> QED
        BY <1>2, <2>1, <2>4, <2>6, <4>1
    <3>3. Strip(t) = <<>>
      BY <2>4, <3>2, StripBlank
    <3>4. Strip(z) = <<>>
      <4>1. \A j \in 1..Len(z) : z[j] = Blank
        BY <3>1
      <4> QED
        BY <2>5, <4>1, StripBlank
    <3> QED
      BY <3>3, <3>4 DEF t, z
  <2>7. CASE q # p + 1
    <3>1. /\ p + 1 \in 0..(Len(w) + 1) /\ p + 1 \in 0..Len(w) /\ p + 1 < q
          /\ q - 1 \in 0..Len(w) /\ q - 1 + 1 = q /\ q - p - 1 \in 1..(q - p - 1)
      BY <1>1, <1>3, <2>1, <2>7
    <3>2. \A x \in 1..(q - p - 1) : a[p + x] = a[p + 1] + (x - 1)
      BY <1>3, <2>1, ThinsShift
    <3>3. a[p + 1] \in 0..(Len(s) + 1) /\ a[p] < a[p + 1]
      BY <1>2, <2>1, <3>1
    <3>4. a[p + 1] < a[q]
      BY <1>4, <3>1, ThinsRise
    <3>5. o = a[p + 1] - 1 - a[p] /\ o \in Nat /\ a[p] + o = a[p + 1] - 1
      BY <1>1, <1>4, <2>7, <3>3
    <3> HIDE DEF o
    <3>6. a[q - 1] = a[p] + o + Len(z)
      <4>1. a[p + (q - p - 1)] = a[p + 1] + ((q - p - 1) - 1)
        BY <3>1, <3>2
      <4>2. p + (q - p - 1) = q - 1
        BY <1>1, <1>3
      <4>3. a[q - 1] = a[p + 1] + (q - p - 2)
        BY <1>1, <1>3, <3>3, <4>1, <4>2
      <4> QED
        BY <1>1, <1>3, <1>4, <2>5, <3>3, <3>5, <4>3
    <3>7. a[q - 1] < a[q]
      BY <1>2, <3>1
    <3>8. o + Len(z) <= Len(t) /\ Len(z) \in Nat /\ Len(t) \in Nat
      <4>1. Len(z) \in Nat /\ Len(t) \in Nat
        BY <2>4, <2>5, TextHas
      <4>2. a[p] \in Int /\ a[q] \in Int
        BY <1>1, <1>4
      <4>3. a[p] + o + Len(z) < a[q]
        BY <3>6, <3>7
      <4>4. Len(t) = a[q] - a[p] - 1
        BY <2>4
      <4> HIDE DEF t, z
      <4> QED
        BY <3>5, <4>1, <4>2, <4>3, <4>4
    <3>9. ASSUME NEW x \in 1..Len(z) PROVE t[o + x] = z[x]
      <4>1. o + x \in 1..Len(t)
        BY <1>1, <1>4, <2>4, <3>5, <3>8
      <4>2. a[p] + (o + x) = a[p + 1] + (x - 1)
        <5> DEFINE m == a[p]
                   n == a[p + 1]
        <5>1. m \in Int /\ n \in Int /\ o \in Int /\ x \in Int /\ m + o = n - 1
          BY <1>1, <1>4, <3>3, <3>5, <3>8
        <5> HIDE DEF m, n
        <5>2. m + (o + x) = n + (x - 1)
          BY <5>1
        <5> QED
          BY <5>2 DEF m, n
      <4>3. a[p + x] = a[p + 1] + (x - 1)
        BY <2>5, <3>2
      <4>4. t[o + x] = s[a[p] + (o + x)]
        BY <2>4, <4>1
      <4>5. s[a[p + x]] = w[p + x]
        BY <1>2, <2>5
      <4> QED
        BY <2>5, <4>2, <4>3, <4>4, <4>5
    <3>10. ASSUME NEW j \in 1..Len(t), j <= o \/ j > o + Len(z) PROVE t[j] = Blank
      <4> DEFINE y == a[p] + j
      <4>1. y \in 1..Len(s) /\ y < a[q] /\ t[j] = s[y]
        BY <2>4
      <4>2. a[p] < y
        BY <1>1, <1>4, <2>4, TextHas
      <4>3. CASE j <= o
        <5>1. y < a[p + 1]
          <6> DEFINE m == a[p]
                     n == a[p + 1]
          <6>1. m \in Int /\ n \in Int /\ o \in Int /\ j \in Int /\ m + o = n - 1
            BY <1>1, <1>4, <3>3, <3>5, <3>8
          <6> HIDE DEF m, n
          <6>2. m + j < n
            BY <4>3, <6>1
          <6> QED
            BY <6>2 DEF m, n
        <5> HIDE DEF y
        <5> QED
          BY <1>2, <2>1, <4>1, <4>2, <5>1
      <4>4. CASE j > o + Len(z)
        <5>1. a[q - 1] < y
          <6>1. a[p] \in Int /\ o \in Int /\ Len(z) \in Int /\ j \in Int
            BY <1>1, <1>4, <3>5, <3>8
          <6> QED
            BY <3>6, <4>4, <6>1
        <5> HIDE DEF y
        <5> QED
          BY <1>2, <3>1, <4>1, <5>1
      <4> QED
        BY <3>10, <4>3, <4>4
    <3>11. Strip(t) = Strip(z)
      BY <2>4, <2>5, <3>5, <3>8, <3>9, <3>10, StripPadded
    <3> QED
      BY <3>11 DEF t, z
  <2> QED
    BY <2>6, <2>7
<1> QED
    BY <1>5, <1>6

\* Both give the same key.
LEMMA ThinsSetKey ==
    ASSUME NEW s \in Text, NEW w \in Text, NEW a, Thins(s, w, a), s # ALLKEY, w # ALLKEY
    PROVE  SetKey(s) = SetKey(w)
<1> DEFINE c == Cuts(s)
           d == Cuts(w)
           Good == {i \in 0..KeySize : c[i] = a[d[i]]}
<1>1. /\ c[0] = 0 /\ \A i \in Part : c[i] = NextColon(s, c[i - 1])
      /\ d \in [0..KeySize -> 0..(Len(w) + 1)]
      /\ d[0] = 0 /\ \A i \in Part : d[i] = NextColon(w, d[i - 1])
    BY CutsLoop DEF CutAt
<1>2. a[0] = 0
    BY DEF Thins
<1>3. /\ SetKey(s) = [i \in Part |-> Strip(SubSeq(s, c[i - 1] + 1, c[i] - 1))]
      /\ SetKey(w) = [i \in Part |-> Strip(SubSeq(w, d[i - 1] + 1, d[i] - 1))]
    BY DEF SetKey
<1> HIDE DEF c, d
<1>4. 0 \in Good
    BY <1>1, <1>2, Fields
<1>5. ASSUME NEW i \in 1..KeySize, i - 1 \in Good PROVE i \in Good
  <2>1. i \in 0..KeySize /\ c[i - 1] = a[d[i - 1]] /\ d[i - 1] \in 0..(Len(w) + 1)
    BY <1>1, <1>5, Fields
  <2>2. NextColon(s, a[d[i - 1]]) = a[NextColon(w, d[i - 1])]
    BY <2>1, ThinsCut
  <2> QED
    BY <1>1, <2>1, <2>2, Fields
<1> HIDE DEF Good
<1>6. \A i \in 0..KeySize : i \in Good
    BY <1>4, <1>5, InductionUpTo, Fields
<1>7. ASSUME NEW i \in Part
      PROVE  Strip(SubSeq(s, c[i - 1] + 1, c[i] - 1)) = Strip(SubSeq(w, d[i - 1] + 1, d[i] - 1))
  <2>1. c[i - 1] = a[d[i - 1]] /\ c[i] = a[d[i]]
    BY <1>6, Fields DEF Good
  <2>2. d[i - 1] \in 0..(Len(w) + 1) /\ d[i] = NextColon(w, d[i - 1])
    BY <1>1, Fields
  <2>3. Strip(SubSeq(s, a[d[i - 1]] + 1, a[d[i]] - 1)) = Strip(SubSeq(w, d[i - 1] + 1, d[i] - 1))
    BY <2>2, ThinsPart
  <2> QED
    BY <2>1, <2>3
<1> QED
    BY <1>3, <1>7

-----------------------------------------------------------------------------
(* Packing.                                                                 *)

\* The loop of Pack.
Packing(g, f) == g[0] = <<>> /\ \A i \in Part : g[i] = g[i - 1] \o Append(f[i], ":")

LEMMA PackLoop ==
    ASSUME NEW f \in [Part -> Text]
    PROVE  \E g \in [0..KeySize -> Text] : Packing(g, f) /\ Pack(f) = g[KeySize]
<1> DEFINE After(v, k) == v \o Append(f[k], ":")
           Step == [k \in 1..KeySize |-> [v \in Text |-> After(v, k)]]
           packed[i \in 0..KeySize] ==
               IF i = 0 THEN <<>> ELSE packed[i - 1] \o Append(f[i], ":")
<1>1. KeySize \in Nat
    BY Fields
<1>2. <<>> \in Text
    BY DEF Text
<1>3. \A k \in 1..KeySize, v \in Text : After(v, k) \in Text
  <2> SUFFICES ASSUME NEW k \in 1..KeySize, NEW v \in Text PROVE After(v, k) \in Text
    OBVIOUS
  <2>1. f[k] \in Text
    BY Fields
  <2>2. Append(f[k], ":") \in Text
    BY <2>1, Fields DEF Text
  <2> QED
    BY <2>2 DEF Text
<1>4. PICK g \in [0..KeySize -> Text] : Recursive(g, KeySize, <<>>, Step)
  <2>1. Step \in [1..KeySize -> [Text -> Text]]
    BY <1>3
  <2> HIDE DEF Step
  <2> QED
    BY <1>1, <1>2, <2>1, RecursionUpTo
<1>5. g = [k \in 0..KeySize |-> IF k = 0 THEN <<>> ELSE After(g[k - 1], k)]
  <2>1. \A k \in 1..KeySize, v \in Text : Step[k][v] = After(v, k)
    OBVIOUS
  <2> HIDE DEF Step, After
  <2>2. g = [k \in 0..KeySize |-> IF k = 0 THEN <<>> ELSE Step[k][g[k - 1]]]
    BY <1>4 DEF Recursive
  <2>3. \A k \in 0..KeySize : k # 0 => k \in 1..KeySize /\ k - 1 \in 0..KeySize
    BY <1>1
  <2>4. \A k \in 0..KeySize : g[k] = IF k = 0 THEN <<>> ELSE After(g[k - 1], k)
    <3> TAKE k \in 0..KeySize
    <3>1. g[k] = IF k = 0 THEN <<>> ELSE Step[k][g[k - 1]]
      BY <2>2
    <3>2. k # 0 => Step[k][g[k - 1]] = After(g[k - 1], k)
      BY <2>1, <2>3
    <3> QED
      BY <3>1, <3>2
  <2> QED
    BY <2>2, <2>4
<1>6. packed = [k \in 0..KeySize |-> IF k = 0 THEN <<>> ELSE After(packed[k - 1], k)]
    BY <1>5
<1>7. Pack(f) = packed[KeySize]
    BY DEF Pack
<1>8. \A k, v : After(v, k) = v \o Append(f[k], ":")
    OBVIOUS
<1> HIDE DEF packed, Step, After
<1>9. packed[0] = <<>> /\ \A k \in 1..KeySize : packed[k] = After(packed[k - 1], k)
  <2>1. 0 \in 0..KeySize /\ \A k \in 1..KeySize : k \in 0..KeySize /\ k # 0
    BY <1>1
  <2> QED
    BY <1>6, <2>1, Zenon
<1>10. \A k \in 0..KeySize : packed[k] \in Text
  <2> DEFINE Good == {k \in 0..KeySize : packed[k] \in Text}
  <2>1. 0 \in Good
    BY <1>1, <1>2, <1>9
  <2>2. ASSUME NEW k \in 1..KeySize, k - 1 \in Good PROVE k \in Good
    <3>1. k \in 0..KeySize /\ packed[k - 1] \in Text
      BY <1>1, <2>2
    <3> QED
      BY <1>3, <1>9, <3>1
  <2> HIDE DEF Good
  <2>3. \A k \in 0..KeySize : k \in Good
    BY <1>1, <2>1, <2>2, InductionUpTo
  <2> QED
    BY <2>3 DEF Good
<1>11. packed \in [0..KeySize -> Text]
    BY <1>6, <1>10
<1>12. Packing(packed, f)
  <2>1. \A i \in Part : packed[i] = packed[i - 1] \o Append(f[i], ":")
    BY <1>8, <1>9, Fields
  <2> QED
    BY <1>9, <2>1 DEF Packing
<1> QED
    BY <1>7, <1>11, <1>12

\* The loop of Joined.
Joining(g, f) == g[0] = <<>> /\ \A i \in Part : g[i] = Append(Strip(g[i - 1] \o f[i]), ":")

LEMMA JoinedLoop ==
    ASSUME NEW f \in [Part -> Text]
    PROVE  \E g \in [0..KeySize -> Text] : Joining(g, f) /\ Joined(f) = g[KeySize]
<1> DEFINE After(v, k) == Append(Strip(v \o f[k]), ":")
           Step == [k \in 1..KeySize |-> [v \in Text |-> After(v, k)]]
           packed[i \in 0..KeySize] ==
               IF i = 0 THEN <<>> ELSE Append(Strip(packed[i - 1] \o f[i]), ":")
<1>1. KeySize \in Nat
    BY Fields
<1>2. <<>> \in Text
    BY DEF Text
<1>3. \A k \in 1..KeySize, v \in Text : After(v, k) \in Text
  <2> SUFFICES ASSUME NEW k \in 1..KeySize, NEW v \in Text PROVE After(v, k) \in Text
    OBVIOUS
  <2>1. f[k] \in Text
    BY Fields
  <2>2. v \o f[k] \in Text
    BY <2>1 DEF Text
  <2>3. Strip(v \o f[k]) \in Text
    BY <2>2, StripFacts
  <2> QED
    BY <2>3, Fields DEF Text
<1>4. PICK g \in [0..KeySize -> Text] : Recursive(g, KeySize, <<>>, Step)
  <2>1. Step \in [1..KeySize -> [Text -> Text]]
    BY <1>3
  <2> HIDE DEF Step
  <2> QED
    BY <1>1, <1>2, <2>1, RecursionUpTo
<1>5. g = [k \in 0..KeySize |-> IF k = 0 THEN <<>> ELSE After(g[k - 1], k)]
  <2>1. \A k \in 1..KeySize, v \in Text : Step[k][v] = After(v, k)
    OBVIOUS
  <2> HIDE DEF Step, After
  <2>2. g = [k \in 0..KeySize |-> IF k = 0 THEN <<>> ELSE Step[k][g[k - 1]]]
    BY <1>4 DEF Recursive
  <2>3. \A k \in 0..KeySize : k # 0 => k \in 1..KeySize /\ k - 1 \in 0..KeySize
    BY <1>1
  <2>4. \A k \in 0..KeySize : g[k] = IF k = 0 THEN <<>> ELSE After(g[k - 1], k)
    <3> TAKE k \in 0..KeySize
    <3>1. g[k] = IF k = 0 THEN <<>> ELSE Step[k][g[k - 1]]
      BY <2>2
    <3>2. k # 0 => Step[k][g[k - 1]] = After(g[k - 1], k)
      BY <2>1, <2>3
    <3> QED
      BY <3>1, <3>2
  <2> QED
    BY <2>2, <2>4
<1>6. packed = [k \in 0..KeySize |-> IF k = 0 THEN <<>> ELSE After(packed[k - 1], k)]
    BY <1>5
<1>7. Joined(f) = packed[KeySize]
    BY DEF Joined
<1>8. \A k, v : After(v, k) = Append(Strip(v \o f[k]), ":")
    OBVIOUS
<1> HIDE DEF packed, Step, After
<1>9. packed[0] = <<>> /\ \A k \in 1..KeySize : packed[k] = After(packed[k - 1], k)
  <2>1. 0 \in 0..KeySize /\ \A k \in 1..KeySize : k \in 0..KeySize /\ k # 0
    BY <1>1
  <2> QED
    BY <1>6, <2>1, Zenon
<1>10. \A k \in 0..KeySize : packed[k] \in Text
  <2> DEFINE Good == {k \in 0..KeySize : packed[k] \in Text}
  <2>1. 0 \in Good
    BY <1>1, <1>2, <1>9
  <2>2. ASSUME NEW k \in 1..KeySize, k - 1 \in Good PROVE k \in Good
    <3>1. k \in 0..KeySize /\ packed[k - 1] \in Text
      BY <1>1, <2>2
    <3> QED
      BY <1>3, <1>9, <3>1
  <2> HIDE DEF Good
  <2>3. \A k \in 0..KeySize : k \in Good
    BY <1>1, <2>1, <2>2, InductionUpTo
  <2> QED
    BY <2>3 DEF Good
<1>11. packed \in [0..KeySize -> Text]
    BY <1>6, <1>10
<1>12. Joining(packed, f)
  <2>1. \A i \in Part : packed[i] = Append(Strip(packed[i - 1] \o f[i]), ":")
    BY <1>8, <1>9, Fields
  <2> QED
    BY <1>9, <2>1 DEF Joining
<1> QED
    BY <1>7, <1>11, <1>12

\* A field and a ':' behind what is packed so far.
LEMMA PackedBehind ==
    ASSUME NEW s \in Text, NEW f \in Text
    PROVE  /\ s \o Append(f, ":") \in Text
           /\ Len(s \o Append(f, ":")) = Len(s) + Len(f) + 1
           /\ \A i \in 1..Len(s) : (s \o Append(f, ":"))[i] = s[i]
           /\ \A i \in 1..Len(f) : (s \o Append(f, ":"))[Len(s) + i] = f[i]
           /\ (s \o Append(f, ":"))[Len(s) + Len(f) + 1] = ":"
<1> DEFINE g == Append(f, ":")
<1>1. s \in Seq(Char) /\ f \in Seq(Char) /\ Len(s) \in Nat /\ Len(f) \in Nat
    BY TextHas DEF Text
<1>2. /\ g \in Seq(Char) /\ Len(g) = Len(f) + 1 /\ g[Len(f) + 1] = ":"
      /\ \A i \in 1..Len(f) : g[i] = f[i]
    BY <1>1, Fields
<1> HIDE DEF g
<1>3. /\ s \o g \in Seq(Char) /\ Len(s \o g) = Len(s) + Len(g)
      /\ \A i \in 1..Len(s) : (s \o g)[i] = s[i]
      /\ \A i \in 1..Len(g) : (s \o g)[Len(s) + i] = g[i]
  <2>1. s \in Seq(Char) /\ g \in Seq(Char)
    BY <1>1, <1>2
  <2> QED
    BY ONLY <2>1, Behind
<1>4. \A i \in 1..Len(f) : (s \o g)[Len(s) + i] = f[i]
  <2>1. \A i \in 1..Len(f) : i \in 1..Len(g)
    BY <1>1, <1>2
  <2> QED
    BY <1>2, <1>3, <2>1
<1>5. (s \o g)[Len(s) + Len(f) + 1] = ":"
  <2>1. Len(f) + 1 \in 1..Len(g) /\ Len(s) + (Len(f) + 1) = Len(s) + Len(f) + 1
    BY <1>1, <1>2
  <2> QED
    BY <1>2, <1>3, <2>1
<1>6. Len(s \o g) = Len(s) + Len(f) + 1
    BY <1>1, <1>2, <1>3
<1> QED
    BY <1>3, <1>4, <1>5, <1>6 DEF g, Text

\* Where the stripped text is in the text.
LEMMA StripOffset ==
    ASSUME NEW f \in Text
    PROVE  \E o \in Nat : /\ o + Len(Strip(f)) <= Len(f)
                          /\ \A x \in 1..Len(Strip(f)) : f[o + x] = Strip(f)[x]
                          /\ \A j \in 1..Len(f) : j <= o \/ j > o + Len(Strip(f)) => f[j] = Blank
<1>1. Len(f) \in Nat /\ f \in Seq(Char)
    BY TextHas DEF Text
<1>2. CASE \A i \in 1..Len(f) : f[i] = Blank
  <2>1. Strip(f) = <<>>
    BY <1>2, StripBlank
  <2>2. Len(Strip(f)) = 0
    BY <2>1
  <2>3. /\ 0 + Len(Strip(f)) <= Len(f)
        /\ \A x \in 1..Len(Strip(f)) : f[0 + x] = Strip(f)[x]
        /\ \A j \in 1..Len(f) : j <= 0 \/ j > 0 + Len(Strip(f)) => f[j] = Blank
    BY <1>1, <1>2, <2>2
  <2> QED
    BY <2>3
<1>3. CASE \E c \in 1..Len(f) : f[c] # Blank
  <2>1. PICK c \in 1..Len(f) : f[c] # Blank
    BY <1>3
  <2>2. PICK a \in 1..Len(f), b \in 1..Len(f) :
            /\ a <= c /\ c <= b /\ f[a] # Blank /\ f[b] # Blank
            /\ \A i \in 1..Len(f) : i < a \/ i > b => f[i] = Blank
            /\ Strip(f) = SubSeq(f, a, b)
    BY <2>1, StripFinds
  <2> DEFINE u == Strip(f)
             o == a - 1
  <2>3. a \in 1..(Len(f) + 1) /\ b \in 0..Len(f) /\ a <= b + 1
    BY <1>1, <2>2
  <2>4. Len(u) = b - a + 1 /\ \A i \in 1..(b - a + 1) : u[i] = f[a + i - 1]
    BY <1>1, <2>2, <2>3, PartOfText
  <2> HIDE DEF u
  <2>5. o \in Nat /\ o + Len(u) <= Len(f)
    BY <1>1, <2>3, <2>4
  <2>6. \A x \in 1..Len(u) : f[o + x] = u[x]
    <3> TAKE x \in 1..Len(u)
    <3>1. x \in 1..(b - a + 1) /\ a + x - 1 = o + x
      BY <1>1, <2>3, <2>4
    <3> QED
      BY <2>4, <3>1
  <2>7. \A j \in 1..Len(f) : j <= o \/ j > o + Len(u) => f[j] = Blank
    <3> TAKE j \in 1..Len(f)
    <3>1. o + Len(u) = b
      BY <1>1, <2>3, <2>4
    <3>2. j <= o => j < a
      BY <1>1, <2>3
    <3> QED
      BY <2>2, <3>1, <3>2
  <2> HIDE DEF o
  <2> QED
    BY <2>5, <2>6, <2>7 DEF u
<1> QED
    BY <1>2, <1>3

\* A field is packed with or without the blanks at its ends.
LEMMA ThinsBehind ==
    ASSUME NEW s \in Text, NEW w \in Text, NEW a, Thins(s, w, a), NEW f \in Text,
           w # <<>> => w[Len(w)] = ":"
    PROVE  \E b : Thins(s \o Append(f, ":"), w \o Append(Strip(f), ":"), b)
<1> DEFINE u == Strip(f)
           S == s \o Append(f, ":")
           W == w \o Append(u, ":")
           l == Len(s)
           n == Len(w)
           m == Len(u)
           e == Len(f)
<1>1. u \in Text
    BY StripFacts
<1> HIDE DEF u
<1>2. /\ S \in Text /\ Len(S) = l + e + 1
      /\ \A i \in 1..l : S[i] = s[i]
      /\ \A i \in 1..e : S[l + i] = f[i]
      /\ S[l + e + 1] = ":"
    BY PackedBehind
<1>3. /\ W \in Text /\ Len(W) = n + m + 1
      /\ \A i \in 1..n : W[i] = w[i]
      /\ \A i \in 1..m : W[n + i] = u[i]
      /\ W[n + m + 1] = ":"
    BY <1>1, PackedBehind
<1>4. PICK o \in Nat : /\ o + m <= e
                       /\ \A x \in 1..m : f[o + x] = u[x]
                       /\ \A j \in 1..e : j <= o \/ j > o + m => f[j] = Blank
    BY StripOffset DEF u
<1>5. l \in Nat /\ n \in Nat /\ m \in Nat /\ e \in Nat
    BY <1>1, TextHas
<1>6. /\ a \in [0..(n + 1) -> 0..(l + 1)]
      /\ a[0] = 0 /\ a[n + 1] = l + 1
      /\ \A x \in 0..n : a[x] < a[x + 1]
      /\ \A x \in 1..n : s[a[x]] = w[x]
      /\ \A x \in 0..n : \A y \in 1..l : a[x] < y /\ y < a[x + 1] => s[y] = Blank
      /\ \A x \in 1..(n - 1) : w[x] # ":" /\ w[x + 1] # ":" => a[x + 1] = a[x] + 1
    BY DEF Thins
<1>7. \A x \in 1..n : a[x] \in 1..l
  <2> TAKE x \in 1..n
  <2>1. 0 \in 0..(n + 1) /\ x \in 0..(n + 1) /\ n + 1 \in 0..(n + 1) /\ 0 < x /\ x < n + 1
    BY <1>5
  <2>2. a[0] < a[x] /\ a[x] < a[n + 1]
    BY <2>1, ThinsRise
  <2>3. a[x] \in 0..(l + 1)
    BY <1>6, <2>1
  <2> QED
    BY <1>5, <1>6, <2>2, <2>3
<1>8. n > 0 => w[n] = ":"
  <2>1. n > 0 => w # <<>>
    OBVIOUS
  <2> QED
    BY <2>1
<1> HIDE DEF S, W, l, n, m, e
<1> DEFINE b == [x \in 0..(n + m + 2) |->
                    IF x <= n THEN a[x]
                    ELSE IF x <= n + m THEN l + o + (x - n)
                    ELSE IF x = n + m + 1 THEN l + e + 1 ELSE l + e + 2]
<1>9. /\ \A x \in 0..n : b[x] = a[x]
      /\ \A x \in 1..m : b[n + x] = l + o + x
      /\ b[n + m + 1] = l + e + 1 /\ b[n + m + 2] = l + e + 2
  <2>1. \A x \in 0..n : b[x] = a[x]
    BY <1>5
  <2>2. \A x \in 1..m : b[n + x] = l + o + x
    <3> TAKE x \in 1..m
    <3>1. n + x \in 0..(n + m + 2) /\ ~(n + x <= n) /\ n + x <= n + m /\ n + x - n = x
      BY <1>5
    <3>2. b[n + x] = l + o + ((n + x) - n)
      BY <3>1
    <3>3. (n + x) - n = x
      BY <1>5
    <3> QED
      BY <3>2, <3>3
  <2>3. b[n + m + 1] = l + e + 1
    <3>1. n + m + 1 \in 0..(n + m + 2) /\ ~(n + m + 1 <= n) /\ ~(n + m + 1 <= n + m)
      BY <1>5
    <3> QED
      BY <3>1
  <2>4. b[n + m + 2] = l + e + 2
    <3>1. /\ n + m + 2 \in 0..(n + m + 2) /\ ~(n + m + 2 <= n) /\ ~(n + m + 2 <= n + m)
          /\ n + m + 2 # n + m + 1
      BY <1>5
    <3> QED
      BY <3>1
  <2> QED
    BY <2>1, <2>2, <2>3, <2>4
<1>10. \A x \in 0..(n + m + 2) : x \in 0..n \/ (\E z \in 1..m : x = n + z)
                                 \/ x = n + m + 1 \/ x = n + m + 2
  <2> SUFFICES ASSUME NEW x \in 0..(n + m + 2), x \notin 0..n, x # n + m + 1, x # n + m + 2
               PROVE  \E z \in 1..m : x = n + z
    OBVIOUS
  <2>1. x - n \in 1..m /\ x = n + (x - n)
    BY <1>5
  <2> QED
    BY <2>1
<1>11. DOMAIN b = 0..(n + m + 2) /\ b = [x \in 0..(n + m + 2) |-> b[x]]
    OBVIOUS
<1> HIDE DEF b
<1>12. b \in [0..(n + m + 2) -> 0..(l + e + 2)]
  <2>1. ASSUME NEW x \in 0..(n + m + 2) PROVE b[x] \in 0..(l + e + 2)
    <3>1. CASE x \in 0..n
      <4>1. x \in 0..(n + 1)
        BY <1>5, <3>1
      <4>2. a[x] \in 0..(l + 1)
        BY <1>6, <4>1
      <4> QED
        BY <1>5, <1>9, <3>1, <4>2
    <3>2. ASSUME NEW z \in 1..m, x = n + z PROVE b[x] \in 0..(l + e + 2)
      <4>1. b[x] = l + o + z
        BY <1>9, <3>2
      <4>2. l + o + z \in 0..(l + e + 2)
        BY <1>4, <1>5
      <4> QED
        BY <4>1, <4>2
    <3>3. CASE x = n + m + 1 \/ x = n + m + 2
      <4>1. b[x] = l + e + 1 \/ b[x] = l + e + 2
        BY <1>9, <3>3
      <4> QED
        BY <1>5, <4>1
    <3> QED
      BY <1>10, <3>1, <3>2, <3>3
  <2> QED
    BY <1>11, <2>1
<1>13. b[0] = 0 /\ b[n + m + 2] = l + e + 2
    BY <1>5, <1>6, <1>9
\* From one kept position to the next.
<1>14. ASSUME NEW x \in 0..(n + m + 1)
       PROVE  /\ b[x] < b[x + 1]
              /\ \A y \in 1..(l + e + 1) : b[x] < y /\ y < b[x + 1] => S[y] = Blank
              /\ W[x] # ":" /\ W[x + 1] # ":" /\ x \in 1..(n + m) => b[x + 1] = b[x] + 1
  <2>1. CASE x \in 0..(n - 1)
    <3>1. x \in 0..n /\ x + 1 \in 0..n /\ x + 1 \in 1..n
      BY <1>5, <2>1
    <3>2. b[x] = a[x] /\ b[x + 1] = a[x + 1] /\ a[x] < a[x + 1]
      BY <1>6, <1>9, <3>1
    <3>3. a[x] \in 0..l /\ a[x + 1] \in 1..l
      <4>1. x = 0 \/ x \in 1..n
        BY <1>5, <3>1
      <4> QED
        BY <1>5, <1>6, <1>7, <3>1, <4>1
    <3>4. ASSUME NEW y \in 1..(l + e + 1), b[x] < y, y < b[x + 1] PROVE S[y] = Blank
      <4>1. y \in 1..l
        BY <1>5, <3>2, <3>3, <3>4
      <4> QED
        BY <1>2, <1>6, <3>1, <3>2, <3>4, <4>1
    <3>5. ASSUME W[x] # ":", W[x + 1] # ":", x \in 1..(n + m) PROVE b[x + 1] = b[x] + 1
      <4>1. x \in 1..(n - 1) /\ x \in 1..n
        BY <1>5, <2>1, <3>5
      <4>2. W[x] = w[x] /\ W[x + 1] = w[x + 1]
        BY <1>3, <3>1, <4>1
      <4> QED
        BY <1>6, <3>2, <3>5, <4>1, <4>2
    <3> QED
      BY <3>2, <3>4, <3>5
  <2>2. CASE x = n
    <3>1. b[x] = a[n] /\ a[n] \in 0..l
      <4>1. n = 0 \/ n \in 1..n
        BY <1>5
      <4>2. n \in 0..n
        BY <1>5
      <4> QED
        BY <1>5, <1>6, <1>7, <1>9, <2>2, <4>1, <4>2
    <3>2. b[x + 1] = IF m = 0 THEN l + e + 1 ELSE l + o + 1
      <4>1. m # 0 => 1 \in 1..m
        BY <1>5
      <4>2. m = 0 => n + 1 = n + m + 1
        BY <1>5
      <4> QED
        BY <1>9, <2>2, <4>1, <4>2
    <3>3. b[x] < b[x + 1]
      BY <1>5, <3>1, <3>2
    <3>4. ASSUME NEW y \in 1..(l + e + 1), b[x] < y, y < b[x + 1] PROVE S[y] = Blank
      <4>1. CASE y <= l
        <5>1. y \in 1..l /\ n \in 0..n
          BY <1>5, <4>1
        <5>2. a[n] < y /\ y < a[n + 1]
          BY <1>5, <1>6, <3>1, <3>4, <5>1
        <5> QED
          BY <1>2, <1>6, <5>1, <5>2
      <4>2. CASE y > l
        <5> DEFINE j == y - l
        <5>1. y = l + j /\ j \in Int /\ j >= 1
          BY <1>5, <4>2
        <5> HIDE DEF j
        <5>2. j \in 1..e /\ (j <= o \/ j > o + m)
          <6>1. CASE m = 0
            BY <1>4, <1>5, <3>2, <3>4, <5>1, <6>1
          <6>2. CASE m # 0
            BY <1>4, <1>5, <3>2, <3>4, <5>1, <6>2
          <6> QED
            BY <6>1, <6>2
        <5> QED
          BY <1>2, <1>4, <5>1, <5>2
      <4> QED
        BY <1>5, <4>1, <4>2
    <3>5. x \in 1..(n + m) => W[x] = ":"
      <4>1. x \in 1..(n + m) => n > 0 /\ n \in 1..n
        BY <1>5, <2>2
      <4> QED
        BY <1>3, <1>8, <2>2, <4>1
    <3> QED
      BY <3>3, <3>4, <3>5
  <2>3. ASSUME NEW z \in 1..m, x = n + z, z < m
        PROVE  b[x + 1] = b[x] + 1 /\ b[x] \in Nat
    <3>1. z + 1 \in 1..m /\ n + z + 1 = n + (z + 1)
      BY <1>5, <2>3
    <3>2. b[x] = l + o + z
      BY <1>9, <2>3
    <3>3. b[n + (z + 1)] = l + o + (z + 1)
      BY <1>9, <3>1
    <3> QED
      BY <1>4, <1>5, <2>3, <3>1, <3>2, <3>3
  <2>4. CASE x = n + m /\ m > 0
    <3>1. b[x] = l + o + m /\ b[x + 1] = l + e + 1
      <4>1. m \in 1..m
        BY <1>5, <2>4
      <4> QED
        BY <1>9, <2>4, <4>1
    <3>2. b[x] < b[x + 1]
      BY <1>4, <1>5, <3>1
    <3>3. ASSUME NEW y \in 1..(l + e + 1), b[x] < y, y < b[x + 1] PROVE S[y] = Blank
      <4> DEFINE j == y - l
      <4>1. y = l + j /\ j \in 1..e /\ j > o + m
        BY <1>4, <1>5, <3>1, <3>3
      <4> HIDE DEF j
      <4> QED
        BY <1>2, <1>4, <4>1
    <3> QED
      BY <1>3, <2>4, <3>2, <3>3
  <2>5. CASE x = n + m + 1
    <3>1. b[x] = l + e + 1 /\ b[x + 1] = l + e + 2
      <4>1. n + m + 1 + 1 = n + m + 2
        BY <1>5
      <4> QED
        BY <1>9, <2>5, <4>1
    <3>2. x \notin 1..(n + m)
      BY <1>5, <2>5
    <3>3. \A y \in 1..(l + e + 1) : ~(l + e + 1 < y)
      BY <1>5
    <3> QED
      BY <1>5, <3>1, <3>2, <3>3
  <2>6. \/ x \in 0..(n - 1) \/ x = n \/ (\E z \in 1..m : x = n + z /\ z < m)
        \/ (x = n + m /\ m > 0) \/ x = n + m + 1
    <3> SUFFICES ASSUME x \notin 0..(n - 1), x # n, ~(x = n + m /\ m > 0), x # n + m + 1
                 PROVE  \E z \in 1..m : x = n + z /\ z < m
      OBVIOUS
    <3>1. x - n \in 1..m /\ x = n + (x - n) /\ x - n < m
      BY <1>5
    <3> QED
      BY <3>1
  <2>7. ASSUME NEW z \in 1..m, x = n + z, z < m
        PROVE  /\ b[x] < b[x + 1]
               /\ \A y \in 1..(l + e + 1) : b[x] < y /\ y < b[x + 1] => S[y] = Blank
               /\ W[x] # ":" /\ W[x + 1] # ":" /\ x \in 1..(n + m) => b[x + 1] = b[x] + 1
    <3>1. b[x + 1] = b[x] + 1 /\ b[x] \in Nat
      BY <2>3, <2>7
    <3>2. \A y \in 1..(l + e + 1) : ~(b[x] < y /\ y < b[x] + 1)
      BY <1>5, <3>1
    <3> QED
      BY <3>1, <3>2
  <2> QED
    BY <2>1, <2>2, <2>4, <2>5, <2>6, <2>7
<1>15. ASSUME NEW x \in 1..(n + m + 1) PROVE S[b[x]] = W[x]
  <2>1. CASE x \in 1..n
    <3>1. x \in 0..n
      BY <1>5, <2>1
    <3> QED
      BY <1>2, <1>3, <1>6, <1>7, <1>9, <2>1, <3>1
  <2>2. ASSUME NEW z \in 1..m, x = n + z PROVE S[b[x]] = W[x]
    <3>1. b[x] = l + (o + z) /\ o + z \in 1..e
      <4>1. b[x] = l + o + z
        BY <1>9, <2>2
      <4> QED
        BY <1>4, <1>5, <4>1
    <3>2. S[b[x]] = f[o + z]
      BY <1>2, <3>1
    <3> QED
      BY <1>3, <1>4, <2>2, <3>2
  <2>3. CASE x = n + m + 1
    BY <1>2, <1>3, <1>9, <2>3
  <2>4. x \in 0..(n + m + 2) /\ x # n + m + 2 /\ (x \in 0..n => x \in 1..n)
    BY <1>5
  <2> QED
    BY <1>10, <2>1, <2>2, <2>3, <2>4
<1>16. /\ Len(W) + 1 = n + m + 2 /\ Len(S) + 1 = l + e + 2
       /\ Len(W) = n + m + 1 /\ Len(S) = l + e + 1 /\ Len(W) - 1 = n + m
    BY <1>2, <1>3, <1>5
<1>17. \A x \in 1..(n + m) : x \in 0..(n + m + 1)
    BY <1>5
<1>18. Thins(S, W, b)
    BY <1>12, <1>13, <1>14, <1>15, <1>16, <1>17 DEF Thins
<1> QED
    BY <1>18 DEF S, W, u

\* What is packed ends with ':'.
Ends(s) == s # <<>> => s[Len(s)] = ":"

LEMMA PackedEnds ==
    ASSUME NEW f \in [Part -> Text], NEW g \in [0..KeySize -> Text], Packing(g, f)
    PROVE  (\A i \in 0..KeySize : Ends(g[i])) /\ g[KeySize] # ALLKEY
<1>1. ASSUME NEW i \in Part PROVE g[i] # <<>> /\ g[i][Len(g[i])] = ":"
  <2> DEFINE t == g[i - 1] \o Append(f[i], ":")
  <2>1. g[i] = t /\ g[i - 1] \in Text /\ f[i] \in Text
    BY Fields DEF Packing
  <2>2. t \in Text /\ Len(t) = Len(g[i - 1]) + Len(f[i]) + 1 /\ t[Len(g[i - 1]) + Len(f[i]) + 1] = ":"
    BY <2>1, PackedBehind
  <2>3. Len(g[i - 1]) \in Nat /\ Len(f[i]) \in Nat
    BY <2>1, TextHas
  <2> HIDE DEF t
  <2>4. Len(t) # 0
    BY <2>2, <2>3
  <2>5. t # <<>>
    BY <2>4
  <2> QED
    BY <2>1, <2>2, <2>5
<1>2. g[0] = <<>>
    BY DEF Packing
<1>3. \A i \in 0..KeySize : i = 0 \/ i \in Part
    BY Fields
<1>4. KeySize \in Part
    BY Fields
<1>5. ALLKEY[Len(ALLKEY)] = "*"
    BY DEF ALLKEY
<1> QED
    BY <1>1, <1>2, <1>3, <1>4, <1>5, Fields DEF Ends

\* Nothing is a part of nothing.
LEMMA ThinsNothing == \E a : Thins(<<>>, <<>>, a)
<1> DEFINE a == [x \in 0..1 |-> x]
<1>1. a \in [0..1 -> 0..1] /\ a[0] = 0 /\ a[1] = 1
    OBVIOUS
<1>2. Len(<<>>) = 0
    OBVIOUS
<1> HIDE DEF a
<1>3. Thins(<<>>, <<>>, a)
    BY <1>1, <1>2 DEF Thins
<1> QED
    BY <1>3

\* A stripped text with a ':' behind it has no blanks at its ends.
LEMMA TightAppend ==
    ASSUME NEW t \in Text, Tight(t)
    PROVE  /\ Append(t, ":") \in Text /\ Tight(Append(t, ":"))
           /\ Append(t, ":") # <<>> /\ Append(t, ":")[Len(Append(t, ":"))] = ":"
<1> DEFINE v == Append(t, ":")
<1>1. t \in Seq(Char) /\ Len(t) \in Nat
    BY TextHas DEF Text
<1>2. /\ v \in Seq(Char) /\ Len(v) = Len(t) + 1 /\ v[Len(t) + 1] = ":"
      /\ \A i \in 1..Len(t) : v[i] = t[i]
    BY <1>1, Fields
<1> HIDE DEF v
<1>3. v # <<>> /\ v[Len(v)] = ":"
  <2>1. Len(v) # 0
    BY <1>1, <1>2
  <2> QED
    BY <1>2, <2>1
<1>4. v[1] # Blank
  <2>1. CASE t = <<>>
    BY <1>2, <2>1, Fields
  <2>2. CASE t # <<>>
    <3>1. 1 \in 1..Len(t)
      BY <1>1, <2>2
    <3> QED
      BY <1>2, <2>2, <3>1 DEF Tight
  <2> QED
    BY <2>1, <2>2
<1>5. v \in Text /\ Tight(v)
    BY <1>2, <1>3, <1>4, Fields DEF Tight, Text
<1> QED
    BY <1>3, <1>5 DEF v

\* Joining a field is packing it without some of the blanks at its ends.
LEMMA JoinedBehind ==
    ASSUME NEW p \in Text, Tight(p), NEW f \in Text
    PROVE  \E r \in Text : /\ Append(Strip(p \o f), ":") = p \o Append(r, ":")
                           /\ Strip(r) = Strip(f)
<1>1. p \in Seq(Char) /\ f \in Seq(Char)
    BY DEF Text
<1>2. \A r \in Text : Append(p \o r, ":") = p \o Append(r, ":")
  <2> SUFFICES ASSUME NEW r \in Seq(Char) PROVE Append(p \o r, ":") = p \o Append(r, ":")
    BY DEF Text
  <2>1. ":" \in Char
    BY Fields
  <2> QED
    BY <1>1, <2>1
<1>3. CASE p = <<>>
  <2>1. p \o f = f
    BY <1>1, <1>3
  <2>2. p \o Strip(f) = Strip(f)
    <3>1. Strip(f) \in Seq(Char)
      BY StripFacts DEF Text
    <3> QED
      BY <1>3, <3>1
  <2>3. Strip(f) \in Text /\ Strip(Strip(f)) = Strip(f)
    BY StripFacts
  <2> QED
    BY <1>2, <2>1, <2>2, <2>3
<1>4. CASE p # <<>>
  <2>1. PICK r \in Text : Strip(p \o f) = p \o r /\ Strip(r) = Strip(f)
    BY <1>4, StripBehind
  <2> QED
    BY <1>2, <2>1
<1> QED
    BY <1>3, <1>4

\* The stripped fields.
Stripped(f) == [i \in Part |-> Strip(f[i])]

\* Packed, they are what is packed without the blanks at the ends of fields.
LEMMA PackThins ==
    ASSUME NEW f \in [Part -> Text]
    PROVE  /\ \E a : Thins(Pack(f), Pack(Stripped(f)), a)
           /\ Pack(f) \in Text /\ Pack(f) # ALLKEY
<1> DEFINE u == Stripped(f)
<1>1. u \in [Part -> Text] /\ \A i \in Part : u[i] = Strip(f[i]) /\ f[i] \in Text
    BY StripFacts DEF Stripped
<1> HIDE DEF u
<1>2. PICK g \in [0..KeySize -> Text] : Packing(g, f) /\ Pack(f) = g[KeySize]
    BY PackLoop
<1>3. PICK h \in [0..KeySize -> Text] : Packing(h, u) /\ Pack(u) = h[KeySize]
    BY <1>1, PackLoop
<1>4. (\A i \in 0..KeySize : Ends(h[i])) /\ g[KeySize] # ALLKEY
    BY <1>1, <1>2, <1>3, PackedEnds
<1> DEFINE Good == {i \in 0..KeySize : \E a : Thins(g[i], h[i], a)}
<1>5. 0 \in Good
    BY <1>2, <1>3, ThinsNothing, Fields DEF Packing
<1>6. ASSUME NEW i \in 1..KeySize, i - 1 \in Good PROVE i \in Good
  <2>1. PICK a : Thins(g[i - 1], h[i - 1], a)
    BY <1>6
  <2>2. i \in 0..KeySize /\ i \in Part /\ g[i - 1] \in Text /\ h[i - 1] \in Text /\ Ends(h[i - 1])
    BY <1>4, Fields
  <2>3. h[i - 1] # <<>> => h[i - 1][Len(h[i - 1])] = ":"
    BY <2>2 DEF Ends
  <2>4. \E b : Thins(g[i - 1] \o Append(f[i], ":"), h[i - 1] \o Append(Strip(f[i]), ":"), b)
    BY <1>1, <2>1, <2>2, <2>3, ThinsBehind
  <2>5. g[i] = g[i - 1] \o Append(f[i], ":") /\ h[i] = h[i - 1] \o Append(Strip(f[i]), ":")
    BY <1>1, <1>2, <1>3, <2>2 DEF Packing
  <2> QED
    BY <2>2, <2>4, <2>5
<1> HIDE DEF Good
<1>7. KeySize \in Good
  <2>1. \A i \in 0..KeySize : i \in Good
    BY <1>5, <1>6, InductionUpTo, Fields
  <2> QED
    BY <2>1, Fields
<1> QED
    BY <1>2, <1>3, <1>4, <1>7, Fields DEF Good, u

\* And so they are of what is joined.
LEMMA JoinedThins ==
    ASSUME NEW f \in [Part -> Text]
    PROVE  /\ \E a : Thins(Joined(f), Pack(Stripped(f)), a)
           /\ Joined(f) \in Text /\ Joined(f) # ALLKEY
<1> DEFINE u == Stripped(f)
<1>1. u \in [Part -> Text] /\ \A i \in Part : u[i] = Strip(f[i]) /\ f[i] \in Text
    BY StripFacts DEF Stripped
<1> HIDE DEF u
<1>2. PICK g \in [0..KeySize -> Text] : Joining(g, f) /\ Joined(f) = g[KeySize]
    BY JoinedLoop
<1>3. PICK h \in [0..KeySize -> Text] : Packing(h, u) /\ Pack(u) = h[KeySize]
    BY <1>1, PackLoop
<1>4. \A i \in 0..KeySize : Ends(h[i])
    BY <1>1, <1>3, PackedEnds
<1>5. ASSUME NEW i \in Part
      PROVE  Tight(g[i]) /\ g[i] # <<>> /\ g[i][Len(g[i])] = ":"
  <2> DEFINE t == Strip(g[i - 1] \o f[i])
  <2>1. g[i - 1] \in Text /\ f[i] \in Text
    BY Fields
  <2>2. g[i - 1] \o f[i] \in Text
    BY <2>1 DEF Text
  <2>3. t \in Text /\ Tight(t)
    BY <2>2, StripFacts
  <2>4. g[i] = Append(t, ":")
    BY <1>2 DEF Joining
  <2> HIDE DEF t
  <2> QED
    BY <2>3, <2>4, TightAppend
<1>6. g[0] = <<>> /\ Tight(<<>>)
    BY <1>2 DEF Joining, Tight
<1>7. \A i \in 0..KeySize : Tight(g[i])
  <2>1. \A i \in 0..KeySize : i = 0 \/ i \in Part
    BY Fields
  <2> QED
    BY <1>5, <1>6, <2>1
<1> DEFINE Good == {i \in 0..KeySize : \E a : Thins(g[i], h[i], a)}
<1>8. 0 \in Good
    BY <1>3, <1>6, ThinsNothing, Fields DEF Packing
<1>9. ASSUME NEW i \in 1..KeySize, i - 1 \in Good PROVE i \in Good
  <2>1. PICK a : Thins(g[i - 1], h[i - 1], a)
    BY <1>9
  <2>2. i \in 0..KeySize /\ i \in Part /\ g[i - 1] \in Text /\ h[i - 1] \in Text
    BY Fields
  <2>3. h[i - 1] # <<>> => h[i - 1][Len(h[i - 1])] = ":"
    BY <1>4, Fields DEF Ends
  <2>4. Tight(g[i - 1]) /\ f[i] \in Text
    BY <1>1, <1>7, Fields
  <2>5. PICK r \in Text : /\ Append(Strip(g[i - 1] \o f[i]), ":") = g[i - 1] \o Append(r, ":")
                          /\ Strip(r) = Strip(f[i])
    BY <2>2, <2>4, JoinedBehind
  <2>6. \E b : Thins(g[i - 1] \o Append(r, ":"), h[i - 1] \o Append(Strip(r), ":"), b)
    BY <2>1, <2>2, <2>3, ThinsBehind
  <2>7. g[i] = g[i - 1] \o Append(r, ":")
    BY <1>2, <2>2, <2>5 DEF Joining
  <2>8. h[i] = h[i - 1] \o Append(Strip(r), ":")
    BY <1>1, <1>3, <2>2, <2>5 DEF Packing
  <2> QED
    BY <2>2, <2>6, <2>7, <2>8
<1> HIDE DEF Good
<1>10. KeySize \in Good
  <2>1. \A i \in 0..KeySize : i \in Good
    BY <1>8, <1>9, InductionUpTo, Fields
  <2> QED
    BY <2>1, Fields
<1>11. g[KeySize] # ALLKEY
  <2>1. ALLKEY[Len(ALLKEY)] = "*"
    BY DEF ALLKEY
  <2> QED
    BY <1>5, <2>1, Fields
<1> QED
    BY <1>2, <1>3, <1>10, <1>11, Fields DEF Good, u

\* The way a document's key is packed makes no difference to the key.
LEMMA KeyOfPacked ==
    ASSUME NEW f \in [Part -> Text]
    PROVE  /\ SetKey(Pack(f)) = SetKey(Pack(Stripped(f)))
           /\ SetKey(Joined(f)) = SetKey(Pack(Stripped(f)))
<1> DEFINE w == Pack(Stripped(f))
<1>1. Stripped(f) \in [Part -> Text]
    BY StripFacts DEF Stripped
<1>2. w \in Text /\ w # ALLKEY
    BY <1>1, PackThins
<1> HIDE DEF w
<1>3. SetKey(Pack(f)) = SetKey(w)
  <2>1. PICK a : Thins(Pack(f), w, a)
    BY PackThins DEF w
  <2>2. Pack(f) \in Text /\ Pack(f) # ALLKEY
    BY PackThins
  <2> QED
    BY <1>2, <2>1, <2>2, ThinsSetKey
<1>4. SetKey(Joined(f)) = SetKey(w)
  <2>1. PICK a : Thins(Joined(f), w, a)
    BY JoinedThins DEF w
  <2>2. Joined(f) \in Text /\ Joined(f) # ALLKEY
    BY JoinedThins
  <2> QED
    BY <1>2, <2>1, <2>2, ThinsSetKey
<1> QED
    BY <1>3, <1>4 DEF w

-----------------------------------------------------------------------------
(* Packing and setKey.                                                     *)

\* Where the fields are in what is packed: field i ends in front of g[i].
Layout(s, f, g) ==
    /\ g \in [0..KeySize -> 0..Len(s)] /\ g[0] = 0 /\ g[KeySize] = Len(s)
    /\ \A i \in Part : /\ g[i] = g[i - 1] + Len(f[i]) + 1
                       /\ s[g[i]] = ":"
                       /\ \A x \in 1..Len(f[i]) : s[g[i - 1] + x] = f[i][x]

LEMMA PackLayout ==
    ASSUME NEW f \in [Part -> Text]
    PROVE  \E g : Layout(Pack(f), f, g)
<1>1. PICK h \in [0..KeySize -> Text] : Packing(h, f) /\ Pack(f) = h[KeySize]
    BY PackLoop
<1> DEFINE g == [i \in 0..KeySize |-> Len(h[i])]
           Laid(m, i) == /\ h[m][g[i]] = ":"
                         /\ \A x \in 1..Len(f[i]) : h[m][g[i - 1] + x] = f[i][x]
           Good == {m \in 0..KeySize : \A i \in 1..m : g[i] <= g[m] /\ Laid(m, i)}
<1>2. \A i \in 0..KeySize : h[i] \in Text /\ Len(h[i]) \in Nat /\ g[i] = Len(h[i])
    BY TextHas
<1>3. \A i \in Part : f[i] \in Text /\ Len(f[i]) \in Nat
    BY TextHas
<1>4. g[0] = 0
    BY <1>1, <1>2, Fields DEF Packing
<1>5. g = [i \in 0..KeySize |-> g[i]]
    OBVIOUS
<1> HIDE DEF g
<1>6. ASSUME NEW i \in Part
      PROVE  /\ g[i] = g[i - 1] + Len(f[i]) + 1 /\ g[i] \in Nat /\ g[i - 1] \in Nat
             /\ \A x \in 1..g[i - 1] : h[i][x] = h[i - 1][x]
             /\ Laid(i, i)
  <2> DEFINE t == h[i - 1] \o Append(f[i], ":")
             n == Len(h[i - 1])
  <2>1. h[i] = t
    BY <1>1 DEF Packing
  <2>2. h[i - 1] \in Text /\ i \in 0..KeySize /\ i - 1 \in 0..KeySize /\ f[i] \in Text
    BY <1>2, <1>3, Fields
  <2>3. /\ Len(t) = n + Len(f[i]) + 1
        /\ \A x \in 1..n : t[x] = h[i - 1][x]
        /\ \A x \in 1..Len(f[i]) : t[n + x] = f[i][x]
        /\ t[n + Len(f[i]) + 1] = ":"
    BY <2>2, PackedBehind
  <2> HIDE DEF t
  <2>4. n = g[i - 1] /\ Len(t) = g[i] /\ n \in Nat /\ Len(t) \in Nat
    BY <1>2, <2>1, <2>2
  <2> HIDE DEF n
  <2> QED
    BY <2>1, <2>3, <2>4
<1>7. 0 \in Good
    BY Fields
<1>8. ASSUME NEW m \in 1..KeySize, m - 1 \in Good PROVE m \in Good
  <2>1. m \in Part /\ m \in 0..KeySize /\ m - 1 \in 0..KeySize
    BY Fields
  <2>2. ASSUME NEW i \in 1..m PROVE g[i] <= g[m] /\ Laid(m, i)
    <3>1. CASE i = m
      BY <1>6, <2>1, <3>1
    <3>2. CASE i # m
      <4>1. i \in 1..(m - 1) /\ i \in Part
        BY <2>1, <3>2, Fields
      <4>2. g[i] <= g[m - 1] /\ Laid(m - 1, i)
        BY <1>8, <4>1
      <4>3. g[m - 1] <= g[m] /\ g[m - 1] \in Nat /\ g[m] \in Nat
        BY <1>3, <1>6, <2>1
      <4>4. /\ g[i] \in 1..g[m - 1]
            /\ \A x \in 1..Len(f[i]) : g[i - 1] + x \in 1..g[m - 1]
        <5>1. g[i] = g[i - 1] + Len(f[i]) + 1 /\ g[i] \in Nat /\ g[i - 1] \in Nat /\ Len(f[i]) \in Nat
          BY <1>3, <1>6, <4>1
        <5> DEFINE a == g[i - 1]
                   b == g[i]
                   c == g[m - 1]
                   l == Len(f[i])
        <5>2. b = a + l + 1 /\ b <= c /\ a \in Nat /\ b \in Nat /\ c \in Nat /\ l \in Nat
          BY <4>2, <4>3, <5>1
        <5> HIDE DEF a, b, c, l
        <5>3. b \in 1..c /\ \A x \in 1..l : a + x \in 1..c
          BY <5>2
        <5> QED
          BY <5>3 DEF a, b, c, l
      <4>5. \A x \in 1..g[m - 1] : h[m][x] = h[m - 1][x]
        BY <1>6, <2>1
      <4>6. Laid(m, i)
        BY <4>2, <4>4, <4>5
      <4>7. g[i] <= g[m]
        <5>1. g[i] \in Nat
          BY <1>6, <4>1
        <5> QED
          BY <4>2, <4>3, <5>1
      <4> QED
        BY <4>6, <4>7
    <3> QED
      BY <3>1, <3>2
  <2> QED
    BY <2>1, <2>2
<1>9. \A m \in 0..KeySize : m \in Good
  <2> HIDE DEF Good
  <2> QED
    BY <1>7, <1>8, InductionUpTo, Fields
<1>10. \A i \in Part : g[i] <= g[KeySize] /\ Laid(KeySize, i)
  <2>1. KeySize \in Good
    BY <1>9, Fields
  <2> QED
    BY <2>1, Fields
<1>11. g[KeySize] = Len(h[KeySize]) /\ g[KeySize] \in Nat
    BY <1>2, Fields
<1>12. g \in [0..KeySize -> 0..g[KeySize]]
  <2>1. \A i \in 0..KeySize : i = 0 \/ i \in Part
    BY Fields
  <2>2. \A i \in 0..KeySize : g[i] \in 0..g[KeySize]
    BY <1>4, <1>6, <1>10, <1>11, <2>1
  <2> QED
    BY <1>5, <2>2
<1>13. Layout(h[KeySize], f, g)
    BY <1>4, <1>6, <1>10, <1>11, <1>12 DEF Layout
<1> QED
    BY <1>1, <1>13

\* With no ':' in the first fields, the cuts are where they end.
LEMMA LayoutCuts ==
    ASSUME NEW s \in Text, NEW f \in [Part -> Text], NEW g, Layout(s, f, g),
           NEW i \in Part, ":" \notin Range(f[i])
    PROVE  NextColon(s, g[i - 1]) = g[i] /\ g[i - 1] \in Nat /\ g[i - 1] < g[i] /\ g[i] \in 1..Len(s)
<1>1. Len(s) \in Nat /\ f[i] \in Text /\ Len(f[i]) \in Nat
    BY TextHas
<1>2. /\ g[i - 1] \in 0..Len(s) /\ g[i] \in 0..Len(s)
      /\ g[i] = g[i - 1] + Len(f[i]) + 1 /\ s[g[i]] = ":"
      /\ \A x \in 1..Len(f[i]) : s[g[i - 1] + x] = f[i][x]
    BY Fields DEF Layout
<1> DEFINE p == g[i - 1]
           q == g[i]
<1>3. p \in 0..(Len(s) + 1) /\ q \in 1..(Len(s) + 1) /\ p < q /\ q \in 1..Len(s) /\ p \in Nat
    BY <1>1, <1>2
<1>4. ASSUME NEW x \in 1..Len(s), p < x, x < q PROVE s[x] # ":"
  <2> DEFINE j == x - p
  <2>1. j \in 1..Len(f[i]) /\ p + j = x
    BY <1>1, <1>2, <1>3, <1>4
  <2> HIDE DEF j
  <2>2. s[x] = f[i][j]
    BY <1>2, <2>1
  <2>3. f[i][j] \in Range(f[i])
    BY <1>1, <2>1, TextHas
  <2> QED
    BY <2>2, <2>3
<1>5. q <= Len(s) => s[q] = ":"
    BY <1>2
<1> HIDE DEF p, q
<1>6. NextColon(s, p) = q
    BY <1>3, <1>4, <1>5, NextColonIs
<1> QED
    BY <1>3, <1>6 DEF p, q

\* A key packed gives itself.
LEMMA SetKeyOfPack ==
    ASSUME NEW k \in Tidy
    PROVE  SetKey(Pack(k)) = k
<1>1. /\ k \in [Part -> Text]
      /\ \A i \in Part : k[i] \in Text /\ ":" \notin Range(k[i]) /\ Tight(k[i])
    BY DEF Tidy, Plain
<1> DEFINE s == Pack(k)
           c == Cuts(s)
<1>2. s \in Text /\ s # ALLKEY
    BY <1>1, PackThins
<1>3. PICK g : Layout(s, k, g)
    BY <1>1, PackLayout
<1> HIDE DEF s
<1>4. c[0] = 0 /\ \A i \in Part : c[i] = NextColon(s, c[i - 1])
    BY <1>2, CutsLoop DEF CutAt
<1>5. SetKey(s) = [i \in Part |-> Strip(SubSeq(s, c[i - 1] + 1, c[i] - 1))]
    BY <1>2 DEF SetKey
<1> HIDE DEF c
<1> DEFINE Good == {i \in 0..KeySize : c[i] = g[i]}
<1>6. 0 \in Good
    BY <1>3, <1>4, Fields DEF Layout
<1>7. ASSUME NEW i \in 1..KeySize, i - 1 \in Good PROVE i \in Good
  <2>1. i \in Part /\ i \in 0..KeySize /\ c[i - 1] = g[i - 1]
    BY <1>7, Fields
  <2>2. NextColon(s, g[i - 1]) = g[i]
    BY <1>1, <1>2, <1>3, <2>1, LayoutCuts
  <2> QED
    BY <1>4, <2>1, <2>2
<1> HIDE DEF Good
<1>8. \A i \in 0..KeySize : i \in Good
    BY <1>6, <1>7, InductionUpTo, Fields
<1>9. ASSUME NEW i \in Part PROVE Strip(SubSeq(s, c[i - 1] + 1, c[i] - 1)) = k[i]
  <2> DEFINE p == g[i - 1]
             q == g[i]
             t == SubSeq(s, p + 1, q - 1)
  <2>1. c[i - 1] = p /\ c[i] = q
    BY <1>8, Fields DEF Good
  <2>2. p \in Nat /\ p < q /\ q \in 1..Len(s)
    BY <1>1, <1>2, <1>3, LayoutCuts
  <2>3. q = p + Len(k[i]) + 1 /\ \A x \in 1..Len(k[i]) : s[p + x] = k[i][x]
    BY <1>3 DEF Layout
  <2> HIDE DEF p, q
  <2>4. Len(s) \in Nat /\ Len(k[i]) \in Nat
    BY <1>1, <1>2, TextHas
  <2>5. p \in 0..(Len(s) + 1) /\ q \in 1..(Len(s) + 1) /\ p <= q
    BY <2>2, <2>4
  <2>6. /\ t \in Text /\ Len(t) = q - p - 1
        /\ \A x \in 1..Len(t) : t[x] = s[p + x]
    BY <1>2, <2>2, <2>5, BetweenCuts
  <2> HIDE DEF t
  <2>7. Len(t) = Len(k[i]) /\ \A x \in 1..Len(t) : t[x] = k[i][x]
    BY <2>2, <2>3, <2>4, <2>6
  <2>8. t = k[i]
    <3>1. t \in Seq(Char) /\ k[i] \in Seq(Char)
      BY <1>1, <2>6 DEF Text
    <3> QED
      BY <2>7, <3>1, SameText
  <2>9. Strip(k[i]) = k[i]
    BY <1>1, StripFacts
  <2> QED
    BY <2>1, <2>8, <2>9 DEF t
<1>10. k = [i \in Part |-> k[i]]
    BY <1>1
<1>11. SetKey(s) = k
    BY <1>5, <1>9, <1>10
<1> QED
    BY <1>11 DEF s

\* What is packed like fields without ':' has none either: the one that is too
\* much would have to be the last.
LEMMA PackedColons ==
    ASSUME NEW k \in Tidy, NEW f \in [Part -> Text], Pack(k) = Pack(f)
    PROVE  \A i \in Part : ":" \notin Range(f[i])
<1> SUFFICES ASSUME NEW m \in Part, ":" \in Range(f[m])
             PROVE  FALSE
    OBVIOUS
<1>1. k \in [Part -> Text] /\ \A i \in Part : k[i] \in Text /\ ":" \notin Range(k[i])
    BY DEF Tidy, Plain
<1> DEFINE s == Pack(k)
<1>2. s \in Text /\ Len(s) \in Nat
    BY <1>1, PackThins, TextHas
<1>3. PICK g : Layout(s, k, g)
    BY <1>1, PackLayout
<1>4. PICK h : Layout(s, f, h)
    BY PackLayout
<1> HIDE DEF s
<1>5. f[m] \in Text
    OBVIOUS
<1>6. PICK y \in 1..Len(f[m]) : f[m][y] = ":"
    BY <1>5, TextHas
<1> DEFINE c == h[m - 1] + y
<1>7. \A i \in Part : /\ NextColon(s, g[i - 1]) = g[i] /\ g[i - 1] \in Nat
                      /\ g[i - 1] < g[i] /\ g[i] \in 1..Len(s)
    BY <1>1, <1>2, <1>3, LayoutCuts
<1>8. ASSUME NEW i \in Part
      PROVE  /\ h[i - 1] \in 0..Len(s) /\ h[i] \in 1..Len(s) /\ h[i - 1] < h[i] /\ s[h[i]] = ":"
             /\ Len(f[i]) \in Nat /\ h[i] = h[i - 1] + Len(f[i]) + 1
  <2>1. Len(f[i]) \in Nat
    <3>1. f[i] \in Text
      OBVIOUS
    <3> QED
      BY <3>1, TextHas
  <2>2. h[i - 1] \in 0..Len(s) /\ h[i] \in 0..Len(s) /\ h[i] = h[i - 1] + Len(f[i]) + 1 /\ s[h[i]] = ":"
    BY <1>4, Fields DEF Layout
  <2> QED
    BY <1>2, <2>1, <2>2
<1>9. c \in 1..Len(s) /\ h[m - 1] < c /\ c < h[m] /\ s[c] = ":"
  <2>1. s[c] = ":"
    BY <1>4, <1>6 DEF Layout
  <2>2. /\ h[m - 1] \in 0..Len(s) /\ h[m] \in 1..Len(s) /\ Len(f[m]) \in Nat
        /\ h[m] = h[m - 1] + Len(f[m]) + 1
    BY <1>8
  <2> QED
    BY <1>2, <2>1, <2>2
<1> HIDE DEF c
\* Between two cuts there is no other.
<1>10. ASSUME NEW i \in Part, NEW x \in 1..Len(s), g[i - 1] < x, s[x] = ":"
       PROVE  g[i] <= x
  <2> DEFINE p == g[i - 1]
  <2>1. p \in 0..(Len(s) + 1) /\ p = g[i - 1]
    BY <1>2, <1>7
  <2> HIDE DEF p
  <2>2. x < NextColon(s, p) => s[x] # ":"
    BY <1>2, <1>10, <2>1, NextColonFacts
  <2>3. NextColon(s, p) = g[i] /\ g[i] \in Nat
    BY <1>2, <1>7, <2>1
  <2> QED
    BY <1>2, <1>10, <2>2, <2>3
<1> DEFINE Good == {i \in 0..KeySize : g[i] <= h[i] /\ (m <= i => g[i] < h[i])}
<1>11. 0 \in Good
  <2>1. ~(m <= 0)
    BY Fields
  <2>2. g[0] = 0 /\ h[0] = 0
    BY <1>3, <1>4 DEF Layout
  <2> QED
    BY <2>1, <2>2, Fields
<1>12. ASSUME NEW i \in 1..KeySize, i - 1 \in Good PROVE i \in Good
  <2>1. i \in Part /\ i \in 0..KeySize /\ i \in Nat /\ m \in Nat
    BY Fields
  <2>2. g[i - 1] <= h[i - 1] /\ (m <= i - 1 => g[i - 1] < h[i - 1])
    BY <1>12
  <2> DEFINE p == g[i - 1]
             q == g[i]
             u == h[i - 1]
             v == h[i]
  <2>3. /\ p \in Nat /\ q \in Nat /\ u \in Nat /\ v \in Nat /\ u < v
        /\ v \in 1..Len(s) /\ s[v] = ":"
    BY <1>2, <1>7, <1>8, <2>1
  <2>4. p <= u
    BY <2>2
  <2>5. q <= v
    <3>1. p < v
      BY <2>3, <2>4
    <3> QED
      BY <1>10, <2>1, <2>3, <3>1
  <2>6. CASE i = m
    <3>1. u < c /\ c < v /\ c \in 1..Len(s) /\ s[c] = ":"
      BY <1>9, <2>6
    <3>2. p < c
      BY <2>3, <2>4, <3>1
    <3>3. q <= c
      BY <1>10, <2>1, <3>1, <3>2
    <3> HIDE DEF p, q, u, v
    <3>4. q < v
      BY <2>3, <3>1, <3>3
    <3> QED
      BY <2>1, <2>5, <3>4 DEF q, v
  <2>7. CASE m <= i - 1
    <3>1. i - 1 \in Part
      BY <2>1, <2>7, Fields
    <3>2. u \in 1..Len(s) /\ s[u] = ":" /\ p < u
      BY <1>8, <2>2, <2>7, <3>1
    <3>3. q <= u
      BY <1>10, <2>1, <3>2
    <3> HIDE DEF p, q, u, v
    <3>4. q < v
      BY <2>3, <3>3
    <3> QED
      BY <2>1, <2>5, <3>4 DEF q, v
  <2>8. CASE i < m
    <3>1. ~(m <= i)
      BY <2>1, <2>8
    <3> QED
      BY <2>1, <2>5, <3>1
  <2> QED
    BY <2>1, <2>6, <2>7, <2>8
<1> HIDE DEF Good
<1>13. \A i \in 0..KeySize : i \in Good
    BY <1>11, <1>12, InductionUpTo, Fields
<1>14. g[KeySize] < h[KeySize]
  <2>1. KeySize \in 0..KeySize /\ m <= KeySize
    BY Fields
  <2> QED
    BY <1>13, <2>1 DEF Good
<1>15. g[KeySize] = Len(s) /\ h[KeySize] = Len(s)
    BY <1>3, <1>4 DEF Layout
<1> QED
    BY <1>2, <1>14, <1>15

-----------------------------------------------------------------------------
(* The keys of documents.                                                  *)

\* The fields that are packed, and those that the driver joins.
KeyFields(d) == [i \in Part |-> IF d[i].type = "missing" THEN <<"*">> ELSE Strip(d[i].text)]
LoadedFields(d) == [i \in Part |-> IF d[i].type = "string" THEN d[i].text ELSE <<"*">>]

\* The key a document is stored under.
StoredKey(d) == SetKey(GetKeyFromJson(d))

NoNumber(d) == \A i \in Part : d[i].type # "number"
NoColon(d) == \A i \in Part : ":" \notin Range(d[i].text)

\* A document's fields.
LEMMA DocumentHas ==
    ASSUME NEW d \in Documents
    PROVE  /\ d # NoDoc
           /\ \A i \in Part : /\ d[i].text \in Text
                              /\ d[i].type \in {"string", "number", "missing"}
                              /\ d[i].type = "missing" => d[i].text = <<>>
<1>1. NoDoc \notin Documents
    BY RecordKeysConstants
<1>2. \A i \in Part : /\ d[i] \in Value
                      /\ d[i].type = "missing" => d[i].text = <<>>
    BY RecordKeysConstants, Zenon
<1>3. ASSUME NEW i \in Part
      PROVE  d[i].text \in Text /\ d[i].type \in {"string", "number", "missing"}
  <2>1. d[i] \in Value
    BY <1>2
  <2> QED
    BY <2>1 DEF Value
<1> QED
    BY <1>1, <1>2, <1>3, Zenon

\* What is packed of a document, and the key it is stored under.
LEMMA StoredKeyFacts ==
    ASSUME NEW d \in Documents
    PROVE  /\ KeyFields(d) \in [Part -> Text] /\ GetKeyFromJson(d) = Pack(KeyFields(d))
           /\ GetKeyFromJson(d) \in Text /\ StoredKey(d) \in Tidy
           /\ NoColon(d) => KeyFields(d) \in Tidy /\ StoredKey(d) = KeyFields(d)
<1>1. \A i \in Part : d[i].text \in Text
    BY DocumentHas
<1>2. <<"*">> \in Plain /\ <<"*">> \in Text /\ Tight(<<"*">>)
    BY StarIsPlain DEF Plain
<1>3. KeyFields(d) \in [Part -> Text]
  <2>1. \A i \in Part : Strip(d[i].text) \in Text
    BY <1>1, StripFacts
  <2> QED
    BY <1>2, <2>1 DEF KeyFields
<1>4. GetKeyFromJson(d) = Pack(KeyFields(d))
    BY DEF GetKeyFromJson, KeyFields
<1>5. GetKeyFromJson(d) \in Text
    BY <1>3, <1>4, PackThins
<1>6. StoredKey(d) \in Tidy
    BY <1>5, SetKeyTyped DEF StoredKey
<1>7. ASSUME NoColon(d) PROVE KeyFields(d) \in Tidy /\ StoredKey(d) = KeyFields(d)
  <2>1. \A i \in Part : Strip(d[i].text) \in Plain /\ Tight(Strip(d[i].text))
    <3> TAKE i \in Part
    <3>1. d[i].text \in Text /\ ":" \notin Range(d[i].text)
      BY <1>1, <1>7 DEF NoColon
    <3> QED
      BY <3>1, StripFacts DEF Plain
  <2>2. KeyFields(d) \in Tidy
    BY <1>2, <2>1 DEF KeyFields, Tidy
  <2> QED
    BY <1>4, <2>2, SetKeyOfPack DEF StoredKey
<1> QED
    BY <1>3, <1>4, <1>5, <1>6, <1>7

\* The driver reports the same key for a document without numbers, and a
\* template if a field is a number and none has a ':'.
LEMMA LoadedKeyFacts ==
    ASSUME NEW d \in Documents
    PROVE  /\ LoadedKey(d) \in Tidy
           /\ NoNumber(d) => LoadedKey(d) = StoredKey(d)
           /\ NoColon(d) /\ ~IsPattern(LoadedKey(d)) => LoadedKey(d) = StoredKey(d)
<1> DEFINE f == LoadedFields(d)
           u == Stripped(f)
<1>1. \A i \in Part : d[i].text \in Text /\ d[i].type \in {"string", "number", "missing"}
    BY DocumentHas
<1>2. <<"*">> \in Text /\ <<"*">> \in Plain /\ Tight(<<"*">>) /\ Strip(<<"*">>) = <<"*">>
    BY StarIsPlain, StripFacts DEF Plain
<1>3. f \in [Part -> Text]
    BY <1>1, <1>2 DEF LoadedFields
<1>4. \A i \in Part : u[i] = IF d[i].type = "string" THEN Strip(d[i].text) ELSE <<"*">>
    BY <1>2 DEF Stripped, LoadedFields
<1>5. u = [i \in Part |-> u[i]]
    BY DEF Stripped
<1>6. LoadedKey(d) = SetKey(Joined(f))
    BY DEF LoadedKey, LoadedFields
<1> HIDE DEF u, f
<1>7. LoadedKey(d) = SetKey(Pack(u))
    BY <1>3, <1>6, KeyOfPacked DEF u
<1>8. LoadedKey(d) \in Tidy
    BY <1>3, <1>6, JoinedThins, SetKeyTyped
<1>9. ASSUME NoNumber(d) PROVE LoadedKey(d) = StoredKey(d)
  <2>1. \A i \in Part : u[i] = IF d[i].type = "missing" THEN <<"*">> ELSE Strip(d[i].text)
    <3> TAKE i \in Part
    <3>1. d[i].type = "missing" \/ d[i].type = "string"
      BY <1>1, <1>9 DEF NoNumber
    <3> QED
      BY <1>4, <3>1
  <2>2. u = KeyFields(d)
    BY <1>5, <2>1 DEF KeyFields
  <2> QED
    BY <1>7, <2>2, StoredKeyFacts DEF StoredKey
<1>10. ASSUME NoColon(d), ~IsPattern(LoadedKey(d)) PROVE NoNumber(d)
  <2> SUFFICES ASSUME NEW i \in Part, d[i].type = "number" PROVE IsPattern(LoadedKey(d))
    BY <1>10 DEF NoNumber
  <2>1. \A j \in Part : u[j] \in Plain /\ Tight(u[j])
    <3> TAKE j \in Part
    <3>1. d[j].text \in Text /\ ":" \notin Range(d[j].text)
      BY <1>1, <1>10 DEF NoColon
    <3>2. Strip(d[j].text) \in Plain /\ Tight(Strip(d[j].text))
      BY <3>1, StripFacts DEF Plain
    <3> QED
      BY <1>2, <1>4, <3>2
  <2>2. u \in Tidy
    BY <1>5, <2>1 DEF Tidy
  <2>3. LoadedKey(d) = u
    BY <1>7, <2>2, SetKeyOfPack
  <2>4. u[i] = <<"*">>
    BY <1>4
  <2>5. "*" \in Range(<<"*">>)
    BY DEF Range
  <2> QED
    BY <2>3, <2>4, <2>5 DEF IsPattern
<1> QED
    BY <1>8, <1>9, <1>10

-----------------------------------------------------------------------------
(* The index.                                                              *)

\* A document that is loaded under the key it is stored under, if at all.
Loadable(d) == NoNumber(d) \/ NoColon(d)

\* Each key of an index ix over the documents ds is that of a document of its
\* own.
IndexInv(ds, ix) ==
    /\ ds \in [Ids -> Documents \cup {NoDoc}]
    /\ \A k \in DOMAIN ix : /\ k \in Tidy /\ ~IsPattern(k)
                            /\ ix[k] \in Ids /\ ds[ix[k]] # NoDoc
                            /\ Loadable(ds[ix[k]]) => k = StoredKey(ds[ix[k]])
    /\ \A k, l \in DOMAIN ix : ix[k] = ix[l] => k = l

AllIndexed(ds, ix) == \A i \in Ids : ds[i] # NoDoc => \E k \in DOMAIN ix : ix[k] = i

\* The index with another key.
Put(ix, k, i) == [l \in DOMAIN ix \cup {k} |-> IF l = k THEN i ELSE ix[l]]

\* What an operation leaves of both.
KeepsIndex(ds, ix, es, jx) ==
    IndexInv(es, jx) /\ (AllIndexed(ds, ix) => AllIndexed(es, jx))

\* A new document, under the key that its fields give.
LEMMA CreateKeeps ==
    ASSUME NEW ds, NEW ix, IndexInv(ds, ix), NEW d \in Documents, NEW i \in Ids, ds[i] = NoDoc,
           NEW k, k \notin DOMAIN ix, ~IsPattern(k), k = StoredKey(d),
           NEW es, es = [ds EXCEPT ![i] = d],
           NEW jx, jx = Put(ix, k, i)
    PROVE  KeepsIndex(ds, ix, es, jx)
<1>1. d # NoDoc /\ k \in Tidy
    BY DocumentHas, StoredKeyFacts
<1>2. /\ ds \in [Ids -> Documents \cup {NoDoc}]
      /\ \A l \in DOMAIN ix : /\ l \in Tidy /\ ~IsPattern(l)
                              /\ ix[l] \in Ids /\ ds[ix[l]] # NoDoc
                              /\ Loadable(ds[ix[l]]) => l = StoredKey(ds[ix[l]])
      /\ \A l, m \in DOMAIN ix : ix[l] = ix[m] => l = m
    BY DEF IndexInv
<1>3. /\ es \in [Ids -> Documents \cup {NoDoc}]
      /\ es[i] = d /\ \A j \in Ids : j # i => es[j] = ds[j]
    BY <1>2
<1>4. DOMAIN jx = DOMAIN ix \cup {k} /\ jx[k] = i /\ \A l \in DOMAIN ix : jx[l] = ix[l]
    BY DEF Put
<1>5. \A l \in DOMAIN ix : ix[l] # i
    BY <1>2
<1>6. ASSUME NEW l \in DOMAIN jx
      PROVE  /\ l \in Tidy /\ ~IsPattern(l) /\ jx[l] \in Ids /\ es[jx[l]] # NoDoc
             /\ Loadable(es[jx[l]]) => l = StoredKey(es[jx[l]])
  <2>1. CASE l = k
    BY <1>1, <1>3, <1>4, <2>1
  <2>2. CASE l \in DOMAIN ix
    BY <1>2, <1>3, <1>4, <1>5, <2>2
  <2> QED
    BY <1>4, <2>1, <2>2
<1>7. \A l, m \in DOMAIN jx : jx[l] = jx[m] => l = m
    BY <1>2, <1>4, <1>5
<1>8. ASSUME AllIndexed(ds, ix), NEW j \in Ids, es[j] # NoDoc
      PROVE  \E l \in DOMAIN jx : jx[l] = j
  <2>1. CASE j = i
    BY <1>4, <2>1
  <2>2. CASE j # i
    <3>1. PICK l \in DOMAIN ix : ix[l] = j
      BY <1>3, <1>8, <2>2 DEF AllIndexed
    <3> QED
      BY <1>4, <3>1
  <2> QED
    BY <2>1, <2>2
<1> QED
    BY <1>3, <1>6, <1>7, <1>8 DEF IndexInv, AllIndexed, KeepsIndex

\* Another text for a document with the same key.
LEMMA UpdateKeeps ==
    ASSUME NEW ds, NEW ix, IndexInv(ds, ix), NEW d \in Documents,
           NEW k \in DOMAIN ix, k = StoredKey(d), NEW es, es = [ds EXCEPT ![ix[k]] = d]
    PROVE  KeepsIndex(ds, ix, es, ix)
<1>1. d # NoDoc
    BY DocumentHas
<1>2. /\ ds \in [Ids -> Documents \cup {NoDoc}]
      /\ \A l \in DOMAIN ix : /\ l \in Tidy /\ ~IsPattern(l)
                              /\ ix[l] \in Ids /\ ds[ix[l]] # NoDoc
                              /\ Loadable(ds[ix[l]]) => l = StoredKey(ds[ix[l]])
      /\ \A l, m \in DOMAIN ix : ix[l] = ix[m] => l = m
    BY DEF IndexInv
<1>3. /\ es \in [Ids -> Documents \cup {NoDoc}]
      /\ es[ix[k]] = d /\ \A j \in Ids : j # ix[k] => es[j] = ds[j]
    BY <1>2
<1>4. ASSUME NEW l \in DOMAIN ix
      PROVE  /\ l \in Tidy /\ ~IsPattern(l) /\ ix[l] \in Ids /\ es[ix[l]] # NoDoc
             /\ Loadable(es[ix[l]]) => l = StoredKey(es[ix[l]])
  <2>1. CASE l = k
    BY <1>1, <1>2, <1>3, <2>1
  <2>2. CASE l # k
    <3>1. ix[l] # ix[k]
      BY <1>2, <2>2
    <3> QED
      BY <1>2, <1>3, <3>1
  <2> QED
    BY <2>1, <2>2
<1>5. ASSUME AllIndexed(ds, ix), NEW j \in Ids, es[j] # NoDoc
      PROVE  \E l \in DOMAIN ix : ix[l] = j
    BY <1>3, <1>5 DEF AllIndexed
<1> QED
    BY <1>2, <1>3, <1>4, <1>5 DEF IndexInv, AllIndexed, KeepsIndex

\* A document and its key are gone.
LEMMA DeleteKeeps ==
    ASSUME NEW ds, NEW ix, IndexInv(ds, ix), NEW k \in DOMAIN ix,
           NEW es, es = [ds EXCEPT ![ix[k]] = NoDoc],
           NEW jx, jx = Restrict(ix, DOMAIN ix \ {k})
    PROVE  KeepsIndex(ds, ix, es, jx)
<1>2. /\ ds \in [Ids -> Documents \cup {NoDoc}]
      /\ \A l \in DOMAIN ix : /\ l \in Tidy /\ ~IsPattern(l)
                              /\ ix[l] \in Ids /\ ds[ix[l]] # NoDoc
                              /\ Loadable(ds[ix[l]]) => l = StoredKey(ds[ix[l]])
      /\ \A l, m \in DOMAIN ix : ix[l] = ix[m] => l = m
    BY DEF IndexInv
<1>3. /\ es \in [Ids -> Documents \cup {NoDoc}]
      /\ es[ix[k]] = NoDoc /\ \A j \in Ids : j # ix[k] => es[j] = ds[j]
    BY <1>2
<1>4. DOMAIN jx = DOMAIN ix \ {k} /\ \A l \in DOMAIN jx : jx[l] = ix[l] /\ ix[l] # ix[k]
    BY <1>2 DEF Restrict
<1>5. ASSUME NEW l \in DOMAIN jx
      PROVE  /\ l \in Tidy /\ ~IsPattern(l) /\ jx[l] \in Ids /\ es[jx[l]] # NoDoc
             /\ Loadable(es[jx[l]]) => l = StoredKey(es[jx[l]])
    BY <1>2, <1>3, <1>4
<1>6. \A l, m \in DOMAIN jx : jx[l] = jx[m] => l = m
    BY <1>2, <1>4
<1>7. ASSUME AllIndexed(ds, ix), NEW j \in Ids, es[j] # NoDoc
      PROVE  \E l \in DOMAIN jx : jx[l] = j
  <2>1. j # ix[k] /\ ds[j] # NoDoc
    BY <1>3, <1>7
  <2>2. PICK l \in DOMAIN ix : ix[l] = j
    BY <1>7, <2>1 DEF AllIndexed
  <2> QED
    BY <1>4, <2>1, <2>2
<1> QED
    BY <1>3, <1>5, <1>6, <1>7 DEF IndexInv, AllIndexed, KeepsIndex

\* The index of documents that load: their keys are different.
LEMMA LoadKeeps ==
    ASSUME docs \in [Ids -> Documents \cup {NoDoc}], NEW S, S \subseteq Stored, Loads(S)
    PROVE  IndexInv(docs, IndexOf(S)) /\ (S = Stored => AllIndexed(docs, IndexOf(S)))
<1> DEFINE ix == IndexOf(S)
<1>1. \A i \in S : i \in Ids /\ docs[i] # NoDoc /\ docs[i] \in Documents
    BY DEF Stored
<1>2. /\ \A i \in S : ~IsPattern(LoadedKey(docs[i]))
      /\ \A i, j \in S : LoadedKey(docs[i]) = LoadedKey(docs[j]) => i = j
    BY DEF Loads
<1>3. /\ DOMAIN ix = {LoadedKey(docs[i]) : i \in S}
      /\ \A k \in DOMAIN ix : ix[k] = CHOOSE i \in S : LoadedKey(docs[i]) = k
    BY DEF IndexOf
<1> HIDE DEF ix
<1>4. \A k \in DOMAIN ix : ix[k] \in S /\ LoadedKey(docs[ix[k]]) = k
    BY <1>3
<1>5. ASSUME NEW k \in DOMAIN ix
      PROVE  /\ k \in Tidy /\ ~IsPattern(k) /\ ix[k] \in Ids /\ docs[ix[k]] # NoDoc
             /\ Loadable(docs[ix[k]]) => k = StoredKey(docs[ix[k]])
  <2>1. ix[k] \in S /\ LoadedKey(docs[ix[k]]) = k /\ docs[ix[k]] \in Documents
    BY <1>1, <1>4
  <2>2. ~IsPattern(k)
    BY <1>2, <2>1
  <2> QED
    BY <1>1, <2>1, <2>2, LoadedKeyFacts DEF Loadable
<1>6. \A k, l \in DOMAIN ix : ix[k] = ix[l] => k = l
    BY <1>4
<1>7. \A i \in S : \E k \in DOMAIN ix : ix[k] = i
  <2> TAKE i \in S
  <2>1. LoadedKey(docs[i]) \in DOMAIN ix
    BY <1>3
  <2>2. ix[LoadedKey(docs[i])] = i
    BY <1>2, <1>4, <2>1
  <2> QED
    BY <2>1, <2>2
<1>8. S = Stored => AllIndexed(docs, ix)
    BY <1>7 DEF AllIndexed, Stored
<1> QED
    BY <1>5, <1>6, <1>8 DEF IndexInv, ix

\* While all are in the index, all documents without numbers load.
LEMMA AllLoad ==
    ASSUME IndexInv(docs, index), AllIndexed(docs, index),
           \A i \in Stored : NoNumber(docs[i])
    PROVE  \A S \in SUBSET Stored : Loads(S)
<1>1. ASSUME NEW i \in Stored
      PROVE  LoadedKey(docs[i]) \in DOMAIN index /\ index[LoadedKey(docs[i])] = i
             /\ ~IsPattern(LoadedKey(docs[i]))
  <2>1. i \in Ids /\ docs[i] # NoDoc /\ docs[i] \in Documents
    BY DEF Stored, IndexInv
  <2>2. PICK k \in DOMAIN index : index[k] = i
    BY <2>1 DEF AllIndexed
  <2>3. k = StoredKey(docs[i]) /\ ~IsPattern(k)
    BY <2>2 DEF IndexInv, Loadable
  <2>4. LoadedKey(docs[i]) = k
    BY <2>1, <2>3, LoadedKeyFacts
  <2> QED
    BY <2>2, <2>3, <2>4
<1> SUFFICES ASSUME NEW S \in SUBSET Stored PROVE Loads(S)
    OBVIOUS
<1>2. \A i \in S : i \in Stored
    OBVIOUS
<1>3. \A i, j \in S : LoadedKey(docs[i]) = LoadedKey(docs[j]) => i = j
  <2> TAKE i, j \in S
  <2>1. index[LoadedKey(docs[i])] = i /\ index[LoadedKey(docs[j])] = j
    BY <1>1
  <2> QED
    BY <2>1
<1> QED
    BY <1>1, <1>2, <1>3 DEF Loads

-----------------------------------------------------------------------------
(* The inductive invariant.                                                *)

\* The index is one over the stored documents, with all of them unless an
\* opening of the collection stopped; what else is a key has KeySize fields
\* without ':' and without blanks at their ends.
KeysInv ==
    /\ IndexInv(docs, index)
    /\ loaded => AllIndexed(docs, index)
    /\ key \in Tidy /\ rows \subseteq Tidy /\ filter \in Text
    /\ loaded \in BOOLEAN /\ ended \in BOOLEAN

\* The list has keys of the index only.
LEMMA ListHasKeys ==
    ASSUME NEW keypat, NEW keys
    PROVE  GetKeyList(keypat, keys) \subseteq keys
<1> DEFINE list == {k \in keys : CompareTemplate(SetKey(keypat), k)}
<1>1. GetKeyList(keypat, keys) = list \/ (list # {} /\ GetKeyList(keypat, keys) = {CHOOSE k \in list : TRUE})
    BY DEF GetKeyList
<1>2. list # {} => (CHOOSE k \in list : TRUE) \in list
    OBVIOUS
<1>3. list \subseteq keys
    OBVIOUS
<1> HIDE DEF list
<1> QED
    BY <1>1, <1>2, <1>3

\* A key packed is the key again; a record that can be saved under it is
\* stored under it.
LEMMA AcceptsFacts ==
    ASSUME NEW k \in Tidy, NEW d \in Documents
    PROVE  /\ SetKey(Pack(k)) = k
           /\ Accepts(k, d) <=> Pack(k) = Pack(KeyFields(d)) /\ ~IsPattern(k)
           /\ Accepts(k, d) => k = StoredKey(d) /\ ~IsPattern(k)
<1>1. SetKey(Pack(k)) = k
    BY SetKeyOfPack
<1>2. GetKeyFromJson(d) = Pack(KeyFields(d))
    BY StoredKeyFacts
<1>3. Accepts(k, d) <=> Pack(k) = Pack(KeyFields(d)) /\ ~IsPattern(k)
    BY <1>1, <1>2 DEF Accepts, MayStore
<1>4. Accepts(k, d) => k = StoredKey(d)
    BY <1>1, <1>2, <1>3 DEF StoredKey
<1> QED
    BY <1>1, <1>3, <1>4

\* The invariant holds when an empty collection has been opened.
THEOREM KeysInitInv == KeysInit => KeysInv
<1> SUFFICES ASSUME KeysInit PROVE KeysInv
    OBVIOUS
<1> USE DEF KeysInit
<1>1. DOMAIN index = {}
    OBVIOUS
<1>2. \A i \in Ids : docs[i] = NoDoc
    OBVIOUS
<1>3. docs \in [Ids -> Documents \cup {NoDoc}]
    OBVIOUS
<1>4. IndexInv(docs, index) /\ AllIndexed(docs, index)
    BY <1>1, <1>2, <1>3 DEF IndexInv, AllIndexed
<1>5. key \in Tidy
    BY StarIsPlain DEF Tidy
<1> QED
    BY <1>4, <1>5, StarIsPlain DEF KeysInv

\* Every action keeps it.
THEOREM KeysNextInv == KeysInv /\ [KeysNext]_keysVars => KeysInv'
<1> SUFFICES ASSUME KeysInv, [KeysNext]_keysVars PROVE KeysInv'
    OBVIOUS
<1> USE DEF KeysInv
<1>1. ASSUME NEW d \in Documents, CmInsert(d) PROVE KeysInv'
  <2>1. key' = StoredKey(d) /\ key' \in Tidy /\ UNCHANGED <<filter, loaded, ended>>
    BY <1>1, StoredKeyFacts DEF CmInsert, StoredKey
  <2>2. CASE ~IsPattern(key') /\ key' \notin DOMAIN index /\ Create(d) /\ ChangeKeyList
    <3>1. PICK i \in Ids \ Stored :
             /\ docs' = [docs EXCEPT ![i] = d]
             /\ index' = Put(index, key', i)
      BY <2>2 DEF Create, Put
    <3>2. i \in Ids /\ docs[i] = NoDoc
      BY DEF Stored
    <3>3. IndexInv(docs', index') /\ (AllIndexed(docs, index) => AllIndexed(docs', index'))
      <4>1. IndexInv(docs, index) /\ ~IsPattern(key') /\ key' \notin DOMAIN index
        BY <2>2
      <4>2. KeepsIndex(docs, index, docs', index')
        BY <2>1, <3>1, <3>2, <4>1, CreateKeeps
      <4> QED
        BY <4>2 DEF KeepsIndex
    <3>4. rows' \subseteq Tidy
      <4>1. rows' \subseteq DOMAIN index'
        BY <2>2, ListHasKeys DEF ChangeKeyList
      <4> QED
        BY <3>3, <4>1 DEF IndexInv
    <3> QED
      BY <2>1, <3>3, <3>4
  <2>3. CASE UNCHANGED <<docs, index, rows>>
    BY <2>1, <2>3
  <2> QED
    BY <1>1, <2>2, <2>3 DEF CmInsert, MayStore
<1>2. ASSUME NEW d \in Documents, CmUpdate(d) PROVE KeysInv'
  <2>1. key' = key /\ UNCHANGED <<filter, rows, loaded, ended>>
    BY <1>2, AcceptsFacts DEF CmUpdate
  <2>2. Accepts(key, d) => key' = StoredKey(d) /\ ~IsPattern(key')
    BY <2>1, AcceptsFacts
  <2>3. CASE Accepts(key, d) /\ key' \in DOMAIN index /\ docs' = [docs EXCEPT ![index[key']] = d] /\ index' = index
    <3>1. IndexInv(docs', index') /\ (AllIndexed(docs, index) => AllIndexed(docs', index'))
      <4>1. KeepsIndex(docs, index, docs', index)
        BY <2>2, <2>3, UpdateKeeps
      <4> QED
        BY <2>3, <4>1 DEF KeepsIndex
    <3> QED
      BY <2>1, <3>1
  <2>4. CASE Accepts(key, d) /\ key' \notin DOMAIN index /\ Create(d)
    <3>1. PICK i \in Ids \ Stored :
             /\ docs' = [docs EXCEPT ![i] = d]
             /\ index' = Put(index, key', i)
      BY <2>4 DEF Create, Put
    <3>2. i \in Ids /\ docs[i] = NoDoc
      BY DEF Stored
    <3>3. IndexInv(docs', index') /\ (AllIndexed(docs, index) => AllIndexed(docs', index'))
      <4>1. IndexInv(docs, index) /\ ~IsPattern(key') /\ key' \notin DOMAIN index /\ key' = StoredKey(d)
        BY <2>2, <2>4
      <4>2. KeepsIndex(docs, index, docs', index')
        BY <3>1, <3>2, <4>1, CreateKeeps
      <4> QED
        BY <4>2 DEF KeepsIndex
    <3> QED
      BY <2>1, <3>3
  <2>5. CASE UNCHANGED <<docs, index>>
    BY <2>1, <2>5
  <2> QED
    BY <1>2, <2>3, <2>4, <2>5 DEF CmUpdate
<1>3. ASSUME NEW row \in rows, CmShow(row) PROVE KeysInv'
  <2>1. row \in [Part -> Text]
    BY DEF Tidy, Plain
  <2>2. key' \in Tidy
    BY <1>3, <2>1, JoinedThins, SetKeyTyped DEF CmShow
  <2> QED
    BY <1>3, <2>2 DEF CmShow
<1>4. ASSUME CmDelete PROVE KeysInv'
  <2>1. IndexInv(docs', index') /\ (AllIndexed(docs, index) => AllIndexed(docs', index'))
    <3>1. /\ IndexInv(docs, index) /\ key \in DOMAIN index
          /\ docs' = [docs EXCEPT ![index[key]] = NoDoc]
          /\ index' = Restrict(index, DOMAIN index \ {key})
      BY <1>4 DEF CmDelete
    <3>2. KeepsIndex(docs, index, docs', index')
      BY <3>1, DeleteKeeps
    <3> QED
      BY <3>2 DEF KeepsIndex
  <2>2. rows' \subseteq DOMAIN index'
    BY <1>4, ListHasKeys DEF CmDelete, ChangeKeyList
  <2>3. rows' \subseteq Tidy
    BY <2>1, <2>2 DEF IndexInv
  <2> QED
    BY <1>4, <2>1, <2>3 DEF CmDelete
<1>5. ASSUME NEW text \in Filters, Filter(text) PROVE KeysInv'
  <2>1. text \in Text /\ ALLKEY \in Text
    BY RecordKeysConstants, StarIsPlain
  <2>2. filter' \in Text /\ UNCHANGED <<docs, index, key, loaded>> /\ ended' \in BOOLEAN
    BY <1>5, <2>1 DEF Filter
  <2>3. rows' \subseteq DOMAIN index \/ rows' = rows
    BY <1>5, ListHasKeys DEF Filter
  <2>4. rows' \subseteq Tidy
    BY <2>3 DEF IndexInv
  <2> QED
    BY <2>2, <2>4
<1>6. ASSUME LoadProject PROVE KeysInv'
  <2>1. docs \in [Ids -> Documents \cup {NoDoc}]
    BY DEF IndexInv
  <2>2. IndexInv(docs', index') /\ AllIndexed(docs', index')
    BY <1>6, <2>1, LoadKeeps DEF LoadProject
  <2>3. rows' \subseteq DOMAIN index'
    BY <1>6, ListHasKeys DEF LoadProject
  <2>4. rows' \subseteq Tidy
    BY <2>2, <2>3 DEF IndexInv
  <2>5. key' \in Tidy
    BY <1>6, <2>4 DEF LoadProject
  <2> QED
    BY <1>6, <2>2, <2>4, <2>5, StarIsPlain DEF LoadProject
<1>7. ASSUME LoadStops PROVE KeysInv'
  <2>1. docs \in [Ids -> Documents \cup {NoDoc}]
    BY DEF IndexInv
  <2>2. PICK i \in Stored, S \in SUBSET Stored :
           Loads(S) /\ index' = IndexOf(S) /\ key' = LoadedKey(docs[i])
    BY <1>7 DEF LoadStops
  <2>3. S \subseteq Stored /\ docs' = docs
    BY <1>7 DEF LoadStops
  <2>4. IndexInv(docs', index')
    BY <2>1, <2>2, <2>3, LoadKeeps
  <2>5. docs[i] \in Documents
    BY <2>1 DEF Stored
  <2>6. key' \in Tidy
    BY <2>2, <2>5, LoadedKeyFacts
  <2> QED
    BY <1>7, <2>4, <2>6 DEF LoadStops
<1>8. CASE UNCHANGED keysVars
    BY <1>8 DEF keysVars
<1> QED
    BY <1>1, <1>2, <1>3, <1>4, <1>5, <1>6, <1>7, <1>8 DEF KeysNext

\* So it is an invariant.
THEOREM KeysInvariant == KeysSpec => []KeysInv
<1>1. KeysInv /\ [KeysNext]_keysVars => KeysInv'
    BY KeysNextInv
<1> QED
    BY <1>1, KeysInitInv, PTL DEF KeysSpec

-----------------------------------------------------------------------------
(* Wildcards.                                                              *)

\* What the first i characters of a part may stand for.
Reaching(g, part, field) ==
    /\ g[0] = {0}
    /\ \A i \in 1..Len(part) :
          g[i] = IF part[i] = "*"
                 THEN {n \in 0..Len(field) : \E m \in g[i - 1] : m <= n}
                 ELSE {n \in 1..Len(field) : n - 1 \in g[i - 1] /\ MatchesChar(part[i], field[n])}

LEMMA WildLoop ==
    ASSUME NEW part \in Text, NEW field \in Text
    PROVE  \E g \in [0..Len(part) -> SUBSET (0..Len(field))] :
              Reaching(g, part, field) /\ (Wild(part, field) <=> Len(field) \in g[Len(part)])
<1> DEFINE X == SUBSET (0..Len(field))
           After(v, i) == IF part[i] = "*"
                          THEN {n \in 0..Len(field) : \E m \in v : m <= n}
                          ELSE {n \in 1..Len(field) : n - 1 \in v /\ MatchesChar(part[i], field[n])}
           Step == [k \in 1..Len(part) |-> [v \in X |-> After(v, k)]]
           lengths[i \in 0..Len(part)] ==
               IF i = 0 THEN {0}
               ELSE IF part[i] = "*"
                    THEN {n \in 0..Len(field) : \E m \in lengths[i - 1] : m <= n}
                    ELSE {n \in 1..Len(field) : n - 1 \in lengths[i - 1]
                                                  /\ MatchesChar(part[i], field[n])}
<1>1. Len(part) \in Nat /\ Len(field) \in Nat
    BY TextHas
<1>2. \A k : \A v \in X : After(v, k) \in X
  <2>1. 1..Len(field) \subseteq 0..Len(field)
    BY <1>1
  <2> QED
    BY <2>1
<1>3. {0} \in X
    BY <1>1
<1>4. PICK g \in [0..Len(part) -> X] : Recursive(g, Len(part), {0}, Step)
  <2>1. Step \in [1..Len(part) -> [X -> X]]
    BY <1>2
  <2> HIDE DEF Step, X
  <2> QED
    BY <1>1, <1>3, <2>1, RecursionUpTo
<1>5. g = [k \in 0..Len(part) |-> IF k = 0 THEN {0} ELSE After(g[k - 1], k)]
  <2>1. \A k \in 1..Len(part), v \in X : Step[k][v] = After(v, k)
    OBVIOUS
  <2> HIDE DEF Step, After, X
  <2>2. g = [k \in 0..Len(part) |-> IF k = 0 THEN {0} ELSE Step[k][g[k - 1]]]
    BY <1>4 DEF Recursive
  <2>3. \A k \in 0..Len(part) : k # 0 => k \in 1..Len(part) /\ k - 1 \in 0..Len(part)
    BY <1>1
  <2>4. \A k \in 0..Len(part) : g[k] = IF k = 0 THEN {0} ELSE After(g[k - 1], k)
    <3> TAKE k \in 0..Len(part)
    <3>1. g[k] = IF k = 0 THEN {0} ELSE Step[k][g[k - 1]]
      BY <2>2
    <3>2. k # 0 => Step[k][g[k - 1]] = After(g[k - 1], k)
      BY <2>1, <2>3
    <3> QED
      BY <3>1, <3>2
  <2> QED
    BY <2>2, <2>4
<1>6. lengths = [k \in 0..Len(part) |-> IF k = 0 THEN {0} ELSE After(lengths[k - 1], k)]
    BY <1>5
<1>7. Wild(part, field) <=> Len(field) \in lengths[Len(part)]
    BY DEF Wild
<1>8. \A k, v : After(v, k) = IF part[k] = "*"
                              THEN {n \in 0..Len(field) : \E m \in v : m <= n}
                              ELSE {n \in 1..Len(field) : n - 1 \in v /\ MatchesChar(part[k], field[n])}
    OBVIOUS
<1> HIDE DEF lengths, Step, After, X
<1>9. lengths[0] = {0} /\ \A k \in 1..Len(part) : lengths[k] = After(lengths[k - 1], k)
  <2>1. 0 \in 0..Len(part) /\ \A k \in 1..Len(part) : k \in 0..Len(part) /\ k # 0
    BY <1>1
  <2> QED
    BY <1>6, <2>1, Zenon
<1>10. \A k \in 0..Len(part) : lengths[k] \in X
  <2> DEFINE Good == {k \in 0..Len(part) : lengths[k] \in X}
  <2>1. 0 \in Good
    <3>1. 0 \in 0..Len(part)
      BY <1>1
    <3>2. lengths[0] \in X
      BY <1>3, <1>9, Zenon
    <3> QED
      BY <3>1, <3>2
  <2>2. ASSUME NEW k \in 1..Len(part), k - 1 \in Good PROVE k \in Good
    <3>1. k \in 0..Len(part) /\ lengths[k - 1] \in X
      BY <1>1, <2>2
    <3> QED
      BY <1>2, <1>9, <3>1
  <2> HIDE DEF Good
  <2>3. \A k \in 0..Len(part) : k \in Good
    BY <1>1, <2>1, <2>2, InductionUpTo
  <2> QED
    BY <2>3 DEF Good
<1>11. lengths \in [0..Len(part) -> X]
    BY <1>6, <1>10
<1>12. Reaching(lengths, part, field)
    BY <1>8, <1>9 DEF Reaching
<1> QED
    BY <1>7, <1>11, <1>12 DEF X

\* Character by character.
Along(part, field, i) ==
    i <= Len(field) /\ \A j \in 1..i : MatchesChar(part[j], field[j])

\* In front of the first '*' there is one way.
LEMMA ReachingAlong ==
    ASSUME NEW part \in Text, NEW field \in Text, NEW g, Reaching(g, part, field),
           NEW u \in 0..Len(part), \A i \in 1..u : part[i] # "*"
    PROVE  g[u] \subseteq {u} /\ (u \in g[u] <=> Along(part, field, u))
<1> DEFINE Good == {i \in 0..u : g[i] \subseteq {i} /\ (i \in g[i] <=> Along(part, field, i))}
<1>1. Len(part) \in Nat /\ Len(field) \in Nat /\ u \in Nat
    BY TextHas
<1>2. 0 \in Good
  <2>1. g[0] = {0}
    BY DEF Reaching
  <2>2. Along(part, field, 0)
    BY <1>1 DEF Along
  <2> QED
    BY <1>1, <2>1, <2>2
<1>3. ASSUME NEW i \in 1..u, i - 1 \in Good PROVE i \in Good
  <2>1. i \in 0..u /\ i \in Nat /\ i \in 1..Len(part) /\ part[i] # "*"
    BY <1>1
  <2>2. g[i] = {n \in 1..Len(field) : n - 1 \in g[i - 1] /\ MatchesChar(part[i], field[n])}
    BY <2>1 DEF Reaching
  <2>3. g[i - 1] \subseteq {i - 1} /\ (i - 1 \in g[i - 1] <=> Along(part, field, i - 1))
    BY <1>3
  <2>4. g[i] \subseteq {i}
    <3> SUFFICES ASSUME NEW n \in g[i] PROVE n = i
      OBVIOUS
    <3>1. n \in 1..Len(field) /\ n - 1 = i - 1
      BY <2>2, <2>3
    <3> QED
      BY <1>1, <2>1, <3>1
  <2>5. i \in g[i] <=> i \in 1..Len(field) /\ i - 1 \in g[i - 1] /\ MatchesChar(part[i], field[i])
    BY <2>2
  <2>6. Along(part, field, i) <=> /\ i <= Len(field) /\ Along(part, field, i - 1)
                                  /\ MatchesChar(part[i], field[i])
    <3>1. \A j : j \in 1..i <=> j \in 1..(i - 1) \/ j = i
      BY <2>1
    <3>2. i <= Len(field) => i - 1 <= Len(field)
      BY <1>1, <2>1
    <3> QED
      BY <3>1, <3>2 DEF Along
  <2>7. i \in 1..Len(field) <=> i <= Len(field)
    BY <1>1, <2>1
  <2> HIDE DEF Good
  <2>8. i \in g[i] <=> Along(part, field, i)
    BY <2>3, <2>5, <2>6, <2>7
  <2> QED
    BY <2>1, <2>4, <2>8 DEF Good
<1> HIDE DEF Good
<1>4. \A i \in 0..u : i \in Good
    BY <1>1, <1>2, <1>3, InductionUpTo
<1>5. u \in 0..u
    BY <1>1
<1> QED
    BY <1>4, <1>5 DEF Good

\* What no beginning of the part can stand for, no part can.
LEMMA ReachingStops ==
    ASSUME NEW part \in Text, NEW field \in Text, NEW g, Reaching(g, part, field),
           NEW u \in 0..Len(part), g[u] = {}
    PROVE  g[Len(part)] = {}
<1> DEFINE Good == {i \in 0..Len(part) : u <= i => g[i] = {}}
<1>1. Len(part) \in Nat /\ u \in Nat
    BY TextHas
<1>2. 0 \in Good
    BY <1>1
<1>3. ASSUME NEW i \in 1..Len(part), i - 1 \in Good PROVE i \in Good
  <2>1. i \in 0..Len(part) /\ (u <= i => u = i \/ u <= i - 1)
    BY <1>1
  <2>2. g[i] = IF part[i] = "*"
               THEN {n \in 0..Len(field) : \E m \in g[i - 1] : m <= n}
               ELSE {n \in 1..Len(field) : n - 1 \in g[i - 1] /\ MatchesChar(part[i], field[n])}
    BY DEF Reaching
  <2>3. u <= i - 1 => g[i - 1] = {}
    BY <1>3
  <2>4. g[i - 1] = {} => g[i] = {}
    BY <2>2
  <2> QED
    BY <2>1, <2>3, <2>4
<1> HIDE DEF Good
<1>4. \A i \in 0..Len(part) : i \in Good
    BY <1>1, <1>2, <1>3, InductionUpTo
<1>5. Len(part) \in 0..Len(part) /\ u <= Len(part)
    BY <1>1
<1> QED
    BY <1>4, <1>5 DEF Good

\* The first '*' of a part, if it has one.
LEMMA FirstStar ==
    ASSUME NEW part \in Text
    PROVE  \/ \A i \in 1..Len(part) : part[i] # "*"
           \/ \E u \in 0..Len(part) : /\ u + 1 \in 1..Len(part) /\ part[u + 1] = "*"
                                      /\ \A i \in 1..u : part[i] # "*"
                                      /\ Min({i \in DOMAIN part : part[i] = "*"}) = u + 1
<1> DEFINE stars == {i \in DOMAIN part : part[i] = "*"}
<1>1. Len(part) \in Nat /\ DOMAIN part = 1..Len(part)
    BY TextHas
<1>2. /\ \A i \in stars : i \in 1..Len(part) /\ part[i] = "*"
      /\ \A i \in 1..Len(part) : part[i] = "*" => i \in stars
      /\ stars \subseteq Nat
    BY <1>1
<1> HIDE DEF stars
<1>3. CASE stars = {}
    BY <1>2, <1>3
<1>4. CASE stars # {}
  <2> DEFINE n == Min(stars)
             u == n - 1
  <2>1. n \in stars /\ \A i \in stars : n <= i
    BY <1>2, <1>4, MinIsLeast
  <2> HIDE DEF n
  <2>2. n \in 1..Len(part) /\ part[n] = "*"
    BY <1>2, <2>1
  <2>3. u \in 0..Len(part) /\ u + 1 = n
    BY <1>1, <2>2
  <2>4. ASSUME NEW i \in 1..u PROVE part[i] # "*"
    <3>1. i \in 1..Len(part) /\ ~(n <= i)
      BY <1>1, <2>2
    <3> QED
      BY <1>2, <2>1, <3>1
  <2> HIDE DEF u
  <2>5. Min(stars) = u + 1
    BY <2>3 DEF n
  <2> QED
    BY <2>2, <2>3, <2>4, <2>5 DEF stars
<1> QED
    BY <1>3, <1>4

\* compareTemplate takes what the wildcards stand for, except where '*' stands
\* for nothing, and no more if '*' is at the end.
LEMMA MatchIsWild ==
    ASSUME NEW part \in Text, NEW field \in Text
    PROVE  /\ Wild(part, field) /\ (part = <<"*">> \/ Len(part) <= Len(field))
                 => MatchesPart(part, field)
           /\ MatchesPart(part, field) /\ StarsAtEnd(part) => Wild(part, field)
<1> DEFINE stars == {i \in DOMAIN part : part[i] = "*"}
           upTo == IF stars = {} THEN Len(part) ELSE Min(stars) - 1
<1>1. /\ Len(part) \in Nat /\ Len(field) \in Nat /\ DOMAIN part = 1..Len(part)
      /\ Len(part) \in 0..Len(part) /\ Len(field) \in 0..Len(field)
  <2>1. Len(part) \in Nat /\ Len(field) \in Nat /\ DOMAIN part = 1..Len(part)
    BY TextHas
  <2> QED
    BY <2>1
<1>2. PICK g \in [0..Len(part) -> SUBSET (0..Len(field))] :
         Reaching(g, part, field) /\ (Wild(part, field) <=> Len(field) \in g[Len(part)])
    BY WildLoop
<1>3. MatchesPart(part, field) <=>
         \/ part = <<"*">>
         \/ /\ Len(part) <= Len(field)
            /\ \A i \in 1..upTo : MatchesChar(part[i], field[i])
            /\ stars = {} => Len(field) <= upTo
    BY DEF MatchesPart
<1>4. CASE \A i \in 1..Len(part) : part[i] # "*"
  <2>1. stars = {}
    BY <1>1, <1>4
  <2>2. upTo = Len(part)
    BY <2>1
  <2> HIDE DEF stars, upTo
  <2>3. /\ g[Len(part)] \subseteq {Len(part)}
        /\ Len(part) \in g[Len(part)] <=> Along(part, field, Len(part))
    BY <1>1, <1>2, <1>4, ReachingAlong
  <2>4. part # <<"*">>
    <3>1. <<"*">>[1] = "*" /\ 1 \in 1..Len(<<"*">>)
      OBVIOUS
    <3> QED
      BY <1>4, <3>1
  <2>5. Wild(part, field) <=> Len(field) = Len(part) /\ Along(part, field, Len(part))
    BY <1>2, <2>3
  <2>6. MatchesPart(part, field) <=> Len(field) = Len(part) /\ Along(part, field, Len(part))
    BY <1>1, <1>3, <2>1, <2>2, <2>4 DEF Along
  <2> QED
    BY <2>5, <2>6
<1>5. ASSUME NEW u \in 0..Len(part), u + 1 \in 1..Len(part), part[u + 1] = "*",
             \A i \in 1..u : part[i] # "*", Min(stars) = u + 1
      PROVE  /\ Wild(part, field) /\ (part = <<"*">> \/ Len(part) <= Len(field))
                   => MatchesPart(part, field)
             /\ MatchesPart(part, field) /\ StarsAtEnd(part) => Wild(part, field)
  <2>1. stars # {} /\ u + 1 \in DOMAIN part
    BY <1>1, <1>5
  <2>2. upTo = u
    <3> DEFINE n == Min(stars)
    <3>1. n = u + 1 /\ upTo = n - 1
      BY <1>5, <2>1
    <3> HIDE DEF n, upTo
    <3>2. u \in Nat
      BY <1>1
    <3> QED
      BY <3>1, <3>2
  <2> HIDE DEF stars, upTo
  <2>3. g[u] \subseteq {u} /\ (u \in g[u] <=> Along(part, field, u))
    BY <1>2, <1>5, ReachingAlong
  <2>4. ASSUME Wild(part, field), part = <<"*">> \/ Len(part) <= Len(field)
        PROVE  MatchesPart(part, field)
    <3>1. g[u] # {}
      BY <1>2, <2>4, ReachingStops
    <3>2. Along(part, field, u)
      BY <2>3, <3>1
    <3> QED
      BY <1>3, <2>1, <2>2, <2>4, <3>2 DEF Along
  <2>5. ASSUME MatchesPart(part, field), StarsAtEnd(part) PROVE Wild(part, field)
    <3>1. u + 1 = Len(part)
      BY <1>5, <2>1, <2>5 DEF StarsAtEnd
    <3>2. g[Len(part)] = {n \in 0..Len(field) : \E m \in g[(u + 1) - 1] : m <= n}
      <4>1. g[u + 1] = {n \in 0..Len(field) : \E m \in g[(u + 1) - 1] : m <= n}
        BY <1>2, <1>5 DEF Reaching
      <4> QED
        BY <3>1, <4>1
    <3>3. (u + 1) - 1 = u /\ u \in Nat
      BY <1>1
    <3>4. Along(part, field, u)
      <4>1. CASE part = <<"*">>
        <5>1. Len(part) = 1
          BY <4>1
        <5>2. u = 0
          BY <3>1, <3>3, <5>1
        <5> QED
          BY <1>1, <5>2 DEF Along
      <4>2. CASE part # <<"*">>
        <5>1. Len(part) <= Len(field) /\ \A i \in 1..u : MatchesChar(part[i], field[i])
          BY <1>3, <2>2, <2>5, <4>2
        <5>2. u <= Len(field)
          BY <1>1, <3>1, <3>3, <5>1
        <5> QED
          BY <5>1, <5>2 DEF Along
      <4> QED
        BY <4>1, <4>2
    <3>5. u \in g[u] /\ u <= Len(field)
      BY <2>3, <3>4 DEF Along
    <3>6. Len(field) \in g[Len(part)]
      BY <1>1, <3>2, <3>3, <3>5
    <3> QED
      BY <1>2, <3>6
  <2> QED
    BY <2>4, <2>5
<1> HIDE DEF upTo
<1> QED
    BY <1>4, <1>5, FirstStar

\* A part without wildcards stands for itself only.
LEMMA PlainMatches ==
    ASSUME NEW part \in Text, NEW field \in Text, {"*", "?"} \cap Range(part) = {},
           MatchesPart(part, field)
    PROVE  field = part
<1> DEFINE stars == {i \in DOMAIN part : part[i] = "*"}
           upTo == IF stars = {} THEN Len(part) ELSE Min(stars) - 1
<1>1. /\ Len(part) \in Nat /\ Len(field) \in Nat /\ DOMAIN part = 1..Len(part)
      /\ \A i \in 1..Len(part) : part[i] \in Range(part)
    BY TextHas
<1>2. \A i \in 1..Len(part) : part[i] # "*" /\ part[i] # "?"
    BY <1>1
<1>3. stars = {}
    BY <1>1, <1>2
<1>4. MatchesPart(part, field) <=>
         \/ part = <<"*">>
         \/ /\ Len(part) <= Len(field)
            /\ \A i \in 1..upTo : MatchesChar(part[i], field[i])
            /\ stars = {} => Len(field) <= upTo
    BY DEF MatchesPart
<1>5. part # <<"*">>
  <2>1. <<"*">>[1] = "*" /\ 1 \in 1..Len(<<"*">>)
    OBVIOUS
  <2> QED
    BY <1>2, <2>1
<1>6. upTo = Len(part)
    BY <1>3
<1> HIDE DEF stars, upTo
<1>7. /\ Len(part) <= Len(field) /\ Len(field) <= Len(part)
      /\ \A i \in 1..Len(part) : MatchesChar(part[i], field[i])
    BY <1>3, <1>4, <1>5, <1>6
<1>8. \A i \in 1..Len(part) : part[i] = field[i]
    BY <1>2, <1>7 DEF MatchesChar
<1>9. Len(part) = Len(field)
    BY <1>1, <1>7
<1>10. part \in Seq(Char) /\ field \in Seq(Char)
    BY DEF Text
<1>11. part = field
    BY <1>8, <1>9, <1>10, SameText
<1> QED
    BY <1>11

\* The list has the keys that the key text's fields stand for, one by one.
LEMMA ListIsComparison ==
    ASSUME NEW text \in Text, NEW keys, keys \subseteq Tidy, NEW k \in keys
    PROVE  k \in GetKeyList(text, keys) <=> \A i \in Part : MatchesPart(SetKey(text)[i], k[i])
<1> DEFINE wkey == SetKey(text)
           list == {l \in keys : CompareTemplate(wkey, l)}
<1>1. GetKeyList(text, keys) =
         IF IsPattern(wkey) \/ list = {} THEN list ELSE {CHOOSE l \in list : TRUE}
    BY DEF GetKeyList
<1>2. \A l : l \in list <=> l \in keys /\ \A i \in Part : MatchesPart(wkey[i], l[i])
    BY DEF CompareTemplate
<1>3. wkey \in Tidy
    BY SetKeyTyped
<1> HIDE DEF wkey, list
<1>4. CASE IsPattern(wkey) \/ list = {}
    BY <1>1, <1>2, <1>4 DEF wkey
<1>5. CASE ~IsPattern(wkey) /\ list # {}
  <2>1. \A l \in list : l = wkey
    <3> TAKE l \in list
    <3>1. l \in keys /\ l \in Tidy /\ \A i \in Part : MatchesPart(wkey[i], l[i])
      BY <1>2
    <3>2. /\ wkey \in [Part -> {t \in Plain : Tight(t)}]
          /\ l \in [Part -> {t \in Plain : Tight(t)}]
      BY <1>3, <3>1 DEF Tidy
    <3>3. \A i \in Part : wkey[i] \in Text /\ l[i] \in Text
      BY <3>2 DEF Plain
    <3>4. \A i \in Part : {"*", "?"} \cap Range(wkey[i]) = {}
      BY <1>5 DEF IsPattern
    <3>5. \A i \in Part : l[i] = wkey[i]
      BY <3>1, <3>3, <3>4, PlainMatches
    <3> QED
      BY <3>2, <3>5
  <2>2. list = {CHOOSE l \in list : TRUE}
    <3>1. (CHOOSE l \in list : TRUE) \in list
      BY <1>5
    <3> QED
      BY <2>1, <3>1
  <2> QED
    BY <1>1, <1>2, <1>5, <2>2 DEF wkey
<1> QED
    BY <1>4, <1>5

\* What FilterIsWildcard says of a list.
ShowsWhatIsMeant(text, keys, list) ==
    LET part == SetKey(text)
    IN  \A k \in keys :
           /\ (\A i \in Part : /\ Wild(part[i], k[i])
                               /\ part[i] = <<"*">> \/ Len(part[i]) <= Len(k[i]))
                 => k \in list
           /\ k \in list /\ (\A i \in Part : StarsAtEnd(part[i]))
                 => \A i \in Part : Wild(part[i], k[i])

\* A list of keys is what the wildcards of the key text stand for.
LEMMA ListIsWildcard ==
    ASSUME NEW text \in Text, NEW keys, keys \subseteq Tidy
    PROVE  ShowsWhatIsMeant(text, keys, GetKeyList(text, keys))
<1> DEFINE part == SetKey(text)
           list == GetKeyList(text, keys)
<1>1. part \in Tidy
    BY SetKeyTyped
<1>2. \A k \in keys : k \in list <=> \A i \in Part : MatchesPart(part[i], k[i])
    BY ListIsComparison
<1>3. ASSUME NEW k \in keys, NEW i \in Part
      PROVE  /\ Wild(part[i], k[i]) /\ (part[i] = <<"*">> \/ Len(part[i]) <= Len(k[i]))
                   => MatchesPart(part[i], k[i])
             /\ MatchesPart(part[i], k[i]) /\ StarsAtEnd(part[i]) => Wild(part[i], k[i])
  <2>1. part[i] \in Text /\ k[i] \in Text
    BY <1>1 DEF Tidy, Plain
  <2> QED
    BY <2>1, MatchIsWild
<1>4. ShowsWhatIsMeant(text, keys, list) <=>
         \A k \in keys :
            /\ (\A i \in Part : /\ Wild(part[i], k[i])
                                /\ part[i] = <<"*">> \/ Len(part[i]) <= Len(k[i]))
                  => k \in list
            /\ k \in list /\ (\A i \in Part : StarsAtEnd(part[i]))
                  => \A i \in Part : Wild(part[i], k[i])
    BY DEF ShowsWhatIsMeant
<1> HIDE DEF part, list
<1>5. ShowsWhatIsMeant(text, keys, list)
    BY <1>2, <1>3, <1>4
<1> QED
    BY <1>5 DEF list

-----------------------------------------------------------------------------
(* The theorems.                                                           *)

\* Keys have KeySize fields that ':' can separate, the index leads to stored
\* documents, and has no templates.
THEOREM KeysTypeCorrect == KeysSpec => []KeysTypeOK
<1>1. ASSUME KeysInv PROVE KeysTypeOK
  <2>1. \A i \in Ids : docs[i] \in Documents \cup {NoDoc}
    BY <1>1 DEF KeysInv, IndexInv
  <2>2. ASSUME NEW k \in DOMAIN index \cup rows \cup {key}
        PROVE  DOMAIN k = Part /\ \A i \in Part : k[i] \in Text /\ ":" \notin Range(k[i])
    <3>1. k \in Tidy
      BY <1>1 DEF KeysInv, IndexInv
    <3> QED
      BY <3>1 DEF Tidy, Plain
  <2>3. \A k \in DOMAIN index : index[k] \in Stored /\ ~IsPattern(k)
    BY <1>1 DEF KeysInv, IndexInv, Stored
  <2>4. filter \in Text /\ loaded \in BOOLEAN /\ ended \in BOOLEAN
    BY <1>1 DEF KeysInv
  <2> QED
    BY <2>1, <2>2, <2>3, <2>4 DEF KeysTypeOK
<1> QED
    BY <1>1, KeysInvariant, PTL

\* A key that the table shows leads to its record, and the record is saved
\* under it again if and only if no key field of it has a ':'.
LEMMA SavedUnlessColon ==
    ASSUME NEW k \in Tidy, ~IsPattern(k), NEW d \in Documents,
           Loadable(d) => k = StoredKey(d)
    PROVE  /\ SetKey(Joined(k)) = k
           /\ Accepts(k, d) <=> \A i \in Part : ":" \notin Range(d[i].text)
<1>1. k \in [Part -> Text] /\ \A i \in Part : k[i] \in Text /\ Tight(k[i])
    BY DEF Tidy, Plain
<1>2. Stripped(k) = k
  <2>1. \A i \in Part : Strip(k[i]) = k[i]
    BY <1>1, StripFacts
  <2>2. Stripped(k) = [i \in Part |-> k[i]]
    BY <2>1 DEF Stripped
  <2> QED
    BY <1>1, <2>2
<1>3. SetKey(Joined(k)) = k
    BY <1>1, <1>2, KeyOfPacked, SetKeyOfPack
<1>4. \A i \in Part : /\ d[i].text \in Text
                      /\ d[i].type \in {"string", "number", "missing"}
                      /\ d[i].type = "missing" => d[i].text = <<>>
    BY DocumentHas
<1>5. KeyFields(d) \in [Part -> Text]
    BY <1>4, StarIsPlain, StripFacts DEF KeyFields, Plain
<1>6. ASSUME Accepts(k, d) PROVE NoColon(d)
  <2> SUFFICES ASSUME NEW i \in Part, ":" \in Range(d[i].text) PROVE FALSE
    BY DEF NoColon
  <2>1. Pack(k) = Pack(KeyFields(d))
    BY <1>6, AcceptsFacts
  <2>2. ":" \notin Range(KeyFields(d)[i])
    BY <1>5, <2>1, PackedColons
  <2>3. CASE d[i].type = "missing"
    <3>1. Range(<<>>) = {}
      BY DEF Range
    <3> QED
      BY <1>4, <2>3, <3>1
  <2>4. CASE d[i].type # "missing"
    <3>1. KeyFields(d)[i] = Strip(d[i].text)
      BY <2>4 DEF KeyFields
    <3> QED
      BY <1>4, <2>2, <3>1, StripFacts, Fields
  <2> QED
    BY <2>3, <2>4
<1>7. ASSUME NoColon(d) PROVE Accepts(k, d)
  <2>1. k = StoredKey(d)
    BY <1>7 DEF Loadable
  <2>2. k = KeyFields(d)
    BY <1>7, <2>1, StoredKeyFacts
  <2> QED
    BY <2>2, AcceptsFacts
<1> QED
    BY <1>3, <1>6, <1>7 DEF NoColon

\* Records can be opened from the table and saved again, unless a key field
\* has a ':'.
THEOREM RecordsAreUpdatable == KeysSpec => []UpdatableUnlessColon
<1>1. ASSUME KeysInv PROVE UpdatableUnlessColon
  <2>1. ASSUME NEW k \in DOMAIN index
        PROVE  /\ SetKey(Joined(k)) = k
               /\ Accepts(k, docs[index[k]])
                     <=> \A i \in Part : ":" \notin Range(docs[index[k]][i].text)
    <3> DEFINE d == docs[index[k]]
    <3>1. /\ k \in Tidy /\ ~IsPattern(k) /\ d \in Documents
          /\ Loadable(d) => k = StoredKey(d)
      BY <1>1 DEF KeysInv, IndexInv
    <3> HIDE DEF d
    <3>2. /\ SetKey(Joined(k)) = k
          /\ Accepts(k, d) <=> \A i \in Part : ":" \notin Range(d[i].text)
      BY <3>1, SavedUnlessColon
    <3> QED
      BY <3>2 DEF d
  <2> QED
    BY <2>1 DEF UpdatableUnlessColon
<1> QED
    BY <1>1, KeysInvariant, PTL

\* What was stored can be opened again, unless a key field of a stored
\* document is a number.
THEOREM StoredIsOpened == KeysSpec => OpensUnlessNumber
<1>1. ASSUME KeysInv, [KeysNext]_keysVars
      PROVE  loaded /\ ~loaded' => \E i \in Stored, n \in Part : docs[i][n].type = "number"
  <2> SUFFICES ASSUME loaded, ~loaded', \A i \in Stored : NoNumber(docs[i]) PROVE FALSE
    BY DEF NoNumber
  <2>1. LoadStops
    <3>1. KeysNext
      BY <1>1 DEF keysVars
    <3> QED
      BY <3>1 DEF KeysNext, CmInsert, CmUpdate, CmShow, CmDelete, Filter, LoadProject
  <2>2. PICK i \in Stored : \E S \in SUBSET (Stored \ {i}) : ~Loads(S \cup {i})
    BY <2>1 DEF LoadStops
  <2>3. IndexInv(docs, index) /\ AllIndexed(docs, index)
    BY <1>1 DEF KeysInv
  <2>4. \A S \in SUBSET (Stored \ {i}) : S \cup {i} \in SUBSET Stored
    OBVIOUS
  <2> QED
    BY <2>2, <2>3, <2>4, AllLoad
<1> QED
    BY <1>1, KeysInvariant, PTL DEF KeysSpec, OpensUnlessNumber

\* The key table shows what the wildcards of the filter stand for, whenever it
\* or the filter changes.
THEOREM TableIsWildcard == KeysSpec => FilterIsWildcard
<1>1. ASSUME KeysInv, KeysInv', [KeysNext]_keysVars, rows' # rows \/ filter' # filter, ~ended'
      PROVE  ShowsWhatIsMeant(filter, DOMAIN index, rows)'
  <2>1. filter' \in Text /\ DOMAIN index' \subseteq Tidy
    BY <1>1 DEF KeysInv, IndexInv
  <2>2. rows' = GetKeyList(filter', DOMAIN index')
    <3>1. KeysNext
      BY <1>1 DEF keysVars
    <3>2. ASSUME NEW d \in Documents, CmInsert(d) PROVE rows' = GetKeyList(filter', DOMAIN index')
      BY <1>1, <3>2 DEF CmInsert, ChangeKeyList
    <3>3. ASSUME NEW d \in Documents, CmUpdate(d) PROVE FALSE
      BY <1>1, <3>3 DEF CmUpdate
    <3>4. ASSUME NEW row \in rows, CmShow(row) PROVE FALSE
      BY <1>1, <3>4 DEF CmShow
    <3>5. ASSUME CmDelete PROVE rows' = GetKeyList(filter', DOMAIN index')
      BY <3>5 DEF CmDelete, ChangeKeyList
    <3>6. ASSUME NEW text \in Filters, Filter(text)
          PROVE  rows' = GetKeyList(filter', DOMAIN index')
      BY <1>1, <3>6 DEF Filter
    <3>7. ASSUME LoadProject PROVE rows' = GetKeyList(filter', DOMAIN index')
      BY <3>7 DEF LoadProject
    <3>8. ASSUME LoadStops PROVE FALSE
      BY <1>1, <3>8 DEF LoadStops
    <3> QED
      BY <3>1, <3>2, <3>3, <3>4, <3>5, <3>6, <3>7, <3>8 DEF KeysNext
  <2>3. ShowsWhatIsMeant(filter', DOMAIN index', GetKeyList(filter', DOMAIN index'))
    BY <2>1, ListIsWildcard
  <2> QED
    BY <2>2, <2>3
<1>2. KeysInv /\ KeysInv' /\ [KeysNext]_keysVars =>
         [(rows' # rows \/ filter' # filter) /\ ~ended' =>
             LET part == SetKey(filter')
             IN  \A k \in DOMAIN index' :
                    /\ (\A i \in Part : /\ Wild(part[i], k[i])
                                        /\ part[i] = <<"*">> \/ Len(part[i]) <= Len(k[i]))
                          => k \in rows'
                    /\ k \in rows' /\ (\A i \in Part : StarsAtEnd(part[i]))
                          => \A i \in Part : Wild(part[i], k[i])]_keysVars
    BY <1>1 DEF ShowsWhatIsMeant
<1> QED
    BY <1>2, KeysInvariant, PTL DEF KeysSpec, FilterIsWildcard

-----------------------------------------------------------------------------
(* Stored fits.                                                            *)

\* Every step keeps the types.
LEMMA TypeInit == ASSUME Init PROVE TypeOK
  <1> USE DEF Init, TypeOK
  <1>1. db \in [Projects -> Project]
    BY DEF Project
  <1>2. work \in [Projects -> Tables]
    OBVIOUS
  <1>3. PICK p \in Projects :
            gui \in [dir : {p}, opened : {p}, connected : {TRUE},
                     rows : {db[p].tasks}, json : First(db[p].tasks, NoKey),
                     lastKey : {NoKey}, showOn : {FALSE}]
    OBVIOUS
  <1>4. db[p].tasks \subseteq Keys
    BY <1>1 DEF Project
  <1>5. First(db[p].tasks, NoKey) \subseteq Keys \cup {NoKey}
    BY <1>4 DEF First
  <1>6. gui \in MainWindow
    BY <1>3, <1>4, <1>5 DEF MainWindow
  <1>7. results \in ResultsWindow /\ fit \in Process
    BY <1>6 DEF Closed, ResultsWindow, Tables, Process, MainWindow
  <1> QED BY <1>1, <1>2, <1>6, <1>7

LEMMA TasksAreKeys == ASSUME TypeOK PROVE Tasks \subseteq Keys
  BY DEF TypeOK, Tasks, Project, MainWindow

LEMMA FitIsTyped ==
  ASSUME TypeOK, NEW k \in Keys \cup {NoKey}
  PROVE  Fit(k) \in Tables \cup {NoFit}
  BY DEF TypeOK, Fit, Project, MainWindow

LEMMA DeletedIsTyped ==
  ASSUME NEW p \in Project, NEW S \in SUBSET Keys
  PROVE  /\ Deleted(p, S) \in Project
         /\ Deleted(p, S).tasks = p.tasks \ S
         /\ \A k \in Keys : Deleted(p, S).fits[k] = IF k \in S THEN NoFit ELSE p.fits[k]
  BY DEF Deleted, Project

LEMMA HalfDeletedIsTyped ==
  ASSUME NEW p \in Project, NEW S \in SUBSET Keys, NEW k \in Keys
  PROVE  /\ HalfDeleted(p, S, k) \in Project
         /\ HalfDeleted(p, S, k).tasks = p.tasks \ (S \cup {k})
         /\ HalfDeleted(p, S, k).fits = Deleted(p, S).fits
  <1>1. \A q \in Project : /\ [q EXCEPT !.tasks = @ \ {k}] \in Project
                           /\ [q EXCEPT !.tasks = @ \ {k}].tasks = q.tasks \ {k}
                           /\ [q EXCEPT !.tasks = @ \ {k}].fits = q.fits
    BY DEF Project
  <1> QED BY <1>1, DeletedIsTyped DEF HalfDeleted

LEMMA HalfDeletedTasks ==
  ASSUME NEW p \in Project, NEW S \in SUBSET Keys, NEW k \in Keys
  PROVE  HalfDeleted(p, S, k).tasks = p.tasks \ (S \cup {k})
  BY HalfDeletedIsTyped

LEMMA HalfDeletedFits ==
  ASSUME NEW p \in Project, NEW S \in SUBSET Keys, NEW k \in Keys, NEW j \in Keys
  PROVE  HalfDeleted(p, S, k).fits[j] = IF j \in S THEN NoFit ELSE p.fits[j]
  <1>1. HalfDeleted(p, S, k).fits = Deleted(p, S).fits
    BY HalfDeletedIsTyped
  <1>2. Deleted(p, S).fits[j] = IF j \in S THEN NoFit ELSE p.fits[j]
    BY DeletedIsTyped
  <1> QED BY <1>1, <1>2

LEMMA EmptyWorkIsTyped == ASSUME TypeOK PROVE EmptyWork \in [Projects -> Tables]
  BY DEF TypeOK, EmptyWork, Tables

LEMMA ReopenedIsTyped ==
  ASSUME NEW g \in MainWindow PROVE Reopened(g) \in MainWindow
  BY DEF Reopened, MainWindow

\* One case per action.
LEMMA TypeNext == ASSUME TypeOK, [Next]_vars PROVE TypeOK'
  <1> USE TasksAreKeys
  <1>0. db[gui.opened] \in Project /\ gui.opened \in Projects /\ gui.dir \in Projects
    BY DEF TypeOK, MainWindow
  <1>1. CASE UNCHANGED vars
    BY <1>1 DEF vars, TypeOK
  <1>2. ASSUME NEW k \in Keys, OpenTask(k) PROVE TypeOK'
    BY <1>2 DEF OpenTask, TypeOK, MainWindow
  <1>3. ASSUME NEW k \in Keys, WriteTask(k) PROVE TypeOK'
    <2>1. CASE gui.connected /\ db' = [db EXCEPT ![gui.opened].tasks = @ \cup {k}]
      <3>1. db' \in [Projects -> Project]
        BY <2>1, <1>0 DEF TypeOK, Project
      <3>2. db'[gui.opened].tasks \subseteq Keys
        BY <3>1, <1>0 DEF Project
      <3> QED BY <1>3, <2>1, <3>1, <3>2 DEF WriteTask, TypeOK, MainWindow
    <2>2. CASE UNCHANGED db /\ gui' = [gui EXCEPT !.json = k]
      BY <1>3, <2>2 DEF WriteTask, TypeOK, MainWindow
    <2> QED BY <1>3, <2>1, <2>2 DEF WriteTask
  <1>4. ASSUME NEW S \in SUBSET Keys, DeleteTasks(S) PROVE TypeOK'
    <2>1. db' \in [Projects -> Project]
      BY <1>4, <1>0, DeletedIsTyped DEF DeleteTasks, TypeOK
    <2>2. db'[gui.opened].tasks \subseteq Keys
      BY <2>1, <1>0 DEF Project
    <2> QED BY <1>4, <2>1, <2>2 DEF DeleteTasks, TypeOK, MainWindow
  <1>5. ASSUME NEW S \in SUBSET Keys, NEW k \in Keys, DeleteStops(S, k) PROVE TypeOK'
    <2>1. db' \in [Projects -> Project]
      BY <1>5, <1>0, HalfDeletedIsTyped DEF DeleteStops, TypeOK
    <2>2. db'[gui.opened].tasks \subseteq Keys
      BY <2>1, <1>0 DEF Project
    <2> QED BY <1>5, <2>1, <2>2 DEF DeleteStops, TypeOK, MainWindow
  <1>6. ASSUME NEW k \in Keys, RunRefused(k) PROVE TypeOK'
    BY <1>6, EmptyWorkIsTyped DEF RunRefused, TypeOK, MainWindow
  <1>7. ASSUME NEW k \in Keys, Run(k) PROVE TypeOK'
    <2>1. gui.json \in Keys
      BY <1>7 DEF Run, SavedBeforeRun, TypeOK, MainWindow
    <2>2. db' \in [Projects -> Project]
      BY <1>7, <1>0, <2>1 DEF Run, TypeOK, Project
    <2>3. fit' \in Process
      BY <1>7, <1>0 DEF Run, TypeOK, Process
    <2>4. gui' \in MainWindow /\ work' \in [Projects -> Tables] /\ results' \in ResultsWindow
      BY <1>7, EmptyWorkIsTyped DEF Run, TypeOK, MainWindow
    <2> QED BY <2>2, <2>3, <2>4 DEF TypeOK
  <1>8. CASE FitEnds
    <2>0. fit \in [phase : {"fitting", "ended"}, dir : Projects, task : Keys]
      BY <1>8 DEF FitEnds, TypeOK, Process
    <2>1. fit.dir \in Projects /\ fit' \in Process
      BY <1>8, <2>0 DEF FitEnds, Process
    <2>2. fit.task \in Tables
      BY <2>0 DEF Tables
    <2> QED BY <1>8, <2>1, <2>2 DEF FitEnds, TypeOK
  <1>9. CASE RunFinished
    BY <1>9, ReopenedIsTyped DEF RunFinished, TypeOK, Process
  <1>10. CASE CreateTask
    BY <1>10, EmptyWorkIsTyped, ReopenedIsTyped DEF CreateTask, TypeOK
  <1>11. CASE TaskMode
    <2> DEFINE g(j) == [gui EXCEPT !.rows = Tasks, !.json = j, !.showOn = gui.lastKey # NoKey]
    <2>1. First(Tasks, gui.json) \subseteq Keys \cup {NoKey}
      BY DEF First, TypeOK, MainWindow
    <2>2. \A j \in First(Tasks, gui.json) : g(j) \in MainWindow
      BY <2>1 DEF TypeOK, MainWindow
    <2>3. \A j \in First(Tasks, gui.json) : Reopened(g(j)) \in MainWindow
      BY <2>2, ReopenedIsTyped
    <2> QED BY <1>11, <2>2, <2>3, EmptyWorkIsTyped DEF TaskMode, TypeOK
  <1>12. ASSUME NEW p \in Projects, OpenProject(p) PROVE TypeOK'
    <2>1. db[p].tasks \subseteq Keys
      BY DEF TypeOK, Project
    <2>2. First(db[p].tasks, gui.json) \subseteq Keys \cup {NoKey}
      BY <2>1 DEF First, TypeOK, MainWindow
    <2> QED BY <1>12, <2>1, <2>2 DEF OpenProject, TypeOK, MainWindow
  <1>13. ASSUME NEW p \in Projects, ConfigCancelled(p) PROVE TypeOK'
    BY <1>13 DEF ConfigCancelled, TypeOK, MainWindow
  <1>14. ASSUME NEW k \in Keys \cup {NoKey}, ShowFitResults(k) PROVE TypeOK'
    <2>1. ReadBsonRecord(k) \subseteq Tables
      BY FitIsTyped DEF ReadBsonRecord, TypeOK, ResultsWindow, Tables
    <2> QED BY <1>14, <2>1 DEF ShowFitResults, TypeOK, ResultsWindow
  <1>15. CASE ShowCalcResults
    BY <1>15 DEF ShowCalcResults, TypeOK, ResultsWindow, MainWindow
  <1>16. CASE SaveResults
    <2>1. results.title \in Keys /\ results.tables \in Tables
      BY <1>16 DEF SaveResults, TypeOK, ResultsWindow
    <2>2. db' \in [Projects -> Project]
      BY <1>16, <1>0, <2>1 DEF SaveResults, CmSaveBsonRecord, TypeOK, Project
    <2> QED BY <1>16, <2>2 DEF SaveResults, TypeOK
  <1>17. CASE CmDeleteRecord
    <2>1. results.title \in Keys
      BY <1>17 DEF CmDeleteRecord, Fit, TypeOK, ResultsWindow
    <2>2. db' \in [Projects -> Project]
      BY <1>17, <1>0, <2>1 DEF CmDeleteRecord, TypeOK, Project
    <2> QED BY <1>17, <2>2 DEF CmDeleteRecord, TypeOK
  <1>18. CASE CloseResults
    BY <1>18 DEF CloseResults, Closed, TypeOK, ResultsWindow, Tables
  <1> QED BY <1>1, <1>2, <1>3, <1>4, <1>5, <1>6, <1>7, <1>8, <1>9, <1>10, <1>11, <1>12,
             <1>13, <1>14, <1>15, <1>16, <1>17, <1>18 DEF Next

\* Projects, windows, files and process keep their types.
THEOREM TypeCorrect == Spec => []TypeOK
  BY TypeInit, TypeNext, PTL DEF Spec

-----------------------------------------------------------------------------
\* What makes FitsUnderOwnKey inductive: the results window has a title and
\* the tables of this title, the result files are those of lastCalcRecordKey,
\* and the process works for it, in the directory of the open project.
TitleInv == results.title # NoKey => results.tables \in {NoTables, results.title}

WorkInv == gui.lastKey # NoKey => work[gui.dir] \in {NoTables, gui.lastKey}

FitInv ==
    fit.phase # "none" => fit.dir = gui.dir /\ fit.task = gui.lastKey

FitsInv == TypeOK /\ FitsUnderOwnKey /\ TitleInv /\ WorkInv /\ FitInv

\* A stored fit that is read is that of the key it is read for.
LEMMA FitIsOwn ==
  ASSUME TypeOK, FitsUnderOwnKey, NEW k \in Keys
  PROVE  Fit(k) \in {NoFit, NoTables, k}
  BY DEF TypeOK, MainWindow, FitsUnderOwnKey, Fit

LEMMA FitsInit == ASSUME Init PROVE FitsInv
  <1>1. TypeOK
    BY TypeInit
  <1>2. gui.lastKey = NoKey
    BY DEF Init
  <1> QED BY <1>1, <1>2 DEF Init, FitsInv, FitsUnderOwnKey, TitleInv, WorkInv, FitInv, Closed

\* The stored fits stay under their own keys.
LEMMA StoredStep ==
  ASSUME FitsInv, [Next]_vars PROVE FitsUnderOwnKey'
  <1> USE DEF FitsUnderOwnKey
  <1>0. /\ db \in [Projects -> Project]
        /\ gui.opened \in Projects /\ db[gui.opened] \in Project
    BY DEF FitsInv, TypeOK, MainWindow
  <1>1. ASSUME UNCHANGED db PROVE FitsUnderOwnKey'
    BY <1>1 DEF FitsInv
  <1>2. ASSUME NEW k \in Keys, WriteTask(k) PROVE FitsUnderOwnKey'
    BY <1>2, <1>0 DEF WriteTask, FitsInv, Project
  <1>3. ASSUME NEW S \in SUBSET Keys, DeleteTasks(S) PROVE FitsUnderOwnKey'
    BY <1>3, <1>0, DeletedIsTyped DEF DeleteTasks, FitsInv
  <1>4. ASSUME NEW S \in SUBSET Keys, NEW k \in Keys, DeleteStops(S, k) PROVE FitsUnderOwnKey'
    <2>1. db' = [db EXCEPT ![gui.opened] = HalfDeleted(db[gui.opened], S, k)]
      BY <1>4 DEF DeleteStops
    <2>2. db'[gui.opened] = HalfDeleted(db[gui.opened], S, k)
      BY <1>0, <2>1
    <2>3. ASSUME NEW j \in Keys
          PROVE  db'[gui.opened].fits[j] = IF j \in S THEN NoFit ELSE db[gui.opened].fits[j]
      BY <1>0, <2>2, HalfDeletedFits
    <2> QED BY <1>0, <2>1, <2>2, <2>3 DEF FitsInv
  <1>5. ASSUME NEW k \in Keys, Run(k) PROVE FitsUnderOwnKey'
    BY <1>5, <1>0 DEF Run, FitsInv, Project
  <1>6. CASE SaveResults
    <2>1. results.title \in Keys /\ results.tables \in {NoTables, results.title}
      BY <1>6 DEF SaveResults, FitsInv, TitleInv, TypeOK, ResultsWindow
    <2> QED BY <1>6, <1>0, <2>1 DEF SaveResults, CmSaveBsonRecord, FitsInv, Project
  <1>7. CASE CmDeleteRecord
    <2>1. results.title \in Keys
      BY <1>7 DEF CmDeleteRecord, Fit, FitsInv, TypeOK, ResultsWindow
    <2> QED BY <1>7, <1>0, <2>1 DEF CmDeleteRecord, FitsInv, Project
  <1>8. CASE UNCHANGED vars
    BY <1>1, <1>8 DEF vars
  <1> QED BY <1>1, <1>2, <1>3, <1>4, <1>5, <1>6, <1>7, <1>8 DEF Next, OpenTask, RunRefused,
             FitEnds, RunFinished, CreateTask, TaskMode, OpenProject, ConfigCancelled,
             ShowFitResults, ShowCalcResults, CloseResults

\* The results window keeps title and tables together.
LEMMA TitleStep ==
  ASSUME "read" \notin Faults, FitsInv, [Next]_vars PROVE TitleInv'
  <1> USE DEF TitleInv
  <1>1. ASSUME UNCHANGED results PROVE TitleInv'
    BY <1>1 DEF FitsInv
  <1>2. ASSUME NEW k \in Keys \cup {NoKey}, ShowFitResults(k) PROVE TitleInv'
    <2>1. CASE k = NoKey
      BY <1>2, <2>1 DEF ShowFitResults
    <2>2. CASE k \in Keys /\ k # NoKey
      <3>1. ReadBsonRecord(k) \subseteq {NoTables, k}
        BY <2>2, FitIsOwn DEF ReadBsonRecord, Fails, FitsInv
      <3> QED BY <1>2, <3>1 DEF ShowFitResults
    <2> QED BY <2>1, <2>2, StoredFitsConstants
  <1>3. CASE ShowCalcResults
    BY <1>3 DEF ShowCalcResults, FitsInv, WorkInv
  <1>4. CASE CloseResults
    BY <1>4 DEF CloseResults, Closed
  <1>5. CASE UNCHANGED vars
    BY <1>1, <1>5 DEF vars
  <1> QED BY <1>1, <1>2, <1>3, <1>4, <1>5 DEF Next, OpenTask, WriteTask, DeleteTasks,
             DeleteStops, RunRefused, Run, FitEnds, RunFinished, CreateTask, TaskMode,
             OpenProject, ConfigCancelled, SaveResults, CmDeleteRecord

\* Result files and process are those of lastCalcRecordKey.
LEMMA RunStep ==
  ASSUME ~Switches, FitsInv, [Next]_vars PROVE WorkInv' /\ FitInv'
  <1> USE DEF WorkInv, FitInv
  <1>0. /\ gui \in MainWindow /\ work \in [Projects -> Tables] /\ gui.dir \in Projects
        /\ WorkInv /\ FitInv
    BY DEF FitsInv, TypeOK, MainWindow
  <1>1. ASSUME UNCHANGED <<work, fit>>, gui'.dir = gui.dir, gui'.lastKey = gui.lastKey
        PROVE  WorkInv' /\ FitInv'
    BY <1>0, <1>1
  <1>2. ASSUME NEW k \in Keys, OpenTask(k) \/ WriteTask(k) PROVE WorkInv' /\ FitInv'
    BY <1>0, <1>1, <1>2 DEF OpenTask, WriteTask, MainWindow
  <1>3. ASSUME NEW S \in SUBSET Keys, DeleteTasks(S) PROVE WorkInv' /\ FitInv'
    BY <1>0, <1>1, <1>3 DEF DeleteTasks, MainWindow
  <1>4. ASSUME NEW S \in SUBSET Keys, NEW k \in Keys, DeleteStops(S, k)
        PROVE  WorkInv' /\ FitInv'
    BY <1>0, <1>1, <1>4 DEF DeleteStops, MainWindow
  <1>5. ASSUME NEW k \in Keys, RunRefused(k) PROVE WorkInv' /\ FitInv'
    BY <1>0, <1>5 DEF RunRefused, EmptyWork, MainWindow
  <1>6. ASSUME NEW k \in Keys, Run(k) PROVE WorkInv' /\ FitInv'
    <2>1. gui'.dir = gui.dir /\ gui'.lastKey = k /\ work'[gui.dir] = NoTables
      BY <1>0, <1>6 DEF Run, EmptyWork, MainWindow
    <2> QED BY <1>6, <2>1 DEF Run
  <1>7. CASE FitEnds
    <2>1. fit.dir = gui.dir /\ fit.task = gui.lastKey /\ UNCHANGED gui
      BY <1>0, <1>7 DEF FitEnds
    <2>2. fit'.dir = fit.dir /\ fit'.task = fit.task
      BY <1>7 DEF FitEnds, FitsInv, TypeOK, Process
    <2> QED BY <1>0, <1>7, <2>1, <2>2 DEF FitEnds
  <1>8. CASE RunFinished
    <2>1. gui'.dir = gui.dir /\ gui'.lastKey = gui.lastKey
      BY <1>0, <1>8 DEF RunFinished, Reopened, MainWindow
    <2>2. fit'.phase = "none"
      BY <1>8 DEF RunFinished, FitsInv, TypeOK, Process
    <2> QED BY <1>0, <1>8, <2>1, <2>2 DEF RunFinished
  <1>9. CASE CreateTask
    BY <1>0, <1>9 DEF CreateTask, Reopened, EmptyWork, MainWindow
  <1>10. CASE TaskMode
    BY <1>0, <1>10 DEF TaskMode, Reopened, EmptyWork, MainWindow
  <1>11. ASSUME NEW p \in Projects, OpenProject(p) \/ ConfigCancelled(p)
         PROVE  WorkInv' /\ FitInv'
    <2>1. gui.lastKey = NoKey /\ gui'.lastKey = NoKey /\ fit'.phase = "none"
      BY <1>0, <1>11 DEF OpenProject, ConfigCancelled, MayOpen, MainWindow
    <2> QED BY <2>1
  <1>12. ASSUME UNCHANGED <<gui, work, fit>> PROVE WorkInv' /\ FitInv'
    BY <1>1, <1>12
  <1> QED BY <1>2, <1>3, <1>4, <1>5, <1>6, <1>7, <1>8, <1>9, <1>10, <1>11, <1>12 DEF Next,
             vars, ShowFitResults, ShowCalcResults, SaveResults, CmDeleteRecord, CloseResults

\* What is stored under a key was computed for it, in any number of projects
\* with any tasks, if reading does not fail and no project is opened after
\* the first run.
THEOREM FitsUnderOwnKeyHolds ==
  ASSUME "read" \notin Faults, ~Switches
  PROVE  Spec => []FitsUnderOwnKey
  <1>1. FitsInv /\ [Next]_vars => FitsInv'
    BY TypeNext, StoredStep, TitleStep, RunStep DEF FitsInv
  <1>2. FitsInv => FitsUnderOwnKey
    BY DEF FitsInv
  <1> QED BY FitsInit, <1>1, <1>2, PTL DEF Spec

-----------------------------------------------------------------------------
NewOrphans ==
    \A p \in Projects, k \in Keys :
        ~Orphan(p, k) /\ Orphan(p, k)' =>
            \/ results.title = k /\ db'[p].tasks = db[p].tasks
            \/ /\ "delete" \in Faults
               /\ k \in db[p].tasks
               /\ \A j \in Keys \ {k} : Orphan(p, j)' => Orphan(p, j)

\* One step; the typing of the stored documents is all it needs.
LEMMA OrphanStep == ASSUME TypeOK, [Next]_vars PROVE NewOrphans
  <1> USE DEF NewOrphans, Orphan
  <1>0. /\ db \in [Projects -> Project]
        /\ gui.opened \in Projects /\ db[gui.opened] \in Project
    BY DEF TypeOK, MainWindow
  <1>1. ASSUME UNCHANGED db PROVE NewOrphans
    BY <1>1
  <1>2. ASSUME NEW k \in Keys, WriteTask(k) PROVE NewOrphans
    BY <1>2, <1>0 DEF WriteTask, Project
  <1>3. ASSUME NEW S \in SUBSET Keys, DeleteTasks(S) PROVE NewOrphans
    BY <1>3, <1>0, DeletedIsTyped DEF DeleteTasks
  <1>4. ASSUME NEW S \in SUBSET Keys, NEW k \in Keys, DeleteStops(S, k) PROVE NewOrphans
    <2>1. k \in db[gui.opened].tasks /\ "delete" \in Faults
      BY <1>4 DEF DeleteStops, Fails, Tasks
    <2>2. db' = [db EXCEPT ![gui.opened] = HalfDeleted(db[gui.opened], S, k)]
      BY <1>4 DEF DeleteStops
    <2>3. ASSUME NEW p \in Projects, p = gui.opened, NEW j \in Keys \ {k}, Orphan(p, j)'
          PROVE  Orphan(p, j)
      <3>1. db'[p] = HalfDeleted(db[p], S, k) /\ db[p] \in Project
        BY <1>0, <2>2, <2>3
      <3>2. HalfDeleted(db[p], S, k).tasks = db[p].tasks \ (S \cup {k})
        BY <3>1, HalfDeletedTasks
      <3>3. HalfDeleted(db[p], S, k).fits[j] = IF j \in S THEN NoFit ELSE db[p].fits[j]
        BY <3>1, HalfDeletedFits
      <3> QED BY <2>3, <3>1, <3>2, <3>3
    <2>4. ASSUME NEW p \in Projects, p # gui.opened PROVE db'[p] = db[p]
      BY <1>0, <2>2, <2>4
    <2>5. SUFFICES ASSUME NEW p \in Projects, NEW i \in Keys,
                          ~Orphan(p, i), Orphan(p, i)'
                   PROVE  /\ i \in db[p].tasks
                          /\ \A j \in Keys \ {i} : Orphan(p, j)' => Orphan(p, j)
      BY <2>1
    <2>6. p = gui.opened
      BY <2>4, <2>5
    <2>7. i = k
      BY <2>3, <2>5, <2>6
    <2> QED BY <2>1, <2>3, <2>6, <2>7
  <1>5. ASSUME NEW k \in Keys, Run(k) PROVE NewOrphans
    BY <1>5, <1>0 DEF Run, Project
  <1>6. CASE SaveResults
    <2>1. results.title \in Keys
      BY <1>6 DEF SaveResults, TypeOK, ResultsWindow
    <2> QED BY <1>6, <1>0, <2>1 DEF SaveResults, CmSaveBsonRecord, Project
  <1>7. CASE CmDeleteRecord
    <2>1. results.title \in Keys
      BY <1>7 DEF CmDeleteRecord, Fit, TypeOK, ResultsWindow
    <2> QED BY <1>7, <1>0, <2>1 DEF CmDeleteRecord, Project
  <1>8. CASE UNCHANGED vars
    BY <1>1, <1>8 DEF vars
  <1> QED BY <1>1, <1>2, <1>3, <1>4, <1>5, <1>6, <1>7, <1>8 DEF Next, OpenTask, RunRefused,
             FitEnds, RunFinished, CreateTask, TaskMode, OpenProject, ConfigCancelled,
             ShowFitResults, ShowCalcResults, CloseResults

\* A fit without its task was saved late, or is the one a failing deletion
\* leaves behind, for any list of tasks deleted at once.
THEOREM OrphansAreSavedHolds == Spec => OrphansAreSaved
  <1>1. TypeOK /\ [Next]_vars => [NewOrphans]_vars
    BY OrphanStep
  <1> QED BY TypeCorrect, <1>1, PTL DEF Spec, OrphansAreSaved, NewOrphans
=============================================================================

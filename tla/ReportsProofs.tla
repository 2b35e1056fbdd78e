---------------------------- MODULE ReportsProofs ----------------------------
(***************************************************************************)
(* What holds of module Reports for any numbers of lines, amounts, pages   *)
(* and changes: its types, how far the figures of a report are apart, and  *)
(* what a client that turns the pages of a listing misses or gets twice.   *)
(***************************************************************************)
EXTENDS Reports, FiniteSetTheorems, SequenceTheorems, TLAPS

-----------------------------------------------------------------------------
(* Ranks.  A listing is a finite set of lines with a key each, all different; *)
(* the rank of a line is the number of lines with a smaller key.              *)

Keys(S) == {K \in [S -> Int] : IsInjective(K)}

RankOf(K, i) == Cardinality({j \in DOMAIN K : K[j] < K[i]})

\* A rank is a number, and smaller than that of any line that comes later.
LEMMA RankLess ==
    ASSUME NEW S, IsFiniteSet(S), NEW K \in Keys(S), NEW i \in S
    PROVE  /\ RankOf(K, i) \in Nat /\ RankOf(K, i) < Cardinality(S)
           /\ \A j \in S : K[i] < K[j] => RankOf(K, i) < RankOf(K, j)
<1> DEFINE Below(x) == {j \in S : K[j] < K[x]}
<1>1. \A x \in S : RankOf(K, x) = Cardinality(Below(x))
  BY DEF RankOf, Keys
<1>2. \A x \in S : IsFiniteSet(Below(x)) /\ Cardinality(Below(x)) \in Nat
  BY FS_Subset, FS_CardinalityType
<1>3. K[i] \in Int
  BY DEF Keys
<1>4. i \notin Below(i)
  BY <1>3
<1>5. IsFiniteSet(Below(i) \cup {i}) /\ Cardinality(Below(i) \cup {i}) = Cardinality(Below(i)) + 1
  BY <1>2, <1>4, FS_AddElement
<1>6. Cardinality(Below(i)) + 1 <= Cardinality(S)
  BY <1>5, FS_Subset
<1>7. ASSUME NEW j \in S, K[i] < K[j]
      PROVE  Cardinality(Below(i)) + 1 <= Cardinality(Below(j))
  <2>1. Below(i) \cup {i} \subseteq Below(j)
    BY <1>3, <1>7 DEF Keys
  <2> QED BY <1>2, <1>5, <2>1, FS_Subset
<1>8. Cardinality(S) \in Nat
  BY FS_CardinalityType
<1> HIDE DEF Below
<1> QED BY <1>1, <1>2, <1>6, <1>7, <1>8

\* Two lines have different ranks.
LEMMA RanksDiffer ==
    ASSUME NEW S, IsFiniteSet(S), NEW K \in Keys(S), NEW i \in S, NEW j \in S, i # j
    PROVE  RankOf(K, i) # RankOf(K, j)
<1>1. K[i] \in Int /\ K[j] \in Int /\ K[i] # K[j]
  BY DEF Keys, IsInjective
<1> QED BY <1>1, RankLess

\* There are no more lines from a rank on than lines beyond that number.
LEMMA LinesBeyond ==
    ASSUME NEW S, IsFiniteSet(S), NEW K \in Keys(S), NEW o \in Nat
    PROVE  LET rest == {i \in S : RankOf(K, i) >= o}
           IN /\ IsFiniteSet(rest)
              /\ Cardinality(rest) <= IF Cardinality(S) >= o THEN Cardinality(S) - o ELSE 0
<1> DEFINE rest == {i \in S : RankOf(K, i) >= o}
           N == Cardinality(S)
           f == [i \in rest |-> RankOf(K, i)]
<1>1. N \in Nat
  BY FS_CardinalityType
<1>2. \A i \in rest : RankOf(K, i) \in o..(N - 1)
  BY <1>1, RankLess
<1>3. f \in Injection(rest, o..(N - 1))
  BY <1>2, RanksDiffer DEF Injection, IsInjective
<1>4. IsFiniteSet(o..(N - 1)) /\ Cardinality(o..(N - 1)) = IF o > N - 1 THEN 0 ELSE N - 1 - o + 1
  <2>1. N - 1 \in Int
    BY <1>1
  <2> HIDE DEF N
  <2> QED BY <2>1, FS_Interval
<1>5. IsFiniteSet(rest) /\ Cardinality(rest) <= Cardinality(o..(N - 1))
  BY <1>3, <1>4, FS_Injection
<1> QED BY <1>1, <1>4, <1>5, FS_CardinalityType

(***************************************************************************)
(* One line more: T is S with x, the others keep their order.              *)
(***************************************************************************)
SameOrder(S, K, L) == \A a, b \in S : K[a] < K[b] <=> L[a] < L[b]

OneMore(S, K, x, L) ==
    /\ IsFiniteSet(S) /\ x \notin S
    /\ K \in Keys(S) /\ L \in Keys(S \cup {x})
    /\ SameOrder(S, K, L)

\* The ranks of the lines after the new one grow by one, the others stay.
LEMMA RankWithOneMore ==
    ASSUME NEW S, NEW K, NEW x, NEW L, OneMore(S, K, x, L), NEW i \in S
    PROVE  /\ RankOf(K, i) \in Nat /\ RankOf(L, i) \in Nat
           /\ RankOf(L, i) = IF L[x] < L[i] THEN RankOf(K, i) + 1 ELSE RankOf(K, i)
<1> DEFINE Below == {j \in S : K[j] < K[i]}
           BelowNow == {j \in S \cup {x} : L[j] < L[i]}
<1>1. RankOf(K, i) = Cardinality(Below) /\ RankOf(L, i) = Cardinality(BelowNow)
  BY DEF RankOf, Keys, OneMore
<1>2. IsFiniteSet(Below) /\ x \notin Below
  BY FS_Subset DEF OneMore
<1>3. BelowNow = IF L[x] < L[i] THEN Below \cup {x} ELSE Below
  BY DEF OneMore, SameOrder
<1> HIDE DEF Below, BelowNow
<1> QED BY <1>1, <1>2, <1>3, FS_AddElement, FS_CardinalityType

\* At most one line has a given rank.
LEMMA OneOfARank ==
    ASSUME NEW S, IsFiniteSet(S), NEW K \in Keys(S), NEW r, NEW P \in SUBSET S
    PROVE  \E y : {i \in P : RankOf(K, i) = r} \subseteq {y}
<1>1. CASE {i \in P : RankOf(K, i) = r} = {}
  BY <1>1
<1>2. ASSUME NEW y \in P, RankOf(K, y) = r
      PROVE  {i \in P : RankOf(K, i) = r} \subseteq {y}
  BY <1>2, RanksDiffer
<1> QED BY <1>1, <1>2

\* A set with at most one element more has at most one more.
LEMMA AtMostOneMore ==
    ASSUME NEW A, IsFiniteSet(A), NEW B, NEW y, B \subseteq A \cup {y}
    PROVE  /\ IsFiniteSet(B) /\ Cardinality(A) \in Nat /\ Cardinality(B) \in Nat
           /\ Cardinality(B) <= Cardinality(A) + 1
<1>1. IsFiniteSet(A \cup {y}) /\ Cardinality(A \cup {y}) \in Nat /\ Cardinality(A \cup {y}) <= Cardinality(A) + 1
  <2>1. /\ IsFiniteSet(A \cup {y})
        /\ Cardinality(A \cup {y}) = IF y \in A THEN Cardinality(A) ELSE Cardinality(A) + 1
    BY FS_AddElement
  <2> QED BY <2>1, FS_CardinalityType
<1>2. IsFiniteSet(B) /\ Cardinality(B) <= Cardinality(A \cup {y})
  BY <1>1, FS_Subset
<1> QED BY <1>1, <1>2, FS_CardinalityType

From(K, P, o) == {i \in P : RankOf(K, i) >= o}

Until(K, P, o) == {i \in P : RankOf(K, i) < o}

\* A line that comes takes at most one line past the given rank: itself or the one before it.
LEMMA OneMoreFrom ==
    ASSUME NEW S, NEW K, NEW x, NEW L, OneMore(S, K, x, L), NEW o \in Nat, NEW X
    PROVE  /\ IsFiniteSet(From(L, (S \cup {x}) \cap X, o))
           /\ Cardinality(From(K, S \cap X, o)) \in Nat
           /\ Cardinality(From(L, (S \cup {x}) \cap X, o)) \in Nat
           /\ Cardinality(From(L, (S \cup {x}) \cap X, o)) <= Cardinality(From(K, S \cap X, o)) + 1
<1>1. IsFiniteSet(S) /\ IsFiniteSet(S \cup {x})
  BY FS_AddElement DEF OneMore
<1>2. IsFiniteSet(From(K, S \cap X, o))
  BY <1>1, FS_Subset DEF From
<1>3. RankOf(L, x) \in Nat /\ \A i \in S : L[x] < L[i] => RankOf(L, x) < RankOf(L, i)
  BY <1>1, RankLess DEF OneMore
<1>4. \E y : From(L, (S \cup {x}) \cap X, o) \subseteq From(K, S \cap X, o) \cup {y}
  <2>1. CASE RankOf(L, x) >= o
    <3>1. ASSUME NEW i \in S, RankOf(L, i) >= o
          PROVE  RankOf(K, i) >= o
      BY <1>3, <2>1, <3>1, RankWithOneMore
    <3>2. From(L, (S \cup {x}) \cap X, o) \subseteq From(K, S \cap X, o) \cup {x}
      BY <3>1 DEF From
    <3> QED BY <3>2
  <2>2. CASE RankOf(L, x) < o
    <3>1. PICK y : {i \in S \cap X : RankOf(K, i) = o - 1} \subseteq {y}
      BY <1>1, OneOfARank DEF OneMore
    <3>2. ASSUME NEW i \in S, RankOf(L, i) >= o
          PROVE  RankOf(K, i) >= o \/ RankOf(K, i) = o - 1
      BY <3>2, RankWithOneMore
    <3>3. x \notin From(L, (S \cup {x}) \cap X, o)
      BY <1>3, <2>2 DEF From
    <3>4. From(L, (S \cup {x}) \cap X, o) \subseteq From(K, S \cap X, o) \cup {y}
      BY <3>1, <3>2, <3>3 DEF From
    <3> QED BY <3>4
  <2> QED BY <1>3, <2>1, <2>2
<1> QED BY <1>2, <1>4, AtMostOneMore

\* A line that goes takes none past it.
LEMMA OneLessFrom ==
    ASSUME NEW S, NEW K, NEW x, NEW L, OneMore(S, K, x, L), NEW o \in Nat, NEW X
    PROVE  /\ Cardinality(From(K, S \cap X, o)) \in Nat
           /\ Cardinality(From(L, (S \cup {x}) \cap X, o)) \in Nat
           /\ Cardinality(From(K, S \cap X, o)) <= Cardinality(From(L, (S \cup {x}) \cap X, o))
<1>1. \A i \in S : RankOf(K, i) >= o => RankOf(L, i) >= o
  BY RankWithOneMore
<1>2. From(K, S \cap X, o) \subseteq From(L, (S \cup {x}) \cap X, o)
  BY <1>1 DEF From
<1> QED BY <1>2, OneMoreFrom, FS_Subset

\* Lines that stay: one that comes takes none of them before the given rank ...
LEMMA OneMoreUntil ==
    ASSUME NEW S, NEW K, NEW x, NEW L, OneMore(S, K, x, L), NEW o \in Nat, NEW P \in SUBSET S
    PROVE  Until(L, P, o) \subseteq Until(K, P, o)
BY RankWithOneMore DEF Until

\* ... and one that goes at most one.
LEMMA OneLessUntil ==
    ASSUME NEW S, NEW K, NEW x, NEW L, OneMore(S, K, x, L), NEW o \in Nat, NEW P \in SUBSET S
    PROVE  \E y : Until(K, P, o) \subseteq Until(L, P, o) \cup {y}
<1>1. IsFiniteSet(S) /\ IsFiniteSet(S \cup {x}) /\ P \in SUBSET (S \cup {x})
  BY FS_AddElement DEF OneMore
<1>2. PICK y : {i \in P : RankOf(L, i) = o} \subseteq {y}
  BY <1>1, OneOfARank DEF OneMore
<1>3. ASSUME NEW i \in P, RankOf(K, i) < o
      PROVE  RankOf(L, i) < o \/ RankOf(L, i) = o
  BY <1>3, RankWithOneMore
<1> QED BY <1>2, <1>3 DEF Until

-----------------------------------------------------------------------------
(* Rows in order.  t has the rows of s and, at p, row i. *)

WithAt(s, p, i, t) ==
    /\ s \in Seq(Lines) /\ t \in Seq(Lines)
    /\ Len(t) = Len(s) + 1
    /\ p \in 1..Len(t) /\ t[p] = i
    /\ \A q \in 1..(p - 1) : t[q] = s[q]
    /\ \A q \in p..Len(s) : t[q + 1] = s[q]

PlaceIn(s, i) == CHOOSE p \in DOMAIN s : s[p] = i

\* A row that is inserted moves the rows after it.
LEMMA InsertedAt ==
    ASSUME NEW s \in Seq(Lines), NEW i \in Lines, NEW p \in 1..(Len(s) + 1)
    PROVE  WithAt(s, p, i, InsertAt(s, p, i))
<1> DEFINE a == SubSeq(s, 1, p - 1)
           b == SubSeq(s, p, Len(s))
<1>1. Len(s) \in Nat /\ \A q \in 1..Len(s) : s[q] \in Lines
  BY LenProperties, ElementOfSeq
<1>2. a \in Seq(Lines) /\ Len(a) = p - 1 /\ \A q \in 1..(p - 1) : a[q] = s[q]
  <2>1. /\ a \in Seq(Lines) /\ Len(a) = (IF 1 <= p - 1 THEN p - 1 - 1 + 1 ELSE 0)
        /\ \A q \in 1..(p - 1 - 1 + 1) : a[q] = s[1 + q - 1]
    <3>1. 1 \in Int /\ p - 1 \in Int /\ \A q \in 1..(p - 1) : s[q] \in Lines
      BY <1>1
    <3> QED BY <3>1, SubSeqProperties
  <2> QED BY <2>1
<1>3. b \in Seq(Lines) /\ Len(b) = Len(s) + 1 - p /\ \A q \in 1..(Len(s) + 1 - p) : b[q] = s[p + q - 1]
  <2>1. /\ b \in Seq(Lines) /\ Len(b) = (IF p <= Len(s) THEN Len(s) - p + 1 ELSE 0)
        /\ \A q \in 1..(Len(s) - p + 1) : b[q] = s[p + q - 1]
    <3>1. p \in Int /\ Len(s) \in Int /\ \A q \in p..Len(s) : s[q] \in Lines
      BY <1>1
    <3> QED BY <3>1, SubSeqProperties
  <2> QED BY <1>1, <2>1
<1> HIDE DEF a, b
<1>4. <<i>> \in Seq(Lines) /\ Len(<<i>>) = 1 /\ <<i>>[1] = i
  OBVIOUS
<1> DEFINE c == a \o <<i>>
           t == c \o b
<1>5. /\ c \in Seq(Lines) /\ Len(c) = p
      /\ \A q \in 1..p : c[q] = IF q <= p - 1 THEN s[q] ELSE i
  <2>1. c \in Seq(Lines) /\ Len(c) = Len(a) + 1
        /\ \A q \in 1..(Len(a) + 1) : c[q] = IF q <= Len(a) THEN a[q] ELSE <<i>>[q - Len(a)]
    BY <1>2, <1>4, ConcatProperties
  <2> QED BY <1>2, <1>4, <2>1
<1> HIDE DEF c
<1>6. /\ t \in Seq(Lines) /\ Len(t) = Len(s) + 1
      /\ \A q \in 1..(Len(s) + 1) : t[q] = IF q <= p THEN c[q] ELSE s[q - 1]
  <2>1. t \in Seq(Lines) /\ Len(t) = Len(c) + Len(b)
        /\ \A q \in 1..(Len(c) + Len(b)) : t[q] = IF q <= Len(c) THEN c[q] ELSE b[q - Len(c)]
    BY <1>3, <1>5, ConcatProperties
  <2> QED BY <1>1, <1>3, <1>5, <2>1
<1>7. InsertAt(s, p, i) = t
  BY DEF InsertAt, a, b, c
<1> HIDE DEF t
<1> QED BY <1>1, <1>5, <1>6, <1>7 DEF WithAt

\* A row that is removed: the rows as they were are those that are left, with it.
LEMMA RemovedAt ==
    ASSUME NEW s \in Seq(Lines), NEW p \in 1..Len(s)
    PROVE  WithAt(RemoveAt(s, p), p, s[p], s)
<1> DEFINE a == SubSeq(s, 1, p - 1)
           b == SubSeq(s, p + 1, Len(s))
           t == a \o b
<1>1. Len(s) \in Nat /\ \A q \in 1..Len(s) : s[q] \in Lines
  BY LenProperties, ElementOfSeq
<1>2. a \in Seq(Lines) /\ Len(a) = p - 1 /\ \A q \in 1..(p - 1) : a[q] = s[q]
  <2>1. /\ a \in Seq(Lines) /\ Len(a) = (IF 1 <= p - 1 THEN p - 1 - 1 + 1 ELSE 0)
        /\ \A q \in 1..(p - 1 - 1 + 1) : a[q] = s[1 + q - 1]
    <3>1. 1 \in Int /\ p - 1 \in Int /\ \A q \in 1..(p - 1) : s[q] \in Lines
      BY <1>1
    <3> QED BY <3>1, SubSeqProperties
  <2> QED BY <2>1
<1>3. b \in Seq(Lines) /\ Len(b) = Len(s) - p /\ \A q \in 1..(Len(s) - p) : b[q] = s[p + q]
  <2>1. /\ b \in Seq(Lines) /\ Len(b) = (IF p + 1 <= Len(s) THEN Len(s) - (p + 1) + 1 ELSE 0)
        /\ \A q \in 1..(Len(s) - (p + 1) + 1) : b[q] = s[p + 1 + q - 1]
    <3>1. p + 1 \in Int /\ Len(s) \in Int /\ \A q \in (p + 1)..Len(s) : s[q] \in Lines
      BY <1>1
    <3> QED BY <3>1, SubSeqProperties
  <2> QED BY <1>1, <2>1
<1> HIDE DEF a, b
<1>4. /\ t \in Seq(Lines) /\ Len(t) = Len(s) - 1
      /\ \A q \in 1..(Len(s) - 1) : t[q] = IF q <= p - 1 THEN s[q] ELSE s[q + 1]
  <2>1. t \in Seq(Lines) /\ Len(t) = Len(a) + Len(b)
        /\ \A q \in 1..(Len(a) + Len(b)) : t[q] = IF q <= Len(a) THEN a[q] ELSE b[q - Len(a)]
    BY <1>2, <1>3, ConcatProperties
  <2> QED BY <1>1, <1>2, <1>3, <2>1
<1>5. RemoveAt(s, p) = t
  BY DEF RemoveAt, a, b
<1> HIDE DEF t
<1> QED BY <1>1, <1>4, <1>5 DEF WithAt

\* The place of a row is where it is, and in a sequence without repetitions nowhere else.
LEMMA PlaceIsWhere ==
    ASSUME NEW s \in Seq(Lines), NEW i \in ToSet(s)
    PROVE  /\ PlaceIn(s, i) \in 1..Len(s) /\ s[PlaceIn(s, i)] = i
           /\ IsInjective(s) => \A q \in 1..Len(s) : s[q] = i => q = PlaceIn(s, i)
<1>1. DOMAIN s = 1..Len(s) /\ Len(s) \in Nat
  BY LenProperties
<1>2. \E q \in DOMAIN s : s[q] = i
  BY DEF ToSet
<1>3. PlaceIn(s, i) \in DOMAIN s /\ s[PlaceIn(s, i)] = i
  BY <1>2 DEF PlaceIn
<1> QED BY <1>1, <1>3 DEF IsInjective

\* With a row come no others, and the others are there once if all are.
LEMMA RowsWith ==
    ASSUME NEW s, NEW p, NEW i, NEW t, WithAt(s, p, i, t)
    PROVE  /\ ToSet(t) = ToSet(s) \cup {i}
           /\ IsInjective(t) <=> IsInjective(s) /\ i \notin ToSet(s)
<1>1. /\ DOMAIN s = 1..Len(s) /\ DOMAIN t = 1..(Len(s) + 1) /\ Len(s) \in Nat
      /\ p \in 1..(Len(s) + 1)
  BY LenProperties DEF WithAt
<1>2. \A q \in 1..Len(s) : t[IF q < p THEN q ELSE q + 1] = s[q]
  BY <1>1 DEF WithAt
<1>3. \A q \in 1..(Len(s) + 1) : q # p => t[q] = s[IF q < p THEN q ELSE q - 1]
  <2>1. ASSUME NEW q \in 1..(Len(s) + 1), q < p
        PROVE  t[q] = s[q]
    BY <1>1, <2>1 DEF WithAt
  <2>2. ASSUME NEW q \in 1..(Len(s) + 1), q > p
        PROVE  t[q] = s[q - 1]
    <3>1. q - 1 \in p..Len(s) /\ (q - 1) + 1 = q
      BY <1>1, <2>2
    <3> QED BY <3>1 DEF WithAt
  <2> QED BY <1>1, <2>1, <2>2
<1>4. t[p] = i
  BY DEF WithAt
<1>5. ToSet(t) \subseteq ToSet(s) \cup {i}
  <2>1. ASSUME NEW q \in 1..(Len(s) + 1)
        PROVE  t[q] \in ToSet(s) \cup {i}
    <3>1. CASE q = p
      BY <1>4, <3>1
    <3>2. CASE q < p
      BY <1>1, <1>3, <3>2 DEF ToSet
    <3>3. CASE q > p
      BY <1>1, <1>3, <3>3 DEF ToSet
    <3> QED BY <1>1, <3>1, <3>2, <3>3
  <2> QED BY <1>1, <2>1 DEF ToSet
<1>6. ToSet(s) \cup {i} \subseteq ToSet(t)
  <2>1. i \in ToSet(t)
    BY <1>1, <1>4 DEF ToSet
  <2>2. ASSUME NEW q \in 1..Len(s)
        PROVE  s[q] \in ToSet(t)
    <3>1. (IF q < p THEN q ELSE q + 1) \in DOMAIN t
      BY <1>1
    <3> QED BY <1>2, <3>1 DEF ToSet
  <2> QED BY <1>1, <2>1, <2>2 DEF ToSet
<1>7. ASSUME IsInjective(t)
      PROVE  IsInjective(s) /\ i \notin ToSet(s)
  <2>1. IsInjective(s)
    <3> SUFFICES ASSUME NEW q \in 1..Len(s), NEW r \in 1..Len(s), s[q] = s[r]
                 PROVE  q = r
      BY <1>1 DEF IsInjective
    <3> DEFINE x == IF q < p THEN q ELSE q + 1
               y == IF r < p THEN r ELSE r + 1
    <3>1. x \in DOMAIN t /\ y \in DOMAIN t /\ t[x] = t[y]
      BY <1>1, <1>2
    <3>2. x = y
      BY <1>7, <3>1 DEF IsInjective
    <3> QED BY <1>1, <3>2
  <2>2. ASSUME NEW q \in 1..Len(s), s[q] = i
        PROVE  FALSE
    <3> DEFINE x == IF q < p THEN q ELSE q + 1
    <3>1. x \in DOMAIN t /\ p \in DOMAIN t /\ t[x] = t[p] /\ x # p
      BY <1>1, <1>2, <1>4, <2>2
    <3> QED BY <1>7, <3>1 DEF IsInjective
  <2> QED BY <1>1, <2>1, <2>2 DEF ToSet
<1>8. ASSUME IsInjective(s), i \notin ToSet(s)
      PROVE  IsInjective(t)
  <2> SUFFICES ASSUME NEW q \in 1..(Len(s) + 1), NEW r \in 1..(Len(s) + 1), t[q] = t[r]
               PROVE  q = r
    BY <1>1 DEF IsInjective
  <2> DEFINE x == IF q < p THEN q ELSE q - 1
             y == IF r < p THEN r ELSE r - 1
  <2>1. \A v \in 1..Len(s) : s[v] # i
    BY <1>1, <1>8 DEF ToSet
  <2>2. CASE q # p /\ r # p
    <3>1. x \in 1..Len(s) /\ y \in 1..Len(s) /\ s[x] = s[y]
      BY <1>1, <1>3, <2>2
    <3>2. x = y
      BY <1>1, <1>8, <3>1 DEF IsInjective
    <3> QED BY <1>1, <2>2, <3>2
  <2>3. CASE q = p /\ r # p
    <3>1. y \in 1..Len(s) /\ s[y] = i
      <4>1. t[r] = s[y] /\ t[r] = i
        BY <1>3, <1>4, <2>3
      <4> QED BY <1>1, <2>3, <4>1
    <3> QED BY <2>1, <3>1
  <2>4. CASE q # p /\ r = p
    <3>1. x \in 1..Len(s) /\ s[x] = i
      BY <1>1, <1>3, <1>4, <2>4
    <3> QED BY <2>1, <3>1
  <2> QED BY <2>2, <2>3, <2>4
<1> QED BY <1>5, <1>6, <1>7, <1>8

\* A row more or less leaves the order of the others.
LEMMA PlacesWith ==
    ASSUME NEW s, NEW p, NEW i, NEW t, WithAt(s, p, i, t), IsInjective(t),
           NEW a \in ToSet(s), NEW b \in ToSet(s)
    PROVE  PlaceIn(s, a) < PlaceIn(s, b) <=> PlaceIn(t, a) < PlaceIn(t, b)
<1>1. s \in Seq(Lines) /\ t \in Seq(Lines) /\ Len(s) \in Nat /\ Len(t) = Len(s) + 1
  BY LenProperties DEF WithAt
<1>2. ASSUME NEW j \in ToSet(s)
      PROVE  /\ PlaceIn(s, j) \in 1..Len(s)
             /\ PlaceIn(t, j) = IF PlaceIn(s, j) < p THEN PlaceIn(s, j) ELSE PlaceIn(s, j) + 1
  <2> DEFINE q == PlaceIn(s, j)
             x == IF q < p THEN q ELSE q + 1
  <2>1. q \in 1..Len(s) /\ s[q] = j
    BY <1>1, PlaceIsWhere
  <2>2. j \in ToSet(t)
    BY RowsWith
  <2> HIDE DEF q
  <2>3. x \in 1..Len(t) /\ t[x] = j
    BY <1>1, <2>1 DEF WithAt
  <2>4. x = PlaceIn(t, j)
    BY <1>1, <2>2, <2>3, PlaceIsWhere
  <2> QED BY <2>1, <2>4 DEF q
<1>3. p \in Nat
  BY <1>1 DEF WithAt
<1> QED BY <1>2, <1>3

-----------------------------------------------------------------------------
(* Reports: what a report asks, in order *)

Statement == [what : {"sum", "count", "limit", "load", "rows", "page"},
              table : {"ledger", "inbox", "history"}, of : SUBSET Classes]

\* A report has at most four statements; the last two of a listing count its rows and read a
\* page of them, and no other counts rows or reads a page.
LEMMA ReportForms ==
    ASSUME NEW asks \in Reports
    PROVE  /\ asks \in Seq(Statement) /\ asks # <<>>
           /\ Len(asks) \in 1..4
           /\ IsListing(asks) =>
                 /\ Len(asks) \in 2..4 /\ Last(asks) = asks[Len(asks)] /\ Last(asks).what = "page"
                 /\ asks[Len(asks) - 1].what = "rows" /\ asks[Len(asks) - 1].table = Last(asks).table
                 /\ \A n \in 1..(Len(asks) - 2) : asks[n].what \notin {"rows", "page"}
           /\ ~IsListing(asks) => \A n \in 1..Len(asks) : asks[n].what \notin {"rows", "page"}
<1>1. /\ \A methods \in SUBSET Methods : OfShown(methods) \in SUBSET Classes
      /\ OfCampaigns \in SUBSET Classes /\ OfShillings \in SUBSET Classes /\ Classes \in SUBSET Classes /\ {} \in SUBSET Classes
      /\ Known \in SUBSET Methods /\ KnownInList \in SUBSET Methods /\ Methods \in SUBSET Methods
  BY ConstantsAssumption DEF OfShown, OfCampaigns, OfShillings, Currencies, Classes, Known, KnownInList, Methods
<1>2. \A of \in SUBSET Classes : \A what \in {"sum", "count", "limit", "load"} :
         /\ Ask(what, of) \in Statement
         /\ Ask(what, of).what = what
  BY DEF Ask, Statement
<1>3. \A table \in {"ledger", "inbox", "history"} :
         /\ List(table) \in Seq(Statement) /\ Len(List(table)) = 2
         /\ List(table)[1] = [what |-> "rows", table |-> table, of |-> {}]
         /\ List(table)[2] = [what |-> "page", table |-> table, of |-> {}]
  BY <1>1 DEF List, Statement
<1> DEFINE S(methods) == Ask("sum", OfShown(methods))
<1>4. PublicReport = <<S(Methods), S(Known)>> \o List("ledger")
  BY DEF PublicReport
<1>5. /\ PublicReport \in Seq(Statement) /\ Len(PublicReport) = 4
      /\ PublicReport[1] = S(Methods) /\ PublicReport[2] = S(Known)
      /\ PublicReport[3] = List("ledger")[1] /\ PublicReport[4] = List("ledger")[2]
  <2>1. <<S(Methods), S(Known)>> \in Seq(Statement)
    BY <1>1, <1>2
  <2> DEFINE a == <<S(Methods), S(Known)>>
  <2>2. Len(a) = 2 /\ a[1] = S(Methods) /\ a[2] = S(Known)
    OBVIOUS
  <2> HIDE DEF a, S
  <2>3. /\ a \o List("ledger") \in Seq(Statement)
        /\ Len(a \o List("ledger")) = Len(a) + Len(List("ledger"))
        /\ \A n \in 1..(Len(a) + Len(List("ledger"))) :
              (a \o List("ledger"))[n] = IF n <= Len(a) THEN a[n] ELSE List("ledger")[n - Len(a)]
    BY <1>3, <2>1, ConcatProperties DEF a
  <2>4. PublicReport = a \o List("ledger")
    BY <1>4 DEF a, S
  <2>5. Len(PublicReport) = 4 /\ \A n \in 1..4 : PublicReport[n] = IF n <= 2 THEN a[n] ELSE List("ledger")[n - 2]
    BY <1>3, <2>2, <2>3, <2>4
  <2>6. /\ PublicReport[1] = a[1] /\ PublicReport[2] = a[2]
        /\ PublicReport[3] = List("ledger")[1] /\ PublicReport[4] = List("ledger")[2]
    BY <2>5
  <2> QED BY <2>2, <2>3, <2>4, <2>5, <2>6
<1> DEFINE Figures == {a \in Statement : a.what \notin {"rows", "page"}}
           Good(x) ==
              /\ x \in Seq(Statement) /\ x # <<>>
              /\ Len(x) \in 1..4
              /\ IsListing(x) =>
                    /\ Len(x) \in 2..4 /\ Last(x) = x[Len(x)] /\ Last(x).what = "page"
                    /\ x[Len(x) - 1].what = "rows" /\ x[Len(x) - 1].table = Last(x).table
                    /\ \A n \in 1..(Len(x) - 2) : x[n].what \notin {"rows", "page"}
              /\ ~IsListing(x) => \A n \in 1..Len(x) : x[n].what \notin {"rows", "page"}
<1>6. ASSUME NEW a \in Figures, NEW b \in Figures, NEW c \in Figures, NEW d \in Figures
      PROVE  Good(<<a>>) /\ Good(<<a, b>>) /\ Good(<<a, b, c>>) /\ Good(<<a, b, c, d>>)
  <2>1. ASSUME NEW x \in Seq(Figures), Len(x) \in 1..4
        PROVE  Good(x)
    <3>1. x \in Seq(Statement) /\ \A n \in 1..Len(x) : x[n] \in Figures
      BY ElementOfSeq
    <3>2. ~IsListing(x)
      BY <2>1, <3>1 DEF IsListing, Last
    <3>3. x # <<>>
      <4>1. Len(<<>>) = 0
        BY EmptySeq
      <4> HIDE DEF Good, Figures
      <4> QED BY <2>1, <4>1
    <3>4. \A n \in 1..Len(x) : x[n].what \notin {"rows", "page"}
      BY <3>1
    <3> QED BY <2>1, <3>1, <3>2, <3>3, <3>4
  <2> HIDE DEF Good, Figures
  <2>2. <<a>> \in Seq(Figures) /\ Len(<<a>>) \in 1..4
    OBVIOUS
  <2>3. <<a, b>> \in Seq(Figures) /\ Len(<<a, b>>) \in 1..4
    OBVIOUS
  <2>4. <<a, b, c>> \in Seq(Figures) /\ Len(<<a, b, c>>) \in 1..4
    OBVIOUS
  <2>5. <<a, b, c, d>> \in Seq(Figures) /\ Len(<<a, b, c, d>>) \in 1..4
    OBVIOUS
  <2>6. Good(<<a>>)
    BY <2>1, <2>2, Zenon
  <2>7. Good(<<a, b>>)
    BY <2>1, <2>3, Zenon
  <2>8. Good(<<a, b, c>>)
    BY <2>1, <2>4, Zenon
  <2>9. Good(<<a, b, c, d>>)
    BY <2>1, <2>5, Zenon
  <2> QED BY <2>6, <2>7, <2>8, <2>9
<1>7. ASSUME NEW table \in {"ledger", "inbox", "history"}
      PROVE  Good(List(table))
  BY <1>3 DEF IsListing, Last
<1>8. Good(PublicReport)
  <2>1. PublicReport[1].what = "sum" /\ PublicReport[2].what = "sum"
    BY <1>1, <1>2, <1>5
  <2>2. /\ PublicReport[3].what = "rows" /\ PublicReport[4].what = "page"
        /\ PublicReport[3].table = PublicReport[4].table
    BY <1>3, <1>5
  <2>3. PublicReport # <<>> /\ Last(PublicReport) = PublicReport[4] /\ IsListing(PublicReport)
    <3>1. PublicReport # <<>>
      BY <1>5, EmptySeq
    <3> QED BY <1>5, <2>2, <3>1 DEF IsListing, Last
  <2>4. \A n \in 1..(4 - 2) : n = 1 \/ n = 2
    OBVIOUS
  <2> HIDE DEF S
  <2> QED BY <1>5, <2>1, <2>2, <2>3, <2>4
<1>9. \A of \in SUBSET Classes : \A what \in {"sum", "count", "limit", "load"} : Ask(what, of) \in Figures
  BY <1>2
<1> HIDE DEF Good, Figures
<1>10. Good(Detail) /\ Good(InGroupList) /\ Good(MessageReport) /\ Good(ExcelExport) /\ Good(Dashboard)
  BY <1>1, <1>6, <1>9 DEF Detail, InGroupList, MessageReport, ExcelExport, Dashboard
<1>11. Good(Overview) /\ Good(Search) /\ Good(OwnerGroups) /\ Good(GlobalLedger)
  BY <1>1, <1>6, <1>9 DEF Overview, Search, OwnerGroups, GlobalLedger
<1>12. /\ Good(Preview) /\ Good(WhatsAppReport) /\ Good(Chart) /\ Good(CampaignLedger)
       /\ Good(LedgerExport) /\ Good(PdfExport)
  BY <1>10 DEF Preview, WhatsAppReport, Chart, CampaignLedger, LedgerExport, PdfExport, MessageReport
<1>13. Good(Transactions) /\ Good(Inbox) /\ Good(CampaignInbox) /\ Good(History)
  BY <1>7 DEF Transactions, Inbox, CampaignInbox, History
<1>14. Good(asks)
  BY <1>8, <1>10, <1>11, <1>12, <1>13 DEF Reports
<1> QED BY <1>14 DEF Good

-----------------------------------------------------------------------------
(* Changes of the lines *)

Table == Last(reader.asks).table

Rows == Listed(Table)

Sequenced == booked \in Seq(Lines)

LinesOK ==
    /\ line \in [Lines -> Line]
    /\ IsInjective(booked) /\ ToSet(booked) = Approved \cup Processed
    /\ \A i \in Lines \ Approved : line[i].camp = None /\ line[i].cur = "KES" /\ line[i].amount = 1

ChangeOf(i) == Ingest(i) \/ Approve(i) \/ Reject(i) \/ Undo(i) \/ Clear(i) \/ Edit(i)

\* What a change does to the order of the rows: nothing, or its own row comes or goes.
RowMoves(i) ==
    \/ booked' = booked
    \/ \E p : WithAt(booked, p, i, booked')
    \/ \E p : WithAt(booked', p, i, booked)

\* The lines that are processed or entries, by their states alone.
LEMMA InOrder == Approved \cup Processed = {i \in Lines : line[i].st \in {"approved", "rejected", "cleared"}}
BY DEF Approved, Processed

\* A row may come anywhere.
LEMMA RowComes ==
    ASSUME LinesOK, Sequenced, NEW i \in Lines, NEW rows \in WithRow(i), i \notin ToSet(booked)
    PROVE  /\ rows \in Seq(Lines) /\ IsInjective(rows)
           /\ ToSet(rows) = ToSet(booked) \cup {i}
           /\ \E p : WithAt(booked, p, i, rows)
<1>1. PICK p \in 1..(Len(booked) + 1) : rows = InsertAt(booked, p, i)
  BY DEF WithRow
<1>2. WithAt(booked, p, i, rows)
  BY <1>1, InsertedAt DEF Sequenced
<1> QED BY <1>2, RowsWith DEF WithAt, LinesOK

\* A row that is there can go.
LEMMA RowGoes ==
    ASSUME LinesOK, Sequenced, NEW i \in Lines, i \in ToSet(booked)
    PROVE  /\ Without(i) \in Seq(Lines) /\ IsInjective(Without(i))
           /\ ToSet(Without(i)) = ToSet(booked) \ {i}
           /\ \E p : WithAt(Without(i), p, i, booked)
<1>1. Place(i) \in 1..Len(booked) /\ booked[Place(i)] = i
  BY PlaceIsWhere DEF Place, PlaceIn, Sequenced
<1>2. WithAt(Without(i), Place(i), i, booked)
  BY <1>1, RemovedAt DEF Without, Sequenced
<1>3. /\ ToSet(booked) = ToSet(Without(i)) \cup {i}
      /\ IsInjective(booked) <=> IsInjective(Without(i)) /\ i \notin ToSet(Without(i))
  BY <1>2, RowsWith
<1>4. Without(i) \in Seq(Lines)
  BY <1>2 DEF WithAt
<1> QED BY <1>2, <1>3, <1>4 DEF LinesOK

\* One line changes, and the rows stay in order and complete.
LEMMA LinesStep ==
    ASSUME LinesOK, Sequenced, NEW i \in Lines, ChangeOf(i)
    PROVE  /\ LinesOK' /\ Sequenced' /\ RowMoves(i)
           /\ \A j \in Lines \ {i} : line'[j] = line[j]
<1> DEFINE Done == {"approved", "rejected", "cleared"}
<1>1. ToSet(booked) = {j \in Lines : line[j].st \in Done}
  BY InOrder DEF LinesOK
<1>2. ASSUME NEW new \in Line, NEW rows, line' = [line EXCEPT ![i] = new], booked' = rows,
             new.st \notin {"approved", "cleared"} => new.camp = None /\ new.cur = "KES" /\ new.amount = 1,
             rows \in Seq(Lines), IsInjective(rows),
             ToSet(rows) = IF new.st \in Done THEN ToSet(booked) \cup {i} ELSE ToSet(booked) \ {i}
      PROVE  LinesOK' /\ Sequenced' /\ \A j \in Lines \ {i} : line'[j] = line[j]
  <2>2. line' \in [Lines -> Line] /\ line'[i] = new /\ \A j \in Lines \ {i} : line'[j] = line[j]
    BY <1>2 DEF LinesOK
  <2>3. ToSet(booked') = {j \in Lines : line'[j].st \in Done}
    BY <1>1, <1>2, <2>2
  <2>4. (Approved \cup Processed)' = {j \in Lines : line'[j].st \in Done}
    BY DEF Approved, Processed
  <2>5. \A j \in Lines \ Approved' : line'[j].camp = None /\ line'[j].cur = "KES" /\ line'[j].amount = 1
    BY <1>2, <2>2 DEF LinesOK, Approved
  <2> QED BY <1>2, <2>2, <2>3, <2>4, <2>5 DEF LinesOK, Sequenced
<1>3. line[i] \in Line /\ (i \notin Approved => line[i].camp = None /\ line[i].cur = "KES" /\ line[i].amount = 1)
  BY DEF LinesOK
<1>4. i \in ToSet(booked) <=> line[i].st \in Done
  BY <1>1
<1>5. booked \in Seq(Lines) /\ IsInjective(booked)
  BY DEF LinesOK, Sequenced
<1> HIDE DEF Done
<1>6. CASE Ingest(i)
  <2>1. Commit(i, [line[i] EXCEPT !.st = "pending"], booked, TRUE, {}) /\ line[i].st = "none"
    BY <1>6 DEF Ingest
  <2>2. i \notin Approved /\ [line[i] EXCEPT !.st = "pending"] \in Line
    BY <1>3, <2>1 DEF Approved, Line, States
  <2>3. i \notin ToSet(booked)
    BY <1>4, <2>1 DEF Done
  <2>4. ToSet(booked) = ToSet(booked) \ {i}
    BY <2>3
  <2> QED BY <1>2, <1>3, <1>5, <2>1, <2>2, <2>4 DEF RowMoves, Commit, Line, Done
<1>7. CASE Approve(i)
  <2>1. PICK rows \in WithRow(i) :
            Commit(i, [line[i] EXCEPT !.st = "approved", !.camp = BookedTo[i][1], !.cur = BookedTo[i][2]], rows, TRUE, {i})
    BY <1>7 DEF Approve
  <2>2. [line[i] EXCEPT !.st = "approved", !.camp = BookedTo[i][1], !.cur = BookedTo[i][2]] \in Line
    <3>1. BookedTo[i][1] \in Campaigns \cup {None} /\ BookedTo[i][2] \in Currencies
      BY ConstantsAssumption
    <3> QED BY <1>3, <3>1 DEF Line, States
  <2>3. i \notin ToSet(booked)
    BY <1>4, <1>7 DEF Approve, Done
  <2>4. rows \in Seq(Lines) /\ IsInjective(rows) /\ ToSet(rows) = ToSet(booked) \cup {i}
        /\ \E p : WithAt(booked, p, i, rows)
    BY <2>3, RowComes
  <2>5. [line[i] EXCEPT !.st = "approved", !.camp = BookedTo[i][1], !.cur = BookedTo[i][2]].st = "approved"
    BY <1>3 DEF Line
  <2>6. booked' = rows
    BY <2>1 DEF Commit
  <2>7. LinesOK' /\ Sequenced' /\ \A j \in Lines \ {i} : line'[j] = line[j]
    BY <1>2, <2>1, <2>2, <2>4, <2>5 DEF Done, Commit
  <2> QED BY <2>4, <2>6, <2>7 DEF RowMoves
<1>8. CASE Reject(i)
  <2>1. PICK rows \in WithRow(i) : Commit(i, [line[i] EXCEPT !.st = "rejected"], rows, TRUE, {i})
    BY <1>8 DEF Reject
  <2>2. [line[i] EXCEPT !.st = "rejected"] \in Line
    BY <1>3 DEF Line, States
  <2>3. i \notin ToSet(booked) /\ i \notin Approved
    BY <1>4, <1>8 DEF Reject, Done, Approved
  <2>4. rows \in Seq(Lines) /\ IsInjective(rows) /\ ToSet(rows) = ToSet(booked) \cup {i}
        /\ \E p : WithAt(booked, p, i, rows)
    BY <2>3, RowComes
  <2> QED BY <1>2, <1>3, <2>1, <2>2, <2>3, <2>4 DEF RowMoves, Commit, Line, Done
<1>9. CASE Undo(i)
  <2>1. Commit(i, Reopened(line[i]), Without(i), line[i].st = "rejected", {i}) /\ i \in Processed
    BY <1>9 DEF Undo
  <2>2. Reopened(line[i]) \in Line
    <3>1. 1 \in 1..MaxAmount
      BY ConstantsAssumption
    <3> QED BY <1>3, <3>1 DEF Line, States, Currencies, Reopened
  <2>3. i \in ToSet(booked)
    BY <1>4, <2>1 DEF Done, Processed
  <2> QED BY <1>2, <1>3, <2>1, <2>2, <2>3, RowGoes DEF RowMoves, Commit, Line, Done, Reopened
<1>10. CASE Clear(i)
  <2> DEFINE left == IF Reading /\ Last(reader.asks).table = "history" THEN {i} ELSE {}
  <2>1. i \in Processed
    BY <1>10 DEF Clear
  <2>2. i \in ToSet(booked)
    BY <1>4, <2>1 DEF Done, Processed
  <2>3. CASE i \in Approved
    <3>1. Commit(i, [line[i] EXCEPT !.st = "cleared"], booked, TRUE, left)
      BY <1>10, <2>3 DEF Clear
    <3>2. [line[i] EXCEPT !.st = "cleared"] \in Line
      BY <1>3 DEF Line, States
    <3>3. ToSet(booked) = ToSet(booked) \cup {i}
      BY <2>2
    <3>4. [line[i] EXCEPT !.st = "cleared"].st = "cleared" /\ "cleared" \in Done
      BY <1>3 DEF Line, Done
    <3>5. LinesOK' /\ Sequenced' /\ \A j \in Lines \ {i} : line'[j] = line[j]
      BY <1>2, <1>5, <3>1, <3>2, <3>3, <3>4 DEF Commit
    <3> QED BY <3>1, <3>5 DEF RowMoves, Commit
  <2>4. CASE i \notin Approved
    <3>1. Commit(i, Absent, Without(i), TRUE, left)
      BY <1>10, <2>4 DEF Clear
    <3>2. Absent \in Line
      BY ConstantsAssumption DEF Absent, Line, States, Currencies
    <3> QED BY <1>2, <2>2, <3>1, <3>2, RowGoes DEF RowMoves, Commit, Absent, Done
  <2> QED BY <2>3, <2>4
<1>11. CASE Edit(i)
  <2> DEFINE left == IF Reading /\ Last(reader.asks).table = "history" THEN {} ELSE {i}
  <2>1. PICK to \in Bookings, a \in 1..MaxAmount :
            /\ to[1] \in Campaigns \cup {line[i].camp}
            /\ Commit(i, [line[i] EXCEPT !.camp = to[1], !.cur = to[2], !.amount = a], booked, FALSE, left)
    BY <1>11 DEF Edit
  <2>2. to[1] \in Campaigns \cup {None} /\ to[2] \in Currencies
    BY ConstantsAssumption
  <2>3. /\ [line[i] EXCEPT !.camp = to[1], !.cur = to[2], !.amount = a] \in Line
        /\ [line[i] EXCEPT !.camp = to[1], !.cur = to[2], !.amount = a].st \in {"approved", "cleared"}
    BY <1>3, <2>2, <1>11 DEF Edit, Approved, Line
  <2>4. ToSet(booked) = ToSet(booked) \cup {i}
    BY <1>4, <1>11 DEF Edit, Approved, Done
  <2>5. [line[i] EXCEPT !.camp = to[1], !.cur = to[2], !.amount = a].st \in Done
    BY <2>3 DEF Done
  <2>6. LinesOK' /\ Sequenced' /\ \A j \in Lines \ {i} : line'[j] = line[j]
    BY <1>2, <1>5, <2>1, <2>3, <2>4, <2>5 DEF Commit
  <2> QED BY <2>1, <2>6 DEF RowMoves, Commit
<1> QED BY <1>6, <1>7, <1>8, <1>9, <1>10, <1>11 DEF ChangeOf

-----------------------------------------------------------------------------
(* The listing a client reads: its rows, in its order *)

Tables == {"ledger", "inbox", "history"}

OrderKey == [i \in Rows |-> IF reader.asks = PublicReport THEN Key(Table, i) ELSE 0 - Key(Table, i)]

\* Every row of a listing other than the inbox has a place among the rows.
LEMMA RowsHavePlaces ==
    LinesOK /\ Table \in Tables =>
        /\ Rows \subseteq Lines /\ IsFiniteSet(Rows)
        /\ Table # "inbox" => Rows \subseteq ToSet(booked)
<1> SUFFICES ASSUME LinesOK, Table \in Tables
             PROVE  /\ Rows \subseteq Lines /\ IsFiniteSet(Rows)
                    /\ Table # "inbox" => Rows \subseteq ToSet(booked)
  OBVIOUS
<1>1. Rows \subseteq Lines
  BY DEF Rows, Listed, Processed, Selected, Approved, Tables
<1>2. IsFiniteSet(Lines)
  BY ConstantsAssumption, FS_Interval DEF Lines
<1>3. Table # "inbox" => Rows \subseteq ToSet(booked)
  BY DEF Rows, Listed, Processed, Selected, Approved, Tables, LinesOK
<1> QED BY <1>1, <1>2, <1>3, FS_Subset

\* The order of a listing is one by keys.
LEMMA RowsAreOrdered ==
    LinesOK /\ Sequenced /\ Table \in Tables =>
        /\ OrderKey \in Keys(Rows) /\ IsFiniteSet(Rows) /\ Rows \subseteq Lines
        /\ \A i, j \in Rows : Before(i, j) <=> OrderKey[i] < OrderKey[j]
<1> SUFFICES ASSUME LinesOK, Sequenced, Table \in Tables
             PROVE  /\ OrderKey \in Keys(Rows) /\ IsFiniteSet(Rows) /\ Rows \subseteq Lines
                    /\ \A i, j \in Rows : Before(i, j) <=> OrderKey[i] < OrderKey[j]
  OBVIOUS
<1>1. Rows \subseteq Lines /\ IsFiniteSet(Rows) /\ (Table # "inbox" => Rows \subseteq ToSet(booked))
  BY RowsHavePlaces
<1>2. ASSUME NEW i \in Rows
      PROVE  Key(Table, i) \in Int
  <2>1. CASE Table = "inbox"
    BY <1>1, <2>1 DEF Key, Lines
  <2>2. CASE Table # "inbox"
    <3>1. PlaceIn(booked, i) \in 1..Len(booked)
      BY <1>1, <2>2, PlaceIsWhere DEF Sequenced
    <3> QED BY <2>2, <3>1 DEF Key, Place, PlaceIn
  <2> QED BY <2>1, <2>2
<1>3. ASSUME NEW i \in Rows, NEW j \in Rows, Key(Table, i) = Key(Table, j)
      PROVE  i = j
  <2>1. CASE Table = "inbox"
    BY <1>3, <2>1 DEF Key
  <2>2. CASE Table # "inbox"
    <3>1. booked[PlaceIn(booked, i)] = i /\ booked[PlaceIn(booked, j)] = j
      BY <1>1, <2>2, PlaceIsWhere DEF Sequenced
    <3>2. PlaceIn(booked, i) = PlaceIn(booked, j)
      BY <1>3, <2>2 DEF Key, Place, PlaceIn
    <3> QED BY <3>1, <3>2
  <2> QED BY <2>1, <2>2
<1>4. OrderKey \in Keys(Rows)
  <2>1. OrderKey \in [Rows -> Int]
    BY <1>2 DEF OrderKey
  <2>2. ASSUME NEW i \in Rows, NEW j \in Rows, OrderKey[i] = OrderKey[j]
        PROVE  i = j
    BY <1>2, <1>3, <2>2 DEF OrderKey
  <2> QED BY <2>1, <2>2 DEF Keys, IsInjective
<1>5. ASSUME NEW i \in Rows, NEW j \in Rows
      PROVE  Before(i, j) <=> OrderKey[i] < OrderKey[j]
  BY <1>2 DEF Before, OrderKey, Table
<1> QED BY <1>1, <1>4, <1>5

\* A change leaves the order of the rows that were and are listed.
LEMMA OrderStays ==
    ASSUME LinesOK, LinesOK', Sequenced, Sequenced', NEW i \in Lines, RowMoves(i),
           Table \in Tables, reader'.asks = reader.asks,
           NEW a \in Rows \cap Rows', NEW b \in Rows \cap Rows'
    PROVE  OrderKey[a] < OrderKey[b] <=> OrderKey'[a] < OrderKey'[b]
<1>1. Table' = Table
  BY DEF Table
<1>2. CASE Table = "inbox"
  BY <1>1, <1>2 DEF OrderKey, Key
<1>3. CASE Table # "inbox"
  <2>1. a \in ToSet(booked) /\ b \in ToSet(booked)
    BY <1>3, RowsHavePlaces
  <2>2. a \in ToSet(booked') /\ b \in ToSet(booked')
    <3>1. (LinesOK /\ Table \in Tables => (Table # "inbox" => Rows \subseteq ToSet(booked)))'
      BY RowsHavePlaces, PTL
    <3>2. Tables' = Tables
      BY DEF Tables
    <3> QED BY <1>1, <1>3, <3>1, <3>2
  <2>3. PlaceIn(booked, a) < PlaceIn(booked, b) <=> PlaceIn(booked', a) < PlaceIn(booked', b)
    <3>1. CASE booked' = booked
      BY <3>1
    <3>2. ASSUME NEW p, WithAt(booked, p, i, booked')
          PROVE  PlaceIn(booked, a) < PlaceIn(booked, b) <=> PlaceIn(booked', a) < PlaceIn(booked', b)
      BY <2>1, <3>2, PlacesWith DEF LinesOK
    <3>3. ASSUME NEW p, WithAt(booked', p, i, booked)
          PROVE  PlaceIn(booked, a) < PlaceIn(booked, b) <=> PlaceIn(booked', a) < PlaceIn(booked', b)
      BY <2>2, <3>3, PlacesWith DEF LinesOK
    <3> QED BY <3>1, <3>2, <3>3 DEF RowMoves
  <2>4. /\ PlaceIn(booked, a) \in Nat /\ PlaceIn(booked, b) \in Nat
        /\ PlaceIn(booked', a) \in Nat /\ PlaceIn(booked', b) \in Nat
        /\ PlaceIn(booked, a) = PlaceIn(booked, b) <=> a = b
        /\ PlaceIn(booked', a) = PlaceIn(booked', b) <=> a = b
    BY <2>1, <2>2, PlaceIsWhere DEF Sequenced
  <2>5. /\ Key(Table, a) = PlaceIn(booked, a) /\ Key(Table, b) = PlaceIn(booked, b)
        /\ Key(Table, a)' = PlaceIn(booked', a) /\ Key(Table, b)' = PlaceIn(booked', b)
    BY <1>1, <1>3 DEF Key, Place, PlaceIn
  <2> HIDE DEF PlaceIn
  <2> QED BY <2>3, <2>4, <2>5 DEF OrderKey
<1> QED BY <1>2, <1>3

\* A change of a line lists it, takes it off, or leaves the listing as it is.
LEMMA RowsStep ==
    ASSUME LinesOK, Sequenced, NEW i \in Lines, ChangeOf(i),
           Table \in Tables, reader'.asks = reader.asks
    PROVE  \/ Rows' = Rows /\ SameOrder(Rows, OrderKey, OrderKey')
           \/ i \notin Rows /\ Rows' = Rows \cup {i} /\ OneMore(Rows, OrderKey, i, OrderKey')
           \/ i \notin Rows' /\ Rows = Rows' \cup {i} /\ OneMore(Rows', OrderKey', i, OrderKey)
<1>1. /\ LinesOK' /\ Sequenced' /\ RowMoves(i)
      /\ \A j \in Lines \ {i} : line'[j] = line[j]
  BY LinesStep
<1>2. Table' = Table
  BY DEF Table
<1>3. /\ OrderKey \in Keys(Rows) /\ IsFiniteSet(Rows) /\ Rows \subseteq Lines
  BY RowsAreOrdered
<1>4. OrderKey' \in Keys(Rows') /\ IsFiniteSet(Rows') /\ Rows' \subseteq Lines
  <2>1. (LinesOK /\ Sequenced /\ Table \in Tables =>
            OrderKey \in Keys(Rows) /\ IsFiniteSet(Rows) /\ Rows \subseteq Lines)'
    BY RowsAreOrdered, PTL
  <2> QED BY <1>1, <1>2, <2>1 DEF Tables
<1>5. Rows' \ {i} = Rows \ {i}
  <2>1. ASSUME NEW j \in Lines \ {i}
        PROVE  j \in Rows' <=> j \in Rows
    BY <1>1, <1>2, <2>1 DEF Rows, Listed, Processed, Selected, Approved, Class, Tables
  <2> QED BY <1>3, <1>4, <2>1
<1>6. SameOrder(Rows \cap Rows', OrderKey, OrderKey')
  BY <1>1, OrderStays DEF SameOrder
<1>7. CASE i \in Rows <=> i \in Rows'
  BY <1>5, <1>6, <1>7
<1>8. CASE i \notin Rows /\ i \in Rows'
  <2>1. Rows' = Rows \cup {i} /\ Rows \cap Rows' = Rows
    BY <1>5, <1>8
  <2> QED BY <1>3, <1>4, <1>6, <1>8, <2>1 DEF OneMore
<1>9. CASE i \in Rows /\ i \notin Rows'
  <2>1. Rows = Rows' \cup {i} /\ Rows \cap Rows' = Rows'
    BY <1>5, <1>9
  <2> QED BY <1>3, <1>4, <1>6, <1>9, <2>1 DEF OneMore, SameOrder
<1> QED BY <1>7, <1>8, <1>9

-----------------------------------------------------------------------------
(* The reader while lines change *)

\* What was an entry stays one, as it was.
EntriesStay ==
    \A j \in Approved :
        /\ j \in Approved'
        /\ line'[j].camp = line[j].camp /\ line'[j].cur = line[j].cur /\ line'[j].amount = line[j].amount

\* What a change does to a reader: it is counted, and a line that leaves the listing did not stay.
CountedBy(i) ==
    /\ reader.changes < MaxChanges /\ reader' \in Reader
    /\ reader'.asks = reader.asks /\ reader'.next = reader.next
    /\ reader'.page = reader.page /\ reader'.pages = reader.pages
    /\ reader'.figures = reader.figures /\ reader'.seen = reader.seen /\ reader'.again = reader.again
    /\ reader'.changes = reader.changes + 1
    /\ reader'.only => reader.only /\ EntriesStay
    /\ reader'.stayed \subseteq reader.stayed
    /\ i \in Rows /\ i \notin Rows' => i \notin reader'.stayed

\* Whatever the change is.
LEMMA ChangeIsCounted ==
    ASSUME LinesOK, Sequenced, reader \in Reader, NEW i \in Lines, ChangeOf(i), Reading => Table \in Tables
    PROVE  /\ ~Finished
           /\ IF Reading THEN CountedBy(i) ELSE reader' = reader
<1>1. CASE ~Reading
  BY <1>1 DEF ChangeOf, Ingest, Approve, Reject, Undo, Clear, Edit, Commit
<1>2. ~Finished
  BY DEF ChangeOf, Ingest, Approve, Reject, Undo, Clear, Edit, Commit
<1>3. ASSUME Reading
      PROVE  CountedBy(i)
  <2> Table \in Tables
    BY <1>3
  <2>1. ASSUME NEW b \in BOOLEAN, NEW left, reader.changes < MaxChanges,
               reader' = [reader EXCEPT !.changes = @ + 1, !.only = b, !.stayed = @ \ left],
               b => reader.only /\ EntriesStay,
               i \in Rows /\ i \notin Rows' => i \in left
        PROVE  CountedBy(i)
    <3>1. /\ reader'.asks = reader.asks /\ reader'.next = reader.next
          /\ reader'.page = reader.page /\ reader'.pages = reader.pages
          /\ reader'.figures = reader.figures /\ reader'.seen = reader.seen /\ reader'.again = reader.again
          /\ reader'.changes = reader.changes + 1 /\ reader'.only = b
          /\ reader'.stayed = reader.stayed \ left
      BY <2>1 DEF Reader
    <3>2. reader' \in Reader
      <4>1. reader.changes + 1 \in 0..MaxChanges
        BY <2>1, ConstantsAssumption DEF Reader
      <4>2. reader.stayed \ left \in SUBSET Lines
        BY DEF Reader
      <4> QED BY <2>1, <4>1, <4>2 DEF Reader
    <3> QED BY <2>1, <3>1, <3>2 DEF CountedBy
  <2>2. reader.only \in BOOLEAN
    BY DEF Reader
  <2>3. ASSUME line' = [line EXCEPT ![i] = line'[i]], i \notin Approved
        PROVE  EntriesStay
    BY <2>3 DEF EntriesStay, LinesOK, Approved
  <2>4. i \in Rows => i \in Lines
    OBVIOUS
  <2>5. CASE Ingest(i)
    <3>1. /\ line' = [line EXCEPT ![i] = [line[i] EXCEPT !.st = "pending"]] /\ line[i].st = "none"
          /\ reader.changes < MaxChanges
          /\ reader' = [reader EXCEPT !.changes = @ + 1, !.only = reader.only, !.stayed = @ \ {}]
      BY <1>3, <2>2, <2>5 DEF Ingest, Commit
    <3>2. line' = [line EXCEPT ![i] = line'[i]] /\ i \notin Approved /\ i \notin Rows
      BY <3>1 DEF LinesOK, Approved, Rows, Listed, Processed, Selected, Tables
    <3> QED BY <2>1, <2>2, <2>3, <3>1, <3>2
  <2>6. CASE Approve(i) \/ Reject(i)
    <3>1. /\ \E new : line' = [line EXCEPT ![i] = new]
          /\ line[i].st = "pending"
          /\ reader.changes < MaxChanges
          /\ reader' = [reader EXCEPT !.changes = @ + 1, !.only = reader.only, !.stayed = @ \ {i}]
      BY <1>3, <2>2, <2>6 DEF Approve, Reject, Commit
    <3>2. line' = [line EXCEPT ![i] = line'[i]] /\ i \notin Approved
      BY <3>1 DEF LinesOK, Approved
    <3> QED BY <2>1, <2>2, <2>3, <3>1, <3>2
  <2>7. CASE Undo(i)
    <3>1. /\ line' = [line EXCEPT ![i] = Reopened(line[i])] /\ i \in Processed
          /\ reader.changes < MaxChanges
          /\ reader' = [reader EXCEPT !.changes = @ + 1, !.only = @ /\ line[i].st = "rejected", !.stayed = @ \ {i}]
      BY <1>3, <2>7 DEF Undo, Commit
    <3>2. CASE line[i].st = "rejected"
      <4>1. line' = [line EXCEPT ![i] = line'[i]] /\ i \notin Approved
        BY <3>1, <3>2 DEF LinesOK, Approved
      <4>2. reader' = [reader EXCEPT !.changes = @ + 1, !.only = reader.only, !.stayed = @ \ {i}]
        BY <2>2, <3>1, <3>2
      <4> QED BY <2>1, <2>2, <2>3, <3>1, <4>1, <4>2
    <3>3. CASE line[i].st # "rejected"
      <4>1. reader' = [reader EXCEPT !.changes = @ + 1, !.only = FALSE, !.stayed = @ \ {i}]
        BY <3>1, <3>3
      <4> QED BY <2>1, <3>1, <4>1
    <3> QED BY <3>2, <3>3
  <2>8. CASE Clear(i)
    <3> DEFINE left == IF Table = "history" THEN {i} ELSE {}
    <3>1. /\ line' = [line EXCEPT ![i] = IF i \in Approved THEN [line[i] EXCEPT !.st = "cleared"] ELSE Absent]
          /\ i \in Processed
          /\ reader.changes < MaxChanges
          /\ reader' = [reader EXCEPT !.changes = @ + 1, !.only = reader.only, !.stayed = @ \ left]
      BY <1>3, <2>2, <2>8 DEF Clear, Commit, Table
    <3>2. EntriesStay
      <4>1. CASE i \in Approved
        BY <3>1, <4>1 DEF EntriesStay, LinesOK, Line, Approved
      <4>2. CASE i \notin Approved
        <5>1. line' = [line EXCEPT ![i] = line'[i]]
          BY <3>1 DEF LinesOK
        <5> QED BY <2>3, <4>2, <5>1
      <4> QED BY <4>1, <4>2
    <3>3. ASSUME i \in Rows, i \notin Rows'
          PROVE  i \in left
      <4>1. Table' = Table
        BY <3>1 DEF Table, Reader
      <4>2. Table # "inbox"
        BY <3>1, <3>3 DEF Rows, Listed, Processed
      <4>3. ASSUME Table = "ledger"
            PROVE  FALSE
        <5>1. i \in Approved /\ Class(i) \in OfShown(Methods)
          BY <3>3, <4>3 DEF Rows, Listed, Selected
        <5>2. i \in Approved' /\ Class(i)' = Class(i)
          BY <3>2, <5>1 DEF EntriesStay, Class
        <5>3. OfShown(Methods)' = OfShown(Methods)
          BY DEF OfShown, Currencies, Methods
        <5> QED BY <3>3, <4>1, <4>3, <5>1, <5>2, <5>3 DEF Rows, Listed, Selected
      <4> QED BY <4>2, <4>3 DEF Tables
    <3> QED BY <2>1, <2>2, <3>1, <3>2, <3>3
  <2>9. CASE Edit(i)
    <3> DEFINE left == IF Table = "history" THEN {} ELSE {i}
    <3>1. /\ \E c, cur, a : line' = [line EXCEPT ![i] = [line[i] EXCEPT !.camp = c, !.cur = cur, !.amount = a]]
          /\ reader.changes < MaxChanges
          /\ reader' = [reader EXCEPT !.changes = @ + 1, !.only = FALSE, !.stayed = @ \ left]
      <4>1. PICK to \in Bookings, a \in 1..MaxAmount :
               Commit(i, [line[i] EXCEPT !.camp = to[1], !.cur = to[2], !.amount = a], booked, FALSE, left)
        BY <1>3, <2>9 DEF Edit, Table
      <4>2. line' = [line EXCEPT ![i] = [line[i] EXCEPT !.camp = to[1], !.cur = to[2], !.amount = a]]
        BY <4>1 DEF Commit
      <4>3. /\ reader.changes < MaxChanges
            /\ reader' = [reader EXCEPT !.changes = @ + 1, !.only = FALSE, !.stayed = @ \ left]
        BY <1>3, <4>1 DEF Commit
      <4> QED BY <4>2, <4>3
    <3>2. ASSUME i \in Rows, i \notin Rows', Table = "history"
          PROVE  FALSE
      <4>1. Table' = Table
        BY <3>1 DEF Table, Reader
      <4>2. line'[i].st = line[i].st
        BY <3>1 DEF LinesOK, Line
      <4> QED BY <3>2, <4>1, <4>2 DEF Rows, Listed, Processed
    <3> QED BY <2>1, <3>1, <3>2
  <2> QED BY <2>5, <2>6, <2>7, <2>8, <2>9 DEF ChangeOf
<1> QED BY <1>1, <1>2, <1>3

-----------------------------------------------------------------------------
(* Figures.  What a figure counts or adds up is a set, of lines or of units; *)
(* a change of one line puts no more into it, and takes no more out, than    *)
(* the worth of that line.                                                   *)

Counted(f) == IF f.what = "count" THEN Selected(f.of) ELSE Units(Selected(f.of))

Worths(i, f) == IF f.what = "count" THEN {i} ELSE {i} \X (1..MaxAmount)

\* A set with no more than a few elements more is larger by no more than those.
LEMMA AFewMore ==
    ASSUME NEW A, IsFiniteSet(A), NEW B, NEW C, IsFiniteSet(C), B \subseteq A \cup C
    PROVE  /\ IsFiniteSet(B)
           /\ Cardinality(A) \in Nat /\ Cardinality(B) \in Nat /\ Cardinality(C) \in Nat
           /\ Cardinality(B) <= Cardinality(A) + Cardinality(C)
<1>1. /\ IsFiniteSet(A \cup C)
      /\ Cardinality(A \cup C) = Cardinality(A) + Cardinality(C) - Cardinality(A \cap C)
  BY FS_Union
<1>2. IsFiniteSet(A \cap C)
  BY FS_Intersection
<1>3. IsFiniteSet(B) /\ Cardinality(B) <= Cardinality(A \cup C)
  BY <1>1, FS_Subset
<1> QED BY <1>1, <1>2, <1>3, FS_CardinalityType

\* Lines and units are finitely many, and no figure is larger than its type allows.
LEMMA FiguresAreFinite ==
    ASSUME LinesOK, NEW of
    PROVE  /\ IsFiniteSet(Selected(of)) /\ Cardinality(Selected(of)) \in 0..MaxLines
           /\ IsFiniteSet(Units(Selected(of))) /\ Cardinality(Units(Selected(of))) \in 0..(MaxLines * MaxAmount)
<1>1. IsFiniteSet(Lines) /\ Cardinality(Lines) = MaxLines
  BY ConstantsAssumption, FS_Interval DEF Lines
<1>2. IsFiniteSet(1..MaxAmount) /\ Cardinality(1..MaxAmount) = MaxAmount
  BY ConstantsAssumption, FS_Interval
<1>3. IsFiniteSet(Lines \X (1..MaxAmount)) /\ Cardinality(Lines \X (1..MaxAmount)) = MaxLines * MaxAmount
  BY <1>1, <1>2, FS_Product
<1>4. Selected(of) \in SUBSET Lines
  BY DEF Selected, Approved
<1>5. IsFiniteSet(Selected(of)) /\ Cardinality(Selected(of)) <= Cardinality(Lines)
  BY <1>1, <1>4, FS_Subset
<1>6. Units(Selected(of)) \in SUBSET (Lines \X (1..MaxAmount))
  BY <1>4 DEF Units
<1>7. IsFiniteSet(Units(Selected(of))) /\ Cardinality(Units(Selected(of))) <= Cardinality(Lines \X (1..MaxAmount))
  BY <1>3, <1>6, FS_Subset
<1>8. Cardinality(Selected(of)) \in Nat /\ Cardinality(Units(Selected(of))) \in Nat
  BY <1>5, <1>7, FS_CardinalityType
<1> QED BY <1>1, <1>3, <1>5, <1>7, <1>8, ConstantsAssumption

\* One line is worth one in a count and no more than the largest amount in a sum.
LEMMA WorthOfALine ==
    ASSUME NEW i, NEW f
    PROVE  IsFiniteSet(Worths(i, f)) /\ Cardinality(Worths(i, f)) = Worth(f) /\ Worth(f) \in Nat \ {0}
<1>1. IsFiniteSet({i}) /\ Cardinality({i}) = 1
  BY FS_Singleton
<1>2. IsFiniteSet(1..MaxAmount) /\ Cardinality(1..MaxAmount) = MaxAmount
  BY ConstantsAssumption, FS_Interval
<1>3. IsFiniteSet({i} \X (1..MaxAmount)) /\ Cardinality({i} \X (1..MaxAmount)) = 1 * MaxAmount
  BY <1>1, <1>2, FS_Product
<1> QED BY <1>1, <1>3, ConstantsAssumption DEF Worths, Worth

\* So a change moves a figure by no more than that, either way.
LEMMA FigureMoves ==
    ASSUME LinesOK, LinesOK', NEW i \in Lines, \A j \in Lines \ {i} : line'[j] = line[j], NEW f
    PROVE  /\ IsFiniteSet(Counted(f)')
           /\ Cardinality(Counted(f)) \in Nat /\ Cardinality(Counted(f)') \in Nat
           /\ Cardinality(Counted(f)') <= Cardinality(Counted(f)) + Worth(f)
           /\ Cardinality(Counted(f)) <= Cardinality(Counted(f)') + Worth(f)
<1>1. IsFiniteSet(Counted(f))
  BY FiguresAreFinite DEF Counted
<1>2. Selected(f.of)' \subseteq Selected(f.of) \cup {i} /\ Selected(f.of) \subseteq Selected(f.of)' \cup {i}
  BY DEF Selected, Approved, Class
<1>3. CASE f.what = "count"
  <2>1. Counted(f)' \subseteq Counted(f) \cup Worths(i, f) /\ Counted(f) \subseteq Counted(f)' \cup Worths(i, f)
    BY <1>2, <1>3 DEF Counted, Worths
  <2> QED BY <1>1, <2>1, WorthOfALine, AFewMore
<1>4. CASE f.what # "count"
  <2>1. ASSUME NEW unit \in Units(Selected(f.of))'
        PROVE  unit \in Units(Selected(f.of)) \cup Worths(i, f)
    <3>1. /\ unit \in (Selected(f.of))' \X (1..MaxAmount) /\ unit[2] <= line'[unit[1]].amount
      BY DEF Units
    <3>2. CASE unit[1] = i
      BY <1>4, <3>1, <3>2 DEF Worths
    <3>3. CASE unit[1] # i
      <4>1. unit[1] \in Selected(f.of) /\ unit[1] \in Lines /\ line'[unit[1]] = line[unit[1]]
        BY <1>2, <3>1, <3>3 DEF Selected, Approved
      <4> QED BY <3>1, <4>1 DEF Units
    <3> QED BY <3>2, <3>3
  <2>2. ASSUME NEW unit \in Units(Selected(f.of))
        PROVE  unit \in Units(Selected(f.of))' \cup Worths(i, f)
    <3>1. /\ unit \in Selected(f.of) \X (1..MaxAmount) /\ unit[2] <= line[unit[1]].amount
      BY DEF Units
    <3>2. CASE unit[1] = i
      BY <1>4, <3>1, <3>2 DEF Worths
    <3>3. CASE unit[1] # i
      <4>1. unit[1] \in Selected(f.of)' /\ unit[1] \in Lines /\ line'[unit[1]] = line[unit[1]]
        BY <1>2, <3>1, <3>3 DEF Selected, Approved
      <4> QED BY <3>1, <4>1 DEF Units
    <3> QED BY <3>2, <3>3
  <2>3. Counted(f)' \subseteq Counted(f) \cup Worths(i, f) /\ Counted(f) \subseteq Counted(f)' \cup Worths(i, f)
    BY <1>4, <2>1, <2>2 DEF Counted
  <2> QED BY <1>1, <2>3, WorthOfALine, AFewMore
<1> QED BY <1>3, <1>4

\* While entries stay as they are, no figure falls.
LEMMA FigureGrows ==
    ASSUME LinesOK, LinesOK', NEW i \in Lines, \A j \in Lines \ {i} : line'[j] = line[j], EntriesStay, NEW f
    PROVE  Cardinality(Counted(f)) <= Cardinality(Counted(f)')
<1>1. Selected(f.of) \subseteq Selected(f.of)'
  BY DEF EntriesStay, Selected, Class
<1>2. Units(Selected(f.of)) \subseteq Units(Selected(f.of))'
  <2>1. ASSUME NEW unit \in Units(Selected(f.of))
        PROVE  unit \in Units(Selected(f.of))'
    <3>1. /\ unit \in Selected(f.of) \X (1..MaxAmount) /\ unit[2] <= line[unit[1]].amount
      BY DEF Units
    <3>2. unit[1] \in Selected(f.of)' /\ line'[unit[1]].amount = line[unit[1]].amount
      BY <1>1, <3>1 DEF EntriesStay, Selected
    <3> QED BY <3>1, <3>2 DEF Units
  <2> QED BY <2>1
<1>3. Counted(f) \subseteq Counted(f)'
  BY <1>1, <1>2 DEF Counted
<1>4. IsFiniteSet(Counted(f)')
  BY FigureMoves
<1> QED BY <1>3, <1>4, FS_Subset

\* A figure of a part is not larger than one of the whole.
LEMMA PartIsSmaller ==
    ASSUME LinesOK, NEW f, NEW g, f.what = g.what, f.of \subseteq g.of
    PROVE  Cardinality(Counted(f)) <= Cardinality(Counted(g))
<1>1. Selected(f.of) \subseteq Selected(g.of)
  BY DEF Selected
<1>2. Counted(f) \subseteq Counted(g)
  BY <1>1 DEF Counted, Units
<1>3. IsFiniteSet(Counted(g))
  BY FiguresAreFinite DEF Counted
<1> QED BY <1>2, <1>3, FS_Subset

-----------------------------------------------------------------------------
(* Readers *)

ReaderOK ==
    /\ ~Reading => reader = Idle
    /\ Reading => /\ reader.asks \in Reports
                  /\ reader.next <= Len(reader.asks) + 1
                  /\ reader.stayed \subseteq IF IsListing(reader.asks) THEN Rows ELSE {}
    /\ reader.page = 1 \/ reader.page <= MaxLines

\* What a figure was read as is not far from what it would be read as now: no farther than
\* what was committed since, and not above it while entries were only added.
FigureOK(f) ==
    /\ f.at <= reader.changes
    /\ f.value <= Cardinality(Counted(f)) + Worth(f) * (reader.changes - f.at)
    /\ Cardinality(Counted(f)) <= f.value + Worth(f) * (reader.changes - f.at)
    /\ reader.only => f.value <= Cardinality(Counted(f))

FiguresOK == \A f \in reader.figures : FigureOK(f)

FInv == TypeOK /\ Sequenced /\ ReaderOK /\ FiguresOK /\ FiguresDrift /\ LaterIsMore

\* A report that is being read is one of those of the program, and a listing shows a table.
LEMMA WhatIsRead ==
    ReaderOK /\ Reading =>
        /\ reader.asks \in Reports /\ reader.asks \in Seq(Statement) /\ Len(reader.asks) \in 1..4
        /\ Table \in Tables
        /\ Unfinished /\ reader.next \in Nat \ {0} => Current \in Statement
<1> SUFFICES ASSUME ReaderOK, Reading
             PROVE  /\ reader.asks \in Reports /\ reader.asks \in Seq(Statement) /\ Len(reader.asks) \in 1..4
                    /\ Table \in Tables
                    /\ Unfinished /\ reader.next \in Nat \ {0} => Current \in Statement
  OBVIOUS
<1>1. reader.asks \in Reports
  BY DEF ReaderOK
<1>2. reader.asks \in Seq(Statement) /\ Len(reader.asks) \in 1..4
  BY <1>1, ReportForms
<1>3. \A n \in 1..Len(reader.asks) : reader.asks[n] \in Statement
  BY <1>2, ElementOfSeq
<1>4. Table \in Tables
  <2>1. reader.asks[Len(reader.asks)] \in Statement
    <3>1. \A n \in 1..4 : n \in 1..n
      OBVIOUS
    <3>2. Len(reader.asks) \in 1..Len(reader.asks)
      BY <1>2, <3>1, Zenon
    <3> QED BY <1>3, <3>2, Zenon
  <2>2. Table = reader.asks[Len(reader.asks)].table
    BY DEF Table, Last
  <2> QED BY <2>1, <2>2 DEF Tables, Statement
<1> QED BY <1>1, <1>2, <1>3, <1>4 DEF Unfinished, Current

\* The parts of TypeOK.
LEMMA TypeParts == TypeOK <=> LinesOK /\ reader \in Reader
BY DEF TypeOK, LinesOK

\* A reader that has read nothing.
LEMMA IdleReader == Idle \in Reader /\ Idle.figures = {} /\ Idle.asks = <<>> /\ Idle.page = 1
BY ConstantsAssumption DEF Idle, Reader

\* It is what everything starts from.
LEMMA FigureInit == Init => FInv
<1> SUFFICES ASSUME Init PROVE FInv
  OBVIOUS
<1>1. LinesOK
  <2>1. Absent \in Line
    BY ConstantsAssumption DEF Absent, Line, States, Currencies
  <2>2. Approved = {} /\ Processed = {} /\ ToSet(booked) = {} /\ IsInjective(booked)
    BY DEF Init, Approved, Processed, Absent, ToSet, IsInjective
  <2> QED BY <2>1, <2>2 DEF Init, LinesOK, Absent
<1>2. Sequenced
  BY DEF Init, Sequenced
<1>3. reader = Idle /\ reader \in Reader
  BY IdleReader DEF Init
<1> QED BY <1>1, <1>2, <1>3, TypeParts, IdleReader
        DEF FInv, ReaderOK, FiguresOK, FiguresDrift, LaterIsMore, Reading

\* Figures read now are right, and right beside each other and those read before.
LEMMA FiguresAreRead ==
    ASSUME FInv, UNCHANGED <<line, booked>>,
           NEW G \in SUBSET Figure,
           \A g \in G : g.at = reader.changes /\ g.value = Cardinality(Counted(g)),
           reader' \in Reader, reader'.figures = reader.figures \cup G,
           reader'.changes = reader.changes, reader'.only = reader.only
    PROVE  FiguresOK' /\ FiguresDrift' /\ LaterIsMore'
<1> USE DEF FInv
<1>1. LinesOK /\ reader \in Reader
  BY TypeParts
<1>2. reader.changes \in Nat /\ reader.only \in BOOLEAN /\ reader.figures \subseteq Figure
  BY <1>1, ConstantsAssumption DEF Reader
<1>3. \A f : Counted(f)' = Counted(f)
  BY DEF Counted, Units, Selected, Approved, Class
<1>4. ASSUME NEW f \in Figure
      PROVE  /\ f.value \in Nat /\ f.at \in Nat /\ Cardinality(Counted(f)) \in Nat
             /\ Worth(f) \in Nat \ {0}
  <2>1. f.value \in Nat /\ f.at \in Nat
    BY ConstantsAssumption DEF Figure
  <2>2. Cardinality(Counted(f)) \in Nat
    BY <1>1, FiguresAreFinite, ConstantsAssumption DEF Counted
  <2> QED BY <2>1, <2>2, WorthOfALine
<1>5. \A g \in G : FigureOK(g)
  BY <1>2, <1>4 DEF FigureOK
<1>6. \A f \in reader'.figures : FigureOK(f)
  BY <1>5 DEF FiguresOK
<1>7. FiguresOK'
  BY <1>3, <1>6 DEF FiguresOK, FigureOK, Worth
<1>8. ASSUME NEW g \in G, NEW f \in reader.figures, f.what = g.what, f.of \subseteq g.of
      PROVE  /\ f.value <= g.value + Worth(f) * Apart(f, g)
             /\ reader.only => f.value <= g.value
  <2>1. Cardinality(Counted(f)) <= g.value
    BY <1>1, <1>8, PartIsSmaller
  <2>2. FigureOK(f) /\ f \in Figure /\ g \in Figure
    BY <1>2 DEF FiguresOK
  <2>3. Apart(f, g) = reader.changes - f.at
    BY <1>2, <1>4, <2>2 DEF Apart, FigureOK
  <2> DEFINE far == Worth(f) * (reader.changes - f.at)
  <2>4. far \in Nat
    BY <1>2, <1>4, <2>2 DEF FigureOK
  <2>5. f.value <= Cardinality(Counted(f)) + far /\ (reader.only => f.value <= Cardinality(Counted(f)))
    BY <2>2 DEF FigureOK
  <2> HIDE DEF far
  <2>6. f.value <= g.value + far /\ (reader.only => f.value <= g.value)
    BY <1>4, <2>1, <2>2, <2>4, <2>5
  <2> QED BY <2>3, <2>6 DEF far
<1>9. ASSUME NEW g \in G, NEW f \in reader.figures, g.what = f.what, g.of \subseteq f.of
      PROVE  /\ g.value <= f.value + Worth(g) * Apart(g, f)
             /\ g.at <= f.at => g.value <= f.value
  <2>1. g.value <= Cardinality(Counted(f))
    BY <1>1, <1>9, PartIsSmaller
  <2>2. FigureOK(f) /\ f \in Figure /\ g \in Figure /\ Worth(f) = Worth(g)
    BY <1>2, <1>9 DEF FiguresOK, Worth
  <2>3. Apart(g, f) = reader.changes - f.at /\ (g.at <= f.at => reader.changes - f.at = 0)
    BY <1>2, <1>4, <2>2 DEF Apart, FigureOK
  <2> DEFINE far == Worth(f) * (reader.changes - f.at)
  <2>4. far \in Nat /\ (g.at <= f.at => far = 0)
    BY <1>2, <1>4, <2>2, <2>3 DEF FigureOK
  <2>5. Cardinality(Counted(f)) <= f.value + far
    BY <2>2 DEF FigureOK
  <2> HIDE DEF far
  <2>6. g.value <= f.value + far /\ (g.at <= f.at => g.value <= f.value)
    BY <1>4, <2>1, <2>2, <2>4, <2>5
  <2> QED BY <2>2, <2>3, <2>6 DEF far
<1>10. ASSUME NEW g \in G, NEW h \in G, g.what = h.what, g.of \subseteq h.of
       PROVE  g.value <= h.value + Worth(g) * Apart(g, h) /\ g.value <= h.value
  <2>1. Apart(g, h) = 0 /\ Worth(g) * 0 = 0
    BY <1>2, <1>4 DEF Apart
  <2>2. g.value <= h.value
    BY <1>1, <1>10, PartIsSmaller
  <2> QED BY <1>4, <2>1, <2>2
<1>11. FiguresDrift'
  <2> SUFFICES ASSUME NEW f \in reader'.figures, NEW h \in reader'.figures,
                      f.what = h.what, f.of \subseteq h.of
               PROVE  f.value <= h.value + Worth(f) * Apart(f, h)
    BY DEF FiguresDrift, Worth, Apart
  <2>1. CASE f \in reader.figures /\ h \in reader.figures
    BY <2>1 DEF FiguresDrift
  <2>2. CASE f \in reader.figures /\ h \in G
    BY <1>8, <2>2
  <2>3. CASE f \in G /\ h \in reader.figures
    BY <1>9, <2>3
  <2>4. CASE f \in G /\ h \in G
    BY <1>10, <2>4
  <2> QED BY <2>1, <2>2, <2>3, <2>4
<1>12. LaterIsMore'
  <2> SUFFICES ASSUME reader.only, NEW f \in reader'.figures, NEW h \in reader'.figures,
                      f.what = h.what, f.of \subseteq h.of, f.at <= h.at
               PROVE  f.value <= h.value
    BY DEF LaterIsMore
  <2>1. CASE f \in reader.figures /\ h \in reader.figures
    BY <2>1 DEF LaterIsMore
  <2>2. CASE f \in reader.figures /\ h \in G
    BY <1>8, <2>2
  <2>3. CASE f \in G /\ h \in reader.figures
    BY <1>9, <2>3
  <2>4. CASE f \in G /\ h \in G
    BY <1>10, <2>4
  <2> QED BY <2>1, <2>2, <2>3, <2>4
<1> QED BY <1>7, <1>11, <1>12

\* The number of pages: enough for the rows, and no more than there are rows.
LEMMA PagesAreEnough ==
    ASSUME NEW n \in Nat
    PROVE  TotalPages(n) \in 0..n /\ TotalPages(n) * Limit >= n
<1> DEFINE q == (n + Limit - 1) \div Limit
<1>1. Limit \in Nat /\ Limit >= 1
  BY ConstantsAssumption
<1>2. q \in Nat
  BY <1>1
<1>3. q * Limit <= n + Limit - 1 /\ n + Limit - 1 < q * Limit + Limit
  BY <1>1
<1>4. TotalPages(n) = q
  BY DEF TotalPages
<1> HIDE DEF q
<1>5. q * Limit \in Nat
  BY <1>1, <1>2
<1>6. q * Limit >= n
  BY <1>1, <1>3, <1>5
<1>7. q <= n
  <2> SUFFICES ASSUME q >= n + 1 PROVE FALSE
    BY <1>2
  <2>1. (q - (n + 1)) * Limit \in Nat /\ n * (Limit - 1) \in Nat
    BY <1>1, <1>2
  <2>2. q * Limit = (q - (n + 1)) * Limit + (n + 1) * Limit
    BY <1>1, <1>2
  <2>3. (n + 1) * Limit = n * (Limit - 1) + n + Limit
    BY <1>1
  <2>4. q * Limit >= n + Limit
    BY <1>1, <2>1, <2>2, <2>3
  <2> QED BY <1>1, <1>3, <1>5, <2>4
<1> QED BY <1>2, <1>4, <1>6, <1>7

\* The answers to a report's statements so far, with those to the next.
LEMMA StatementIsRead ==
    ASSUME FInv, Unfinished, UNCHANGED <<line, booked>>,
           NEW G \in SUBSET Figure,
           \A g \in G : g.at = reader.changes /\ g.value = Cardinality(Counted(g)),
           reader' = [reader EXCEPT !.next = @ + 1, !.figures = @ \cup G]
    PROVE  FInv'
<1>1. LinesOK /\ Sequenced /\ ReaderOK /\ reader \in Reader /\ Reading
  BY TypeParts DEF FInv, Unfinished
<1>2. reader.asks \in Reports /\ Len(reader.asks) \in 1..4
  BY <1>1, WhatIsRead
<1>3. reader' \in Reader
  <2>1. reader.next + 1 \in 1..5
    <3> DEFINE last == Len(reader.asks)
    <3>1. last \in 1..4 /\ reader.next \in 1..5 /\ reader.next <= last
      BY <1>1, <1>2 DEF Unfinished, Reader
    <3> HIDE DEF last
    <3> QED BY <3>1
  <2> QED BY <1>1, <2>1 DEF Reader
<1>4. /\ reader'.asks = reader.asks /\ reader'.next = reader.next + 1 /\ reader'.page = reader.page
      /\ reader'.stayed = reader.stayed /\ reader'.figures = reader.figures \cup G
      /\ reader'.changes = reader.changes /\ reader'.only = reader.only
  BY <1>1 DEF Reader
<1>5. LinesOK' /\ Sequenced' /\ Rows' = Rows
  BY <1>1, <1>4 DEF LinesOK, Sequenced, Approved, Processed, Rows, Table, Listed, Selected, Class
<1>6. ReaderOK'
  <2>1. reader'.next <= Len(reader'.asks) + 1
    BY <1>1, <1>2, <1>4 DEF Unfinished, Reader
  <2> QED BY <1>1, <1>4, <1>5, <2>1 DEF ReaderOK, Reading
<1>7. FiguresOK' /\ FiguresDrift' /\ LaterIsMore'
  BY <1>3, <1>4, FiguresAreRead
<1>8. TypeOK'
  <2>1. (LinesOK /\ reader \in Reader => TypeOK)'
    BY TypeParts, PTL
  <2>2. Reader' = Reader
    BY DEF Reader, Figure
  <2> QED BY <1>3, <1>5, <2>1, <2>2
<1> QED BY <1>5, <1>6, <1>7, <1>8 DEF FInv

\* A figure that is made is one of those a reader can have.
LEMMA FigureIsMade ==
    ASSUME FInv, Unfinished
    PROVE  /\ Current \in Statement
           /\ \A g \in {Made("sum", Sum(Current.of)),
                        Made("count", Cardinality(Selected(Current.of)))} :
                 /\ g \in Figure /\ g.at = reader.changes
                 /\ g.value = Cardinality(Counted(g))
<1>1. LinesOK /\ reader \in Reader /\ ReaderOK /\ Reading
  BY TypeParts DEF FInv, Unfinished
<1>2. Current \in Statement
  <2>1. reader.next \in Nat \ {0}
    BY <1>1 DEF Reader
  <2> QED BY <1>1, <2>1, WhatIsRead
<1>3. reader.changes \in 0..MaxChanges
  BY <1>1 DEF Reader
<1> DEFINE of == Current.of
<1>4. of \in SUBSET Classes
  BY <1>2 DEF Statement
<1>5. /\ Cardinality(Selected(of)) \in 0..MaxLines
      /\ Cardinality(Units(Selected(of))) \in 0..(MaxLines * MaxAmount)
  BY <1>1, FiguresAreFinite
<1>6. Cardinality(Selected(of)) \in 0..(MaxLines * MaxAmount)
  <2>1. MaxLines * (MaxAmount - 1) \in Nat /\ MaxLines * MaxAmount = MaxLines * (MaxAmount - 1) + MaxLines
    BY ConstantsAssumption
  <2>2. MaxLines \in Nat /\ Cardinality(Selected(of)) \in Nat /\ Cardinality(Selected(of)) <= MaxLines
    BY <1>5, ConstantsAssumption
  <2> QED BY <2>1, <2>2
<1>7. ASSUME NEW what \in {"sum", "count"}, NEW value \in 0..(MaxLines * MaxAmount)
      PROVE  /\ Made(what, value) \in Figure
             /\ Made(what, value).what = what /\ Made(what, value).of = of
             /\ Made(what, value).value = value /\ Made(what, value).at = reader.changes
  BY <1>3, <1>4, <1>7 DEF Made, Figure
<1> HIDE DEF of
<1>8. Made("sum", Sum(of)) \in Figure /\ Made("sum", Sum(of)).what = "sum" /\ Made("sum", Sum(of)).of = of
      /\ Made("sum", Sum(of)).value = Sum(of) /\ Made("sum", Sum(of)).at = reader.changes
  BY <1>5, <1>7 DEF Sum
<1> DEFINE rows == Cardinality(Selected(of))
<1>9. Made("count", rows) \in Figure /\ Made("count", rows).what = "count" /\ Made("count", rows).of = of
      /\ Made("count", rows).value = rows /\ Made("count", rows).at = reader.changes
  BY <1>6, <1>7
<1>10. /\ Made("sum", Sum(of)).value = Cardinality(Counted(Made("sum", Sum(of))))
       /\ Made("count", rows).value = Cardinality(Counted(Made("count", rows)))
  BY <1>8, <1>9 DEF Counted, Sum
<1> QED BY <1>2, <1>8, <1>9, <1>10 DEF of

\* A reader put away, whenever that is.
LEMMA ReaderIsIdle ==
    ASSUME FInv, UNCHANGED <<line, booked>>, reader' = Idle
    PROVE  FInv'
<1>1. LinesOK /\ Sequenced
  BY TypeParts DEF FInv
<1>2. LinesOK' /\ Sequenced'
  BY <1>1 DEF LinesOK, Sequenced, Approved, Processed
<1>3. reader' \in Reader' /\ reader'.figures = {} /\ reader'.asks = <<>> /\ reader'.page = 1 /\ reader' = Idle'
  BY IdleReader DEF Idle, Reader, Figure
<1>4. TypeOK'
  <2>1. (LinesOK /\ reader \in Reader => TypeOK)'
    BY TypeParts, PTL
  <2> QED BY <1>2, <1>3, <2>1
<1> QED BY <1>2, <1>3, <1>4 DEF FInv, ReaderOK, FiguresOK, FiguresDrift, LaterIsMore, Reading

\* A reader that reads no figure: it turns a page, or begins.
LEMMA ReaderTurns ==
    ASSUME FInv, UNCHANGED <<line, booked>>, reader' \in Reader,
           reader'.figures = {}
           \/ /\ reader'.figures = reader.figures
              /\ reader'.changes = reader.changes /\ reader'.only = reader.only,
           ReaderOK'
    PROVE  FInv'
<1>1. LinesOK /\ Sequenced
  BY TypeParts DEF FInv
<1>2. LinesOK' /\ Sequenced'
  BY <1>1 DEF LinesOK, Sequenced, Approved, Processed
<1>3. TypeOK'
  <2>1. (LinesOK /\ reader \in Reader => TypeOK)'
    BY TypeParts, PTL
  <2> QED BY <1>2, <2>1 DEF Reader, Figure
<1>4. CASE reader'.figures = {}
  BY <1>2, <1>3, <1>4 DEF FInv, FiguresOK, FiguresDrift, LaterIsMore
<1>5. CASE /\ reader'.figures = reader.figures
           /\ reader'.changes = reader.changes /\ reader'.only = reader.only
  <2>1. FiguresOK'
    BY <1>5 DEF FInv, FiguresOK, FigureOK, Worth, Counted, Units, Selected, Approved, Class
  <2>2. FiguresDrift' /\ LaterIsMore'
    BY <1>5 DEF FInv, FiguresDrift, LaterIsMore, Apart, Worth
  <2> QED BY <1>2, <1>3, <2>1, <2>2 DEF FInv
<1> QED BY <1>4, <1>5

\* Rows are lines, whatever is listed.
LEMMA ListedAreLines ==
    ASSUME NEW table \in Tables
    PROVE  /\ Listed(table) \subseteq Lines /\ IsFiniteSet(Listed(table))
           /\ Cardinality(Listed(table)) \in 0..MaxLines
<1>1. Listed(table) \subseteq Lines
  BY DEF Listed, Processed, Selected, Approved, Tables
<1>2. IsFiniteSet(Lines) /\ Cardinality(Lines) = MaxLines
  BY ConstantsAssumption, FS_Interval DEF Lines
<1>3. IsFiniteSet(Listed(table)) /\ Cardinality(Listed(table)) <= MaxLines
  BY <1>1, <1>2, FS_Subset
<1> QED BY <1>1, <1>3, FS_CardinalityType, ConstantsAssumption

\* What a page shows.
LEMMA PageIsOfRows ==
    ASSUME ReaderOK, Reading
    PROVE  Page \subseteq Rows /\ Page \subseteq Lines /\ IsFiniteSet(Page)
<1>1. Table \in Tables
  BY WhatIsRead
<1>2. Page \subseteq Rows
  BY DEF Page, Rows, Table
<1>3. Rows \subseteq Lines /\ IsFiniteSet(Rows)
  BY <1>1, ListedAreLines DEF Rows
<1> QED BY <1>2, <1>3, FS_Subset

\* A report is opened.
LEMMA FigureOpen ==
    ASSUME FInv, NEW asks \in Reports, Open(asks)
    PROVE  FInv'
<1>1. LinesOK /\ reader = Idle
  BY TypeParts DEF FInv, Open
<1> DEFINE stayed == IF IsListing(asks) THEN Listed(Last(asks).table) ELSE {}
<1>2. reader' = [Idle EXCEPT !.asks = asks, !.stayed = stayed] /\ UNCHANGED <<line, booked>>
  BY DEF Open
<1>3. stayed \subseteq Lines
  <2>1. CASE IsListing(asks)
    <3>1. asks \in Seq(Statement) /\ Len(asks) \in 2..4 /\ Last(asks) = asks[Len(asks)]
      BY <2>1, ReportForms
    <3>2. \A n \in 1..Len(asks) : asks[n] \in Statement
      BY <3>1, ElementOfSeq
    <3>3. \A n \in 2..4 : n \in 1..n
      OBVIOUS
    <3>4. Last(asks) \in Statement
      BY <3>1, <3>2, <3>3, Zenon
    <3>5. Last(asks).table \in Tables
      BY <3>4 DEF Statement, Tables
    <3> QED BY <2>1, <3>5, ListedAreLines
  <2>2. CASE ~IsListing(asks)
    BY <2>2
  <2> QED BY <2>1, <2>2
<1> HIDE DEF stayed
<1>4. reader' \in Reader /\ reader'.figures = {}
  BY <1>2, <1>3, IdleReader, ConstantsAssumption DEF Reader, Idle
<1>5. /\ reader'.asks = asks /\ reader'.next = 1 /\ reader'.page = 1 /\ reader'.stayed = stayed
  BY <1>2 DEF Idle
<1>6. ReaderOK'
  <2>1. asks # <<>> /\ Len(asks) \in 1..4
    BY ReportForms
  <2>2. stayed \subseteq IF IsListing(asks) THEN Rows' ELSE {}
    BY <1>2, <1>5 DEF stayed, Rows, Table, Listed, Processed, Selected, Approved, Class
  <2>3. 1 <= Len(asks) + 1
    BY <2>1
  <2> QED BY <1>5, <2>1, <2>2, <2>3 DEF ReaderOK, Reading
<1> QED BY <1>2, <1>4, <1>6, ReaderTurns

\* The reader does anything.
LEMMA FigureReads ==
    ASSUME FInv, Read
    PROVE  FInv'
<1>1. LinesOK /\ Sequenced /\ reader \in Reader /\ ReaderOK
  BY TypeParts DEF FInv
<1>2. UNCHANGED <<line, booked>>
  BY DEF Read, ReadSum, ReadCount, CheckLimit, LoadEntries, CountRows, ReadPage, NextPage, Close
<1>3. Rows' = Rows \/ reader'.asks # reader.asks
  BY <1>1, <1>2 DEF Rows, Table, Listed, Processed, Selected, Approved, Class
<1>4. CASE ReadSum
  <2> DEFINE G == {Made("sum", Sum(Current.of))}
  <2>1. Unfinished /\ reader' = [reader EXCEPT !.next = @ + 1, !.figures = @ \cup G]
    BY <1>4 DEF ReadSum
  <2>2. G \in SUBSET Figure /\ \A g \in G : g.at = reader.changes /\ g.value = Cardinality(Counted(g))
    BY <2>1, FigureIsMade
  <2> HIDE DEF G
  <2> QED BY <1>2, <2>1, <2>2, StatementIsRead
<1>5. CASE ReadCount
  <2> DEFINE G == {Made("count", Cardinality(Selected(Current.of)))}
  <2>1. Unfinished /\ reader' = [reader EXCEPT !.next = @ + 1, !.figures = @ \cup G]
    BY <1>5 DEF ReadCount
  <2>2. G \in SUBSET Figure /\ \A g \in G : g.at = reader.changes /\ g.value = Cardinality(Counted(g))
    BY <2>1, FigureIsMade
  <2> HIDE DEF G
  <2> QED BY <1>2, <2>1, <2>2, StatementIsRead
<1>6. CASE CheckLimit
  <2> DEFINE G == {Made("count", Cardinality(Selected(Current.of)))}
  <2>1. /\ Unfinished
        /\ reader' = Idle \/ reader' = [reader EXCEPT !.next = @ + 1, !.figures = @ \cup G]
    BY <1>6 DEF CheckLimit
  <2>2. G \in SUBSET Figure /\ \A g \in G : g.at = reader.changes /\ g.value = Cardinality(Counted(g))
    BY <2>1, FigureIsMade
  <2> HIDE DEF G
  <2> QED BY <1>2, <2>1, <2>2, StatementIsRead, ReaderIsIdle
<1>7. CASE LoadEntries
  <2> DEFINE G == {Made("sum", Sum(Current.of)), Made("count", Cardinality(Selected(Current.of)))}
  <2>1. Unfinished /\ reader' = [reader EXCEPT !.next = @ + 1, !.figures = @ \cup G]
    BY <1>7 DEF LoadEntries, Loaded, Sum
  <2>2. G \in SUBSET Figure /\ \A g \in G : g.at = reader.changes /\ g.value = Cardinality(Counted(g))
    BY <2>1, FigureIsMade
  <2> HIDE DEF G
  <2> QED BY <1>2, <2>1, <2>2, StatementIsRead
<1>8. CASE CountRows \/ ReadPage
  <2>1. Unfinished /\ Reading
    BY <1>8 DEF CountRows, ReadPage, Unfinished
  <2>2. reader.asks \in Reports /\ Len(reader.asks) \in 1..4 /\ Current \in Statement
    BY <1>1, <2>1, WhatIsRead, FigureIsMade
  <2>3. reader.next + 1 \in 1..5 /\ reader.next + 1 <= Len(reader.asks) + 1
    <3> DEFINE last == Len(reader.asks)
    <3>1. last \in 1..4 /\ reader.next \in 1..5 /\ reader.next <= last
      BY <1>1, <2>1, <2>2 DEF Unfinished, Reader
    <3> HIDE DEF last
    <3>2. reader.next + 1 \in 1..5 /\ reader.next + 1 <= last + 1
      BY <3>1
    <3> QED BY <3>2 DEF last
  <2>4. ASSUME NEW pages \in 0..MaxLines, NEW seen \in SUBSET Lines, NEW again \in Nat,
               reader' = [reader EXCEPT !.next = @ + 1, !.pages = pages, !.seen = seen, !.again = again]
        PROVE  FInv'
    <3>1. /\ reader'.asks = reader.asks /\ reader'.next = reader.next + 1 /\ reader'.page = reader.page
          /\ reader'.stayed = reader.stayed /\ reader'.figures = reader.figures
          /\ reader'.changes = reader.changes /\ reader'.only = reader.only
      BY <1>1, <2>4 DEF Reader
    <3>2. reader' \in Reader
      BY <1>1, <2>3, <2>4 DEF Reader
    <3>3. ReaderOK'
      <4>1. reader'.next <= Len(reader'.asks) + 1
        BY <2>3, <3>1, Zenon
      <4>2. Reading' /\ reader'.asks \in Reports
        BY <2>1, <2>2, <3>1 DEF Reading
      <4>3. reader'.stayed \subseteq IF IsListing(reader'.asks) THEN Rows' ELSE {}
        BY <1>1, <1>3, <2>1, <3>1 DEF ReaderOK
      <4>4. reader'.page = 1 \/ reader'.page <= MaxLines
        BY <1>1, <3>1 DEF ReaderOK
      <4> QED BY <4>1, <4>2, <4>3, <4>4 DEF ReaderOK
    <3> QED BY <1>2, <3>1, <3>2, <3>3, ReaderTurns
  <2>5. CASE CountRows
    <3> DEFINE pages == TotalPages(Cardinality(Listed(Current.table)))
    <3>1. reader' = [reader EXCEPT !.next = @ + 1, !.pages = pages]
      BY <2>5 DEF CountRows
    <3>2. pages \in 0..MaxLines
      <4>1. Current.table \in Tables
        BY <2>2 DEF Statement, Tables
      <4>2. Cardinality(Listed(Current.table)) \in 0..MaxLines
        BY <4>1, ListedAreLines
      <4> QED BY <4>2, PagesAreEnough, ConstantsAssumption
    <3> HIDE DEF pages
    <3>3. reader.seen \in SUBSET Lines /\ reader.again \in Nat
      BY <1>1 DEF Reader
    <3>4. reader' = [reader EXCEPT !.next = @ + 1, !.pages = pages, !.seen = reader.seen, !.again = reader.again]
      BY <1>1, <3>1 DEF Reader
    <3> QED BY <2>4, <3>2, <3>3, <3>4
  <2>6. CASE ReadPage
    <3> DEFINE again == reader.again + Cardinality(Page \cap reader.seen)
               seen == reader.seen \cup Page
    <3>1. reader' = [reader EXCEPT !.next = @ + 1, !.seen = seen, !.again = again]
      BY <2>6 DEF ReadPage
    <3>2. seen \in SUBSET Lines /\ again \in Nat
      <4>1. Page \subseteq Lines /\ IsFiniteSet(Page)
        BY <1>1, <2>1, PageIsOfRows
      <4>2. Cardinality(Page \cap reader.seen) \in Nat
        BY <4>1, FS_Intersection, FS_CardinalityType
      <4> QED BY <1>1, <4>1, <4>2 DEF Reader
    <3> HIDE DEF seen, again
    <3>3. reader.pages \in 0..MaxLines
      BY <1>1 DEF Reader
    <3>4. reader' = [reader EXCEPT !.next = @ + 1, !.pages = reader.pages, !.seen = seen, !.again = again]
      BY <1>1, <3>1 DEF Reader
    <3> QED BY <2>4, <3>2, <3>3, <3>4
  <2> QED BY <1>8, <2>5, <2>6
<1>9. CASE NextPage
  <2>1. /\ Reading /\ reader.page < reader.pages
        /\ reader' = [reader EXCEPT !.next = 1, !.page = @ + 1, !.figures = {}]
    BY <1>9 DEF NextPage, Answered
  <2>2. reader.page + 1 \in 1..MaxLines
    BY <1>1, <2>1, ConstantsAssumption DEF Reader
  <2>3. /\ reader'.asks = reader.asks /\ reader'.next = 1 /\ reader'.page = reader.page + 1
        /\ reader'.stayed = reader.stayed /\ reader'.figures = {}
    BY <1>1, <2>1 DEF Reader
  <2>4. reader' \in Reader
    <3>1. reader.page + 1 \in 1..(MaxLines + MaxChanges + 1)
      BY <2>2, ConstantsAssumption
    <3> DEFINE page == reader.page + 1
    <3>2. reader' = [reader EXCEPT !.next = 1, !.page = page, !.figures = {}]
      BY <1>1, <2>1 DEF Reader
    <3>3. page \in 1..(MaxLines + MaxChanges + 1) /\ 1 \in 1..5
      BY <3>1
    <3> HIDE DEF page
    <3> QED BY <1>1, <3>2, <3>3 DEF Reader
  <2>5. ReaderOK'
    <3>1. 1 <= Len(reader.asks) + 1
      BY <1>1, <2>1, WhatIsRead
    <3> QED BY <1>1, <1>3, <2>1, <2>2, <2>3, <3>1 DEF ReaderOK, Reading
  <2> QED BY <1>2, <2>3, <2>4, <2>5, ReaderTurns
<1>10. CASE Close
  BY <1>2, <1>10, ReaderIsIdle DEF Close
<1> QED BY <1>4, <1>5, <1>6, <1>7, <1>8, <1>9, <1>10 DEF Read

\* A line changes.
LEMMA FigureChanges ==
    ASSUME FInv, NEW i \in Lines, ChangeOf(i)
    PROVE  FInv'
<1>1. LinesOK /\ Sequenced /\ reader \in Reader /\ ReaderOK
  BY TypeParts DEF FInv
<1>2. LinesOK' /\ Sequenced' /\ \A j \in Lines \ {i} : line'[j] = line[j]
  BY <1>1, LinesStep
<1>3. Reading => Table \in Tables
  BY <1>1, WhatIsRead
<1>4. IF Reading THEN CountedBy(i) ELSE reader' = reader
  BY <1>1, <1>3, ChangeIsCounted
<1>5. TypeOK'
  <2>1. (LinesOK /\ reader \in Reader => TypeOK)'
    BY TypeParts, PTL
  <2>2. reader' \in Reader'
    BY <1>1, <1>4 DEF CountedBy, Reader, Figure
  <2> QED BY <1>2, <2>1, <2>2
<1>6. CASE ~Reading
  <2>1. reader' = Idle /\ Idle' = Idle /\ ~Reading'
    BY <1>1, <1>4, <1>6 DEF ReaderOK, Reading, Idle
  <2> QED BY <1>2, <1>5, <2>1, IdleReader
          DEF FInv, ReaderOK, FiguresOK, FiguresDrift, LaterIsMore
<1>7. CASE Reading
  <2>1. CountedBy(i) /\ Table \in Tables
    BY <1>3, <1>4, <1>7
  <2>2. ReaderOK'
    <3>1. reader.stayed \subseteq Rows => reader'.stayed \subseteq Rows'
      BY <1>1, <2>1, RowsStep DEF CountedBy
    <3> QED BY <1>1, <1>7, <2>1, <3>1 DEF CountedBy, ReaderOK, Reading
  <2>3. ASSUME NEW f \in reader.figures
        PROVE  FigureOK(f)'
    <3>1. f \in Figure /\ FigureOK(f) /\ reader.changes \in Nat
      BY <1>1, ConstantsAssumption DEF FInv, FiguresOK, Reader
    <3>2. f.value \in Nat /\ f.at \in Nat /\ Worth(f) \in Nat \ {0}
      BY <3>1, WorthOfALine, ConstantsAssumption DEF Figure
    <3>3. /\ Cardinality(Counted(f)) \in Nat /\ Cardinality(Counted(f)') \in Nat
          /\ Cardinality(Counted(f)') <= Cardinality(Counted(f)) + Worth(f)
          /\ Cardinality(Counted(f)) <= Cardinality(Counted(f)') + Worth(f)
      BY <1>1, <1>2, FigureMoves
    <3>4. reader'.only => reader.only /\ Cardinality(Counted(f)) <= Cardinality(Counted(f)')
      BY <1>1, <1>2, <2>1, FigureGrows DEF CountedBy
    <3> DEFINE far == Worth(f) * (reader.changes - f.at)
               now == Cardinality(Counted(f))
               then == Cardinality(Counted(f)')
    <3>5. far \in Nat /\ Worth(f) * (reader'.changes - f.at) = far + Worth(f) /\ f.at <= reader'.changes
      BY <2>1, <3>1, <3>2 DEF CountedBy, FigureOK
    <3>6. /\ f.value <= now + far /\ now <= f.value + far
          /\ reader.only => f.value <= now
      BY <3>1 DEF FigureOK
    <3> HIDE DEF far, now, then
    <3>7. /\ f.value <= then + (far + Worth(f)) /\ then <= f.value + (far + Worth(f))
          /\ reader'.only => f.value <= then
      BY <3>2, <3>3, <3>4, <3>5, <3>6 DEF now, then
    <3> QED BY <3>5, <3>7 DEF FigureOK, then, Worth
  <2>4. FiguresOK'
    BY <2>1, <2>3 DEF FiguresOK, CountedBy
  <2>5. FiguresDrift' /\ LaterIsMore'
    BY <2>1 DEF FInv, FiguresDrift, LaterIsMore, CountedBy, Apart, Worth
  <2> QED BY <1>2, <1>5, <2>2, <2>4, <2>5 DEF FInv
<1> QED BY <1>6, <1>7

\* Every step keeps all of it.
LEMMA FigureStep == FInv /\ [Next]_vars => FInv'
<1> SUFFICES ASSUME FInv, [Next]_vars PROVE FInv'
  OBVIOUS
<1>1. ASSUME NEW asks \in Reports, Open(asks) PROVE FInv'
  BY <1>1, FigureOpen
<1>2. CASE Read
  BY <1>2, FigureReads
<1>3. CASE Change
  BY <1>3, FigureChanges DEF Change, ChangeOf
<1>4. CASE UNCHANGED vars
  <2>1. reader' = reader /\ UNCHANGED <<line, booked>>
    BY <1>4 DEF vars
  <2>2. ReaderOK' /\ reader' \in Reader
    BY <2>1, TypeParts DEF FInv, ReaderOK, Reading, Rows, Table, Listed, Processed, Selected, Approved,
                           Class, Idle
  <2> QED BY <2>1, <2>2, ReaderTurns
<1> QED BY <1>1, <1>2, <1>3, <1>4 DEF Next

LEMMA FigureInvariant == Spec => []FInv
<1> QED BY FigureInit, FigureStep, PTL DEF Spec

\* Rows, entries and readers have their types; what is processed or booked is in order once.
THEOREM ReportsTyped == Spec => []TypeOK
<1>1. FInv => TypeOK
  BY DEF FInv
<1> QED BY <1>1, FigureInvariant, PTL

\* The figures of one report are apart by no more than what was committed between their statements.
THEOREM FiguresDriftLittle == Spec => []FiguresDrift
<1>1. FInv => FiguresDrift
  BY DEF FInv
<1> QED BY <1>1, FigureInvariant, PTL

\* While entries are only added, what a report reads later is not less than what it read before.
THEOREM LaterFiguresAreMore == Spec => []LaterIsMore
<1>1. FInv => LaterIsMore
  BY DEF FInv
<1> QED BY <1>1, FigureInvariant, PTL

-----------------------------------------------------------------------------
(* Pages.  A client that reads page after page has passed the first rows of  *)
(* the listing, a page length for each page it read.  What it misses has     *)
(* moved to those rows before it was seen, what it gets twice has moved out  *)
(* of them after: each takes a change of a line before, and a change moves   *)
(* one line across.  Rows beyond the last page were added after the count.   *)

ReadUpTo == IF reader.next > Len(reader.asks) THEN reader.page * Limit ELSE Offset(reader.page)

\* Seen, and to come again.
Ahead == From(OrderKey, Rows \cap reader.seen, ReadUpTo)

\* Not seen, and passed.
Missed == Until(OrderKey, reader.stayed \ reader.seen, ReadUpTo)

\* Rows that no page is asked for.
Uncounted ==
    IF Cardinality(Rows) > reader.pages * Limit THEN Cardinality(Rows) - reader.pages * Limit ELSE 0

PagesOK ==
    IsListing(reader.asks) =>
        /\ reader.again + Cardinality(Ahead) <= reader.changes
        /\ Cardinality(Missed) <= reader.changes
        /\ reader.next < Len(reader.asks) \/ Cardinality(Missed) + Uncounted <= reader.changes

PInv == FInv /\ PagesOK

\* All of these are sets of lines, and numbers.
LEMMA PagesAreFinite ==
    FInv /\ Reading =>
        /\ IsFiniteSet(Ahead) /\ Cardinality(Ahead) \in Nat
        /\ IsFiniteSet(Missed) /\ Cardinality(Missed) \in Nat
        /\ Rows \subseteq Lines /\ Cardinality(Rows) \in Nat /\ Uncounted \in Nat
        /\ Offset(reader.page) \in Nat /\ reader.page * Limit = Offset(reader.page) + Limit
        /\ ReadUpTo \in Nat
        /\ OrderKey \in Keys(Rows) /\ IsFiniteSet(Rows)
        /\ \A i \in Rows : RankOf(OrderKey, i) \in Nat
        /\ reader.again \in Nat /\ reader.changes \in Nat
        /\ reader.stayed \subseteq Lines /\ reader.seen \subseteq Lines
        /\ IsListing(reader.asks) => reader.stayed \subseteq Rows
<1> SUFFICES ASSUME FInv, Reading
             PROVE  /\ IsFiniteSet(Ahead) /\ Cardinality(Ahead) \in Nat
                    /\ IsFiniteSet(Missed) /\ Cardinality(Missed) \in Nat
                    /\ Rows \subseteq Lines /\ Cardinality(Rows) \in Nat /\ Uncounted \in Nat
                    /\ Offset(reader.page) \in Nat /\ reader.page * Limit = Offset(reader.page) + Limit
                    /\ ReadUpTo \in Nat
                    /\ OrderKey \in Keys(Rows) /\ IsFiniteSet(Rows)
                    /\ \A i \in Rows : RankOf(OrderKey, i) \in Nat
                    /\ reader.again \in Nat /\ reader.changes \in Nat
                    /\ reader.stayed \subseteq Lines /\ reader.seen \subseteq Lines
                    /\ IsListing(reader.asks) => reader.stayed \subseteq Rows
  OBVIOUS
<1>1. LinesOK /\ Sequenced /\ ReaderOK /\ reader \in Reader
  BY TypeParts DEF FInv
<1>2. Table \in Tables
  BY <1>1, WhatIsRead
<1>3. OrderKey \in Keys(Rows) /\ IsFiniteSet(Rows) /\ Rows \subseteq Lines
  BY <1>1, <1>2, RowsAreOrdered
<1>4. reader.again \in Nat /\ reader.changes \in Nat /\ reader.page \in Nat \ {0} /\ reader.pages \in Nat
      /\ reader.stayed \subseteq Lines /\ reader.seen \subseteq Lines
  BY <1>1, ConstantsAssumption DEF Reader
<1>5. Offset(reader.page) \in Nat /\ reader.page * Limit = Offset(reader.page) + Limit
  BY <1>4, ConstantsAssumption DEF Offset
<1>6. ReadUpTo \in Nat
  BY <1>5, ConstantsAssumption DEF ReadUpTo
<1>7. \A i \in Rows : RankOf(OrderKey, i) \in Nat
  BY <1>3, RankLess
<1>8. IsFiniteSet(Lines)
  BY ConstantsAssumption, FS_Interval DEF Lines
<1>9. Ahead \subseteq Lines /\ Missed \subseteq Lines
  BY <1>4 DEF Ahead, Missed, From, Until
<1>10. /\ IsFiniteSet(Ahead) /\ Cardinality(Ahead) \in Nat
       /\ IsFiniteSet(Missed) /\ Cardinality(Missed) \in Nat
       /\ Cardinality(Rows) \in Nat
  BY <1>3, <1>8, <1>9, FS_Subset, FS_CardinalityType
<1>11. Uncounted \in Nat
  <2>1. reader.pages * Limit \in Nat
    BY <1>4, ConstantsAssumption
  <2> QED BY <1>10, <2>1 DEF Uncounted
<1>12. IsListing(reader.asks) => reader.stayed \subseteq Rows
  BY <1>1 DEF ReaderOK
<1> QED BY <1>3, <1>4, <1>5, <1>6, <1>7, <1>10, <1>11, <1>12

\* Where a listing is: the last statement reads a page, the one before it counts the rows.
LEMMA WhereAListingIs ==
    ASSUME FInv, Unfinished
    PROVE  /\ Current.what = "page" => IsListing(reader.asks) /\ reader.next = Len(reader.asks)
           /\ IsListing(reader.asks) => Len(reader.asks) \in 2..4
           /\ IsListing(reader.asks) /\ reader.next = Len(reader.asks) => Current.what = "page"
           /\ Current.what = "rows" =>
                 /\ IsListing(reader.asks) /\ reader.next < Len(reader.asks)
                 /\ Current.table = Table
           /\ IsListing(reader.asks) /\ Current.what \notin {"rows", "page"} =>
                 reader.next + 1 < Len(reader.asks)
<1> DEFINE asks == reader.asks
           n == reader.next
           last == Len(asks)
<1>1. reader \in Reader /\ ReaderOK /\ Reading
  BY TypeParts DEF FInv, Unfinished
<1>2. asks \in Reports /\ last \in 1..4
  BY <1>1, WhatIsRead
<1>3. n \in 1..5 /\ n <= last /\ Current = asks[n]
  BY <1>1 DEF Unfinished, Reader, Current
<1>4. /\ IsListing(asks) =>
            /\ last \in 2..4 /\ Last(asks) = asks[last] /\ Last(asks).what = "page"
            /\ asks[last - 1].what = "rows" /\ asks[last - 1].table = Last(asks).table
            /\ \A k \in 1..(last - 2) : asks[k].what \notin {"rows", "page"}
      /\ ~IsListing(asks) => \A k \in 1..last : asks[k].what \notin {"rows", "page"}
  BY <1>2, ReportForms
<1>5. Table = Last(asks).table
  BY DEF Table
<1> HIDE DEF asks, n, last
<1>6. /\ Current.what = "page" => IsListing(asks) /\ n = last
      /\ IsListing(asks) => last \in 2..4
      /\ IsListing(asks) /\ n = last => Current.what = "page"
      /\ Current.what = "rows" => IsListing(asks) /\ n < last /\ Current.table = Table
      /\ IsListing(asks) /\ Current.what \notin {"rows", "page"} => n + 1 < last
  <2>1. CASE ~IsListing(asks)
    <3>1. n \in 1..last
      BY <1>2, <1>3
    <3>2. Current.what \notin {"rows", "page"}
      BY <1>3, <1>4, <2>1, <3>1
    <3> QED BY <2>1, <3>2
  <2>2. CASE IsListing(asks) /\ n = last
    BY <1>3, <1>4, <2>2
  <2>3. CASE IsListing(asks) /\ n = last - 1
    BY <1>2, <1>3, <1>4, <1>5, <2>3
  <2>4. CASE IsListing(asks) /\ n < last - 1
    <3>1. n \in 1..(last - 2) /\ n + 1 < last
      BY <1>2, <1>3, <2>4
    <3> QED BY <1>3, <1>4, <2>4, <3>1
  <2> QED BY <1>2, <1>3, <2>1, <2>2, <2>3, <2>4
<1> QED BY <1>6 DEF asks, n, last

\* A page is those rows, by rank.
LEMMA PageByRank ==
    ASSUME FInv, Reading
    PROVE  Page = {i \in Rows : /\ RankOf(OrderKey, i) >= Offset(reader.page)
                                /\ RankOf(OrderKey, i) < Offset(reader.page) + Limit}
<1>1. LinesOK /\ Sequenced /\ ReaderOK
  BY TypeParts DEF FInv
<1>2. /\ OrderKey \in Keys(Rows)
      /\ \A i, j \in Rows : Before(i, j) <=> OrderKey[i] < OrderKey[j]
  BY <1>1, WhatIsRead, RowsAreOrdered
<1>3. ASSUME NEW i \in Rows
      PROVE  RankOf(OrderKey, i) = Cardinality({j \in Rows : Before(j, i)})
  <2>1. {j \in Rows : Before(j, i)} = {j \in DOMAIN OrderKey : OrderKey[j] < OrderKey[i]}
    BY <1>2 DEF Keys
  <2> QED BY <2>1 DEF RankOf
<1> QED BY <1>3 DEF Page, Rows, Table

\* While no line changes, the rows keep their order.
LEMMA OrderStands ==
    ASSUME UNCHANGED <<line, booked>>, reader'.asks = reader.asks
    PROVE  Table' = Table /\ Rows' = Rows /\ OrderKey' = OrderKey
<1>1. Table' = Table
  BY DEF Table
<1>2. Rows' = Rows
  BY <1>1 DEF Rows, Listed, Processed, Selected, Approved, Class, OfShown, Currencies, Methods
<1>3. \A i : Key(Table, i)' = Key(Table, i)
  BY <1>1 DEF Key, Place
<1>4. PublicReport' = PublicReport
  BY DEF PublicReport
<1> QED BY <1>1, <1>2, <1>3, <1>4 DEF OrderKey

\* A step of the reader that stays where it is, on its way to the page or about to count the rows.
LEMMA PagesStand ==
    ASSUME PInv, Reading, UNCHANGED <<line, booked>>,
           reader'.asks = reader.asks, reader'.seen = reader.seen, reader'.again = reader.again,
           reader'.stayed = reader.stayed, reader'.changes = reader.changes,
           IsListing(reader.asks) =>
              /\ ReadUpTo' = ReadUpTo
              /\ reader'.next < Len(reader.asks) \/ Uncounted' = 0
    PROVE  PagesOK'
<1>1. Rows' = Rows /\ OrderKey' = OrderKey
  BY OrderStands
<1>2. SUFFICES ASSUME IsListing(reader.asks)
               PROVE  /\ reader.again + Cardinality(Ahead') <= reader.changes
                      /\ Cardinality(Missed') <= reader.changes
                      /\ \/ reader'.next < Len(reader.asks)
                         \/ Cardinality(Missed') + Uncounted' <= reader.changes
  BY DEF PagesOK, IsListing
<1>3. Ahead' = Ahead /\ Missed' = Missed
  BY <1>1, <1>2 DEF Ahead, Missed, From, Until
<1>4. /\ reader.again + Cardinality(Ahead) <= reader.changes
      /\ Cardinality(Missed) <= reader.changes
  BY <1>2 DEF PInv, PagesOK
<1>5. Cardinality(Missed) \in Nat
  BY PagesAreFinite DEF PInv
<1>6. CASE reader'.next < Len(reader.asks)
  BY <1>3, <1>4, <1>6
<1>7. CASE Uncounted' = 0
  BY <1>3, <1>4, <1>5, <1>7
<1> QED BY <1>2, <1>6, <1>7

\* A page is read: what it shows again was ahead, what it passes unseen had been passed.
LEMMA PageIsRead ==
    ASSUME PInv, ReadPage
    PROVE  PagesOK'
<1>1. FInv /\ Unfinished /\ Current.what = "page" /\ UNCHANGED <<line, booked>> /\ Reading
  BY DEF PInv, ReadPage, Unfinished
<1> DEFINE K == OrderKey
           o == Offset(reader.page)
           again == Page \cap reader.seen
           ahead == From(K, Rows \cap (reader.seen \cup Page), o + Limit)
           missed == Until(K, reader.stayed \ (reader.seen \cup Page), o + Limit)
<1>2. IsListing(reader.asks) /\ reader.next = Len(reader.asks) /\ Len(reader.asks) \in 2..4
  BY <1>1, WhereAListingIs
<1>3. /\ reader'.asks = reader.asks /\ reader'.next = reader.next + 1
      /\ reader'.page = reader.page /\ reader'.pages = reader.pages
      /\ reader'.seen = reader.seen \cup Page
      /\ reader'.again = reader.again + Cardinality(again)
      /\ reader'.stayed = reader.stayed /\ reader'.changes = reader.changes
  BY TypeParts DEF PInv, FInv, ReadPage, Reader
<1>4. Rows' = Rows /\ OrderKey' = K
  BY <1>1, <1>3, OrderStands
<1>5. /\ IsFiniteSet(Ahead) /\ Cardinality(Ahead) \in Nat
      /\ IsFiniteSet(Missed) /\ Cardinality(Missed) \in Nat
      /\ o \in Nat /\ reader.page * Limit = o + Limit
      /\ \A i \in Rows : RankOf(K, i) \in Nat
      /\ reader.again \in Nat /\ reader.changes \in Nat /\ Uncounted \in Nat
      /\ reader.stayed \subseteq Rows
  BY <1>1, <1>2, PagesAreFinite
<1>6. ReadUpTo = o /\ ReadUpTo' = o + Limit
  <2> DEFINE last == Len(reader.asks)
  <2>1. last \in 2..4 /\ reader.next = last /\ reader'.next = last + 1 /\ Len(reader'.asks) = last
    BY <1>2, <1>3
  <2>2. ReadUpTo = IF reader.next > last THEN reader.page * Limit ELSE o
    BY DEF ReadUpTo
  <2>3. ReadUpTo' = IF reader'.next > Len(reader'.asks) THEN reader.page * Limit ELSE o
    BY <1>3 DEF ReadUpTo, Offset
  <2> HIDE DEF last, o
  <2> QED BY <1>5, <2>1, <2>2, <2>3
<1>7. Page = {i \in Rows : RankOf(K, i) >= o /\ RankOf(K, i) < o + Limit}
  BY <1>1, PageByRank
<1>8. Ahead = From(K, Rows \cap reader.seen, o) /\ Ahead' = ahead
  BY <1>3, <1>4, <1>6 DEF Ahead
<1>9. Missed = Until(K, reader.stayed \ reader.seen, o) /\ Missed' = missed
  BY <1>3, <1>4, <1>6 DEF Missed
<1>10. Limit \in Nat \ {0}
  BY ConstantsAssumption
<1> HIDE DEF K, o
<1>11. again \cup ahead \subseteq Ahead /\ again \cap ahead = {}
  BY <1>5, <1>7, <1>8, <1>10 DEF From
<1>12. missed \subseteq Missed
  BY <1>5, <1>7, <1>9, <1>10 DEF Until
<1> HIDE DEF again, ahead, missed
<1>13. /\ Cardinality(again) \in Nat /\ Cardinality(ahead) \in Nat
       /\ Cardinality(again) + Cardinality(ahead) <= Cardinality(Ahead)
  <2>1. IsFiniteSet(again) /\ IsFiniteSet(ahead)
    BY <1>5, <1>11, FS_Subset
  <2>2. Cardinality(again \cup ahead) = Cardinality(again) + Cardinality(ahead) - 0
    BY <1>11, <2>1, FS_Union, FS_EmptySet
  <2>3. Cardinality(again \cup ahead) <= Cardinality(Ahead)
    BY <1>5, <1>11, FS_Subset
  <2> QED BY <2>1, <2>2, <2>3, FS_CardinalityType
<1>14. Cardinality(missed) \in Nat /\ Cardinality(missed) <= Cardinality(Missed)
  BY <1>5, <1>12, FS_Subset, FS_CardinalityType
<1>15. Uncounted' = Uncounted
  BY <1>3, <1>4 DEF Uncounted
<1>16. /\ reader.again + Cardinality(Ahead) <= reader.changes
       /\ Cardinality(Missed) + Uncounted <= reader.changes
  <2>1. ~(reader.next < Len(reader.asks))
    <3>1. \A n \in 2..4 : ~(n < n)
      OBVIOUS
    <3> QED BY <1>2, <3>1, Zenon
  <2> QED BY <1>2, <2>1 DEF PInv, PagesOK
<1>17. /\ reader'.again + Cardinality(Ahead') <= reader'.changes
       /\ Cardinality(Missed') <= reader'.changes
       /\ Cardinality(Missed') + Uncounted' <= reader'.changes
  BY <1>3, <1>5, <1>8, <1>9, <1>13, <1>14, <1>15, <1>16
<1> QED BY <1>17 DEF PagesOK

\* What the reader does.
LEMMA PagesReads ==
    ASSUME PInv, Read, FInv'
    PROVE  PagesOK'
<1>1. FInv /\ LinesOK /\ Sequenced /\ reader \in Reader /\ ReaderOK
  BY TypeParts DEF PInv, FInv
<1>2. UNCHANGED <<line, booked>> /\ Reading
  BY DEF Read, ReadSum, ReadCount, CheckLimit, LoadEntries, CountRows, ReadPage, NextPage, Close,
         Unfinished, Answered, Finished
<1>3. ASSUME reader' = Idle
      PROVE  PagesOK'
  BY <1>3, IdleReader DEF PagesOK, IsListing
<1>4. CASE ReadSum \/ ReadCount \/ CheckLimit \/ LoadEntries
  <2>1. Unfinished /\ Current.what \notin {"rows", "page"}
    BY <1>4 DEF ReadSum, ReadCount, CheckLimit, LoadEntries
  <2>2. ASSUME NEW G, reader' = [reader EXCEPT !.next = @ + 1, !.figures = @ \cup G]
        PROVE  PagesOK'
    <3>1. /\ reader'.asks = reader.asks /\ reader'.seen = reader.seen /\ reader'.again = reader.again
          /\ reader'.stayed = reader.stayed /\ reader'.changes = reader.changes
          /\ reader'.next = reader.next + 1 /\ reader'.page = reader.page
      BY <1>1, <2>2 DEF Reader
    <3>2. ASSUME IsListing(reader.asks)
          PROVE  ReadUpTo' = ReadUpTo /\ reader'.next < Len(reader.asks)
      <4> DEFINE last == Len(reader.asks)
      <4>1. last \in 2..4 /\ reader.next + 1 < last /\ reader.next \in 1..5
        BY <1>1, <2>1, <3>2, WhereAListingIs DEF Reader
      <4>2. ReadUpTo = IF reader.next > last THEN reader.page * Limit ELSE Offset(reader.page)
        BY DEF ReadUpTo
      <4>3. ReadUpTo' = IF reader.next + 1 > last THEN reader.page * Limit ELSE Offset(reader.page)
        BY <3>1 DEF ReadUpTo, Offset
      <4> HIDE DEF last
      <4>4. ReadUpTo' = ReadUpTo /\ reader.next + 1 < last
        BY <4>1, <4>2, <4>3
      <4> QED BY <3>1, <4>4 DEF last
    <3> QED BY <1>2, <3>1, <3>2, PagesStand
  <2>3. \/ reader' = Idle
        \/ \E G : reader' = [reader EXCEPT !.next = @ + 1, !.figures = @ \cup G]
    BY <1>4 DEF ReadSum, ReadCount, CheckLimit, LoadEntries
  <2> QED BY <1>3, <2>2, <2>3
<1>5. CASE CountRows
  <2>1. Unfinished /\ Current.what = "rows"
    BY <1>5 DEF CountRows
  <2>2. /\ IsListing(reader.asks) /\ reader.next < Len(reader.asks) /\ Len(reader.asks) \in 2..4
        /\ Current.table = Table
    BY <1>1, <2>1, WhereAListingIs
  <2>3. /\ reader'.asks = reader.asks /\ reader'.seen = reader.seen /\ reader'.again = reader.again
        /\ reader'.stayed = reader.stayed /\ reader'.changes = reader.changes
        /\ reader'.next = reader.next + 1 /\ reader'.page = reader.page
        /\ reader'.pages = TotalPages(Cardinality(Rows))
    BY <1>1, <1>5, <2>2 DEF CountRows, Reader, Rows
  <2>4. ReadUpTo' = ReadUpTo
    <3> DEFINE last == Len(reader.asks)
    <3>1. last \in 2..4 /\ reader.next < last /\ reader.next \in 1..5
      BY <1>1, <2>2 DEF Reader
    <3>2. ReadUpTo = IF reader.next > last THEN reader.page * Limit ELSE Offset(reader.page)
      BY DEF ReadUpTo
    <3>3. ReadUpTo' = IF reader.next + 1 > last THEN reader.page * Limit ELSE Offset(reader.page)
      BY <2>3 DEF ReadUpTo, Offset
    <3> HIDE DEF last
    <3> QED BY <3>1, <3>2, <3>3
  <2>5. Uncounted' = 0
    <3>1. Rows' = Rows
      BY <1>2, <2>3, OrderStands
    <3>2. Cardinality(Rows) \in Nat
      BY <1>1, <1>2, PagesAreFinite
    <3>3. TotalPages(Cardinality(Rows)) * Limit >= Cardinality(Rows) /\ TotalPages(Cardinality(Rows)) \in Nat
      BY <3>2, PagesAreEnough
    <3>4. TotalPages(Cardinality(Rows)) * Limit \in Nat
      BY <3>3, ConstantsAssumption
    <3> QED BY <2>3, <3>1, <3>2, <3>3, <3>4 DEF Uncounted
  <2> QED BY <1>2, <2>3, <2>4, <2>5, PagesStand
<1>6. CASE ReadPage
  BY <1>6, PageIsRead
<1>7. CASE NextPage
  <2>1. /\ reader'.asks = reader.asks /\ reader'.seen = reader.seen /\ reader'.again = reader.again
        /\ reader'.stayed = reader.stayed /\ reader'.changes = reader.changes
        /\ reader'.next = 1 /\ reader'.page = reader.page + 1
    BY <1>1, <1>7 DEF NextPage, Reader
  <2>2. ASSUME IsListing(reader.asks)
        PROVE  ReadUpTo' = ReadUpTo /\ reader'.next < Len(reader.asks)
    <3> DEFINE last == Len(reader.asks)
    <3>1. last \in 2..4
      BY <1>1, <1>2, <2>2, ReportForms DEF ReaderOK
    <3>2. reader.next > last /\ reader.page \in Nat
      BY <1>1, <1>7, ConstantsAssumption DEF NextPage, Answered, Reader
    <3>3. ReadUpTo = IF reader.next > last THEN reader.page * Limit ELSE Offset(reader.page)
      BY DEF ReadUpTo
    <3>4. ReadUpTo' = IF 1 > last THEN reader'.page * Limit ELSE Offset(reader.page + 1)
      BY <2>1 DEF ReadUpTo, Offset
    <3> HIDE DEF last
    <3>5. Offset(reader.page + 1) = reader.page * Limit
      <4>1. \A n \in Nat : ((n + 1) - 1) * Limit = n * Limit
        BY ConstantsAssumption
      <4>2. ((reader.page + 1) - 1) * Limit = reader.page * Limit
        BY <3>2, <4>1, Zenon
      <4> QED BY <4>2 DEF Offset
    <3>6. ReadUpTo' = ReadUpTo /\ 1 < last
      BY <3>1, <3>2, <3>3, <3>4, <3>5
    <3> QED BY <2>1, <3>6 DEF last
  <2> QED BY <1>2, <2>1, <2>2, PagesStand
<1>8. CASE Close
  BY <1>3, <1>8 DEF Close
<1> QED BY <1>4, <1>5, <1>6, <1>7, <1>8 DEF Read

\* A line changes: one more line is passed unseen or comes again, or one row more is uncounted,
\* and the change is counted.
LEMMA PagesChange ==
    ASSUME PInv, NEW i \in Lines, ChangeOf(i), FInv'
    PROVE  PagesOK'
<1>1. FInv /\ LinesOK /\ Sequenced /\ reader \in Reader /\ ReaderOK
  BY TypeParts DEF PInv, FInv
<1>2. Reading => Table \in Tables
  BY <1>1, WhatIsRead
<1>3. IF Reading THEN CountedBy(i) ELSE reader' = reader
  BY <1>1, <1>2, ChangeIsCounted
<1>4. CASE ~Reading
  BY <1>3, <1>4 DEF PagesOK, IsListing, Reading
<1>5. CASE Reading
  <2> SUFFICES ASSUME IsListing(reader.asks)
               PROVE  /\ reader'.again + Cardinality(Ahead') <= reader'.changes
                      /\ Cardinality(Missed') <= reader'.changes
                      /\ \/ reader'.next < Len(reader'.asks)
                         \/ Cardinality(Missed') + Uncounted' <= reader'.changes
    BY <1>3, <1>5 DEF PagesOK, CountedBy, IsListing
  <2> DEFINE o == ReadUpTo
             X == reader.seen
             Stay == reader'.stayed \ reader.seen
             K == OrderKey
             L == OrderKey'
             Now == Rows'
  <2>1. /\ Table \in Tables
        /\ reader'.asks = reader.asks /\ reader'.next = reader.next
        /\ reader'.page = reader.page /\ reader'.pages = reader.pages
        /\ reader'.seen = reader.seen /\ reader'.again = reader.again
        /\ reader'.changes = reader.changes + 1 /\ reader'.stayed \subseteq reader.stayed
    BY <1>2, <1>3, <1>5 DEF CountedBy
  <2>2. /\ IsFiniteSet(Ahead) /\ Cardinality(Ahead) \in Nat
        /\ IsFiniteSet(Missed) /\ Cardinality(Missed) \in Nat
        /\ Cardinality(Rows) \in Nat /\ Uncounted \in Nat /\ o \in Nat
        /\ K \in Keys(Rows) /\ IsFiniteSet(Rows)
        /\ \A j \in Rows : RankOf(K, j) \in Nat
        /\ reader.again \in Nat /\ reader.changes \in Nat
        /\ reader.stayed \subseteq Rows
    BY <1>1, <1>5, PagesAreFinite
  <2>3. /\ reader.again + Cardinality(Ahead) <= reader.changes
        /\ Cardinality(Missed) <= reader.changes
        /\ reader.next < Len(reader.asks) \/ Cardinality(Missed) + Uncounted <= reader.changes
    BY DEF PInv, PagesOK
  <2>4. ReadUpTo' = o
    BY <2>1 DEF ReadUpTo, Offset
  <2>5. Ahead = From(K, Rows \cap X, o) /\ Ahead' = From(L, Now \cap X, o)
    <3>1. Ahead' = From(OrderKey', Rows' \cap reader'.seen, ReadUpTo')
      BY DEF Ahead, From, RankOf
    <3> QED BY <2>1, <2>4, <3>1 DEF Ahead
  <2>6. Until(K, Stay, o) \subseteq Missed /\ Missed' = Until(L, Stay, o)
    <3>1. Missed' = Until(OrderKey', reader'.stayed \ reader'.seen, ReadUpTo')
      BY DEF Missed, Until, RankOf
    <3> QED BY <2>1, <2>4, <3>1 DEF Missed, Until
  <2>7. reader'.stayed \subseteq Rows' /\ Cardinality(Rows') \in Nat
    <3>1. (FInv /\ Reading => Cardinality(Rows) \in Nat /\ (IsListing(reader.asks) => reader.stayed \subseteq Rows))'
      BY PagesAreFinite, PTL
    <3>2. Reading' /\ (IsListing(reader.asks))'
      BY <1>5, <2>1 DEF Reading, IsListing
    <3> QED BY <3>1, <3>2
  <2>8. Stay \subseteq Rows /\ Stay \subseteq Now
    BY <2>1, <2>2, <2>7
  <2>9. reader.pages * Limit \in Nat
    BY <1>1, ConstantsAssumption DEF Reader
  <2>10. Uncounted' = IF Cardinality(Now) > reader.pages * Limit
                      THEN Cardinality(Now) - reader.pages * Limit ELSE 0
    BY <2>1 DEF Uncounted
  <2> DEFINE shown == reader.pages * Limit
  <2>11. Uncounted = IF Cardinality(Rows) > shown THEN Cardinality(Rows) - shown ELSE 0
    BY DEF Uncounted
  <2>12. ASSUME /\ Cardinality(Ahead') \in Nat /\ Cardinality(Missed') \in Nat
                /\ Cardinality(Ahead') <= Cardinality(Ahead) + 1
                /\ \/ /\ Cardinality(Missed') <= Cardinality(Missed)
                      /\ Cardinality(Now) <= Cardinality(Rows) + 1
                   \/ /\ Cardinality(Missed') <= Cardinality(Missed) + 1
                      /\ Cardinality(Now) <= Cardinality(Rows)
         PROVE  /\ reader'.again + Cardinality(Ahead') <= reader'.changes
                /\ Cardinality(Missed') <= reader'.changes
                /\ \/ reader'.next < Len(reader'.asks)
                   \/ Cardinality(Missed') + Uncounted' <= reader'.changes
    <3> HIDE DEF shown, Now
    <3>1. Cardinality(Now) \in Nat /\ shown \in Nat
      BY <2>7, <2>9 DEF Now, shown
    <3>2. Cardinality(Missed') + Uncounted' <= Cardinality(Missed) + Uncounted + 1
      BY <2>2, <2>10, <2>11, <2>12, <3>1 DEF shown
    <3>3. /\ reader'.again + Cardinality(Ahead') <= reader'.changes
          /\ Cardinality(Missed') <= reader'.changes
      <4>1. Cardinality(Missed') <= Cardinality(Missed) + 1
        BY <2>2, <2>12
      <4>2. reader'.again = reader.again /\ reader'.changes = reader.changes + 1
        BY <2>1
      <4> QED BY <2>2, <2>3, <2>12, <4>1, <4>2
    <3>4. Uncounted' \in Nat
      BY <2>10, <3>1 DEF shown
    <3>5. \/ reader.next < Len(reader.asks)
          \/ Cardinality(Missed') + Uncounted' <= reader'.changes
      BY <2>1, <2>2, <2>3, <2>12, <3>2, <3>4
    <3> QED BY <2>1, <3>3, <3>5
  <2> HIDE DEF o, X, Stay, K, L, Now, shown
  <2>13. CASE Now = Rows /\ SameOrder(Rows, K, L)
    <3>1. DOMAIN L = Rows
      <4>1. DOMAIN OrderKey' = Rows'
        BY DEF OrderKey
      <4> QED BY <2>13, <4>1 DEF L, Now
    <3>2. ASSUME NEW j \in Rows
          PROVE  RankOf(L, j) = RankOf(K, j)
      <4>1. {k \in DOMAIN K : K[k] < K[j]} = {k \in DOMAIN L : L[k] < L[j]}
        BY <2>2, <2>13, <3>1 DEF Keys, SameOrder
      <4> QED BY <4>1 DEF RankOf
    <3>3. Ahead' = Ahead /\ Missed' \subseteq Missed
      BY <2>5, <2>6, <2>8, <2>13, <3>2 DEF From, Until
    <3>4. Cardinality(Missed') \in Nat /\ Cardinality(Missed') <= Cardinality(Missed)
      BY <2>2, <3>3, FS_Subset, FS_CardinalityType
    <3>5. /\ Cardinality(Ahead') \in Nat /\ Cardinality(Ahead') <= Cardinality(Ahead) + 1
          /\ Cardinality(Now) <= Cardinality(Rows) + 1
      BY <2>2, <2>13, <3>3
    <3> QED BY <2>12, <3>4, <3>5
  <2>14. CASE i \notin Rows /\ Now = Rows \cup {i} /\ OneMore(Rows, K, i, L)
    <3>1. Cardinality(Ahead') \in Nat /\ Cardinality(Ahead') <= Cardinality(Ahead) + 1
      BY <2>2, <2>5, <2>14, OneMoreFrom
    <3>2. Missed' \subseteq Missed
      <4>1. Until(L, Stay, o) \subseteq Until(K, Stay, o)
        BY <2>2, <2>8, <2>14, OneMoreUntil
      <4> QED BY <2>6, <4>1
    <3>3. Cardinality(Missed') \in Nat /\ Cardinality(Missed') <= Cardinality(Missed)
      BY <2>2, <3>2, FS_Subset, FS_CardinalityType
    <3>4. Cardinality(Now) <= Cardinality(Rows) + 1
      <4>1. IsFiniteSet(Rows) /\ Cardinality(Rows) \in Nat
        BY <2>2
      <4>2. Cardinality(Rows \cup {i}) = Cardinality(Rows) + 1
        BY <2>14, <4>1, FS_AddElement
      <4> QED BY <2>14, <4>1, <4>2
    <3> QED BY <2>12, <3>1, <3>3, <3>4
  <2>15. CASE i \notin Now /\ Rows = Now \cup {i} /\ OneMore(Now, L, i, K)
    <3>1. Cardinality(Ahead') \in Nat /\ Cardinality(Ahead') <= Cardinality(Ahead) + 1
      <4>1. /\ Cardinality(From(L, Now \cap X, o)) \in Nat
            /\ Cardinality(From(L, Now \cap X, o)) <= Cardinality(From(K, (Now \cup {i}) \cap X, o))
        BY <2>2, <2>15, OneLessFrom
      <4> QED BY <2>2, <2>5, <2>15, <4>1
    <3>2. PICK y : Missed' \subseteq Missed \cup {y}
      <4>1. \E y : Until(L, Stay, o) \subseteq Until(K, Stay, o) \cup {y}
        BY <2>2, <2>8, <2>15, OneLessUntil
      <4> QED BY <2>6, <4>1
    <3>3. Cardinality(Missed') \in Nat /\ Cardinality(Missed') <= Cardinality(Missed) + 1
      BY <2>2, <3>2, AtMostOneMore
    <3>4. Cardinality(Now) <= Cardinality(Rows)
      BY <2>2, <2>15, FS_Subset
    <3> QED BY <2>12, <3>1, <3>3, <3>4
  <2>16. \/ Now = Rows /\ SameOrder(Rows, K, L)
         \/ i \notin Rows /\ Now = Rows \cup {i} /\ OneMore(Rows, K, i, L)
         \/ i \notin Now /\ Rows = Now \cup {i} /\ OneMore(Now, L, i, K)
    BY <1>1, <2>1, RowsStep DEF Now, K, L
  <2> QED BY <2>13, <2>14, <2>15, <2>16
<1> QED BY <1>4, <1>5

\* A reader begins with nothing passed.
LEMMA PagesOpen ==
    ASSUME NEW asks \in Reports, Open(asks), FInv'
    PROVE  PagesOK'
<1>1. /\ reader'.asks = asks /\ reader'.next = 1 /\ reader'.page = 1
      /\ reader'.seen = {} /\ reader'.again = 0 /\ reader'.changes = 0
  BY DEF Open, Idle
<1>2. SUFFICES ASSUME IsListing(asks)
               PROVE  /\ 0 + Cardinality(Ahead') <= 0
                      /\ Cardinality(Missed') <= 0
                      /\ 1 < Len(asks)
  BY <1>1 DEF PagesOK, IsListing
<1>3. 1 < Len(asks)
  <2> DEFINE last == Len(asks)
  <2>1. last \in 2..4
    BY <1>2, ReportForms
  <2> HIDE DEF last
  <2>2. 1 < last
    BY <2>1
  <2> QED BY <2>2 DEF last
<1>4. Ahead' = {}
  BY <1>1 DEF Ahead, From
<1>5. Missed' = {}
  <2>1. ReadUpTo' = 0
    <3>1. ~(1 > Len(asks))
      <4> DEFINE last == Len(asks)
      <4>1. last \in 2..4
        BY <1>2, ReportForms
      <4> HIDE DEF last
      <4>2. ~(1 > last)
        BY <4>1
      <4> QED BY <4>2 DEF last
    <3>2. Offset(1) = 0
      BY ConstantsAssumption DEF Offset
    <3> QED BY <1>1, <3>1, <3>2 DEF ReadUpTo, Offset
  <2>2. reader'.stayed \subseteq Rows' /\ \A j \in Rows' : RankOf(OrderKey', j) \in Nat
    <3>1. (FInv /\ Reading =>
             /\ OrderKey \in Keys(Rows) /\ IsFiniteSet(Rows)
             /\ IsListing(reader.asks) => reader.stayed \subseteq Rows)'
      BY PagesAreFinite, PTL
    <3>2. Reading' /\ (IsListing(reader.asks))'
      BY <1>1, <1>2 DEF Reading, IsListing
    <3>3. OrderKey' \in Keys(Rows') /\ IsFiniteSet(Rows')
      BY <3>1, <3>2 DEF Keys
    <3> QED BY <3>1, <3>2, <3>3, RankLess
  <2>3. Missed' = Until(OrderKey', reader'.stayed \ reader'.seen, ReadUpTo')
    BY DEF Missed, Until, RankOf
  <2>4. \A n \in Nat : ~(n < 0)
    OBVIOUS
  <2> QED BY <2>1, <2>2, <2>3, <2>4 DEF Until
<1> QED BY <1>3, <1>4, <1>5, FS_EmptySet

\* Every step keeps it.
LEMMA PagesStep == PInv /\ [Next]_vars => PInv'
<1> SUFFICES ASSUME PInv, [Next]_vars PROVE PInv'
  OBVIOUS
<1>1. FInv'
  BY FigureStep DEF PInv
<1>2. SUFFICES PagesOK'
  BY <1>1 DEF PInv
<1>3. ASSUME NEW asks \in Reports, Open(asks) PROVE PagesOK'
  BY <1>1, <1>3, PagesOpen
<1>4. CASE Read
  BY <1>1, <1>4, PagesReads
<1>5. CASE Change
  BY <1>1, <1>5, PagesChange DEF Change, ChangeOf
<1>6. CASE UNCHANGED vars
  <2>1. reader' = reader /\ UNCHANGED <<line, booked>> /\ reader'.asks = reader.asks
    BY <1>6 DEF vars
  <2>2. Rows' = Rows /\ OrderKey' = OrderKey
    BY <2>1, OrderStands
  <2>3. ReadUpTo' = ReadUpTo
    BY <2>1 DEF ReadUpTo, Offset
  <2>4. Ahead' = Ahead /\ Missed' = Missed /\ Uncounted' = Uncounted
    BY <2>1, <2>2, <2>3 DEF Ahead, Missed, Uncounted, From, Until
  <2> QED BY <2>1, <2>4 DEF PInv, PagesOK, IsListing
<1> QED BY <1>3, <1>4, <1>5, <1>6 DEF Next

LEMMA PagesInvariant == Spec => []PInv
<1>1. Init => PInv
  <2> SUFFICES ASSUME Init PROVE PInv
    OBVIOUS
  <2>1. ~IsListing(reader.asks)
    BY IdleReader DEF Init, IsListing
  <2> QED BY <2>1, FigureInit DEF PInv, PagesOK
<1> QED BY <1>1, PagesStep, PTL DEF Spec

\* A client that turns all pages misses no more of the lines that were listed all along, and gets
\* no more twice, than changes were committed meanwhile.
THEOREM PagesLoseFewLines == Spec => []PagesLoseFew
<1>1. PInv => PagesLoseFew
  <2> SUFFICES ASSUME PInv, Finished, IsListing(reader.asks)
               PROVE  /\ Cardinality(reader.stayed \ reader.seen) <= reader.changes
                      /\ reader.again <= reader.changes
    BY DEF PagesLoseFew
  <2>1. FInv /\ Reading /\ reader.page >= reader.pages /\ reader.next > Len(reader.asks)
    BY DEF PInv, Finished, Answered
  <2>2. /\ IsFiniteSet(Ahead) /\ Cardinality(Ahead) \in Nat
        /\ IsFiniteSet(Missed) /\ Cardinality(Missed) \in Nat
        /\ Cardinality(Rows) \in Nat /\ Uncounted \in Nat /\ ReadUpTo \in Nat
        /\ OrderKey \in Keys(Rows) /\ IsFiniteSet(Rows)
        /\ \A i \in Rows : RankOf(OrderKey, i) \in Nat
        /\ reader.again \in Nat /\ reader.changes \in Nat
        /\ reader.stayed \subseteq Rows
    BY <2>1, PagesAreFinite
  <2>3. /\ reader.again + Cardinality(Ahead) <= reader.changes
        /\ Cardinality(Missed) + Uncounted <= reader.changes
    <3>1. ~(reader.next < Len(reader.asks))
      <4> DEFINE last == Len(reader.asks)
      <4>1. last \in 2..4 /\ reader.next \in 1..5 /\ reader.next > last
        BY <2>1, TypeParts, ReportForms DEF FInv, ReaderOK, Reader
      <4> HIDE DEF last
      <4>2. ~(reader.next < last)
        BY <4>1
      <4> QED BY <4>2 DEF last
    <3> QED BY <3>1 DEF PInv, PagesOK
  <2>4. reader.again <= reader.changes
    BY <2>2, <2>3
  <2> DEFINE rest == From(OrderKey, Rows, ReadUpTo)
  <2>5. reader.stayed \ reader.seen \subseteq Missed \cup rest
    BY <2>2 DEF Missed, Until, From
  <2>6. /\ IsFiniteSet(rest)
        /\ Cardinality(rest) <= IF Cardinality(Rows) >= ReadUpTo THEN Cardinality(Rows) - ReadUpTo ELSE 0
    BY <2>2, LinesBeyond DEF From
  <2> HIDE DEF rest
  <2>7. reader.pages * Limit \in Nat /\ ReadUpTo >= reader.pages * Limit
    <3>1. reader.page \in Nat /\ reader.pages \in Nat /\ Limit \in Nat
      BY <2>1, TypeParts, ConstantsAssumption DEF FInv, Reader
    <3>2. ReadUpTo = reader.page * Limit
      BY <2>1 DEF ReadUpTo
    <3>3. (reader.page - reader.pages) * Limit \in Nat
      BY <2>1, <3>1
    <3>4. reader.page * Limit = (reader.page - reader.pages) * Limit + reader.pages * Limit
      BY <3>1
    <3>5. reader.pages * Limit \in Nat
      BY <3>1
    <3> QED BY <3>2, <3>3, <3>4, <3>5
  <2>8. Cardinality(rest) \in Nat /\ Cardinality(rest) <= Uncounted
    <3>1. Cardinality(rest) \in Nat
      BY <2>6, FS_CardinalityType
    <3> QED BY <2>2, <2>6, <2>7, <3>1 DEF Uncounted
  <2>9. /\ Cardinality(reader.stayed \ reader.seen) \in Nat
        /\ Cardinality(reader.stayed \ reader.seen) <= Cardinality(Missed) + Cardinality(rest)
    BY <2>2, <2>5, <2>6, AFewMore
  <2>10. Cardinality(reader.stayed \ reader.seen) <= reader.changes
    BY <2>2, <2>3, <2>8, <2>9
  <2> QED BY <2>4, <2>10
<1> QED BY <1>1, PagesInvariant, PTL

=============================================================================

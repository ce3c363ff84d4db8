------------------------------ MODULE Inductions ------------------------------
(***************************************************************************)
(* What the theorems need of induction: every set of numbers has a least   *)
(* one, and what holds of a concatenation if it holds of each beginning.   *)
(***************************************************************************)
EXTENDS Integers, Sequences, SequencesExt, Lists, FiniteSetTheorems, WellFoundedInduction, TLAPS

\* A set of numbers has a least one.
LEMMA LeastNumber ==
    ASSUME NEW T \in SUBSET Nat, T # {}
    PROVE  \E x \in T : \A y \in T : x <= y
<1> DEFINE R == {ss \in Nat \X Nat : ss[1] < ss[2]}
<1>1. IsWellFoundedOn(R, Nat)
  BY NatLessThanWellFounded DEF OpToRel
<1> HIDE DEF R
<1>2. PICK x \in T : \A y \in T : <<y, x>> \notin R
  BY <1>1, WFMin
<1>3. \A y \in T : ~(y < x)
  BY <1>2 DEF R
<1> QED
  BY <1>3

-----------------------------------------------------------------------------
(* FlattenSeq is recursive in the number of the sequences.                 *)

JoinUpTo(ss, f, i) == IF i = 1 THEN ss[i] ELSE f[i - 1] \o ss[i]

\* There is a function that the recursion describes.
LEMMA JoinExists ==
    ASSUME NEW ss, NEW n \in Nat
    PROVE  \E f : f = [i \in 1..n |-> JoinUpTo(ss, f, i)]
<1> DEFINE Good(m) == \E f : f = [i \in 1..m |-> JoinUpTo(ss, f, i)]
           T == {m \in Nat : ~Good(m)}
<1>1. SUFFICES ASSUME T # {} PROVE FALSE
  OBVIOUS
<1> HIDE DEF Good
<1>2. PICK m \in T : \A y \in T : m <= y
  BY <1>1, LeastNumber
<1>3. ASSUME m = 0 PROVE FALSE
  <2>1. 1..0 = {}
    OBVIOUS
  <2>2. [i \in {} |-> 0] = [i \in 1..0 |-> JoinUpTo(ss, [j \in {} |-> 0], i)]
    BY <2>1
  <2>3. Good(0)
    BY <2>2 DEF Good
  <2> QED
    BY <1>2, <1>3, <2>3
<1>4. ASSUME m # 0 PROVE FALSE
  <2>1. m - 1 \in Nat /\ ~(m <= m - 1)
    BY <1>2, <1>4
  <2>2. PICK f : f = [i \in 1..(m - 1) |-> JoinUpTo(ss, f, i)]
    BY <1>2, <2>1 DEF Good
  <2> DEFINE g == [i \in 1..m |-> JoinUpTo(ss, f, i)]
  <2>3. \A i \in 1..m : i # 1 => i - 1 \in 1..(m - 1) /\ i - 1 \in 1..m
    BY <1>2
  <2>4. \A i \in 1..(m - 1) : f[i] = g[i]
    BY <2>2, <1>2
  <2>5. \A i \in 1..m : JoinUpTo(ss, f, i) = JoinUpTo(ss, g, i)
    BY <2>3, <2>4 DEF JoinUpTo
  <2>6. g = [i \in 1..m |-> JoinUpTo(ss, g, i)]
    BY <2>5
  <2>7. Good(m)
    BY <2>6 DEF Good
  <2> QED
    BY <1>2, <2>7
<1> QED
  BY <1>3, <1>4

LEMMA FlattenIs ==
    ASSUME NEW ss, Len(ss) \in Nat
    PROVE  \E f : /\ f = [i \in 1..Len(ss) |-> JoinUpTo(ss, f, i)]
                  /\ FlattenSeq(ss) = IF Len(ss) = 0 THEN ss ELSE f[Len(ss)]
<1> DEFINE f == CHOOSE h : h = [i \in 1..Len(ss) |-> JoinUpTo(ss, h, i)]
<1>1. f = [i \in 1..Len(ss) |-> JoinUpTo(ss, f, i)]
  BY JoinExists
<1>2. FlattenSeq(ss) = IF Len(ss) = 0 THEN ss ELSE f[Len(ss)]
  BY DEF FlattenSeq, JoinUpTo
<1> QED
  BY <1>1, <1>2

\* What holds of nothing, and goes on to hold as each of the sequences is appended,
\* holds of all of them together: In[i] are the sequences of which it holds after
\* the first i.
LEMMA FlattenInduction ==
    ASSUME NEW ss, Len(ss) \in Nat, Len(ss) = 0 => ss = <<>>,
           NEW S, \A i \in 1..Len(ss) : ss[i] \in Seq(S),
           NEW In, <<>> \in In[0],
           \A i \in 1..Len(ss) : \A a \in In[i - 1] : a \o ss[i] \in In[i]
    PROVE  FlattenSeq(ss) \in In[Len(ss)]
<1>1. PICK f : /\ f = [i \in 1..Len(ss) |-> JoinUpTo(ss, f, i)]
               /\ FlattenSeq(ss) = IF Len(ss) = 0 THEN ss ELSE f[Len(ss)]
  BY FlattenIs
<1> DEFINE T == {i \in Nat : i \in 1..Len(ss) /\ f[i] \notin In[i]}
<1>2. ASSUME T # {} PROVE FALSE
  <2>1. PICK i \in T : \A y \in T : i <= y
    BY <1>2, LeastNumber
  <2>2. f[i] = JoinUpTo(ss, f, i)
    BY <1>1, <2>1
  <2>3. CASE i = 1
    <3>1. <<>> \o ss[1] = ss[1]
      BY <2>1, <2>3
    <3>2. <<>> \o ss[1] \in In[1]
      <4>1. 1 \in 1..Len(ss) /\ 1 - 1 = 0
        BY <2>1, <2>3
      <4>2. \A a \in In[1 - 1] : a \o ss[1] \in In[1]
        BY <4>1
      <4> QED
        BY <4>1, <4>2
    <3> QED
      BY <2>1, <2>2, <2>3, <3>1, <3>2 DEF JoinUpTo
  <2>4. CASE i # 1
    <3>1. i - 1 \in 1..Len(ss) /\ i - 1 \in Nat /\ ~(i <= i - 1)
      BY <2>1, <2>4
    <3>2. f[i - 1] \in In[i - 1]
      BY <2>1, <3>1
    <3>3. f[i] = f[i - 1] \o ss[i]
      BY <2>2, <2>4 DEF JoinUpTo
    <3> QED
      BY <2>1, <3>2, <3>3
  <2> QED
    BY <2>3, <2>4
<1>3. CASE Len(ss) = 0
  BY <1>1, <1>3
<1>4. CASE Len(ss) # 0
  <2>1. Len(ss) \in 1..Len(ss) /\ Len(ss) \in Nat
    BY <1>4
  <2> QED
    BY <1>1, <1>2, <1>4, <2>1
<1> QED
  BY <1>3, <1>4

-----------------------------------------------------------------------------
(* The elements of lists.                                                  *)

LEMMA ElementsOfConcat ==
    ASSUME NEW S, NEW a \in Seq(S), NEW b \in Seq(S)
    PROVE  a \o b \in Seq(S) /\ ToSet(a \o b) = ToSet(a) \cup ToSet(b)
<1>1. /\ Len(a) \in Nat /\ Len(b) \in Nat /\ Len(a \o b) = Len(a) + Len(b)
      /\ DOMAIN a = 1..Len(a) /\ DOMAIN b = 1..Len(b) /\ DOMAIN (a \o b) = 1..Len(a \o b)
  OBVIOUS
<1>2. ASSUME NEW i \in 1..Len(a) PROVE i \in 1..Len(a \o b) /\ (a \o b)[i] = a[i]
  BY <1>1
<1>3. ASSUME NEW i \in 1..Len(b)
      PROVE  Len(a) + i \in 1..Len(a \o b) /\ (a \o b)[Len(a) + i] = b[i]
  BY <1>1
<1>4. ASSUME NEW i \in 1..Len(a \o b), i \notin 1..Len(a)
      PROVE  i - Len(a) \in 1..Len(b) /\ (a \o b)[i] = b[i - Len(a)]
  BY <1>1, <1>4
<1>5. ToSet(a) \cup ToSet(b) \subseteq ToSet(a \o b)
  BY <1>1, <1>2, <1>3 DEF ToSet
<1>6. ToSet(a \o b) \subseteq ToSet(a) \cup ToSet(b)
  BY <1>1, <1>2, <1>4 DEF ToSet
<1> QED
  BY <1>5, <1>6

LEMMA ElementsOfFlat ==
    ASSUME NEW ss, Len(ss) \in Nat, Len(ss) = 0 => ss = <<>>,
           NEW S, \A i \in 1..Len(ss) : ss[i] \in Seq(S)
    PROVE  /\ FlattenSeq(ss) \in Seq(S)
           /\ ToSet(FlattenSeq(ss)) = UNION {ToSet(ss[i]) : i \in 1..Len(ss)}
<1> DEFINE Joined(k) == UNION {ToSet(ss[i]) : i \in 1..k}
           Upto == [k \in Nat |-> {a \in Seq(S) : ToSet(a) = Joined(k)}]
<1>1. <<>> \in Upto[0]
  <2>1. ToSet(<<>>) = {} /\ Joined(0) = {}
    BY DEF ToSet
  <2> QED
    BY <2>1
<1>2. ASSUME NEW k \in 1..Len(ss), NEW a \in Upto[k - 1] PROVE a \o ss[k] \in Upto[k]
  <2>1. k \in Nat /\ k - 1 \in Nat /\ 1..k = 1..(k - 1) \cup {k}
    OBVIOUS
  <2>2. a \in Seq(S) /\ ToSet(a) = Joined(k - 1)
    BY <2>1
  <2>3. Joined(k) = Joined(k - 1) \cup ToSet(ss[k])
    BY <2>1
  <2>4. a \o ss[k] \in Seq(S) /\ ToSet(a \o ss[k]) = ToSet(a) \cup ToSet(ss[k])
    BY <2>2, ElementsOfConcat
  <2> HIDE DEF Joined
  <2> QED
    BY <2>1, <2>2, <2>3, <2>4
<1>3. FlattenSeq(ss) \in Upto[Len(ss)]
  <2> HIDE DEF Upto
  <2> QED
    BY <1>1, <1>2, FlattenInduction
<1> QED
  BY <1>3

LEMMA ThoseAre ==
    ASSUME NEW S, NEW s \in Seq(S), NEW T
    PROVE  /\ Those(s, T) \in Seq(S \cap T)
           /\ ToSet(Those(s, T)) = ToSet(s) \cap T
<1> DEFINE ss == [i \in DOMAIN s |-> IF s[i] \in T THEN <<s[i]>> ELSE <<>>]
<1>1. Those(s, T) = FlattenSeq(ss)
  BY DEF Those
<1>2. /\ DOMAIN s = 1..Len(s) /\ Len(s) \in Nat /\ Len(ss) = Len(s)
      /\ Len(ss) = 0 => ss = <<>>
  OBVIOUS
<1>3. ASSUME NEW i \in 1..Len(s)
      PROVE  ss[i] \in Seq(S \cap T) /\ ToSet(ss[i]) = {s[i]} \cap T
  <2>1. CASE s[i] \in T
    <3>1. ss[i] = <<s[i]>> /\ s[i] \in S \cap T
      BY <2>1, <1>2
    <3>2. \A x : DOMAIN <<x>> = {1} /\ <<x>>[1] = x
      OBVIOUS
    <3>3. ToSet(ss[i]) = {s[i]}
      BY <3>1, <3>2 DEF ToSet
    <3>4. <<s[i]>> \in Seq(S \cap T)
      BY <3>1
    <3> QED
      BY <2>1, <3>1, <3>3, <3>4
  <2>2. CASE s[i] \notin T
    BY <2>2, <1>2 DEF ToSet
  <2> QED
    BY <2>1, <2>2
<1> HIDE DEF ss
<1>4. /\ FlattenSeq(ss) \in Seq(S \cap T)
      /\ ToSet(FlattenSeq(ss)) = UNION {ToSet(ss[i]) : i \in 1..Len(ss)}
  BY <1>2, <1>3, ElementsOfFlat
<1>5. UNION {ToSet(ss[i]) : i \in 1..Len(ss)} = ToSet(s) \cap T
  BY <1>2, <1>3 DEF ToSet
<1> QED
  BY <1>1, <1>4, <1>5

\* What is in a list once is so among those of them that are in T.
LEMMA ThoseOnce ==
    ASSUME NEW S, NEW s \in Seq(S), IsInjective(s), NEW T
    PROVE  IsInjective(Those(s, T))
<1> DEFINE ss == [i \in DOMAIN s |-> IF s[i] \in T THEN <<s[i]>> ELSE <<>>]
           Upto == [k \in Nat |-> {a \in Seq(S) :
                       ToSet(a) \subseteq {s[i] : i \in 1..k} /\ IsInjective(a)}]
<1>1. Those(s, T) = FlattenSeq(ss)
  BY DEF Those
<1>2. /\ DOMAIN s = 1..Len(s) /\ Len(s) \in Nat /\ Len(ss) = Len(s)
      /\ Len(ss) = 0 => ss = <<>>
  OBVIOUS
<1>3. \A i \in 1..Len(s) : ss[i] \in Seq(S) /\ ss[i] = (IF s[i] \in T THEN <<s[i]>> ELSE <<>>)
  BY <1>2
<1> HIDE DEF ss
<1>4. <<>> \in Upto[0]
  BY DEF ToSet, IsInjective
<1>5. ASSUME NEW k \in 1..Len(ss), NEW a \in Upto[k - 1] PROVE a \o ss[k] \in Upto[k]
  <2>1. /\ k \in Nat /\ k - 1 \in Nat /\ 1..k = 1..(k - 1) \cup {k} /\ k \notin 1..(k - 1)
        /\ k \in 1..Len(s)
    BY <1>2
  <2>2. a \in Seq(S) /\ ToSet(a) \subseteq {s[i] : i \in 1..(k - 1)} /\ IsInjective(a)
    BY <2>1
  <2>3. CASE s[k] \notin T
    <3>1. ss[k] = <<>>
      BY <2>1, <2>3, <1>3
    <3>2. a \o ss[k] = a
      BY <2>2, <3>1
    <3> QED
      BY <3>2, <2>1, <2>2
  <2>4. CASE s[k] \in T
    <3>1. ss[k] = <<s[k]>>
      BY <2>1, <2>4, <1>3
    <3>2. s[k] \notin ToSet(a)
      <4>1. \A i \in 1..(k - 1) : i \in DOMAIN s /\ i # k
        BY <1>2, <2>1
      <4> QED
        BY <4>1, <2>1, <2>2, <1>2 DEF IsInjective
    <3> DEFINE b == a \o <<s[k]>>
    <3>3. /\ b \in Seq(S) /\ Len(b) = Len(a) + 1 /\ Len(a) \in Nat
          /\ \A i \in 1..Len(a) : b[i] = a[i] /\ a[i] \in ToSet(a)
          /\ b[Len(a) + 1] = s[k] /\ DOMAIN b = 1..(Len(a) + 1)
      BY <2>1, <2>2, <1>2 DEF ToSet
    <3> HIDE DEF b
    <3>4. IsInjective(b)
      <4> SUFFICES ASSUME NEW i \in 1..(Len(a) + 1), NEW j \in 1..(Len(a) + 1), b[i] = b[j]
                   PROVE  i = j
        BY <3>3 DEF IsInjective
      <4>1. CASE i \in 1..Len(a) /\ j \in 1..Len(a)
        BY <4>1, <2>2, <3>3 DEF IsInjective
      <4>2. CASE i = Len(a) + 1 /\ j \in 1..Len(a)
        BY <4>2, <3>2, <3>3
      <4>3. CASE j = Len(a) + 1 /\ i \in 1..Len(a)
        BY <4>3, <3>2, <3>3
      <4> QED
        BY <4>1, <4>2, <4>3, <3>3
    <3>5. ToSet(b) \subseteq {s[i] : i \in 1..k}
      <4> SUFFICES ASSUME NEW i \in 1..(Len(a) + 1) PROVE b[i] \in {s[j] : j \in 1..k}
        BY <3>3 DEF ToSet
      <4>1. CASE i = Len(a) + 1
        BY <4>1, <3>3, <2>1
      <4>2. CASE i # Len(a) + 1
        <5>1. i \in 1..Len(a)
          BY <4>2, <3>3
        <5>2. b[i] \in {s[j] : j \in 1..(k - 1)}
          BY <5>1, <3>3, <2>2
        <5> QED
          BY <5>2, <2>1
      <4> QED
        BY <4>1, <4>2
    <3> QED
      BY <3>1, <3>3, <3>4, <3>5, <2>1 DEF b
  <2> QED
    BY <2>3, <2>4
<1>6. FlattenSeq(ss) \in Upto[Len(ss)]
  <2> HIDE DEF Upto
  <2> QED
    BY <1>2, <1>3, <1>4, <1>5, FlattenInduction
<1> QED
  BY <1>1, <1>2, <1>6

\* A finite set as a list.
LEMMA ListOfSet ==
    ASSUME NEW S, IsFiniteSet(S)
    PROVE  SetToSeq(S) \in Seq(S) /\ ToSet(SetToSeq(S)) = S /\ IsInjective(SetToSeq(S))
<1>1. Cardinality(S) \in Nat /\ ExistsBijection(1..Cardinality(S), S)
  BY FS_CardinalityType
<1>2. PICK f : f \in Bijection(1..Cardinality(S), S)
  BY <1>1 DEF ExistsBijection
<1>3. f \in [1..Cardinality(S) -> S] /\ IsInjective(f)
  BY <1>2 DEF Bijection, Injection, Surjection, IsInjective
<1> DEFINE g == SetToSeq(S)
<1>4. g \in [1..Cardinality(S) -> S] /\ IsInjective(g)
  BY <1>3 DEF SetToSeq
<1> HIDE DEF g
<1>5. g \in Injection(1..Cardinality(S), S)
  BY <1>4 DEF Injection, IsInjective
<1>6. IsFiniteSet(1..Cardinality(S)) /\ Cardinality(1..Cardinality(S)) = Cardinality(S)
  BY <1>1, FS_Interval
<1>7. g \in Surjection(1..Cardinality(S), S)
  <2>1. IsFiniteSet(S)
    OBVIOUS
  <2> QED
    BY <2>1, <1>5, <1>6, FS_Injection
<1>8. ToSet(g) = S
  BY <1>4, <1>7 DEF Surjection, ToSet
<1>9. g \in Seq(S)
  BY <1>1, <1>4
<1> QED
  BY <1>4, <1>8, <1>9 DEF g

-----------------------------------------------------------------------------
(* Lists of commands that need others before them: N[c] are those that c   *)
(* needs, O those that come once, D what has been done before the list.    *)

Before(s, k) == {s[j] : j \in 1..(k - 1)}
InPlace(c, D, N, O) == N[c] \subseteq D /\ (c \in O => c \notin D)
Orderly(s, D, N, O) == \A k \in 1..Len(s) : InPlace(s[k], D \cup Before(s, k), N, O)

\* The commands of s are those of E, and in order when D comes before them.
Adds(s, D, E, N, O) == s \in Seq(DOMAIN N) /\ ToSet(s) = E /\ Orderly(s, D, N, O)

LEMMA AddsNothing == ASSUME NEW D, NEW N, NEW O PROVE Adds(<<>>, D, {}, N, O)
  BY DEF Adds, Orderly, ToSet

LEMMA AddsOne ==
    ASSUME NEW D, NEW N, NEW O, NEW c \in DOMAIN N, N[c] \subseteq D, c \in O => c \notin D
    PROVE  Adds(<<c>>, D, {c}, N, O)
<1>1. <<c>> \in Seq(DOMAIN N) /\ Len(<<c>>) = 1 /\ DOMAIN <<c>> = {1} /\ <<c>>[1] = c
  OBVIOUS
<1>2. Before(<<c>>, 1) = {}
  BY DEF Before
<1>3. \A k \in 1..1 : k = 1
  OBVIOUS
<1> QED
  BY <1>1, <1>2, <1>3 DEF Adds, Orderly, InPlace, ToSet

LEMMA AddsBoth ==
    ASSUME NEW D, NEW E, NEW F, NEW N, NEW O, NEW a, NEW b,
           Adds(a, D, E, N, O), Adds(b, D \cup E, F, N, O)
    PROVE  Adds(a \o b, D, E \cup F, N, O)
<1>1. a \in Seq(DOMAIN N) /\ b \in Seq(DOMAIN N) /\ ToSet(a) = E /\ ToSet(b) = F
  BY DEF Adds
<1>2. a \o b \in Seq(DOMAIN N) /\ ToSet(a \o b) = E \cup F
  BY <1>1, ElementsOfConcat
<1>3. /\ Len(a) \in Nat /\ Len(b) \in Nat /\ Len(a \o b) = Len(a) + Len(b)
      /\ DOMAIN a = 1..Len(a)
  BY <1>1
<1>4. ASSUME NEW k \in 1..Len(a)
      PROVE  (a \o b)[k] = a[k] /\ Before(a \o b, k) = Before(a, k)
  <2>1. \A j \in 1..k : (a \o b)[j] = a[j]
    BY <1>1, <1>3
  <2> QED
    BY <2>1 DEF Before
<1>5. ASSUME NEW k \in 1..Len(b)
      PROVE  /\ (a \o b)[Len(a) + k] = b[k]
             /\ Before(a \o b, Len(a) + k) = E \cup Before(b, k)
  <2>1. \A j \in 1..k : (a \o b)[Len(a) + j] = b[j]
    BY <1>1, <1>3
  <2>2. \A j \in 1..Len(a) : (a \o b)[j] = a[j] /\ j \in 1..(Len(a) + k - 1)
    BY <1>1, <1>3
  <2>3. \A j \in 1..(k - 1) : Len(a) + j \in 1..(Len(a) + k - 1) /\ j \in 1..k
    BY <1>3
  <2>4. \A j \in 1..(Len(a) + k - 1) : j \in 1..Len(a) \/ (j - Len(a) \in 1..(k - 1) /\ j = Len(a) + (j - Len(a)))
    BY <1>3
  <2>5. E \cup Before(b, k) \subseteq Before(a \o b, Len(a) + k)
    <3>1. E \subseteq Before(a \o b, Len(a) + k)
      BY <1>1, <1>3, <2>2 DEF Before, ToSet
    <3>2. Before(b, k) \subseteq Before(a \o b, Len(a) + k)
      <4> SUFFICES ASSUME NEW j \in 1..(k - 1) PROVE b[j] \in Before(a \o b, Len(a) + k)
        BY DEF Before
      <4>1. (a \o b)[Len(a) + j] = b[j] /\ Len(a) + j \in 1..(Len(a) + k - 1)
        BY <2>1, <2>3
      <4> QED
        BY <4>1 DEF Before
    <3> QED
      BY <3>1, <3>2
  <2>6. Before(a \o b, Len(a) + k) \subseteq E \cup Before(b, k)
    <3> DEFINE ab == a \o b
               L == Len(a) + k
    <3>1. ASSUME NEW j \in 1..(L - 1) PROVE ab[j] \in E \cup Before(b, k)
      <4>1. CASE j \in 1..Len(a)
        BY <4>1, <1>1, <1>3, <2>2 DEF ToSet
      <4>2. CASE j - Len(a) \in 1..(k - 1) /\ j = Len(a) + (j - Len(a))
        <5>1. PICK l \in 1..(k - 1) : j = Len(a) + l
          BY <4>2
        <5>2. ab[j] = b[l]
          BY <5>1, <2>1, <2>3
        <5> QED
          BY <5>1, <5>2 DEF Before
      <4> QED
        BY <4>1, <4>2, <2>4
    <3>2. Before(ab, L) = {ab[j] : j \in 1..(L - 1)}
      BY DEF Before
    <3>3. Before(ab, L) \subseteq E \cup Before(b, k)
      <4> HIDE DEF ab, L
      <4> QED
        BY <3>1, <3>2
    <3> QED
      BY <3>3
  <2> QED
    BY <2>1, <2>5, <2>6
<1>6. ASSUME NEW k \in 1..Len(a \o b)
      PROVE  k \in 1..Len(a) \/ \E l \in 1..Len(b) : k = Len(a) + l
  <2>1. CASE k \in 1..Len(a)
    BY <2>1
  <2>2. CASE k \notin 1..Len(a)
    <3>1. k - Len(a) \in 1..Len(b) /\ k = Len(a) + (k - Len(a))
      BY <2>2, <1>3
    <3> QED
      BY <3>1
  <2> QED
    BY <2>1, <2>2
<1>7. Orderly(a \o b, D, N, O)
  <2> DEFINE ab == a \o b
  <2>0. /\ \A k \in 1..Len(a) : ab[k] = a[k] /\ Before(ab, k) = Before(a, k)
        /\ \A k \in 1..Len(b) : ab[Len(a) + k] = b[k] /\ Before(ab, Len(a) + k) = E \cup Before(b, k)
        /\ \A k \in 1..Len(ab) : k \in 1..Len(a) \/ \E l \in 1..Len(b) : k = Len(a) + l
    BY <1>4, <1>5, <1>6
  <2> HIDE DEF ab
  <2> SUFFICES ASSUME NEW k \in 1..Len(ab)
               PROVE  InPlace(ab[k], D \cup Before(ab, k), N, O)
    BY DEF Orderly, ab
  <2>1. CASE k \in 1..Len(a)
    <3>1. Orderly(a, D, N, O)
      BY DEF Adds
    <3>2. InPlace(a[k], D \cup Before(a, k), N, O)
      BY <2>1, <3>1 DEF Orderly
    <3>3. ab[k] = a[k] /\ Before(ab, k) = Before(a, k)
      BY <2>1, <2>0
    <3> QED
      BY <3>2, <3>3
  <2>2. CASE \E l \in 1..Len(b) : k = Len(a) + l
    <3>1. PICK l \in 1..Len(b) : k = Len(a) + l
      BY <2>2
    <3>0. Orderly(b, D \cup E, N, O)
      BY DEF Adds
    <3>2. InPlace(b[l], (D \cup E) \cup Before(b, l), N, O)
      BY <3>0 DEF Orderly
    <3>3. ab[k] = b[l] /\ Before(ab, k) = E \cup Before(b, l)
      BY <3>1, <2>0
    <3>4. (D \cup E) \cup Before(b, l) = D \cup Before(ab, k)
      BY <3>3
    <3> QED
      BY <3>2, <3>3, <3>4
  <2> QED
    BY <2>0, <2>1, <2>2
<1> QED
  BY <1>2, <1>7 DEF Adds

\* Commands that each find in D what they need, in any order, if none that must not be
\* repeated is.
LEMMA AddsAtOnce ==
    ASSUME NEW D, NEW N, NEW O, NEW t \in Seq(DOMAIN N),
           \A k \in 1..Len(t) : InPlace(t[k], D, N, O),
           \A j, k \in 1..Len(t) : t[j] = t[k] /\ t[k] \in O => j = k
    PROVE  Adds(t, D, ToSet(t), N, O)
<1>1. Len(t) \in Nat
  OBVIOUS
<1>2. Orderly(t, D, N, O)
  <2> SUFFICES ASSUME NEW k \in 1..Len(t) PROVE InPlace(t[k], D \cup Before(t, k), N, O)
    BY DEF Orderly
  <2>1. t[k] \in O => t[k] \notin Before(t, k)
    <3> SUFFICES ASSUME t[k] \in O, NEW j \in 1..(k - 1), t[j] = t[k] PROVE FALSE
      BY DEF Before
    <3>1. j \in 1..Len(t) /\ j # k
      BY <1>1
    <3> QED
      BY <3>1
  <2>2. InPlace(t[k], D, N, O)
    OBVIOUS
  <2> QED
    BY <2>1, <2>2 DEF InPlace
<1> QED
  BY <1>2 DEF Adds

\* A command is what it does and what it does it to; the same one for each of a set.
C(op, x) == [op |-> op, on |-> x]
All(op, S) == {C(op, x) : x \in S}

LEMMA CommandParts ==
    /\ \A op, x : C(op, x).op = op /\ C(op, x).on = x
    /\ \A op, x, o, y : C(op, x) = C(o, y) <=> op = o /\ x = y
    /\ \A op, x, o, S : C(op, x) \in All(o, S) <=> op = o /\ x \in S
<1>1. \A op, x : C(op, x).op = op /\ C(op, x).on = x
  BY DEF C
<1>2. \A op, x, o, y : C(op, x) = C(o, y) <=> op = o /\ x = y
  <2> SUFFICES ASSUME NEW op, NEW x, NEW o, NEW y, C(op, x) = C(o, y) PROVE op = o /\ x = y
    BY DEF C
  <2> QED
    BY <1>1
<1>3. \A op, x, o, S : C(op, x) \in All(o, S) <=> op = o /\ x \in S
  BY <1>2 DEF All
<1> QED
  BY <1>1, <1>2, <1>3

\* The sets that the scripts are put together from.
LEMMA AllIs ==
    /\ \A op : All(op, {}) = {}
    /\ \A op, S, T : All(op, S) \cup All(op, T) = All(op, S \cup T)
    /\ \A op, S, T : S \subseteq T => All(op, S) \subseteq All(op, T)
    /\ \A op, x : All(op, {x}) = {C(op, x)}
    /\ \A op, S, T, U, V :
          ((All(op, S) \cup All(op, T)) \cup All(op, U)) \cup All(op, V) = All(op, ((S \cup T) \cup U) \cup V)
  BY DEF All

\* The same command for each of a list.
LEMMA AddsSame ==
    ASSUME NEW D, NEW N, NEW O, NEW op, NEW S, NEW s \in Seq(S),
           \A x \in ToSet(s) : C(op, x) \in DOMAIN N /\ InPlace(C(op, x), D, N, O),
           IsInjective(s) \/ \A x \in ToSet(s) : C(op, x) \notin O
    PROVE  Adds([i \in DOMAIN s |-> C(op, s[i])], D, All(op, ToSet(s)), N, O)
<1> DEFINE t == [i \in DOMAIN s |-> C(op, s[i])]
<1>1. /\ Len(s) \in Nat /\ DOMAIN s = 1..Len(s)
      /\ \A k \in 1..Len(s) : s[k] \in ToSet(s)
  BY DEF ToSet
<1>2. t = [k \in 1..Len(s) |-> C(op, s[k])]
  BY <1>1
<1>3. /\ Len(t) = Len(s) /\ DOMAIN t = 1..Len(s)
      /\ \A k \in 1..Len(s) : t[k] = C(op, s[k])
  BY <1>1, <1>2
<1> HIDE DEF t
<1>4. t \in Seq(DOMAIN N)
  BY <1>1, <1>2
<1>5. ToSet(t) = All(op, ToSet(s))
  BY <1>1, <1>3 DEF ToSet, All
<1>6. \A k \in 1..Len(t) : InPlace(t[k], D, N, O)
  BY <1>1, <1>3
<1>7. \A j, k \in 1..Len(t) : t[j] = t[k] /\ t[k] \in O => j = k
  <2> SUFFICES ASSUME NEW j \in 1..Len(s), NEW k \in 1..Len(s), t[j] = t[k], t[k] \in O
               PROVE  j = k
    BY <1>3
  <2>1. s[j] = s[k] /\ s[k] \in ToSet(s) /\ C(op, s[k]) \in O
    BY <1>1, <1>3, CommandParts
  <2> QED
    BY <1>1, <2>1 DEF IsInjective
<1>8. Adds(t, D, ToSet(t), N, O)
  BY <1>4, <1>6, <1>7, AddsAtOnce
<1> QED
  BY <1>5, <1>8 DEF t

\* What it means for the commands passed that a whole script is in order.
LEMMA AddsInOrder ==
    ASSUME NEW s, NEW E, NEW N, NEW O, Adds(s, {}, E, N, O)
    PROVE  /\ Len(s) \in Nat /\ E \subseteq DOMAIN N /\ Before(s, Len(s) + 1) = E
           /\ \A k \in 1..Len(s) : s[k] \in E /\ InPlace(s[k], Before(s, k), N, O)
           /\ \A k \in 1..(Len(s) + 1) :
                 Before(s, k) \subseteq E /\ \A c \in Before(s, k) : N[c] \subseteq Before(s, k)
<1>1. s \in Seq(DOMAIN N) /\ ToSet(s) = E /\ Orderly(s, {}, N, O)
  BY DEF Adds
<1>2. Len(s) \in Nat /\ DOMAIN s = 1..Len(s) /\ \A k \in 1..Len(s) : s[k] \in DOMAIN N /\ s[k] \in E
  BY <1>1 DEF ToSet
<1>3. E \subseteq DOMAIN N
  BY <1>1, <1>2 DEF ToSet
<1>4. Before(s, Len(s) + 1) = E
  BY <1>1, <1>2 DEF ToSet, Before
<1>5. ASSUME NEW k \in 1..Len(s) PROVE InPlace(s[k], Before(s, k), N, O)
  <2>1. {} \cup Before(s, k) = Before(s, k)
    OBVIOUS
  <2>2. InPlace(s[k], {} \cup Before(s, k), N, O)
    BY <1>1 DEF Orderly
  <2> QED
    BY <2>1, <2>2
<1>6. ASSUME NEW k \in 1..(Len(s) + 1)
      PROVE  Before(s, k) \subseteq E /\ \A c \in Before(s, k) : N[c] \subseteq Before(s, k)
  <2> SUFFICES ASSUME NEW j \in 1..(k - 1) PROVE s[j] \in E /\ N[s[j]] \subseteq Before(s, k)
    BY DEF Before
  <2>1. j \in 1..Len(s) /\ \A l \in 1..(j - 1) : l \in 1..(k - 1)
    BY <1>2
  <2>2. N[s[j]] \subseteq Before(s, j)
    BY <2>1, <1>5 DEF InPlace
  <2>3. Before(s, j) \subseteq Before(s, k)
    BY <2>1 DEF Before
  <2> QED
    BY <1>2, <2>1, <2>2, <2>3
<1> QED
  BY <1>2, <1>3, <1>4, <1>5, <1>6

\* The commands of the first k parts, E[j] being those of the j-th.
FirstOf(E, k) == UNION {E[j] : j \in 1..k}

LEMMA AddsAll ==
    ASSUME NEW D, NEW N, NEW O, NEW ss, Len(ss) \in Nat, Len(ss) = 0 => ss = <<>>, NEW E,
           \A i \in 1..Len(ss) : Adds(ss[i], D \cup FirstOf(E, i - 1), E[i], N, O)
    PROVE  Adds(FlattenSeq(ss), D, FirstOf(E, Len(ss)), N, O)
<1> DEFINE S == DOMAIN N
           Upto == [k \in Nat |-> {a \in Seq(S) : Adds(a, D, FirstOf(E, k), N, O)}]
<1>1. <<>> \in Upto[0]
  <2>1. FirstOf(E, 0) = {} /\ <<>> \in Seq(S)
    BY DEF FirstOf
  <2>2. Adds(<<>>, D, FirstOf(E, 0), N, O)
    BY <2>1, AddsNothing
  <2> QED
    BY <2>1, <2>2
<1>2. ASSUME NEW k \in 1..Len(ss), NEW a \in Upto[k - 1] PROVE a \o ss[k] \in Upto[k]
  <2>1. k \in Nat /\ k - 1 \in Nat /\ 1..k = 1..(k - 1) \cup {k}
    OBVIOUS
  <2>2. Adds(a, D, FirstOf(E, k - 1), N, O)
    BY <2>1
  <2>3. Adds(ss[k], D \cup FirstOf(E, k - 1), E[k], N, O)
    OBVIOUS
  <2>4. FirstOf(E, k) = FirstOf(E, k - 1) \cup E[k]
    BY <2>1 DEF FirstOf
  <2>5. Adds(a \o ss[k], D, FirstOf(E, k - 1) \cup E[k], N, O)
    BY <2>2, <2>3, AddsBoth
  <2>6. a \o ss[k] \in Seq(S)
    BY <2>5 DEF Adds
  <2> QED
    BY <2>1, <2>4, <2>5, <2>6
<1>3. \A i \in 1..Len(ss) : ss[i] \in Seq(S)
  BY DEF Adds
<1>4. FlattenSeq(ss) \in Upto[Len(ss)]
  <2> HIDE DEF Upto, S
  <2> QED
    BY <1>1, <1>2, <1>3, FlattenInduction
<1> QED
  BY <1>4

-----------------------------------------------------------------------------
(* What is chosen from a list: its order and its length.                  *)

\* The list a goes through elements of s that are in T, in the order of s, all of them
\* up to its last.
Selects(a, s, T) ==
    \A x \in 1..Len(a) : \E i \in 1..Len(s) :
       /\ s[i] \in T /\ a[x] = s[i]
       /\ \A j \in 1..(i - 1) : s[j] \in T => \E y \in 1..(x - 1) : a[y] = s[j]

LEMMA ThoseInOrder ==
    ASSUME NEW S, NEW s \in Seq(S), NEW T
    PROVE  Selects(Those(s, T), s, T)
<1> DEFINE ss == [i \in DOMAIN s |-> IF s[i] \in T THEN <<s[i]>> ELSE <<>>]
           From(a, x, i) == /\ s[i] \in T /\ a[x] = s[i]
                            /\ \A j \in 1..(i - 1) : s[j] \in T => \E y \in 1..(x - 1) : a[y] = s[j]
           Upto == [k \in Nat |-> {a \in Seq(S) :
                       /\ \A x \in 1..Len(a) : \E i \in 1..k : From(a, x, i)
                       /\ \A j \in 1..k : s[j] \in T => \E y \in 1..Len(a) : a[y] = s[j]}]
<1>1. Those(s, T) = FlattenSeq(ss)
  BY DEF Those
<1>2. /\ DOMAIN s = 1..Len(s) /\ Len(s) \in Nat /\ Len(ss) = Len(s)
      /\ Len(ss) = 0 => ss = <<>>
  OBVIOUS
<1>3. \A i \in 1..Len(s) : ss[i] \in Seq(S) /\ ss[i] = (IF s[i] \in T THEN <<s[i]>> ELSE <<>>)
  BY <1>2
<1> HIDE DEF ss
<1>4. <<>> \in Upto[0]
  OBVIOUS
<1>5. ASSUME NEW k \in 1..Len(ss), NEW a \in Upto[k - 1] PROVE a \o ss[k] \in Upto[k]
  <2>1. /\ k \in Nat /\ k - 1 \in Nat /\ 1..k = 1..(k - 1) \cup {k} /\ k \in 1..Len(s)
    BY <1>2
  <2>2. /\ a \in Seq(S) /\ \A x \in 1..Len(a) : \E i \in 1..(k - 1) : From(a, x, i)
        /\ \A j \in 1..(k - 1) : s[j] \in T => \E y \in 1..Len(a) : a[y] = s[j]
    BY <2>1
  <2>3. CASE s[k] \notin T
    <3>1. ss[k] = <<>>
      BY <2>1, <2>3, <1>3
    <3>2. a \o ss[k] = a
      BY <2>2, <3>1
    <3>3. \A j \in 1..k : s[j] \in T => j \in 1..(k - 1)
      BY <2>1, <2>3
    <3>4. 1..(k - 1) \subseteq 1..k
      BY <2>1
    <3> HIDE DEF From
    <3>5. a \in Upto[k]
      BY <2>1, <2>2, <3>3, <3>4
    <3> QED
      BY <3>2, <3>5
  <2>4. CASE s[k] \in T
    <3> DEFINE b == a \o <<s[k]>>
    <3>1. ss[k] = <<s[k]>>
      BY <2>1, <2>4, <1>3
    <3>2. /\ b \in Seq(S) /\ Len(b) = Len(a) + 1 /\ Len(a) \in Nat
          /\ \A i \in 1..Len(a) : b[i] = a[i]
          /\ b[Len(a) + 1] = s[k] /\ 1..Len(b) = 1..Len(a) \cup {Len(a) + 1}
      <4>1. s[k] \in S
        BY <2>1, <1>2
      <4> QED
        BY <2>2, <4>1
    <3> HIDE DEF b
    <3>3. ASSUME NEW x \in 1..Len(a) PROVE \E i \in 1..k : From(b, x, i)
      <4>1. PICK i \in 1..(k - 1) : From(a, x, i)
        BY <2>2
      <4>2. \A y \in 1..(x - 1) : y \in 1..Len(a) /\ b[y] = a[y]
        BY <3>2
      <4>3. From(b, x, i)
        BY <4>1, <4>2, <3>2
      <4> QED
        BY <4>3, <2>1
    <3>4. From(b, Len(a) + 1, k)
      <4>1. Len(a) + 1 - 1 = Len(a)
        BY <3>2
      <4> QED
        BY <4>1, <2>2, <2>4, <3>2
    <3>5. \A j \in 1..k : s[j] \in T => \E y \in 1..Len(b) : b[y] = s[j]
      BY <2>1, <2>2, <3>2
    <3>6. \A x \in 1..Len(b) : \E i \in 1..k : From(b, x, i)
      <4> HIDE DEF From
      <4> QED
        BY <3>2, <3>3, <3>4, <2>1
    <3>7. b \in Upto[k]
      <4> HIDE DEF From
      <4> QED
        BY <2>1, <3>2, <3>5, <3>6
    <3> QED
      BY <3>1, <3>7 DEF b
  <2> QED
    BY <2>3, <2>4
<1>6. FlattenSeq(ss) \in Upto[Len(ss)]
  <2> HIDE DEF Upto
  <2> QED
    BY <1>2, <1>3, <1>4, <1>5, FlattenInduction
<1>7. \A x \in 1..Len(FlattenSeq(ss)) : \E i \in 1..Len(s) : From(FlattenSeq(ss), x, i)
  <2> HIDE DEF From
  <2> QED
    BY <1>2, <1>6
<1> QED
  BY <1>1, <1>7 DEF Selects

\* A list without repetitions is as long as the set of its elements is large.
LEMMA ListSize ==
    ASSUME NEW S, NEW s \in Seq(S), IsInjective(s)
    PROVE  IsFiniteSet(ToSet(s)) /\ Cardinality(ToSet(s)) = Len(s)
<1>1. DOMAIN s = 1..Len(s) /\ Len(s) \in Nat /\ s \in [1..Len(s) -> S]
  OBVIOUS
<1>2. s \in Bijection(1..Len(s), ToSet(s))
  BY <1>1 DEF Bijection, Injection, Surjection, IsInjective, ToSet
<1>3. IsFiniteSet(1..Len(s)) /\ Cardinality(1..Len(s)) = Len(s)
  BY <1>1, FS_Interval
<1> QED
  BY <1>2, <1>3, FS_Bijection DEF ExistsBijection

\* Two lists with nothing in common, one after the other.
LEMMA ConcatOnce ==
    ASSUME NEW S, NEW a \in Seq(S), NEW b \in Seq(S), IsInjective(a), IsInjective(b),
           ToSet(a) \cap ToSet(b) = {}
    PROVE  IsInjective(a \o b)
<1> DEFINE c == a \o b
           l == Len(a)
<1>1. /\ l \in Nat /\ Len(b) \in Nat /\ Len(c) = l + Len(b) /\ DOMAIN c = 1..Len(c)
      /\ DOMAIN a = 1..l /\ DOMAIN b = 1..Len(b)
      /\ \A i \in 1..l : c[i] = a[i]
      /\ \A j \in 1..Len(b) : c[l + j] = b[j]
  OBVIOUS
<1> HIDE DEF c, l
<1>2. ASSUME NEW i \in 1..Len(c)
      PROVE  \/ i \in 1..l /\ c[i] = a[i] /\ c[i] \in ToSet(a)
             \/ i - l \in 1..Len(b) /\ c[i] = b[i - l] /\ c[i] \in ToSet(b)
  <2>1. CASE i \in 1..l
    BY <2>1, <1>1 DEF ToSet
  <2>2. CASE i \notin 1..l
    <3>1. i - l \in 1..Len(b) /\ i = l + (i - l)
      BY <2>2, <1>1
    <3>2. c[i] = b[i - l]
      BY <3>1, <1>1
    <3> QED
      BY <3>1, <3>2, <1>1 DEF ToSet
  <2> QED
    BY <2>1, <2>2
<1>3. ASSUME NEW i \in 1..Len(c), NEW j \in 1..Len(c), c[i] = c[j] PROVE i = j
  <2>1. CASE i \in 1..l /\ c[i] = a[i] /\ c[i] \in ToSet(a)
    <3>1. j \in 1..l /\ c[j] = a[j]
      BY <2>1, <1>2, <1>3
    <3> QED
      BY <2>1, <3>1, <1>1, <1>3 DEF IsInjective
  <2>2. CASE i - l \in 1..Len(b) /\ c[i] = b[i - l] /\ c[i] \in ToSet(b)
    <3>1. j - l \in 1..Len(b) /\ c[j] = b[j - l]
      BY <2>2, <1>2, <1>3
    <3>2. i - l = j - l
      BY <2>2, <3>1, <1>1, <1>3 DEF IsInjective
    <3> QED
      BY <3>2, <1>1
  <2> QED
    BY <2>1, <2>2, <1>2
<1> QED
  BY <1>1, <1>3 DEF IsInjective, c

\* A list divided in two has its elements, and its length.
LEMMA PartsOfList ==
    ASSUME NEW S, NEW s \in Seq(S), IsInjective(s), NEW T
    PROVE  LET p == Those(s, T) \o Those(s, ToSet(s) \ T) IN
           p \in Seq(S) /\ ToSet(p) = ToSet(s) /\ Len(p) = Len(s) /\ IsInjective(p)
<1> DEFINE a == Those(s, T)
           b == Those(s, ToSet(s) \ T)
<1>1. /\ a \in Seq(S \cap T) /\ ToSet(a) = ToSet(s) \cap T
      /\ b \in Seq(S \cap (ToSet(s) \ T)) /\ ToSet(b) = ToSet(s) \cap (ToSet(s) \ T)
  BY ThoseAre
<1>2. a \in Seq(S) /\ b \in Seq(S)
  BY <1>1
<1>3. IsInjective(a) /\ IsInjective(b)
  BY ThoseOnce
<1> HIDE DEF a, b
<1>4. a \o b \in Seq(S) /\ ToSet(a \o b) = ToSet(a) \cup ToSet(b) /\ Len(a \o b) = Len(a) + Len(b)
  BY <1>2, ElementsOfConcat
<1>5. /\ IsFiniteSet(ToSet(s)) /\ Cardinality(ToSet(s)) = Len(s)
      /\ IsFiniteSet(ToSet(a)) /\ Cardinality(ToSet(a)) = Len(a)
      /\ IsFiniteSet(ToSet(b)) /\ Cardinality(ToSet(b)) = Len(b)
  BY <1>2, <1>3, ListSize DEF a, b
<1>6. ToSet(a) \cup ToSet(b) = ToSet(s) /\ ToSet(a) \cap ToSet(b) = {}
  BY <1>1
<1>7. Len(s) = Len(a) + Len(b)
  <2>1. Cardinality(ToSet(s)) = Cardinality(ToSet(a)) + Cardinality(ToSet(b)) - Cardinality({})
    BY <1>5, <1>6, FS_Union
  <2>2. Len(a) \in Nat /\ Len(b) \in Nat
    BY <1>2
  <2> QED
    BY <2>1, <2>2, <1>5, FS_EmptySet
<1>8. IsInjective(a \o b)
  BY <1>2, <1>3, <1>6, ConcatOnce
<1> QED
  BY <1>4, <1>6, <1>7, <1>8 DEF a, b
=============================================================================

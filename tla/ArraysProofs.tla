---------------------------- MODULE ArraysProofs ----------------------------
(***************************************************************************)
(* What the array helpers return, for every array.  Kept is a recursive    *)
(* function, so the facts about it go by induction on the number of        *)
(* elements looked at; NatSet is that induction, stated on a set of        *)
(* numbers instead of a predicate.                                         *)
(***************************************************************************)
EXTENDS Arrays, TLAPS, WellFoundedInduction

\* A set of naturals that holds 0 and every successor holds all of them.
LEMMA NatSet ==
    ASSUME NEW T, T \subseteq Nat, 0 \in T, \A n \in T : n + 1 \in T
    PROVE  T = Nat
<1> SUFFICES ASSUME Nat \ T # {} PROVE FALSE
  OBVIOUS
<1>1. IsWellFoundedOn(OpToRel(<, Nat), Nat)
  BY NatLessThanWellFounded
<1>2. PICK x \in Nat \ T : \A y \in Nat \ T : ~ (<<y, x>> \in OpToRel(<, Nat))
  <2> DEFINE U == Nat \ T
  <2>1. U \subseteq Nat /\ U # {}
    OBVIOUS
  <2> HIDE DEF U
  <2>2. \E x \in U : \A y \in U : ~ (<<y, x>> \in OpToRel(<, Nat))
    BY <2>1, <1>1, WFMin
  <2> QED BY <2>2 DEF U
<1>3. \A y \in Nat : y < x => y \in T
  BY <1>2 DEF OpToRel
<1>4. CASE x = 0
  BY <1>4
<1>5. CASE x # 0
  <2>1. x - 1 \in Nat /\ x - 1 < x /\ x - 1 + 1 = x
    BY <1>5
  <2>2. x - 1 \in T
    BY <2>1, <1>3
  <2>3. x - 1 + 1 \in T
    BY <2>2
  <2>4. x \in T
    BY <2>1, <2>3
  <2> QED BY <2>4
<1> QED BY <1>4, <1>5

-----------------------------------------------------------------------------
\* The body of Kept's recursion, with the function as a parameter.
KeptStep(s, K, F, i) ==
    IF i = 0 THEN << >>
    ELSE IF s[i] \in K THEN Append(F[i - 1], s[i]) ELSE F[i - 1]

\* The recursion of Kept has a solution over every initial segment.
LEMMA KeptExists ==
    ASSUME NEW s, NEW K
    PROVE  \A n \in Nat : \E F : F = [i \in 0..n |-> KeptStep(s, K, F, i)]
<1> DEFINE T == {n \in Nat : \E F : F = [i \in 0..n |-> KeptStep(s, K, F, i)]}
<1>1. 0 \in T
  <2> DEFINE G == [i \in 0..0 |-> << >>]
  <2>1. G = [i \in 0..0 |-> KeptStep(s, K, G, i)]
    BY DEF KeptStep
  <2> QED BY <2>1
<1>2. \A n \in T : n + 1 \in T
  <2> SUFFICES ASSUME NEW n \in Nat, NEW F,
                      F = [i \in 0..n |-> KeptStep(s, K, F, i)]
               PROVE  \E G : G = [i \in 0..(n + 1) |-> KeptStep(s, K, G, i)]
    OBVIOUS
  <2> DEFINE G == [i \in 0..(n + 1) |->
                     IF i = n + 1 THEN KeptStep(s, K, F, i) ELSE F[i]]
  <2>1. ASSUME NEW i \in 0..(n + 1) PROVE G[i] = KeptStep(s, K, G, i)
    <3>1. CASE i = 0
      BY <3>1 DEF KeptStep
    <3>2. CASE i \in 1..n
      <4>1. G[i - 1] = F[i - 1] /\ G[i] = F[i]
        BY <3>2
      <4>2. F[i] = KeptStep(s, K, F, i)
        BY <3>2
      <4> QED BY <4>1, <4>2, <3>2 DEF KeptStep
    <3>3. CASE i = n + 1
      <4>1. G[i - 1] = F[i - 1]
        BY <3>3
      <4> QED BY <4>1, <3>3 DEF KeptStep
    <3> QED BY <3>1, <3>2, <3>3
  <2>2. G = [i \in 0..(n + 1) |-> KeptStep(s, K, G, i)]
    BY <2>1
  <2> QED BY <2>2
<1> HIDE DEF T
<1>3. T = Nat
  BY <1>1, <1>2, NatSet DEF T
<1> QED BY <1>3 DEF T

\* Kept(s, K) is the last value of a function that looks at one more element
\* of s at each step.
LEMMA KeptUnfolds ==
    ASSUME NEW S, NEW s \in Seq(S), NEW K
    PROVE  \E F :
             /\ F[0] = << >>
             /\ \A n \in Nat : n + 1 <= Len(s) =>
                  F[n + 1] = IF s[n + 1] \in K THEN Append(F[n], s[n + 1])
                                               ELSE F[n]
             /\ Kept(s, K) = F[Len(s)]
<1> DEFINE F == CHOOSE G : G = [i \in 0..Len(s) |-> KeptStep(s, K, G, i)]
<1>1. F = [i \in 0..Len(s) |-> KeptStep(s, K, F, i)]
  BY KeptExists
<1>2. Kept(s, K) = F[Len(s)]
  BY DEF Kept, KeptStep
<1> HIDE DEF F
<1>3. \A i \in 0..Len(s) : F[i] = KeptStep(s, K, F, i)
  BY <1>1
<1>4. F[0] = << >>
  BY <1>3 DEF KeptStep
<1>5. ASSUME NEW n \in Nat, n + 1 <= Len(s)
      PROVE  F[n + 1] = IF s[n + 1] \in K THEN Append(F[n], s[n + 1]) ELSE F[n]
  <2>1. n + 1 \in 0..Len(s) /\ n + 1 # 0 /\ n + 1 - 1 = n
    BY <1>5
  <2>2. F[n + 1] = KeptStep(s, K, F, n + 1)
    BY <1>3, <2>1
  <2> QED BY <2>1, <2>2 DEF KeptStep
<1> QED BY <1>2, <1>4, <1>5

\* The elements that are kept are elements of the array, and belong to K.
LEMMA KeptType ==
    ASSUME NEW S, NEW s \in Seq(S), NEW K
    PROVE  Kept(s, K) \in Seq(S \cap K)
<1>1. PICK F :
        /\ F[0] = << >>
        /\ \A n \in Nat : n + 1 <= Len(s) =>
             F[n + 1] = IF s[n + 1] \in K THEN Append(F[n], s[n + 1]) ELSE F[n]
        /\ Kept(s, K) = F[Len(s)]
  BY KeptUnfolds
<1> DEFINE T == {n \in Nat : n <= Len(s) => F[n] \in Seq(S \cap K)}
<1>2. 0 \in T
  <2>1. F[0] = << >>
    BY <1>1
  <2>2. << >> \in Seq(S \cap K)
    OBVIOUS
  <2> QED BY <2>1, <2>2
<1>3. \A n \in T : n + 1 \in T
  <2> SUFFICES ASSUME NEW n \in Nat, n + 1 <= Len(s), F[n] \in Seq(S \cap K)
               PROVE  F[n + 1] \in Seq(S \cap K)
    OBVIOUS
  <2>1. F[n + 1] = IF s[n + 1] \in K THEN Append(F[n], s[n + 1]) ELSE F[n]
    BY <1>1
  <2>2. s[n + 1] \in S
    OBVIOUS
  <2> QED BY <2>1, <2>2
<1> HIDE DEF T
<1>4. T = Nat
  BY <1>2, <1>3, NatSet DEF T
<1> QED BY <1>1, <1>4 DEF T

\* When every element belongs to K the whole array is kept, in its order.
LEMMA KeptAll ==
    ASSUME NEW S, NEW s \in Seq(S), NEW K, Elements(s) \subseteq K
    PROVE  Kept(s, K) = s
<1>1. PICK F :
        /\ F[0] = << >>
        /\ \A n \in Nat : n + 1 <= Len(s) =>
             F[n + 1] = IF s[n + 1] \in K THEN Append(F[n], s[n + 1]) ELSE F[n]
        /\ Kept(s, K) = F[Len(s)]
  BY KeptUnfolds
<1> DEFINE P(n) == /\ F[n] \in Seq(S)
                   /\ Len(F[n]) = n
                   /\ \A j \in 1..n : F[n][j] = s[j]
           T == {n \in Nat : n <= Len(s) => P(n)}
<1>2. 0 \in T
  <2>1. F[0] = << >>
    BY <1>1
  <2>2. << >> \in Seq(S) /\ Len(<< >>) = 0
    OBVIOUS
  <2>3. \A j \in 1..0 : F[0][j] = s[j]
    OBVIOUS
  <2>4. P(0)
    BY <2>1, <2>2, <2>3
  <2> HIDE DEF P
  <2> QED BY <2>4
<1>3. \A n \in T : n + 1 \in T
  <2> SUFFICES ASSUME NEW n \in Nat, n + 1 <= Len(s), P(n)
               PROVE  P(n + 1)
    OBVIOUS
  <2>1. s[n + 1] \in K /\ s[n + 1] \in S
    BY DEF Elements
  <2>2. F[n + 1] = Append(F[n], s[n + 1])
    BY <1>1, <2>1
  <2> QED BY <2>1, <2>2
<1> HIDE DEF T
<1>4. T = Nat
  BY <1>2, <1>3, NatSet DEF T
<1>5. P(Len(s))
  BY <1>4 DEF T
<1>6. Kept(s, K) \in Seq(S) /\ Len(Kept(s, K)) = Len(s)
      /\ \A j \in 1..Len(s) : Kept(s, K)[j] = s[j]
  BY <1>1, <1>5
<1> QED BY <1>6

(***************************************************************************)
(* Where the kept elements come from: an increasing map g of positions     *)
(* that reaches every position whose element belongs to K.                 *)
(***************************************************************************)
KeptAt(s, K, kept, n, g) ==
    /\ g \in [1..Len(kept) -> 1..n]
    /\ \A j \in 1..Len(kept) : kept[j] = s[g[j]] /\ kept[j] \in K
    /\ \A j, k \in 1..Len(kept) : j < k => g[j] < g[k]
    /\ \A i \in 1..n : s[i] \in K => \E j \in 1..Len(kept) : g[j] = i

LEMMA KeptPositions ==
    ASSUME NEW S, NEW s \in Seq(S), NEW K
    PROVE  \E g : KeptAt(s, K, Kept(s, K), Len(s), g)
<1>1. PICK F :
        /\ F[0] = << >>
        /\ \A n \in Nat : n + 1 <= Len(s) =>
             F[n + 1] = IF s[n + 1] \in K THEN Append(F[n], s[n + 1]) ELSE F[n]
        /\ Kept(s, K) = F[Len(s)]
  BY KeptUnfolds
<1> DEFINE P(n) == F[n] \in Seq(S) /\ \E g : KeptAt(s, K, F[n], n, g)
           T == {n \in Nat : n <= Len(s) => P(n)}
<1>2. 0 \in T
  <2>1. F[0] = << >> /\ F[0] \in Seq(S)
    BY <1>1
  <2>2. KeptAt(s, K, F[0], 0, << >>)
    BY <2>1 DEF KeptAt
  <2>3. P(0)
    BY <2>1, <2>2
  <2> HIDE DEF P
  <2> QED BY <2>3
<1>3. \A n \in T : n + 1 \in T
  <2> SUFFICES ASSUME NEW n \in Nat, n + 1 <= Len(s), P(n)
               PROVE  P(n + 1)
    <3> HIDE DEF P
    <3> QED OBVIOUS
  <2>1. F[n + 1] = IF s[n + 1] \in K THEN Append(F[n], s[n + 1]) ELSE F[n]
    BY <1>1
  <2>2. PICK g : KeptAt(s, K, F[n], n, g)
    OBVIOUS
  <2> DEFINE f == F[n]
             x == s[n + 1]
  <2>3. f \in Seq(S) /\ x \in S /\ KeptAt(s, K, f, n, g) /\ Len(f) \in Nat
    BY <2>2
  <2>4. CASE x \in K
    <3> DEFINE h == [j \in 1..(Len(f) + 1) |-> IF j = Len(f) + 1 THEN n + 1 ELSE g[j]]
               e == Append(f, x)
    <3>1. F[n + 1] = e
      BY <2>1, <2>4
    <3>2. /\ e \in Seq(S) /\ Len(e) = Len(f) + 1 /\ e[Len(f) + 1] = x
          /\ \A j \in 1..Len(f) : e[j] = f[j]
      BY <2>3
    <3> HIDE DEF e
    <3>3. KeptAt(s, K, e, n + 1, h)
      <4>1. h \in [1..Len(e) -> 1..(n + 1)]
        BY <2>3, <3>2 DEF KeptAt
      <4>2. ASSUME NEW j \in 1..Len(e) PROVE e[j] = s[h[j]] /\ e[j] \in K
        <5>1. CASE j = Len(f) + 1
          BY <2>4, <3>2, <5>1
        <5>2. CASE j \in 1..Len(f)
          <6>1. e[j] = f[j] /\ h[j] = g[j]
            BY <2>3, <3>2, <5>2
          <6>2. f[j] = s[g[j]] /\ f[j] \in K
            BY <2>3, <5>2 DEF KeptAt
          <6> QED BY <6>1, <6>2
        <5> QED BY <2>3, <3>2, <5>1, <5>2
      <4>3. ASSUME NEW j \in 1..Len(e), NEW k \in 1..Len(e), j < k
            PROVE  h[j] < h[k]
        <5>1. Len(f) \in Nat /\ Len(e) = Len(f) + 1
          BY <2>3, <3>2
        <5>2. j \in 1..Len(f)
          BY ONLY <5>1, <4>3, j \in 1..Len(e), k \in 1..Len(e)
        <5>3. h[j] = g[j]
          BY <5>1, <5>2
        <5>4. g[j] \in 1..n
          BY ONLY KeptAt(s, K, f, n, g), <5>2 DEF KeptAt
        <5>5. j \in 1..Len(f) /\ h[j] = g[j] /\ g[j] \in 1..n
          BY <5>2, <5>3, <5>4
        <5>6. CASE k = Len(f) + 1
          BY <5>5, <5>6
        <5>7. CASE k \in 1..Len(f)
          <6>1. h[k] = g[k] /\ g[j] < g[k]
            BY <2>3, <4>3, <5>5, <5>7 DEF KeptAt
          <6> QED BY <5>5, <6>1
        <5> QED BY <2>3, <3>2, <5>6, <5>7
      <4>4. ASSUME NEW i \in 1..(n + 1), s[i] \in K
            PROVE  \E j \in 1..Len(e) : h[j] = i
        <5>1. CASE i = n + 1
          BY <2>3, <3>2, <5>1
        <5>2. CASE i \in 1..n
          <6>1. PICK j \in 1..Len(f) : g[j] = i
            BY <2>3, <4>4, <5>2 DEF KeptAt
          <6>2. j \in 1..Len(e) /\ h[j] = i
            BY <2>3, <3>2, <6>1
          <6> QED BY <6>2
        <5> QED BY <5>1, <5>2
      <4> HIDE DEF h
      <4> QED BY <4>1, <4>2, <4>3, <4>4 DEF KeptAt
    <3> QED BY <3>1, <3>2, <3>3
  <2>5. CASE x \notin K
    <3>1. F[n + 1] = f
      BY <2>1, <2>5
    <3> HIDE DEF f
    <3>2. KeptAt(s, K, f, n + 1, g)
      <4>1. g \in [1..Len(f) -> 1..(n + 1)]
        BY <2>3 DEF KeptAt
      <4>2. ASSUME NEW i \in 1..(n + 1), s[i] \in K
            PROVE  \E j \in 1..Len(f) : g[j] = i
        <5>1. i \in 1..n
          BY <2>5, <4>2
        <5> QED BY <2>3, <4>2, <5>1 DEF KeptAt
      <4> QED BY <2>3, <4>1, <4>2 DEF KeptAt
    <3> QED BY <2>3, <3>1, <3>2
  <2> QED BY <2>4, <2>5
<1> HIDE DEF P
<1>4. Len(s) \in Nat
  OBVIOUS
<1> HIDE DEF T
<1>5. T = Nat
  BY <1>2, <1>3, NatSet DEF T
<1>6. P(Len(s))
  BY <1>4, <1>5 DEF T
<1> QED BY <1>1, <1>6 DEF P

\* Exactly the elements that belong to K are kept.
LEMMA KeptElements ==
    ASSUME NEW S, NEW s \in Seq(S), NEW K
    PROVE  Elements(Kept(s, K)) = Elements(s) \cap K
<1> DEFINE kept == Kept(s, K)
<1>1. PICK g : KeptAt(s, K, kept, Len(s), g)
  BY KeptPositions
<1>2. kept \in Seq(S \cap K)
  BY KeptType
<1> HIDE DEF kept
<1>3. DOMAIN kept = 1..Len(kept) /\ DOMAIN s = 1..Len(s)
  BY <1>2
<1>4. ASSUME NEW x \in Elements(kept) PROVE x \in Elements(s) \cap K
  <2>1. PICK j \in 1..Len(kept) : x = kept[j]
    BY <1>3 DEF Elements
  <2>2. g[j] \in 1..Len(s) /\ x = s[g[j]] /\ x \in K
    BY <1>1, <2>1 DEF KeptAt
  <2> QED BY <1>3, <2>2 DEF Elements
<1>5. ASSUME NEW x \in Elements(s) \cap K PROVE x \in Elements(kept)
  <2>1. PICK i \in 1..Len(s) : x = s[i] /\ s[i] \in K
    BY <1>3 DEF Elements
  <2>2. PICK j \in 1..Len(kept) : g[j] = i
    BY <1>1, <2>1 DEF KeptAt
  <2>3. kept[j] = x
    BY <1>1, <2>1, <2>2 DEF KeptAt
  <2> QED BY <1>3, <2>3 DEF Elements
<1> QED BY <1>4, <1>5 DEF kept

\* e is two arrays, one after the other.
ConcatOf(e, s, t) ==
    /\ Len(e) = Len(s) + Len(t)
    /\ \A i \in 1..Len(s) : e[i] = s[i]
    /\ \A i \in 1..Len(t) : e[Len(s) + i] = t[i]

LEMMA ConcatFacts ==
    ASSUME NEW S, NEW s \in Seq(S), NEW t \in Seq(S)
    PROVE  s \o t \in Seq(S) /\ ConcatOf(s \o t, s, t)
BY DEF ConcatOf

\* Their elements.
LEMMA ConcatElements ==
    ASSUME NEW S, NEW s \in Seq(S), NEW t \in Seq(S)
    PROVE  Elements(s \o t) = Elements(s) \cup Elements(t)
<1> DEFINE st == s \o t
<1>1. /\ st \in Seq(S) /\ Len(st) = Len(s) + Len(t)
      /\ \A i \in 1..Len(s) : st[i] = s[i]
      /\ \A i \in 1..Len(t) : st[Len(s) + i] = t[i]
  BY ConcatFacts DEF ConcatOf
<1> HIDE DEF st
<1>2. /\ DOMAIN st = 1..(Len(s) + Len(t)) /\ DOMAIN s = 1..Len(s)
      /\ DOMAIN t = 1..Len(t) /\ Len(s) \in Nat /\ Len(t) \in Nat
  BY <1>1
<1>3. ASSUME NEW i \in 1..(Len(s) + Len(t))
      PROVE  st[i] \in Elements(s) \cup Elements(t)
  <2>1. CASE i \in 1..Len(s)
    BY <1>1, <1>2, <2>1 DEF Elements
  <2>2. CASE i \notin 1..Len(s)
    <3>1. i - Len(s) \in 1..Len(t) /\ i = Len(s) + (i - Len(s))
      BY <1>2, <2>2
    <3>2. st[i] = t[i - Len(s)]
      BY <1>1, <3>1
    <3> QED BY <1>2, <3>1, <3>2 DEF Elements
  <2> QED BY <2>1, <2>2
<1>4. ASSUME NEW i \in 1..Len(s) PROVE s[i] \in Elements(st)
  BY <1>1, <1>2 DEF Elements
<1>5. ASSUME NEW i \in 1..Len(t) PROVE t[i] \in Elements(st)
  <2>1. Len(s) + i \in DOMAIN st /\ st[Len(s) + i] = t[i]
    BY <1>1, <1>2
  <2> QED BY <2>1 DEF Elements
<1>6. Elements(st) \subseteq Elements(s) \cup Elements(t)
  BY <1>2, <1>3 DEF Elements
<1>7. Elements(s) \subseteq Elements(st) /\ Elements(t) \subseteq Elements(st)
  BY <1>2, <1>4, <1>5 DEF Elements
<1> QED BY <1>6, <1>7 DEF st

-----------------------------------------------------------------------------
\* Taking one element out leaves an array that is one element shorter.
LEMMA WithoutType ==
    ASSUME NEW S, NEW s \in Seq(S), NEW i \in 1..Len(s)
    PROVE  /\ Without(s, i) \in Seq(S)
           /\ Len(Without(s, i)) = Len(s) - 1
           /\ Elements(Without(s, i)) \subseteq Elements(s)
BY DEF Without, Elements

=============================================================================

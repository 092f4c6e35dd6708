------------------------- MODULE CompareListProofs --------------------------
(***************************************************************************)
(* What compare:and: returns, for all arrays of lists: which lists and     *)
(* which items its result has, and that it has each of them once when the  *)
(* names of each array differ.                                             *)
(***************************************************************************)
EXTENDS CompareList, ArraysProofs

-----------------------------------------------------------------------------
(* FlattenSeq, as the result of looking at one more array at each step.    *)

\* The body of its recursion, with the function as a parameter.
FlattenStep(C, F, i) == IF i = 1 THEN C[i] ELSE F[i - 1] \o C[i]

\* The recursion has a solution over every initial segment.
LEMMA FlattenExists ==
    ASSUME NEW C
    PROVE  \A n \in Nat : \E F : F = [i \in 1..n |-> FlattenStep(C, F, i)]
<1> DEFINE T == {n \in Nat : \E F : F = [i \in 1..n |-> FlattenStep(C, F, i)]}
<1>1. 0 \in T
  <2> DEFINE G == [i \in 1..0 |-> << >>]
  <2>1. G = [i \in 1..0 |-> FlattenStep(C, G, i)]
    OBVIOUS
  <2> QED BY <2>1
<1>2. \A n \in T : n + 1 \in T
  <2> SUFFICES ASSUME NEW n \in Nat, NEW F,
                      F = [i \in 1..n |-> FlattenStep(C, F, i)]
               PROVE  \E G : G = [i \in 1..(n + 1) |-> FlattenStep(C, G, i)]
    OBVIOUS
  <2> DEFINE G == [i \in 1..(n + 1) |->
                     IF i = n + 1 THEN FlattenStep(C, F, i) ELSE F[i]]
  <2>1. ASSUME NEW i \in 1..(n + 1) PROVE G[i] = FlattenStep(C, G, i)
    <3>1. CASE i = 1 /\ n = 0
      BY <3>1 DEF FlattenStep
    <3>2. CASE i = 1 /\ n # 0
      <4>1. G[i] = F[i] /\ F[i] = FlattenStep(C, F, i)
        BY <3>2
      <4> QED BY <4>1, <3>2 DEF FlattenStep
    <3>3. CASE i \in 2..n
      <4>1. G[i - 1] = F[i - 1] /\ G[i] = F[i]
        BY <3>3
      <4>2. F[i] = FlattenStep(C, F, i)
        BY <3>3
      <4> QED BY <4>1, <4>2, <3>3 DEF FlattenStep
    <3>4. CASE i = n + 1 /\ n # 0
      <4>1. G[i - 1] = F[i - 1]
        BY <3>4
      <4> QED BY <4>1, <3>4 DEF FlattenStep
    <3> QED BY <3>1, <3>2, <3>3, <3>4
  <2>2. G = [i \in 1..(n + 1) |-> FlattenStep(C, G, i)]
    BY <2>1
  <2> QED BY <2>2
<1> HIDE DEF T
<1>3. T = Nat
  BY <1>1, <1>2, NatSet DEF T
<1> QED BY <1>3 DEF T

\* FlattenSeq(C) is the last value of a function that appends one array of C
\* at each step.
LEMMA FlattenUnfolds ==
    ASSUME NEW S, NEW C \in Seq(Seq(S))
    PROVE  \E F :
             /\ F[0] = << >>
             /\ \A n \in Nat : n + 1 <= Len(C) => F[n + 1] = F[n] \o C[n + 1]
             /\ FlattenSeq(C) = F[Len(C)]
<1> DEFINE E == CHOOSE G : G = [i \in 1..Len(C) |-> FlattenStep(C, G, i)]
           F == [i \in 0..Len(C) |-> IF i = 0 THEN << >> ELSE E[i]]
<1>0. Len(C) \in Nat
  OBVIOUS
<1>1. E = [i \in 1..Len(C) |-> FlattenStep(C, E, i)]
  BY <1>0, FlattenExists
<1>2. Len(C) # 0 => FlattenSeq(C) = E[Len(C)]
  BY DEF FlattenSeq, FlattenStep
<1>3. Len(C) = 0 => FlattenSeq(C) = << >>
  BY DEF FlattenSeq
<1> HIDE DEF E
<1>4. \A i \in 1..Len(C) : E[i] = FlattenStep(C, E, i)
  BY <1>1
<1>5. F[0] = << >> /\ FlattenSeq(C) = F[Len(C)]
  BY <1>2, <1>3
<1>6. ASSUME NEW n \in Nat, n + 1 <= Len(C) PROVE F[n + 1] = F[n] \o C[n + 1]
  <2>1. n + 1 \in 1..Len(C) /\ n + 1 # 0 /\ n + 1 - 1 = n
    BY <1>6
  <2>2. F[n + 1] = FlattenStep(C, E, n + 1)
    BY <1>4, <2>1
  <2>3. CASE n = 0
    <3>1. C[n + 1] \in Seq(S)
      BY <2>1
    <3>2. << >> \o C[n + 1] = C[n + 1]
      BY <3>1
    <3>3. FlattenStep(C, E, n + 1) = C[n + 1]
      BY <2>3 DEF FlattenStep
    <3> HIDE DEF F
    <3> QED BY <1>5, <2>2, <2>3, <3>2, <3>3
  <2>4. CASE n # 0
    <3>1. F[n] = E[n]
      BY <2>1, <2>4
    <3>2. FlattenStep(C, E, n + 1) = E[n] \o C[n + 1]
      <4>1. ASSUME NEW m, NEW k, m # 1, m - 1 = k
            PROVE  FlattenStep(C, E, m) = E[k] \o C[m]
        BY <4>1, Zenon DEF FlattenStep
      <4>2. PICK m : m = n + 1
        OBVIOUS
      <4>3. m # 1 /\ m - 1 = n
        BY <2>4, <4>2
      <4>4. FlattenStep(C, E, m) = E[n] \o C[m]
        BY <4>1, <4>3, Zenon
      <4> QED BY <4>2, <4>4, Zenon
    <3> HIDE DEF F
    <3> QED BY <2>2, <3>1, <3>2
  <2> QED BY <2>3, <2>4
<1> HIDE DEF F
<1> QED BY <1>5, <1>6

\* The elements of the result are those of the arrays.
LEMMA FlattenElements ==
    ASSUME NEW S, NEW C \in Seq(Seq(S))
    PROVE  /\ FlattenSeq(C) \in Seq(S)
           /\ \A x : x \in Elements(FlattenSeq(C)) <=>
                     \E i \in 1..Len(C) : x \in Elements(C[i])
<1>1. PICK F :
        /\ F[0] = << >>
        /\ \A n \in Nat : n + 1 <= Len(C) => F[n + 1] = F[n] \o C[n + 1]
        /\ FlattenSeq(C) = F[Len(C)]
  BY FlattenUnfolds
<1> DEFINE P(n) == /\ F[n] \in Seq(S)
                   /\ \A x : x \in Elements(F[n]) <=> \E i \in 1..n : x \in Elements(C[i])
           T == {n \in Nat : n <= Len(C) => P(n)}
<1>2. 0 \in T
  <2>1. F[0] = << >> /\ F[0] \in Seq(S) /\ Elements(<< >>) = {}
    BY <1>1 DEF Elements
  <2>2. P(0)
    BY <2>1
  <2> HIDE DEF P
  <2> QED BY <2>2
<1>3. \A n \in T : n + 1 \in T
  <2> SUFFICES ASSUME NEW n \in Nat, n + 1 <= Len(C), P(n)
               PROVE  P(n + 1)
    <3> HIDE DEF P
    <3> QED OBVIOUS
  <2>1. F[n + 1] = F[n] \o C[n + 1]
    BY <1>1
  <2>2. C[n + 1] \in Seq(S) /\ F[n] \in Seq(S)
    OBVIOUS
  <2>3. Elements(F[n + 1]) = Elements(F[n]) \cup Elements(C[n + 1])
    BY <2>1, <2>2, ConcatElements
  <2>4. F[n + 1] \in Seq(S)
    BY <2>1, <2>2
  <2>5. ASSUME NEW x
        PROVE  x \in Elements(F[n + 1]) <=> \E i \in 1..(n + 1) : x \in Elements(C[i])
    <3>1. x \in Elements(F[n]) <=> \E i \in 1..n : x \in Elements(C[i])
      OBVIOUS
    <3>2. /\ \A i \in 1..(n + 1) : i \in 1..n \/ i = n + 1
          /\ \A i \in 1..n : i \in 1..(n + 1)
          /\ n + 1 \in 1..(n + 1)
      OBVIOUS
    <3> QED BY <2>3, <3>1, <3>2, Zenon
  <2> QED BY <2>4, <2>5
<1>4. Len(C) \in Nat
  OBVIOUS
<1> HIDE DEF P
<1> HIDE DEF T
<1>5. T = Nat
  BY <1>2, <1>3, NatSet DEF T
<1>6. P(Len(C))
  BY <1>4, <1>5 DEF T
<1> QED BY <1>1, <1>6 DEF P

\* Arrays of one element each: one element after the other.
LEMMA FlattenSingles ==
    ASSUME NEW S, NEW C \in Seq(Seq(S)), \A i \in 1..Len(C) : Len(C[i]) = 1
    PROVE  /\ Len(FlattenSeq(C)) = Len(C)
           /\ \A i \in 1..Len(C) : FlattenSeq(C)[i] = C[i][1]
<1>1. PICK F :
        /\ F[0] = << >>
        /\ \A n \in Nat : n + 1 <= Len(C) => F[n + 1] = F[n] \o C[n + 1]
        /\ FlattenSeq(C) = F[Len(C)]
  BY FlattenUnfolds
<1> DEFINE P(n) == /\ F[n] \in Seq(S) /\ Len(F[n]) = n
                   /\ \A i \in 1..n : F[n][i] = C[i][1]
           T == {n \in Nat : n <= Len(C) => P(n)}
<1>2. 0 \in T
  <2>1. F[0] = << >> /\ F[0] \in Seq(S) /\ Len(<< >>) = 0
    BY <1>1
  <2>2. P(0)
    BY <2>1
  <2> HIDE DEF P
  <2> QED BY <2>2
<1>3. \A n \in T : n + 1 \in T
  <2> SUFFICES ASSUME NEW n \in Nat, n + 1 <= Len(C), P(n)
               PROVE  P(n + 1)
    <3> HIDE DEF P
    <3> QED OBVIOUS
  <2>1. F[n + 1] = F[n] \o C[n + 1]
    BY <1>1
  <2> DEFINE f == F[n]
             c == C[n + 1]
  <2>2. /\ c \in Seq(S) /\ Len(c) = 1
        /\ f \in Seq(S) /\ Len(f) = n /\ \A i \in 1..n : f[i] = C[i][1]
    OBVIOUS
  <2> HIDE DEF f, c
  <2>3. PICK e \in Seq(S) : e = f \o c /\ Len(e) = n + 1 /\ e[n + 1] = c[1]
                            /\ \A i \in 1..n : e[i] = f[i]
    <3>1. f \in Seq(S) /\ c \in Seq(S)
      BY <2>2
    <3>2. PICK e \in Seq(S) : e = f \o c /\ ConcatOf(e, f, c)
      BY <3>1, ConcatFacts, Zenon
    <3>3. 1 \in 1..Len(c) /\ Len(f) = n /\ Len(c) = 1
      BY <2>2
    <3>4. ConcatOf(e, f, c)
      BY <3>2
    <3>5. Len(e) = n + 1 /\ e[n + 1] = c[1] /\ \A i \in 1..n : e[i] = f[i]
      BY ONLY <3>4, <3>3, n \in Nat, e \in Seq(S) DEF ConcatOf
    <3> QED BY <3>2, <3>5, Zenon
  <2>4. ASSUME NEW i \in 1..(n + 1) PROVE e[i] = C[i][1]
    <3>1. CASE i = n + 1
      <4>1. C[i] = c
        BY <3>1 DEF c
      <4> QED BY <2>3, <3>1, <4>1
    <3>2. CASE i \in 1..n
      BY <2>2, <2>3, <3>2
    <3> QED BY <3>1, <3>2
  <2>5. F[n + 1] = e
    BY <2>1, <2>3, Zenon DEF f, c
  <2> QED BY <2>3, <2>4, <2>5
<1>4. Len(C) \in Nat
  OBVIOUS
<1> HIDE DEF P
<1> HIDE DEF T
<1>5. T = Nat
  BY <1>2, <1>3, NatSet DEF T
<1>6. P(Len(C))
  BY <1>4, <1>5 DEF T
<1> QED BY <1>1, <1>6 DEF P

-----------------------------------------------------------------------------
(* The lists that have a counterpart, and the counterpart.                 *)

\* A set of naturals that is not empty has a least element.
LEMMA LeastNat ==
    ASSUME NEW T, T \subseteq Nat, T # {}
    PROVE  \E x \in T : \A y \in T : x <= y
<1>1. IsWellFoundedOn(OpToRel(<, Nat), Nat)
  BY NatLessThanWellFounded
<1>2. PICK x \in T : \A y \in T : ~ (<<y, x>> \in OpToRel(<, Nat))
  BY <1>1, WFMin
<1>3. \A y \in T : ~ (y < x)
  BY <1>2 DEF OpToRel
<1> QED BY <1>3

\* The arrays compare:and: is left with once the unique lists are removed.
LEMMA ResidualFacts ==
    ASSUME NEW listA \in Seq(List), NEW listB \in Seq(List)
    PROVE  /\ Residual(listA, listB) \in Seq(List)
           /\ Elements(Residual(listA, listB)) =
                {l \in Elements(listA) :
                    \E o \in Elements(listB) : SameName(l.listName, o.listName)}
<1> DEFINE K == Elements(listA) \ Unique(listA, listB)
<1>1. Kept(listA, K) \in Seq(List \cap K)
  BY KeptType
<1>2. Kept(listA, K) \in Seq(List)
  BY <1>1
<1>3. Elements(Kept(listA, K)) = Elements(listA) \cap K
  BY KeptElements
<1> QED BY <1>2, <1>3, Zenon DEF Residual, Unique

\* Where an element of an array is.
LEMMA ElementAt ==
    ASSUME NEW S, NEW s \in Seq(S)
    PROVE  /\ \A x \in Elements(s) : x \in S /\ \E i \in 1..Len(s) : x = s[i]
           /\ \A i \in 1..Len(s) : s[i] \in Elements(s) /\ s[i] \in S
           /\ DOMAIN s = 1..Len(s) /\ Len(s) \in Nat
BY DEF Elements

\* A list of A that is not unique has a counterpart, which has its name and
\* is the first list of B that has.
LEMMA CounterPartFacts ==
    ASSUME NEW listA \in Seq(List), NEW listB \in Seq(List),
           NEW a \in Elements(Residual(listA, listB))
    PROVE  LET b == CounterPart(a, Residual(listB, listA))
           IN  /\ b \in List /\ b \in Elements(listB)
               /\ SameName(b.listName, a.listName)
<1> DEFINE resB == Residual(listB, listA)
           same == {j \in DOMAIN resB : SameName(resB[j].listName, a.listName)}
           j1 == CHOOSE j \in same : \A h \in same : j <= h
<1>1. /\ resB \in Seq(List)
      /\ Elements(resB) = {l \in Elements(listB) :
                 \E o \in Elements(listA) : SameName(l.listName, o.listName)}
  BY ResidualFacts
<1>2. a \in Elements(listA) /\ \E o \in Elements(listB) : SameName(a.listName, o.listName)
  BY ResidualFacts
<1>3. PICK b \in Elements(listB) : SameName(a.listName, b.listName)
  BY <1>2
<1>4. SameName(b.listName, a.listName)
  BY <1>3 DEF SameName
<1>5. b \in Elements(resB)
  BY <1>1, <1>2, <1>4
<1> HIDE DEF resB
<1>6. PICK j \in 1..Len(resB) : b = resB[j]
  BY <1>1, <1>5, ElementAt
<1>7. DOMAIN resB = 1..Len(resB)
  BY <1>1, ElementAt
<1>8. j \in same
  BY <1>4, <1>6, <1>7
<1>9. same \subseteq Nat
  BY <1>7
<1> HIDE DEF same
<1>10. \E i \in same : \A h \in same : i <= h
  BY <1>8, <1>9, LeastNat
<1>11. j1 \in same
  BY <1>10, Zenon
<1>12. CounterPart(a, resB) = resB[j1]
  BY DEF CounterPart, same
<1> HIDE DEF j1
<1>13. j1 \in 1..Len(resB) /\ SameName(resB[j1].listName, a.listName)
  BY <1>7, <1>11 DEF same
<1>14. resB[j1] \in List /\ resB[j1] \in Elements(resB)
  BY <1>1, <1>13, ElementAt
<1>15. resB[j1] \in Elements(listB)
  BY <1>1, <1>14
<1> QED BY <1>12, <1>13, <1>14, <1>15 DEF resB

-----------------------------------------------------------------------------
(* The items of two matched lists.                                         *)

\* The positions of the namesakes.
LEMMA NamesakesFacts ==
    ASSUME NEW it, NEW itemsB \in Seq(Item)
    PROVE  /\ Namesakes(it, itemsB) \in Seq(1..Len(itemsB))
           /\ Elements(Namesakes(it, itemsB)) =
                {j \in 1..Len(itemsB) : SameName(it.itemName, itemsB[j].itemName)}
           /\ \A m, n \in 1..Len(Namesakes(it, itemsB)) :
                 m < n => Namesakes(it, itemsB)[m] < Namesakes(it, itemsB)[n]
<1> DEFINE s == [j \in DOMAIN itemsB |-> j]
           K == {j \in DOMAIN itemsB : SameName(it.itemName, itemsB[j].itemName)}
<1>1. DOMAIN itemsB = 1..Len(itemsB) /\ Len(itemsB) \in Nat
  BY ElementAt
<1>2. s \in Seq(1..Len(itemsB)) /\ Elements(s) = 1..Len(itemsB)
  BY <1>1 DEF Elements
<1>3. Namesakes(it, itemsB) = Kept(s, K)
  BY DEF Namesakes
<1>4. K \subseteq 1..Len(itemsB)
  BY <1>1
<1> HIDE DEF s, K
<1>5. Kept(s, K) \in Seq((1..Len(itemsB)) \cap K)
  BY <1>2, KeptType
<1>6. Kept(s, K) \in Seq(1..Len(itemsB))
  BY <1>5
<1>7. Elements(Kept(s, K)) = K
  <2>1. s \in Seq(1..Len(itemsB))
    BY <1>2
  <2>2. Elements(Kept(s, K)) = Elements(s) \cap K
    BY ONLY <2>1, KeptElements
  <2> QED BY <1>2, <1>4, <2>2, Zenon
<1>8. PICK g : KeptAt(s, K, Kept(s, K), Len(s), g)
  BY <1>2, KeptPositions
<1>9. \A j \in 1..Len(s) : s[j] = j
  BY <1>1 DEF s
<1>10. ASSUME NEW m \in 1..Len(Kept(s, K)), NEW n \in 1..Len(Kept(s, K)), m < n
       PROVE  Kept(s, K)[m] < Kept(s, K)[n]
  <2>1. g[m] \in 1..Len(s) /\ g[n] \in 1..Len(s) /\ g[m] < g[n]
    BY <1>8, <1>10 DEF KeptAt
  <2>2. Kept(s, K)[m] = s[g[m]] /\ Kept(s, K)[n] = s[g[n]]
    BY <1>8 DEF KeptAt
  <2> QED BY <1>9, <2>1, <2>2
<1> QED BY <1>1, <1>3, <1>6, <1>7, <1>10 DEF K

\* What an item of A contributes: at least one item, all with its name, and
\* each of them from A or from B.
LEMMA ChosenFacts ==
    ASSUME NEW itemsA \in Seq(Item), NEW itemsB \in Seq(Item), NEW later,
           NEW i \in 1..Len(itemsA)
    PROVE  /\ Chosen(i, itemsA, itemsB, later) \in Seq(Item)
           /\ Elements(Chosen(i, itemsA, itemsB, later)) # {}
           /\ \A x \in Elements(Chosen(i, itemsA, itemsB, later)) :
                 /\ x.itemName = itemsA[i].itemName
                 /\ x \in Elements(itemsA) \cup Elements(itemsB)
<1> DEFINE js == Namesakes(itemsA[i], itemsB)
           c == Chosen(i, itemsA, itemsB, later)
           pick(n) == IF <<i, js[n]>> \in later THEN itemsA[i] ELSE itemsB[js[n]]
<1>1. itemsA[i] \in Item /\ itemsA[i] \in Elements(itemsA)
  BY ElementAt
<1>2. /\ js \in Seq(1..Len(itemsB))
      /\ Elements(js) = {j \in 1..Len(itemsB) :
                           SameName(itemsA[i].itemName, itemsB[j].itemName)}
  BY NamesakesFacts
<1>3. c = IF js = << >> THEN <<itemsA[i]>> ELSE [n \in DOMAIN js |-> pick(n)]
  BY DEF Chosen
<1> HIDE DEF js, c
<1>4. CASE js = << >>
  <2>1. c = <<itemsA[i]>>
    BY <1>3, <1>4
  <2>2. c \in Seq(Item) /\ Elements(c) = {itemsA[i]}
    BY <1>1, <2>1 DEF Elements
  <2> QED BY <1>1, <2>2 DEF c
<1>5. CASE js # << >>
  <2>1. DOMAIN js = 1..Len(js) /\ Len(js) \in Nat /\ Len(js) # 0
    BY <1>2, <1>5
  <2>2. c = [n \in 1..Len(js) |-> pick(n)]
    BY <1>3, <1>5, <2>1
  <2>3. ASSUME NEW n \in 1..Len(js)
        PROVE  /\ pick(n) \in Item /\ pick(n).itemName = itemsA[i].itemName
               /\ pick(n) \in Elements(itemsA) \cup Elements(itemsB)
    <3>1. js[n] \in Elements(js)
      BY <1>2, ElementAt
    <3>2. /\ js[n] \in 1..Len(itemsB)
          /\ SameName(itemsA[i].itemName, itemsB[js[n]].itemName)
      BY <1>2, <3>1
    <3>3. itemsB[js[n]] \in Item /\ itemsB[js[n]] \in Elements(itemsB)
      BY <3>2, ElementAt
    <3> QED BY <1>1, <3>2, <3>3, Zenon DEF SameName
  <2> HIDE DEF pick
  <2>4. c \in Seq(Item) /\ Len(c) = Len(js) /\ \A n \in 1..Len(c) : c[n] = pick(n)
    BY <2>1, <2>2, <2>3
  <2>5. \A x \in Elements(c) : \E n \in 1..Len(js) : x = pick(n)
    BY <2>2 DEF Elements
  <2>6. c[1] \in Elements(c)
    BY <2>1, <2>2 DEF Elements
  <2>7. \A x \in Elements(c) : /\ x.itemName = itemsA[i].itemName
                               /\ x \in Elements(itemsA) \cup Elements(itemsB)
    BY <2>3, <2>5, Zenon
  <2> QED BY <2>4, <2>6, <2>7 DEF c
<1> QED BY <1>4, <1>5

\* The items that only B has.
LEMMA OnlyInBFacts ==
    ASSUME NEW itemsA, NEW itemsB \in Seq(Item)
    PROVE  /\ OnlyInB(itemsA, itemsB) \in Seq(Item)
           /\ Elements(OnlyInB(itemsA, itemsB)) =
                {it \in Elements(itemsB) :
                    \A x \in Elements(itemsA) : ~ SameName(it.itemName, x.itemName)}
<1> DEFINE K == {it \in Elements(itemsB) :
                    \A x \in Elements(itemsA) : ~ SameName(it.itemName, x.itemName)}
<1>1. OnlyInB(itemsA, itemsB) = Kept(itemsB, K)
  BY DEF OnlyInB
<1>2. K \subseteq Elements(itemsB)
  OBVIOUS
<1> HIDE DEF K
<1>3. Kept(itemsB, K) \in Seq(Item \cap K)
  BY KeptType
<1>4. Kept(itemsB, K) \in Seq(Item)
  BY <1>3
<1>5. Elements(Kept(itemsB, K)) = Elements(itemsB) \cap K
  BY KeptElements
<1> QED BY <1>1, <1>2, <1>4, <1>5, Zenon DEF K

\* The arrays the items of A contribute.
Contributions(itemsA, itemsB, later) ==
    [i \in DOMAIN itemsA |-> Chosen(i, itemsA, itemsB, later)]

LEMMA ContributionsFacts ==
    ASSUME NEW itemsA \in Seq(Item), NEW itemsB \in Seq(Item), NEW later
    PROVE  LET C == Contributions(itemsA, itemsB, later)
           IN  /\ C \in Seq(Seq(Item)) /\ Len(C) = Len(itemsA)
               /\ \A i \in 1..Len(itemsA) : C[i] = Chosen(i, itemsA, itemsB, later)
<1> DEFINE C == Contributions(itemsA, itemsB, later)
<1>1. DOMAIN itemsA = 1..Len(itemsA) /\ Len(itemsA) \in Nat
  BY ElementAt
<1>2. C = [i \in 1..Len(itemsA) |-> Chosen(i, itemsA, itemsB, later)]
  BY <1>1 DEF Contributions
<1>3. \A i \in 1..Len(itemsA) : Chosen(i, itemsA, itemsB, later) \in Seq(Item)
  BY ChosenFacts
<1> HIDE DEF C
<1>4. C \in [1..Len(itemsA) -> Seq(Item)]
  BY <1>2, <1>3
<1>5. C \in Seq(Seq(Item)) /\ Len(C) = Len(itemsA)
  BY <1>1, <1>4
<1> QED BY <1>2, <1>5 DEF C

\* The merged items come from the two lists, and every item of either list
\* has a namesake among them.
LEMMA MergedItemsFacts ==
    ASSUME NEW itemsA \in Seq(Item), NEW itemsB \in Seq(Item), NEW later
    PROVE  LET m == MergedItems(itemsA, itemsB, later)
           IN  /\ m \in Seq(Item)
               /\ Elements(m) \subseteq Elements(itemsA) \cup Elements(itemsB)
               /\ \A x \in Elements(itemsA) \cup Elements(itemsB) :
                     \E y \in Elements(m) : y.itemName = x.itemName
<1> DEFINE C == Contributions(itemsA, itemsB, later)
           only == OnlyInB(itemsA, itemsB)
           flat == FlattenSeq(C)
           m == MergedItems(itemsA, itemsB, later)
<1>1. /\ C \in Seq(Seq(Item)) /\ Len(C) = Len(itemsA)
      /\ \A i \in 1..Len(itemsA) : C[i] = Chosen(i, itemsA, itemsB, later)
  BY ContributionsFacts
<1>2. m = flat \o only
  BY DEF MergedItems, Contributions
<1> HIDE DEF C, m
<1>3. /\ flat \in Seq(Item)
      /\ \A x : x \in Elements(flat) <=> \E i \in 1..Len(itemsA) : x \in Elements(C[i])
  BY <1>1, FlattenElements
<1>4. /\ only \in Seq(Item)
      /\ Elements(only) = {it \in Elements(itemsB) :
                    \A x \in Elements(itemsA) : ~ SameName(it.itemName, x.itemName)}
  BY OnlyInBFacts
<1> HIDE DEF flat, only
<1>5. m \in Seq(Item) /\ Elements(m) = Elements(flat) \cup Elements(only)
  <2>1. flat \o only \in Seq(Item)
    BY <1>3, <1>4, ConcatFacts
  <2>2. Elements(flat \o only) = Elements(flat) \cup Elements(only)
    BY <1>3, <1>4, ConcatElements
  <2> QED BY <1>2, <2>1, <2>2, Zenon
<1>6. ASSUME NEW x \in Elements(flat)
      PROVE  x \in Elements(itemsA) \cup Elements(itemsB)
  <2>1. PICK i \in 1..Len(itemsA) : x \in Elements(Chosen(i, itemsA, itemsB, later))
    BY <1>1, <1>3
  <2> QED BY <2>1, ChosenFacts
<1>7. ASSUME NEW x \in Elements(itemsA)
      PROVE  \E y \in Elements(flat) : y.itemName = x.itemName
  <2>1. PICK i \in 1..Len(itemsA) : x = itemsA[i]
    BY ElementAt
  <2>2. PICK y \in Elements(Chosen(i, itemsA, itemsB, later)) :
                 y.itemName = itemsA[i].itemName
    BY ChosenFacts
  <2>3. y \in Elements(flat)
    BY <1>1, <1>3, <2>2
  <2> QED BY <2>1, <2>2, <2>3
<1>8. ASSUME NEW x \in Elements(itemsB)
      PROVE  \E y \in Elements(m) : y.itemName = x.itemName
  <2>1. CASE x \in Elements(only)
    BY <1>5, <2>1
  <2>2. CASE x \notin Elements(only)
    <3>1. PICK z \in Elements(itemsA) : SameName(x.itemName, z.itemName)
      BY <1>4, <2>2
    <3>2. z.itemName = x.itemName
      BY <3>1 DEF SameName
    <3>3. PICK y \in Elements(flat) : y.itemName = z.itemName
      BY <1>7
    <3> QED BY <1>5, <3>2, <3>3
  <2> QED BY <2>1, <2>2
<1>9. Elements(only) \subseteq Elements(itemsB)
  BY <1>4
<1> QED BY <1>5, <1>6, <1>7, <1>8, <1>9, Zenon DEF m

-----------------------------------------------------------------------------
(* Names that differ stay different.                                       *)

\* No two items of an array have the same name.
ItemsDiffer(items) ==
    \A i, j \in 1..Len(items) :
        i # j => ~ SameName(items[i].itemName, items[j].itemName)

\* No two lists of an array have the same name.
ListsDiffer(lists) ==
    \A i, j \in 1..Len(lists) :
        i # j => ~ SameName(lists[i].listName, lists[j].listName)

LEMMA DistinctItems ==
    ASSUME NEW items \in Seq(Item)
    PROVE  Distinct([k \in DOMAIN items |-> items[k].itemName]) <=> ItemsDiffer(items)
<1>1. DOMAIN items = 1..Len(items)
  BY ElementAt
<1> QED BY <1>1 DEF Distinct, ItemsDiffer

LEMMA WellFormedLists ==
    ASSUME NEW lists \in Seq(List)
    PROVE  WellFormed(lists) <=>
             /\ ListsDiffer(lists)
             /\ \A i \in 1..Len(lists) : ItemsDiffer(lists[i].listItems)
<1>1. DOMAIN lists = 1..Len(lists)
  BY ElementAt
<1>2. ASSUME NEW i \in 1..Len(lists)
      PROVE  LET items == lists[i].listItems
             IN  Distinct([k \in DOMAIN items |-> items[k].itemName])
                    <=> ItemsDiffer(items)
  <2>1. lists[i] \in List
    BY ElementAt
  <2>2. lists[i].listItems \in Seq(Item)
    BY <2>1 DEF List
  <2> QED BY <2>2, DistinctItems
<1>3. Distinct([i \in DOMAIN lists |-> lists[i].listName]) <=> ListsDiffer(lists)
  BY <1>1 DEF Distinct, ListsDiffer
<1> QED BY <1>1, <1>2, <1>3, Zenon DEF WellFormed

\* When the items of B differ, an item of A contributes one item.
LEMMA ChosenOne ==
    ASSUME NEW itemsA \in Seq(Item), NEW itemsB \in Seq(Item), NEW later,
           NEW i \in 1..Len(itemsA), ItemsDiffer(itemsB)
    PROVE  /\ Len(Chosen(i, itemsA, itemsB, later)) = 1
           /\ Chosen(i, itemsA, itemsB, later)[1].itemName = itemsA[i].itemName
<1> DEFINE js == Namesakes(itemsA[i], itemsB)
           c == Chosen(i, itemsA, itemsB, later)
<1>1. /\ js \in Seq(1..Len(itemsB))
      /\ Elements(js) = {j \in 1..Len(itemsB) :
                           SameName(itemsA[i].itemName, itemsB[j].itemName)}
      /\ \A m, n \in 1..Len(js) : m < n => js[m] < js[n]
  BY NamesakesFacts
<1>2. /\ c \in Seq(Item)
      /\ \A x \in Elements(c) : x.itemName = itemsA[i].itemName
  BY ChosenFacts
<1>3. c = IF js = << >> THEN <<itemsA[i]>>
          ELSE [n \in DOMAIN js |-> IF <<i, js[n]>> \in later THEN itemsA[i]
                                                              ELSE itemsB[js[n]]]
  BY DEF Chosen
<1> HIDE DEF js, c
<1>4. DOMAIN js = 1..Len(js) /\ Len(js) \in Nat
  BY <1>1, ElementAt
<1>5. Len(js) <= 1
  <2> SUFFICES ASSUME Len(js) > 1 PROVE FALSE
    BY <1>4
  <2>1. 1 \in 1..Len(js) /\ 2 \in 1..Len(js)
    BY <1>4
  <2>2. js[1] \in Elements(js) /\ js[2] \in Elements(js)
    BY <1>4, <2>1 DEF Elements
  <2>3. /\ js[1] \in 1..Len(itemsB) /\ js[2] \in 1..Len(itemsB)
        /\ SameName(itemsB[js[1]].itemName, itemsB[js[2]].itemName)
    BY <1>1, <2>2 DEF SameName
  <2>4. js[1] < js[2]
    BY <1>1, <2>1
  <2>5. js[1] # js[2]
    BY <2>3, <2>4
  <2> QED BY <2>3, <2>5 DEF ItemsDiffer
<1>6. Len(c) = 1
  <2>1. CASE js = << >>
    BY <1>3, <2>1
  <2>2. CASE js # << >>
    <3>1. Len(js) # 0
      BY <1>1, <2>2
    <3>2. Len(js) = 1
      BY <1>4, <1>5, <3>1
    <3>3. DOMAIN c = 1..1
      BY <1>3, <1>4, <2>2, <3>2
    <3> QED BY <1>2, <3>3
  <2> QED BY <2>1, <2>2
<1>7. c[1] \in Elements(c)
  BY <1>2, <1>6 DEF Elements
<1>8. c[1].itemName = itemsA[i].itemName
  BY <1>2, <1>7
<1> QED BY <1>6, <1>8 DEF c

\* The items of an array that are kept differ if all of them do.
LEMMA KeptItemsDiffer ==
    ASSUME NEW items \in Seq(Item), NEW K, ItemsDiffer(items)
    PROVE  ItemsDiffer(Kept(items, K))
<1>1. PICK g : KeptAt(items, K, Kept(items, K), Len(items), g)
  BY KeptPositions
<1> DEFINE kept == Kept(items, K)
<1> HIDE DEF kept
<1>2. KeptAt(items, K, kept, Len(items), g)
  BY <1>1 DEF kept
<1>3. Len(kept) \in Nat
  <2>1. kept \in Seq(Item \cap K)
    BY KeptType DEF kept
  <2> QED BY <2>1
<1>4. ASSUME NEW i \in 1..Len(kept), NEW j \in 1..Len(kept), i # j
      PROVE  ~ SameName(kept[i].itemName, kept[j].itemName)
  <2>1. g[i] \in 1..Len(items) /\ g[j] \in 1..Len(items)
    BY <1>2 DEF KeptAt
  <2>2. kept[i] = items[g[i]] /\ kept[j] = items[g[j]]
    BY <1>2 DEF KeptAt
  <2>3. i < j \/ j < i
    BY <1>3, <1>4
  <2>4. g[i] < g[j] \/ g[j] < g[i]
    BY <1>2, <2>3 DEF KeptAt
  <2>5. g[i] # g[j]
    BY <2>1, <2>4
  <2>6. ~ SameName(items[g[i]].itemName, items[g[j]].itemName)
    BY <2>1, <2>5 DEF ItemsDiffer
  <2> QED BY <2>2, <2>6
<1>5. ItemsDiffer(kept)
  BY <1>4 DEF ItemsDiffer
<1> QED BY <1>5 DEF kept

\* Two arrays of items whose names differ, within each and between the two.
LEMMA ConcatItemsDiffer ==
    ASSUME NEW s \in Seq(Item), NEW t \in Seq(Item), ItemsDiffer(s), ItemsDiffer(t),
           \A x \in Elements(s), y \in Elements(t) : ~ SameName(x.itemName, y.itemName)
    PROVE  ItemsDiffer(s \o t)
<1>1. PICK e : e = s \o t /\ e \in Seq(Item) /\ ConcatOf(e, s, t)
  BY ConcatFacts, Zenon
<1>2. /\ Len(s) \in Nat /\ Len(t) \in Nat
      /\ \A i \in 1..Len(s) : s[i] \in Elements(s)
      /\ \A i \in 1..Len(t) : t[i] \in Elements(t)
  BY ElementAt
<1>3. /\ Len(e) = Len(s) + Len(t)
      /\ \A i \in 1..Len(s) : e[i] = s[i]
      /\ \A i \in 1..Len(t) : e[Len(s) + i] = t[i]
  BY <1>1 DEF ConcatOf
<1>4. ASSUME NEW i \in 1..Len(e), i \notin 1..Len(s)
      PROVE  i - Len(s) \in 1..Len(t) /\ e[i] = t[i - Len(s)]
  <2>1. i - Len(s) \in 1..Len(t) /\ Len(s) + (i - Len(s)) = i
    BY <1>2, <1>3, <1>4
  <2> QED BY <1>3, <2>1
<1>5. ASSUME NEW i \in 1..Len(e), NEW j \in 1..Len(e), i # j
      PROVE  ~ SameName(e[i].itemName, e[j].itemName)
  <2>1. CASE i \in 1..Len(s) /\ j \in 1..Len(s)
    BY <1>3, <1>5, <2>1 DEF ItemsDiffer
  <2>2. CASE i \in 1..Len(s) /\ j \notin 1..Len(s)
    BY <1>2, <1>3, <1>4, <2>2
  <2>3. CASE i \notin 1..Len(s) /\ j \in 1..Len(s)
    <3>1. ~ SameName(e[j].itemName, e[i].itemName)
      BY <1>2, <1>3, <1>4, <2>3
    <3> QED BY <3>1 DEF SameName
  <2>4. CASE i \notin 1..Len(s) /\ j \notin 1..Len(s)
    <3>1. /\ i - Len(s) \in 1..Len(t) /\ j - Len(s) \in 1..Len(t)
          /\ e[i] = t[i - Len(s)] /\ e[j] = t[j - Len(s)]
      BY <1>4, <2>4
    <3>2. i - Len(s) # j - Len(s)
      BY <1>2, <1>3, <1>5
    <3> QED BY <3>1, <3>2 DEF ItemsDiffer
  <2> QED BY <2>1, <2>2, <2>3, <2>4
<1>6. ItemsDiffer(e)
  BY <1>5 DEF ItemsDiffer
<1> QED BY <1>1, <1>6, Zenon

\* The merged items of two lists differ if the items of each list do.
LEMMA MergedItemsDiffer ==
    ASSUME NEW itemsA \in Seq(Item), NEW itemsB \in Seq(Item), NEW later,
           ItemsDiffer(itemsA), ItemsDiffer(itemsB)
    PROVE  ItemsDiffer(MergedItems(itemsA, itemsB, later))
<1> DEFINE C == Contributions(itemsA, itemsB, later)
           only == OnlyInB(itemsA, itemsB)
           flat == FlattenSeq(C)
<1>1. /\ C \in Seq(Seq(Item)) /\ Len(C) = Len(itemsA)
      /\ \A i \in 1..Len(itemsA) : C[i] = Chosen(i, itemsA, itemsB, later)
  BY ContributionsFacts
<1>2. MergedItems(itemsA, itemsB, later) = flat \o only
  BY DEF MergedItems, Contributions
<1>3. /\ only \in Seq(Item)
      /\ Elements(only) = {it \in Elements(itemsB) :
                    \A x \in Elements(itemsA) : ~ SameName(it.itemName, x.itemName)}
  BY OnlyInBFacts
<1>4. ItemsDiffer(only)
  BY KeptItemsDiffer DEF OnlyInB
<1> HIDE DEF C, only
<1>5. flat \in Seq(Item)
  BY <1>1, FlattenElements
<1>6. \A i \in 1..Len(C) : Len(C[i]) = 1 /\ C[i][1].itemName = itemsA[i].itemName
  BY <1>1, ChosenOne
<1>7. Len(flat) = Len(itemsA) /\ \A i \in 1..Len(itemsA) : flat[i] = C[i][1]
  BY <1>1, <1>6, FlattenSingles
<1> HIDE DEF flat
<1>8. \A i \in 1..Len(flat) : flat[i].itemName = itemsA[i].itemName
  BY <1>1, <1>6, <1>7
<1>9. ItemsDiffer(flat)
  BY <1>7, <1>8 DEF ItemsDiffer
<1>10. ASSUME NEW x \in Elements(flat), NEW y \in Elements(only)
       PROVE  ~ SameName(x.itemName, y.itemName)
  <2>1. PICK i \in 1..Len(flat) : x = flat[i]
    BY <1>5, ElementAt
  <2>2. itemsA[i] \in Elements(itemsA) /\ x.itemName = itemsA[i].itemName
    BY <1>7, <1>8, <2>1, ElementAt
  <2>3. ~ SameName(y.itemName, itemsA[i].itemName)
    BY <1>3, <2>2
  <2> QED BY <2>2, <2>3 DEF SameName
<1>11. ItemsDiffer(flat \o only)
  BY <1>3, <1>4, <1>5, <1>9, <1>10, ConcatItemsDiffer
<1> QED BY <1>2, <1>11, Zenon

\* What has namesakes has a name.
LEMMA DoubledNames ==
    ASSUME NEW itemsA \in Seq(Item), NEW itemsB \in Seq(Item), NEW later
    PROVE  Doubled(itemsA, itemsB, later) \subseteq ItemNames
<1> SUFFICES ASSUME NEW h \in DOMAIN itemsA,
                    NEW j \in Elements(Namesakes(itemsA[h], itemsB))
             PROVE  itemsA[h].itemName \in ItemNames
  BY Zenon DEF Doubled
<1>1. SameName(itemsA[h].itemName, itemsB[j].itemName)
  BY NamesakesFacts
<1>2. itemsA[h] \in Item
  BY ElementAt
<1> QED BY <1>1, <1>2 DEF SameName, Item

-----------------------------------------------------------------------------
(* The lists of the result.                                                *)

\* The k-th merged list is the k-th residual list of A with merged items.
LEMMA MergedListAt ==
    ASSUME NEW listA \in Seq(List), NEW listB \in Seq(List), NEW later
    PROVE  LET resA == Residual(listA, listB)
               resB == Residual(listB, listA)
               M    == MergedLists(listA, listB, later)
           IN  /\ M \in Seq(List) /\ Len(M) = Len(resA)
               /\ \A k \in 1..Len(resA) :
                     /\ M[k].listName = resA[k].listName
                     /\ \E lt : M[k].listItems =
                           MergedItems(resA[k].listItems,
                                       CounterPart(resA[k], resB).listItems, lt)
<1> DEFINE resA == Residual(listA, listB)
           resB == Residual(listB, listA)
           M == MergedLists(listA, listB, later)
           lt(k) == {t[2] : t \in {u \in later : u[1] = k}}
           mi(k) == MergedItems(resA[k].listItems, CounterPart(resA[k], resB).listItems, lt(k))
           tw(k) == resA[k].twins \cup CounterPart(resA[k], resB).twins
                      \cup Doubled(resA[k].listItems, CounterPart(resA[k], resB).listItems, lt(k))
<1>1. resA \in Seq(List)
  BY ResidualFacts
<1>2. DOMAIN resA = 1..Len(resA) /\ Len(resA) \in Nat
  BY <1>1, ElementAt
<1>3. M = [k \in 1..Len(resA) |->
             [resA[k] EXCEPT !.listItems = mi(k), !.twins = tw(k)]]
  BY <1>2 DEF MergedLists
<1>4. ASSUME NEW k \in 1..Len(resA)
      PROVE  resA[k] \in List /\ mi(k) \in Seq(Item) /\ tw(k) \subseteq ItemNames
  <2>1. resA[k] \in List /\ resA[k] \in Elements(resA)
    BY <1>1, ElementAt
  <2>2. CounterPart(resA[k], resB) \in List
    BY <2>1, CounterPartFacts
  <2>3. resA[k].listItems \in Seq(Item) /\ CounterPart(resA[k], resB).listItems \in Seq(Item)
    BY <2>1, <2>2 DEF List
  <2>4. resA[k].twins \subseteq ItemNames /\ CounterPart(resA[k], resB).twins \subseteq ItemNames
    BY <2>1, <2>2 DEF List
  <2>5. Doubled(resA[k].listItems, CounterPart(resA[k], resB).listItems, lt(k)) \subseteq ItemNames
    BY <2>3, DoubledNames
  <2>6. tw(k) \subseteq ItemNames
    BY <2>4, <2>5, Zenon
  <2> QED BY <2>1, <2>3, <2>6, MergedItemsFacts
<1> HIDE DEF mi, tw, resA, M
<1>5. ASSUME NEW k \in 1..Len(resA)
      PROVE  LET l == [resA[k] EXCEPT !.listItems = mi(k), !.twins = tw(k)]
             IN  l \in List /\ l.listName = resA[k].listName /\ l.listItems = mi(k)
  BY <1>4 DEF List
<1>6. \A k \in 1..Len(resA) :
         M[k] \in List /\ M[k].listName = resA[k].listName /\ M[k].listItems = mi(k)
  BY <1>3, <1>5
<1>7. M \in [1..Len(resA) -> List]
  BY <1>3, <1>6
<1>8. M \in Seq(List) /\ Len(M) = Len(resA)
  BY <1>2, <1>7
<1>9. ASSUME NEW k \in 1..Len(resA)
      PROVE  \E z : M[k].listItems =
               MergedItems(resA[k].listItems, CounterPart(resA[k], resB).listItems, z)
  BY <1>6, Zenon DEF mi
<1> QED BY <1>6, <1>8, <1>9 DEF resA, M

\* The result has the unique lists of both sides and the merged lists.
LEMMA CompareElements ==
    ASSUME NEW listA \in Seq(List), NEW listB \in Seq(List), NEW later
    PROVE  /\ compare(listA, listB, later) \in Seq(List)
           /\ Elements(compare(listA, listB, later)) =
                Unique(listA, listB) \cup Unique(listB, listA)
                    \cup Elements(MergedLists(listA, listB, later))
<1> DEFINE kA == Kept(listA, Unique(listA, listB))
           kB == Kept(listB, Unique(listB, listA))
           M == MergedLists(listA, listB, later)
<1>1. M \in Seq(List)
  BY MergedListAt
<1>2. kA \in Seq(List) /\ kB \in Seq(List)
  <2>1. kA \in Seq(List \cap Unique(listA, listB))
    BY KeptType
  <2>2. kB \in Seq(List \cap Unique(listB, listA))
    BY KeptType
  <2> HIDE DEF kA, kB
  <2> QED BY <2>1, <2>2
<1>3. /\ Elements(kA) = Elements(listA) \cap Unique(listA, listB)
      /\ Elements(kB) = Elements(listB) \cap Unique(listB, listA)
  BY KeptElements
<1>4. Elements(kA) = Unique(listA, listB) /\ Elements(kB) = Unique(listB, listA)
  BY <1>3, Zenon DEF Unique
<1> HIDE DEF kA, kB, M
<1>5. kA \o kB \in Seq(List) /\ Elements(kA \o kB) = Elements(kA) \cup Elements(kB)
  BY <1>2, ConcatFacts, ConcatElements
<1>6. PICK kAB \in Seq(List) : kAB = kA \o kB
  BY <1>5, Zenon
<1>7. kAB \o M \in Seq(List) /\ Elements(kAB \o M) = Elements(kAB) \cup Elements(M)
  BY <1>1, ConcatFacts, ConcatElements
<1>8. compare(listA, listB, later) = kAB \o M
  BY <1>6, Zenon DEF compare, kA, kB, M
<1>9. Elements(kAB) = Unique(listA, listB) \cup Unique(listB, listA)
  BY <1>4, <1>5, <1>6, Zenon
<1> QED BY <1>7, <1>8, <1>9, Zenon DEF M

\* l is the merge of a list a of A and a list b of B: it has a's name, its
\* items come from the two, and each of their items has a namesake in it.
Merges(l, a, b) ==
    /\ l.listName = a.listName
    /\ Elements(l.listItems) \subseteq Elements(a.listItems) \cup Elements(b.listItems)
    /\ \A x \in Elements(a.listItems) \cup Elements(b.listItems) :
          \E y \in Elements(l.listItems) : y.itemName = x.itemName

LEMMA MergedElements ==
    ASSUME NEW listA \in Seq(List), NEW listB \in Seq(List), NEW later
    PROVE  LET resA == Residual(listA, listB)
               resB == Residual(listB, listA)
               M    == MergedLists(listA, listB, later)
           IN  /\ \A l \in Elements(M) : \E a \in Elements(resA) :
                     Merges(l, a, CounterPart(a, resB))
               /\ \A a \in Elements(resA) : \E l \in Elements(M) :
                     Merges(l, a, CounterPart(a, resB))
<1> DEFINE resA == Residual(listA, listB)
           resB == Residual(listB, listA)
           M == MergedLists(listA, listB, later)
<1>1. /\ M \in Seq(List) /\ Len(M) = Len(resA)
      /\ \A k \in 1..Len(resA) :
            /\ M[k].listName = resA[k].listName
            /\ \E lt : M[k].listItems =
                  MergedItems(resA[k].listItems, CounterPart(resA[k], resB).listItems, lt)
  BY MergedListAt
<1>2. resA \in Seq(List)
  BY ResidualFacts
<1>3. \A a \in Elements(resA) : CounterPart(a, resB) \in List
  BY CounterPartFacts
<1> HIDE DEF M, resA, resB
<1>4. ASSUME NEW k \in 1..Len(resA) PROVE Merges(M[k], resA[k], CounterPart(resA[k], resB))
  <2>1. resA[k] \in List /\ resA[k] \in Elements(resA)
    BY <1>2, ElementAt
  <2>2. CounterPart(resA[k], resB) \in List
    BY <1>3, <2>1
  <2>3. resA[k].listItems \in Seq(Item) /\ CounterPart(resA[k], resB).listItems \in Seq(Item)
    BY <2>1, <2>2 DEF List
  <2>4. PICK lt : M[k].listItems =
          MergedItems(resA[k].listItems, CounterPart(resA[k], resB).listItems, lt)
    BY <1>1
  <2> QED BY <1>1, <2>3, <2>4, MergedItemsFacts DEF Merges
<1>5. ASSUME NEW l \in Elements(M)
      PROVE  \E a \in Elements(resA) : Merges(l, a, CounterPart(a, resB))
  <2>1. PICK k \in 1..Len(resA) : l = M[k]
    BY <1>1, ElementAt
  <2>2. resA[k] \in Elements(resA)
    BY <1>2, ElementAt
  <2> QED BY <1>4, <2>1, <2>2
<1>6. ASSUME NEW a \in Elements(resA)
      PROVE  \E l \in Elements(M) : Merges(l, a, CounterPart(a, resB))
  <2>1. PICK k \in 1..Len(resA) : a = resA[k]
    BY <1>2, ElementAt
  <2>2. M[k] \in Elements(M)
    BY <1>1, ElementAt
  <2> QED BY <1>4, <2>1, <2>2
<1> QED BY <1>5, <1>6 DEF resA, resB, M

-----------------------------------------------------------------------------
(* The result as a merge by name.                                          *)

\* The names of an array, and the items under a name, by its elements.
LEMMA UnderName ==
    ASSUME NEW lists \in Seq(List)
    PROVE  /\ \A n : n \in Names(lists) <=> \E l \in Elements(lists) : l.listName = n
           /\ \A n, x : x \in ItemsUnder(n, lists) <=>
                 \E l \in Elements(lists) : l.listName = n /\ x \in Elements(l.listItems)
<1>1. ASSUME NEW n
      PROVE  n \in Names(lists) <=> \E l \in Elements(lists) : l.listName = n
  BY Zenon DEF Names, Elements
<1>2. ASSUME NEW n, NEW x
      PROVE  x \in ItemsUnder(n, lists) <=>
               \E l \in Elements(lists) : l.listName = n /\ x \in Elements(l.listItems)
  <2>1. x \in ItemsUnder(n, lists) <=>
          \E i \in DOMAIN lists : lists[i].listName = n /\ x \in Elements(lists[i].listItems)
    BY Zenon DEF ItemsUnder
  <2>2. \A l : l \in Elements(lists) <=> \E i \in DOMAIN lists : l = lists[i]
    BY Zenon DEF Elements
  <2> QED BY <2>1, <2>2, Zenon
<1> QED BY <1>1, <1>2

\* A list is unique, or residual.
LEMMA UniqueOrResidual ==
    ASSUME NEW listA \in Seq(List), NEW listB \in Seq(List), NEW a \in Elements(listA)
    PROVE  a \in Unique(listA, listB) \/ a \in Elements(Residual(listA, listB))
BY ResidualFacts DEF Unique

\* The names of the result are those of the two arrays.
LEMMA CompareNames ==
    ASSUME NEW listA \in Seq(List), NEW listB \in Seq(List), NEW later
    PROVE  Names(compare(listA, listB, later)) = Names(listA) \cup Names(listB)
<1> DEFINE R == compare(listA, listB, later)
           M == MergedLists(listA, listB, later)
           resA == Residual(listA, listB)
           resB == Residual(listB, listA)
<1>1. /\ R \in Seq(List)
      /\ Elements(R) = Unique(listA, listB) \cup Unique(listB, listA) \cup Elements(M)
  BY CompareElements
<1>2. /\ \A l \in Elements(M) : \E a \in Elements(resA) : l.listName = a.listName
      /\ \A a \in Elements(resA) : \E l \in Elements(M) : l.listName = a.listName
  BY MergedElements DEF Merges
<1>3. \A a \in Elements(resA) : a \in Elements(listA)
  BY ResidualFacts
<1>4. \A b \in Elements(resB) : \E a \in Elements(listA) : b.listName = a.listName
  BY ResidualFacts DEF SameName
<1>5. /\ \A a \in Elements(listA) : a \in Unique(listA, listB) \/ a \in Elements(resA)
      /\ \A b \in Elements(listB) : b \in Unique(listB, listA) \/ b \in Elements(resB)
  BY UniqueOrResidual
<1>6. /\ Unique(listA, listB) \subseteq Elements(listA)
      /\ Unique(listB, listA) \subseteq Elements(listB)
  BY DEF Unique
<1> HIDE DEF R, M, resA, resB
<1>7. ASSUME NEW l \in Elements(R)
      PROVE  \/ \E a \in Elements(listA) : l.listName = a.listName
             \/ \E b \in Elements(listB) : l.listName = b.listName
  BY <1>1, <1>2, <1>3, <1>6, Zenon
<1>8. ASSUME NEW a \in Elements(listA)
      PROVE  \E l \in Elements(R) : l.listName = a.listName
  BY <1>1, <1>2, <1>5, Zenon
<1>9. ASSUME NEW b \in Elements(listB)
      PROVE  \E l \in Elements(R) : l.listName = b.listName
  <2>1. CASE b \in Unique(listB, listA)
    BY <1>1, <2>1
  <2>2. CASE b \in Elements(resB)
    BY <1>4, <1>8, <2>2
  <2> QED BY <1>5, <2>1, <2>2
<1>10. \A n : n \in Names(R) <=> n \in Names(listA) \/ n \in Names(listB)
  <2>1. \A n : n \in Names(R) <=> \E l \in Elements(R) : l.listName = n
    BY <1>1, UnderName
  <2>2. \A n : n \in Names(listA) <=> \E l \in Elements(listA) : l.listName = n
    BY UnderName
  <2>3. \A n : n \in Names(listB) <=> \E l \in Elements(listB) : l.listName = n
    BY UnderName
  <2> QED BY <1>7, <1>8, <1>9, <2>1, <2>2, <2>3
<1> QED BY <1>10 DEF R

\* Nothing moves from one list to another, and every item of A has a namesake
\* under its list's name.
LEMMA CompareItems ==
    ASSUME NEW listA \in Seq(List), NEW listB \in Seq(List), NEW later, NEW n
    PROVE  LET R == compare(listA, listB, later)
           IN  /\ ItemsUnder(n, R) \subseteq ItemsUnder(n, listA) \cup ItemsUnder(n, listB)
               /\ ItemNamesUnder(n, listA) \subseteq ItemNamesUnder(n, R)
<1> DEFINE R == compare(listA, listB, later)
           M == MergedLists(listA, listB, later)
           resA == Residual(listA, listB)
           resB == Residual(listB, listA)
<1>1. /\ R \in Seq(List)
      /\ Elements(R) = Unique(listA, listB) \cup Unique(listB, listA) \cup Elements(M)
  BY CompareElements
<1>2. /\ \A l \in Elements(M) : \E a \in Elements(resA) :
            Merges(l, a, CounterPart(a, resB))
      /\ \A a \in Elements(resA) : \E l \in Elements(M) :
            Merges(l, a, CounterPart(a, resB))
  BY MergedElements
<1>3. ASSUME NEW a \in Elements(resA)
      PROVE  /\ a \in Elements(listA)
             /\ CounterPart(a, resB) \in Elements(listB)
             /\ CounterPart(a, resB).listName = a.listName
  <2>1. a \in Elements(listA)
    BY ResidualFacts
  <2>2. /\ CounterPart(a, resB) \in Elements(listB)
        /\ SameName(CounterPart(a, resB).listName, a.listName)
    BY CounterPartFacts
  <2> QED BY <2>1, <2>2 DEF SameName
<1>4. /\ Unique(listA, listB) \subseteq Elements(listA)
      /\ Unique(listB, listA) \subseteq Elements(listB)
  BY DEF Unique
<1>5. \A a \in Elements(listA) : a \in Unique(listA, listB) \/ a \in Elements(resA)
  BY UniqueOrResidual
<1> HIDE DEF R, M, resA, resB
<1>6. ASSUME NEW x \in ItemsUnder(n, R)
      PROVE  x \in ItemsUnder(n, listA) \cup ItemsUnder(n, listB)
  <2>1. PICK l \in Elements(R) : l.listName = n /\ x \in Elements(l.listItems)
    BY <1>1, UnderName
  <2>2. CASE l \in Unique(listA, listB)
    BY <1>4, <2>1, <2>2, UnderName
  <2>3. CASE l \in Unique(listB, listA)
    BY <1>4, <2>1, <2>3, UnderName
  <2>4. CASE l \in Elements(M)
    <3>1. PICK a \in Elements(resA) : Merges(l, a, CounterPart(a, resB))
      BY <1>2, <2>4
    <3>2. /\ a.listName = n /\ CounterPart(a, resB).listName = n
          /\ x \in Elements(a.listItems) \/ x \in Elements(CounterPart(a, resB).listItems)
      BY <1>3, <2>1, <3>1 DEF Merges
    <3> QED BY <1>3, <3>2, UnderName
  <2> QED BY <1>1, <2>2, <2>3, <2>4
<1>7. ASSUME NEW x \in ItemsUnder(n, listA)
      PROVE  \E y \in ItemsUnder(n, R) : y.itemName = x.itemName
  <2>1. PICK a \in Elements(listA) : a.listName = n /\ x \in Elements(a.listItems)
    BY UnderName
  <2>2. CASE a \in Unique(listA, listB)
    BY <1>1, <2>1, <2>2, UnderName
  <2>3. CASE a \in Elements(resA)
    <3>1. PICK l \in Elements(M) : Merges(l, a, CounterPart(a, resB))
      BY <1>2, <2>3
    <3>2. PICK y \in Elements(l.listItems) : y.itemName = x.itemName
      BY <2>1, <3>1 DEF Merges
    <3>3. l.listName = n /\ l \in Elements(R)
      BY <1>1, <2>1, <3>1 DEF Merges
    <3>4. y \in ItemsUnder(n, R)
      BY <1>1, <3>2, <3>3, UnderName
    <3> QED BY <3>2, <3>4
  <2> QED BY <1>5, <2>2, <2>3
<1>8. ItemNamesUnder(n, listA) \subseteq ItemNamesUnder(n, R)
  BY <1>7, Zenon DEF ItemNamesUnder
<1> QED BY <1>6, <1>8 DEF R

\* When the lists of an array differ in name, a name stands for one list.
LEMMA OneListPerName ==
    ASSUME NEW lists \in Seq(List), ListsDiffer(lists),
           NEW b \in Elements(lists), NEW c \in Elements(lists),
           SameName(b.listName, c.listName)
    PROVE  b = c
<1>1. PICK i \in 1..Len(lists) : b = lists[i]
  BY ElementAt
<1>2. PICK j \in 1..Len(lists) : c = lists[j]
  BY ElementAt
<1>3. i = j
  BY <1>1, <1>2 DEF ListsDiffer
<1> QED BY <1>1, <1>2, <1>3

\* When the lists of B differ in name, every item of B has a namesake, too:
\* the counterpart of a list of A is the only list of B with its name.
LEMMA CompareItemsOfB ==
    ASSUME NEW listA \in Seq(List), NEW listB \in Seq(List), NEW later, NEW n,
           ListsDiffer(listB)
    PROVE  ItemNamesUnder(n, listB) \subseteq
             ItemNamesUnder(n, compare(listA, listB, later))
<1> DEFINE R == compare(listA, listB, later)
           M == MergedLists(listA, listB, later)
           resA == Residual(listA, listB)
           resB == Residual(listB, listA)
<1>1. /\ R \in Seq(List)
      /\ Elements(R) = Unique(listA, listB) \cup Unique(listB, listA) \cup Elements(M)
  BY CompareElements
<1>2. \A a \in Elements(resA) : \E l \in Elements(M) :
            Merges(l, a, CounterPart(a, resB))
  BY MergedElements
<1>3. \A b \in Elements(listB) : b \in Unique(listB, listA) \/ b \in Elements(resB)
  BY UniqueOrResidual
<1>4. \A b \in Elements(resB) : \E a \in Elements(listA) : SameName(b.listName, a.listName)
  BY ResidualFacts
<1>5. \A a \in Elements(listA) :
         (\E b \in Elements(listB) : SameName(a.listName, b.listName)) => a \in Elements(resA)
  BY ResidualFacts
<1>6. \A a \in Elements(resA) :
         /\ CounterPart(a, resB) \in Elements(listB)
         /\ SameName(CounterPart(a, resB).listName, a.listName)
  BY CounterPartFacts
<1>7. \A b, c \in Elements(listB) : SameName(b.listName, c.listName) => b = c
  BY OneListPerName
<1> HIDE DEF R, M, resA, resB
<1>8. ASSUME NEW x \in ItemsUnder(n, listB)
      PROVE  \E y \in ItemsUnder(n, R) : y.itemName = x.itemName
  <2>1. PICK b \in Elements(listB) : b.listName = n /\ x \in Elements(b.listItems)
    BY UnderName
  <2>2. CASE b \in Unique(listB, listA)
    BY <1>1, <2>1, <2>2, UnderName
  <2>3. CASE b \in Elements(resB)
    <3>1. PICK a \in Elements(listA) : SameName(b.listName, a.listName)
      BY <1>4, <2>3
    <3>2. SameName(a.listName, b.listName)
      BY <3>1 DEF SameName
    <3>3. a \in Elements(resA)
      BY <1>5, <3>2
    <3>4. SameName(CounterPart(a, resB).listName, b.listName)
      BY <1>6, <3>2, <3>3 DEF SameName
    <3>5. CounterPart(a, resB) = b
      BY <1>6, <1>7, <3>3, <3>4
    <3>6. PICK l \in Elements(M) : Merges(l, a, b)
      BY <1>2, <3>3, <3>5
    <3>7. PICK y \in Elements(l.listItems) : y.itemName = x.itemName
      BY <2>1, <3>6 DEF Merges
    <3>8. l.listName = n /\ l \in Elements(R)
      BY <1>1, <2>1, <3>2, <3>6 DEF Merges, SameName
    <3>9. y \in ItemsUnder(n, R)
      BY <1>1, <3>7, <3>8, UnderName
    <3> QED BY <3>7, <3>9
  <2> QED BY <1>3, <2>2, <2>3
<1> QED BY <1>8, Zenon DEF ItemNamesUnder, R

\* The lists of an array that are kept differ if all of them do.
LEMMA KeptListsDiffer ==
    ASSUME NEW lists \in Seq(List), NEW K, ListsDiffer(lists)
    PROVE  ListsDiffer(Kept(lists, K))
<1> DEFINE k == Kept(lists, K)
<1>1. PICK g : KeptAt(lists, K, k, Len(lists), g)
  BY KeptPositions
<1>2. Len(k) \in Nat
  <2>1. k \in Seq(List \cap K)
    BY KeptType
  <2> HIDE DEF k
  <2> QED BY <2>1
<1> HIDE DEF k
<1>3. ASSUME NEW i \in 1..Len(k), NEW j \in 1..Len(k), i # j
      PROVE  ~ SameName(k[i].listName, k[j].listName)
  <2>1. g[i] \in 1..Len(lists) /\ g[j] \in 1..Len(lists)
    BY <1>1 DEF KeptAt
  <2>2. k[i] = lists[g[i]] /\ k[j] = lists[g[j]]
    BY <1>1 DEF KeptAt
  <2>3. i < j \/ j < i
    BY <1>2, <1>3
  <2>4. g[i] < g[j] \/ g[j] < g[i]
    BY <1>1, <2>3 DEF KeptAt
  <2>5. g[i] # g[j]
    BY <2>1, <2>4
  <2>6. ~ SameName(lists[g[i]].listName, lists[g[j]].listName)
    BY <2>1, <2>5 DEF ListsDiffer
  <2> QED BY <2>2, <2>6
<1>4. ListsDiffer(k)
  BY <1>3 DEF ListsDiffer
<1> QED BY <1>4 DEF k

\* Two arrays of lists whose names differ, within each and between the two.
LEMMA ConcatListsDiffer ==
    ASSUME NEW s \in Seq(List), NEW t \in Seq(List), ListsDiffer(s), ListsDiffer(t),
           \A x \in Elements(s), y \in Elements(t) : ~ SameName(x.listName, y.listName)
    PROVE  ListsDiffer(s \o t)
<1>1. PICK e : e = s \o t /\ e \in Seq(List) /\ ConcatOf(e, s, t)
  BY ConcatFacts, Zenon
<1>2. /\ Len(s) \in Nat /\ Len(t) \in Nat
      /\ \A i \in 1..Len(s) : s[i] \in Elements(s)
      /\ \A i \in 1..Len(t) : t[i] \in Elements(t)
  BY ElementAt
<1>3. /\ Len(e) = Len(s) + Len(t)
      /\ \A i \in 1..Len(s) : e[i] = s[i]
      /\ \A i \in 1..Len(t) : e[Len(s) + i] = t[i]
  BY <1>1 DEF ConcatOf
<1>4. ASSUME NEW i \in 1..Len(e), i \notin 1..Len(s)
      PROVE  i - Len(s) \in 1..Len(t) /\ e[i] = t[i - Len(s)]
  <2>1. i - Len(s) \in 1..Len(t) /\ Len(s) + (i - Len(s)) = i
    BY <1>2, <1>3, <1>4
  <2> QED BY <1>3, <2>1
<1>5. ASSUME NEW i \in 1..Len(e), NEW j \in 1..Len(e), i # j
      PROVE  ~ SameName(e[i].listName, e[j].listName)
  <2>1. CASE i \in 1..Len(s) /\ j \in 1..Len(s)
    BY <1>3, <1>5, <2>1 DEF ListsDiffer
  <2>2. CASE i \in 1..Len(s) /\ j \notin 1..Len(s)
    BY <1>2, <1>3, <1>4, <2>2
  <2>3. CASE i \notin 1..Len(s) /\ j \in 1..Len(s)
    <3>1. ~ SameName(e[j].listName, e[i].listName)
      BY <1>2, <1>3, <1>4, <2>3
    <3> QED BY <3>1 DEF SameName
  <2>4. CASE i \notin 1..Len(s) /\ j \notin 1..Len(s)
    <3>1. /\ i - Len(s) \in 1..Len(t) /\ j - Len(s) \in 1..Len(t)
          /\ e[i] = t[i - Len(s)] /\ e[j] = t[j - Len(s)]
      BY <1>4, <2>4
    <3>2. i - Len(s) # j - Len(s)
      BY <1>2, <1>3, <1>5
    <3> QED BY <3>1, <3>2 DEF ListsDiffer
  <2> QED BY <2>1, <2>2, <2>3, <2>4
<1>6. ListsDiffer(e)
  BY <1>5 DEF ListsDiffer
<1> QED BY <1>1, <1>6, Zenon

\* The result has distinct names of lists again.
LEMMA CompareListsDiffer ==
    ASSUME NEW listA \in Seq(List), NEW listB \in Seq(List), NEW later,
           ListsDiffer(listA), ListsDiffer(listB)
    PROVE  ListsDiffer(compare(listA, listB, later))
<1> DEFINE R == compare(listA, listB, later)
           M == MergedLists(listA, listB, later)
           resA == Residual(listA, listB)
           kA == Kept(listA, Unique(listA, listB))
           kB == Kept(listB, Unique(listB, listA))
<1>1. /\ M \in Seq(List) /\ Len(M) = Len(resA)
      /\ \A k \in 1..Len(resA) : M[k].listName = resA[k].listName
  BY MergedListAt
<1>2. ListsDiffer(kA) /\ ListsDiffer(kB) /\ ListsDiffer(resA)
  BY KeptListsDiffer DEF Residual
<1>3. /\ kA \in Seq(List) /\ Elements(kA) \subseteq Unique(listA, listB)
      /\ kB \in Seq(List) /\ Elements(kB) \subseteq Unique(listB, listA)
  <2>1. kA \in Seq(List \cap Unique(listA, listB))
    BY KeptType
  <2>2. kB \in Seq(List \cap Unique(listB, listA))
    BY KeptType
  <2> HIDE DEF kA, kB
  <2> QED BY <2>1, <2>2 DEF Elements
<1>4. /\ resA \in Seq(List)
      /\ \A a \in Elements(resA) :
            /\ a \in Elements(listA)
            /\ \E o \in Elements(listB) : SameName(a.listName, o.listName)
  BY ResidualFacts
<1>5. /\ \A a \in Unique(listA, listB) :
            /\ a \in Elements(listA)
            /\ \A o \in Elements(listB) : ~ SameName(a.listName, o.listName)
      /\ \A b \in Unique(listB, listA) :
            /\ b \in Elements(listB)
            /\ \A o \in Elements(listA) : ~ SameName(b.listName, o.listName)
  BY DEF Unique
<1>6. R = (kA \o kB) \o M
  BY DEF compare
<1> HIDE DEF R, M, resA, kA, kB
<1>7. ListsDiffer(M)
  BY <1>1, <1>2 DEF ListsDiffer
<1>8. \A l \in Elements(M) : \E a \in Elements(resA) : l.listName = a.listName
  <2> SUFFICES ASSUME NEW l \in Elements(M)
               PROVE  \E a \in Elements(resA) : l.listName = a.listName
    OBVIOUS
  <2>1. PICK k \in 1..Len(resA) : l = M[k]
    BY <1>1, ElementAt
  <2>2. resA[k] \in Elements(resA)
    BY <1>4, ElementAt
  <2> QED BY <1>1, <2>1, <2>2
<1>9. ListsDiffer(kA \o kB)
  <2>1. ASSUME NEW x \in Elements(kA), NEW y \in Elements(kB)
        PROVE  ~ SameName(x.listName, y.listName)
    BY <1>3, <1>5
  <2> QED BY <1>2, <1>3, <2>1, ConcatListsDiffer
<1>10. ListsDiffer(R)
  <2>1. PICK kAB \in Seq(List) :
          kAB = kA \o kB /\ Elements(kAB) = Elements(kA) \cup Elements(kB)
    <3>1. kA \o kB \in Seq(List) /\ Elements(kA \o kB) = Elements(kA) \cup Elements(kB)
      BY <1>3, ConcatFacts, ConcatElements
    <3> QED BY <3>1, Zenon
  <2>2. ListsDiffer(kAB)
    BY <1>9, <2>1, Zenon
  <2>3. ASSUME NEW x \in Elements(kAB), NEW y \in Elements(M)
        PROVE  ~ SameName(x.listName, y.listName)
    <3>1. PICK a \in Elements(resA) : y.listName = a.listName
      BY <1>8
    <3>2. CASE x \in Elements(kA)
      <4>1. x \in Elements(listA) /\ x # a
        BY <1>3, <1>4, <1>5, <3>2
      <4>2. ~ SameName(x.listName, a.listName)
        BY <1>4, <4>1, OneListPerName
      <4> QED BY <3>1, <4>2
    <3>3. CASE x \in Elements(kB)
      <4>1. ~ SameName(x.listName, a.listName)
        BY <1>3, <1>4, <1>5, <3>3
      <4> QED BY <3>1, <4>1
    <3> QED BY <2>1, <3>2, <3>3
  <2>4. ListsDiffer(kAB \o M)
    BY <1>1, <1>7, <2>2, <2>3, ConcatListsDiffer
  <2> QED BY <1>6, <2>1, <2>4, Zenon
<1> QED BY <1>10 DEF R

\* And so have the items of each list of it.
LEMMA CompareWellFormed ==
    ASSUME NEW listA \in Seq(List), NEW listB \in Seq(List), NEW later,
           WellFormed(listA), WellFormed(listB)
    PROVE  WellFormed(compare(listA, listB, later))
<1> DEFINE R == compare(listA, listB, later)
           M == MergedLists(listA, listB, later)
           resA == Residual(listA, listB)
           resB == Residual(listB, listA)
<1>1. /\ R \in Seq(List)
      /\ Elements(R) = Unique(listA, listB) \cup Unique(listB, listA) \cup Elements(M)
  BY CompareElements
<1>2. /\ M \in Seq(List) /\ Len(M) = Len(resA)
      /\ \A k \in 1..Len(resA) :
            \E lt : M[k].listItems =
               MergedItems(resA[k].listItems, CounterPart(resA[k], resB).listItems, lt)
  BY MergedListAt
<1>3. /\ ListsDiffer(listA) /\ ListsDiffer(listB)
      /\ \A a \in Elements(listA) : ItemsDiffer(a.listItems)
      /\ \A b \in Elements(listB) : ItemsDiffer(b.listItems)
  BY WellFormedLists, ElementAt
<1>4. ListsDiffer(R)
  BY <1>3, CompareListsDiffer
<1>5. /\ resA \in Seq(List)
      /\ \A a \in Elements(resA) : a \in Elements(listA)
  BY ResidualFacts
<1>6. \A a \in Elements(resA) :
         /\ CounterPart(a, resB) \in List
         /\ CounterPart(a, resB) \in Elements(listB)
  BY CounterPartFacts
<1>7. Unique(listA, listB) \subseteq Elements(listA) /\ Unique(listB, listA) \subseteq Elements(listB)
  BY DEF Unique
<1> HIDE DEF R, M, resA, resB
<1>8. ASSUME NEW l \in Elements(M) PROVE ItemsDiffer(l.listItems)
  <2>1. PICK k \in 1..Len(resA) : l = M[k]
    BY <1>2, ElementAt
  <2>2. resA[k] \in List /\ resA[k] \in Elements(resA)
    BY <1>5, ElementAt
  <2> DEFINE a == resA[k]
             b == CounterPart(a, resB)
  <2>3. b \in List /\ b \in Elements(listB)
    BY <1>6, <2>2
  <2>4. PICK lt : l.listItems = MergedItems(a.listItems, b.listItems, lt)
    BY <1>2, <2>1
  <2>5. ItemsDiffer(a.listItems) /\ ItemsDiffer(b.listItems)
    BY <1>3, <1>5, <2>2, <2>3
  <2> HIDE DEF b
  <2>6. a.listItems \in Seq(Item) /\ b.listItems \in Seq(Item)
    BY <2>2, <2>3 DEF List
  <2> QED BY <2>4, <2>5, <2>6, MergedItemsDiffer
<1>9. ASSUME NEW i \in 1..Len(R) PROVE ItemsDiffer(R[i].listItems)
  <2>1. R[i] \in Elements(R)
    BY <1>1, ElementAt
  <2> QED BY <1>1, <1>3, <1>7, <1>8, <2>1
<1> QED BY <1>1, <1>4, <1>9, WellFormedLists DEF R

=============================================================================

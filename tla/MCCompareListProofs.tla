------------------------ MODULE MCCompareListProofs -------------------------
(***************************************************************************)
(* The two properties of compare:and:, for arrays of every length over     *)
(* every set of names, whatever the NSDate pointers compare to.            *)
(***************************************************************************)
EXTENDS MCCompareList, CompareListProofs

\* The arguments are arrays of lists, and what was returned is their merge.
CallInv ==
    /\ listA \in Seq(List) /\ listB \in Seq(List)
    /\ Called => \E later : result = compare(listA, listB, later)

\* An array of at most n elements of S is an array of elements of S.
LEMMA BoundedArrays ==
    ASSUME NEW S, NEW n \in Nat
    PROVE  BoundedSeq(S, n) \subseteq Seq(S)
<1> SUFFICES ASSUME NEW s \in BoundedSeq(S, n) PROVE s \in Seq(S)
  OBVIOUS
<1>1. PICK m \in 0..n : s \in [1..m -> S]
  BY Zenon DEF BoundedSeq, SeqOf
<1>2. m \in Nat
  OBVIOUS
<1> QED BY <1>1, <1>2

\* What compare:and: is called with.
LEMMA InputsAreLists ==
    ASSUME NEW purchased \in BOOLEAN
    PROVE  Inputs(purchased) \subseteq Seq(List)
<1> DEFINE items == [itemName : ItemNames \cup {Nil}, itemPuchased : {purchased}]
           lists == [listName : ListNames \cup {Nil}, listOwner : {Nil}, mine : {FALSE},
                     copy : {0}, twins : {{}}, listItems : BoundedSeq(items, MaxItems)]
<1>1. items \subseteq Item
  BY DEF Item
<1>2. BoundedSeq(items, MaxItems) \subseteq Seq(Item)
  <2> HIDE DEF items
  <2>1. BoundedSeq(items, MaxItems) \subseteq Seq(items)
    BY LengthsAssumption, BoundedArrays
  <2>2. \A s \in Seq(items) : s \in Seq(Item)
    BY <1>1
  <2> QED BY <2>1, <2>2
<1> HIDE DEF items
<1>3. lists \subseteq List
  <2> DEFINE arrays == BoundedSeq(items, MaxItems)
  <2> HIDE DEF arrays
  <2>1. arrays \subseteq Seq(Item)
    BY <1>2 DEF arrays
  <2>2. [listName : ListNames \cup {Nil}, listOwner : {Nil}, mine : {FALSE}, copy : {0},
         twins : {{}}, listItems : arrays] \subseteq List
    <3> SUFFICES ASSUME NEW l \in [listName : ListNames \cup {Nil}, listOwner : {Nil},
                                   mine : {FALSE}, copy : {0}, twins : {{}},
                                   listItems : arrays]
                 PROVE  l \in List
      OBVIOUS
    <3>1. l.listItems \in Seq(Item)
      BY <2>1
    <3>2. /\ l.listName \in ListNames \cup {Nil} /\ l.listOwner \in Uids \cup {Nil}
          /\ l.mine \in BOOLEAN /\ l.copy \in Nat /\ l.twins \in SUBSET ItemNames
      <4>1. l.listName \in ListNames \cup {Nil} /\ l.listOwner = Nil /\ l.copy = 0 /\ l.twins = {}
        OBVIOUS
      <4>2. l.mine \in {FALSE}
        BY Zenon
      <4>3. l.mine \in BOOLEAN
        BY <4>2, Zenon
      <4> QED BY <4>1, <4>3
    <3>3. l = [listName |-> l.listName, listOwner |-> l.listOwner, mine |-> l.mine,
               copy |-> l.copy, twins |-> l.twins, listItems |-> l.listItems]
      OBVIOUS
    <3> DEFINE owners == Uids \cup {Nil}
               names == SUBSET ItemNames
               arrs == Seq(Item)
    <3> HIDE DEF owners, names, arrs
    <3>4. l \in [listName : ListNames \cup {Nil}, listOwner : owners, mine : BOOLEAN,
                 copy : Nat, twins : names, listItems : arrs]
      BY <3>1, <3>2, <3>3 DEF owners, names, arrs
    <3> QED BY <3>4 DEF List, owners, names, arrs
  <2> QED BY <2>2 DEF arrays
<1> HIDE DEF lists
<1>4. BoundedSeq(lists, MaxLists) \subseteq Seq(lists)
  BY LengthsAssumption, BoundedArrays
<1>5. \A s \in Seq(lists) : s \in Seq(List)
  BY <1>3
<1>6. Inputs(purchased) \subseteq BoundedSeq(lists, MaxLists)
  BY DEF Inputs, lists, items
<1> QED BY <1>4, <1>5, <1>6

\* CallInv holds before and after the call.
LEMMA CallInvariant == Spec => []CallInv
<1>1. Init => CallInv
  <2> SUFFICES ASSUME Init PROVE CallInv
    OBVIOUS
  <2>1. Inputs(FALSE) \subseteq Seq(List)
    BY InputsAreLists
  <2>2. Inputs(TRUE) \subseteq Seq(List)
    BY InputsAreLists
  <2> QED BY <2>1, <2>2 DEF Init, CallInv, Called
<1>2. CallInv /\ [Call]_vars => CallInv'
  <2> SUFFICES ASSUME CallInv, [Call]_vars PROVE CallInv'
    OBVIOUS
  <2>1. CASE Call
    <3>1. listA' = listA /\ listB' = listB
      BY <2>1 DEF Call
    <3>2. \E later : result' = compare(listA, listB, later)
      BY <2>1 DEF Call
    <3> QED BY <3>1, <3>2 DEF CallInv
  <2>2. CASE UNCHANGED vars
    BY <2>2 DEF vars, CallInv, Called
  <2> QED BY <2>1, <2>2
<1> QED BY <1>1, <1>2, PTL DEF Spec

-----------------------------------------------------------------------------
(***************************************************************************)
(* Whatever names compare:and: is given, equal or absent: the list names   *)
(* of both arguments are in the result, an item of the cloud's side is     *)
(* there under its list's name (or an item of the disk's with its name),   *)
(* and no item changes its list.                                           *)
(***************************************************************************)
THEOREM CloudSideNeverLost == Spec => []CloudSideSurvives
<1>1. CallInv => CloudSideSurvives
  <2> SUFFICES ASSUME CallInv, Called PROVE CloudSideSurvives
    BY DEF CloudSideSurvives
  <2>1. PICK later : result = compare(listA, listB, later)
    BY DEF CallInv
  <2>2. listA \in Seq(List) /\ listB \in Seq(List)
    BY DEF CallInv
  <2>3. Names(result) = Names(listA) \cup Names(listB)
    BY <2>1, <2>2, CompareNames
  <2>4. \A n : /\ ItemsUnder(n, result) \subseteq ItemsUnder(n, listA) \cup ItemsUnder(n, listB)
               /\ ItemNamesUnder(n, listA) \subseteq ItemNamesUnder(n, result)
    BY <2>1, <2>2, CompareItems
  <2> QED BY <2>3, <2>4 DEF CloudSideSurvives
<1> QED BY <1>1, CallInvariant, PTL

(***************************************************************************)
(* When each side names its lists, and the items of each list, differently *)
(* compare:and: returns their merge by name, in which names differ again:  *)
(* nothing is lost, invented or duplicated, whichever of two items with    *)
(* one name the comparison of the NSDate pointers picks.                   *)
(***************************************************************************)
THEOREM DistinctNamesMergeByName == Spec => []DistinctNamesMerge
<1>1. CallInv => DistinctNamesMerge
  <2> SUFFICES ASSUME CallInv, Called, WellFormed(listA), WellFormed(listB)
               PROVE  WellFormed(result) /\ MergeByName(result, listA, listB)
    BY DEF DistinctNamesMerge
  <2>1. PICK later : result = compare(listA, listB, later)
    BY DEF CallInv
  <2>2. listA \in Seq(List) /\ listB \in Seq(List)
    BY DEF CallInv
  <2>3. WellFormed(result)
    BY <2>1, <2>2, CompareWellFormed
  <2>4. Names(result) = Names(listA) \cup Names(listB)
    BY <2>1, <2>2, CompareNames
  <2>5. \A n : /\ ItemsUnder(n, result) \subseteq ItemsUnder(n, listA) \cup ItemsUnder(n, listB)
               /\ ItemNamesUnder(n, listA) \subseteq ItemNamesUnder(n, result)
    BY <2>1, <2>2, CompareItems
  <2>6. ListsDiffer(listB)
    BY <2>2, WellFormedLists
  <2>7. \A n : ItemNamesUnder(n, listB) \subseteq ItemNamesUnder(n, result)
    BY <2>1, <2>2, <2>6, CompareItemsOfB
  <2>8. \A n : ItemNamesUnder(n, result) \subseteq
                 ItemNamesUnder(n, listA) \cup ItemNamesUnder(n, listB)
    BY <2>5, Zenon DEF ItemNamesUnder
  <2>9. ASSUME NEW n
        PROVE  ItemNamesUnder(n, result) =
                 ItemNamesUnder(n, listA) \cup ItemNamesUnder(n, listB)
    BY <2>5, <2>7, <2>8
  <2> QED BY <2>3, <2>4, <2>5, <2>9 DEF MergeByName
<1> QED BY <1>1, CallInvariant, PTL

=============================================================================

---------------------------- MODULE CompareList -----------------------------
(***************************************************************************)
(* CompareList.compare:and:, the merge of the lists read from the cloud    *)
(* (listA) with the lists read from the disk (listB).                      *)
(*                                                                         *)
(* Lists are matched by name, and so are items within two matched lists.   *)
(* isEqualToString: sent to, or given, nil answers NO, so what has no name *)
(* matches nothing.  Of two matched items the code keeps listA's when      *)
(*     readTimeAnyItem > readTimeCounterItem                               *)
(* which compares two NSDate pointers: the answer does not depend on the   *)
(* times, so it is a parameter here.  later holds, for the k-th list of A  *)
(* that has a counterpart, the elements <<k, <<i, j>>>>: the i-th item of  *)
(* that list and the j-th of its counterpart happened to compare as true.  *)
(***************************************************************************)
EXTENDS ShopingTypes, SequencesExt

SameName(x, y) == x # Nil /\ x = y

\* The lists of one array that have no namesake in the other.
Unique(lists, others) ==
    {l \in Elements(lists) :
        \A o \in Elements(others) : ~ SameName(l.listName, o.listName)}

\* What is left of an array once its unique lists are removed from it.
Residual(lists, others) ==
    Kept(lists, Elements(lists) \ Unique(lists, others))

\* The first list of B with a's name.
CounterPart(a, listB) ==
    LET same == {j \in DOMAIN listB : SameName(listB[j].listName, a.listName)}
    IN  listB[CHOOSE j \in same : \A h \in same : j <= h]

\* The positions in B's items of the namesakes of an item.
Namesakes(it, itemsB) ==
    Kept([j \in DOMAIN itemsB |-> j],
         {j \in DOMAIN itemsB : SameName(it.itemName, itemsB[j].itemName)})

\* Mutant: without the branch thisItemWasFound == false.
ChosenIfFound(i, itemsA, itemsB, later) ==
    LET js == Namesakes(itemsA[i], itemsB)
    IN  [n \in DOMAIN js |-> IF <<i, js[n]>> \in later THEN itemsA[i]
                                                      ELSE itemsB[js[n]]]

\* What the i-th item of A contributes: itself, or one item per namesake.
Chosen(i, itemsA, itemsB, later) ==
    LET js == Namesakes(itemsA[i], itemsB)
    IN  IF js = << >> THEN <<itemsA[i]>>
        ELSE [n \in DOMAIN js |-> IF <<i, js[n]>> \in later THEN itemsA[i]
                                                            ELSE itemsB[js[n]]]

\* Mutant: without the test thisItemIsAreadyAdded.
AllOfB(itemsA, itemsB) == itemsB

\* The items of B that no item of A is named like.
OnlyInB(itemsA, itemsB) ==
    Kept(itemsB, {it \in Elements(itemsB) :
                     \A x \in Elements(itemsA) : ~ SameName(it.itemName, x.itemName)})

\* thisListResultItems.
MergedItems(itemsA, itemsB, later) ==
    FlattenSeq([i \in DOMAIN itemsA |-> Chosen(i, itemsA, itemsB, later)])
        \o OnlyInB(itemsA, itemsB)

\* The items of A that are put on the rows of two or more namesakes.
Doubled(itemsA, itemsB, later) ==
    {itemsA[i].itemName : i \in {h \in DOMAIN itemsA :
        \E j, g \in Elements(Namesakes(itemsA[h], itemsB)) :
            j # g /\ {<<h, j>>, <<h, g>>} \subseteq later}}

\* The merge of each list of A that has a counterpart, under A's owner.
MergedLists(listA, listB, later) ==
    LET resA == Residual(listA, listB)
        resB == Residual(listB, listA)
    IN  [k \in DOMAIN resA |->
            LET b == CounterPart(resA[k], resB)
                laterK == {t[2] : t \in {u \in later : u[1] = k}}
            IN  [resA[k] EXCEPT
                   !.listItems = MergedItems(@, b.listItems, laterK),
                   !.twins = @ \cup b.twins
                               \cup Doubled(resA[k].listItems, b.listItems, laterK)]]

compare(listA, listB, later) ==
    Kept(listA, Unique(listA, listB)) \o Kept(listB, Unique(listB, listA))
        \o MergedLists(listA, listB, later)

\* The comparisons of NSDate pointers whose answer makes a difference: in the
\* item, or in how often A's is put into the result.
TiedItems(itemsA, itemsB) ==
    {p \in (DOMAIN itemsA) \X (DOMAIN itemsB) :
        /\ SameName(itemsA[p[1]].itemName, itemsB[p[2]].itemName)
        /\ \/ itemsA[p[1]] # itemsB[p[2]]
           \/ Len(Namesakes(itemsA[p[1]], itemsB)) > 1}

Ties(listA, listB) ==
    LET resA == Residual(listA, listB)
        resB == Residual(listB, listA)
    IN  UNION {{k} \X TiedItems(resA[k].listItems,
                                CounterPart(resA[k], resB).listItems)
                 : k \in DOMAIN resA}

-----------------------------------------------------------------------------
(***************************************************************************)
(* The reference: what a merge of two sets of lists by name should be.  A  *)
(* set of lists whose names differ is a function from names to sets of     *)
(* items; the merge of two has the names of both and, under each name, one *)
(* item for each item name either side has there, taken from a side that   *)
(* has it.                                                                 *)
(***************************************************************************)
Names(lists) == {lists[i].listName : i \in DOMAIN lists}

Distinct(names) == \A i, j \in DOMAIN names : i # j => ~ SameName(names[i], names[j])

\* The lists of an array differ in name, and so do the items of each of them.
WellFormed(lists) ==
    /\ Distinct([i \in DOMAIN lists |-> lists[i].listName])
    /\ \A i \in DOMAIN lists :
          LET items == lists[i].listItems
          IN  Distinct([k \in DOMAIN items |-> items[k].itemName])

\* All items that some list named n of the array has.
ItemsUnder(n, lists) ==
    UNION {Elements(lists[i].listItems) :
              i \in {j \in DOMAIN lists : lists[j].listName = n}}

ItemNamesUnder(n, lists) == {it.itemName : it \in ItemsUnder(n, lists)}

MergeByName(result, listA, listB) ==
    /\ Names(result) = Names(listA) \cup Names(listB)
    /\ \A n \in Names(result) :
          /\ ItemsUnder(n, result) \subseteq
                ItemsUnder(n, listA) \cup ItemsUnder(n, listB)
          /\ ItemNamesUnder(n, result) =
                ItemNamesUnder(n, listA) \cup ItemNamesUnder(n, listB)

=============================================================================

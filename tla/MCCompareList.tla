--------------------------- MODULE MCCompareList ----------------------------
(***************************************************************************)
(* One call of compare:and: on every pair of small arrays of lists.  The   *)
(* items of A are not purchased and those of B are, so that the result     *)
(* shows which side each item was taken from.  Lists and items of both     *)
(* sides may lack names: SaveItemToCloud makes such items in the cloud     *)
(* (A), and the merge of a user who has just signed out archives them (B). *)
(***************************************************************************)
EXTENDS CompareList

CONSTANTS
    MaxLists,   \* bound: the lists of one array
    MaxItems,   \* bound: the items of one list
    MaxTotal    \* bound: the items of one array

ASSUME LengthsAssumption == MaxLists \in Nat /\ MaxItems \in Nat /\ MaxTotal \in Nat

VARIABLES listA, listB, result

vars == <<listA, listB, result>>

Inputs(purchased) ==
    LET items == [itemName : ItemNames \cup {Nil}, itemPuchased : {purchased}]
        lists == [listName : ListNames \cup {Nil}, listOwner : {Nil}, mine : {FALSE}, copy : {0},
                  twins : {{}}, listItems : BoundedSeq(items, MaxItems)]
    IN  {lst \in BoundedSeq(lists, MaxLists) :
            Len(FlattenSeq([i \in DOMAIN lst |-> lst[i].listItems])) <= MaxTotal}

Init ==
    /\ listA \in Inputs(FALSE)
    /\ listB \in Inputs(TRUE)
    /\ result = Nil

Call ==
    /\ result = Nil
    /\ \E later \in SUBSET Ties(listA, listB) :
          result' = compare(listA, listB, later)
    /\ UNCHANGED <<listA, listB>>

Spec == Init /\ [][Call]_vars

Called == result # Nil

-----------------------------------------------------------------------------
(***************************************************************************)
(* Whatever the NSDate pointers compare to: when names are distinct on     *)
(* both sides the result is a merge by name with distinct names again, so  *)
(* that no list and no item is lost, invented or duplicated by a merge, or *)
(* by a sequence of them.                                                  *)
(***************************************************************************)
DistinctNamesMerge ==
    Called /\ WellFormed(listA) /\ WellFormed(listB) =>
        WellFormed(result) /\ MergeByName(result, listA, listB)

(***************************************************************************)
(* Without any assumption on the names: every list name and every item of  *)
(* A survives under its name (itself, or a namesake of B), and nothing     *)
(* moves from one list to another.  (Of several lists of B with one name   *)
(* only the first is merged, so the same cannot be said of B.)             *)
(***************************************************************************)
CloudSideSurvives ==
    Called =>
        /\ Names(result) = Names(listA) \cup Names(listB)
        /\ \A n \in Names(result) :
              /\ ItemNamesUnder(n, listA) \subseteq ItemNamesUnder(n, result)
              /\ ItemsUnder(n, result) \subseteq
                    ItemsUnder(n, listA) \cup ItemsUnder(n, listB)

=============================================================================

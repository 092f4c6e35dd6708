---------------------------- MODULE DurableLists ----------------------------
(***************************************************************************)
(* What the app promises its user as long as the cloud is not involved:    *)
(* the lists are a document that only the user's own taps change, one list *)
(* or one item at a time.  There are no processes here: killing the app    *)
(* and starting it again are no steps of this specification, so an         *)
(* implementation may neither lose nor change anything by them, and the    *)
(* sample list is given once and never comes back.                         *)
(***************************************************************************)
EXTENDS ShopingTypes

VARIABLE lists   \* the contents of the lists, Nil before the first one exists

Init == lists = Nil

\* The first run gives the user the sample list.
Seed ==
    /\ lists = Nil
    /\ lists' = Contents(<<SampleList(defUid)>>)

\* A first run that was interrupted leaves the user with no list at all.
SeedNothing == lists = Nil /\ lists' = << >>

AddList(n) == lists' = Append(lists, [listName |-> n, listItems |-> << >>])

RemoveList(i) == lists' = Without(lists, i)

AddItem(i, n) == lists' = [lists EXCEPT ![i].listItems = Append(@, NewItem(n))]

ToggleItem(i, r) ==
    lists' = [lists EXCEPT ![i].listItems[r].itemPuchased = ~ @]

RemoveItem(i, r) == lists' = [lists EXCEPT ![i].listItems = Without(@, r)]

Tap ==
    \/ \E n \in ListNames : AddList(n)
    \/ \E i \in DOMAIN lists :
          \/ RemoveList(i)
          \/ \E n \in ItemNames : AddItem(i, n)
          \/ \E r \in DOMAIN lists[i].listItems : ToggleItem(i, r) \/ RemoveItem(i, r)

Next == Seed \/ SeedNothing \/ (lists # Nil /\ Tap)

Spec == Init /\ [][Next]_lists

=============================================================================

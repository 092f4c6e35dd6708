------------------------------- MODULE Cloud --------------------------------
(***************************************************************************)
(* The Data node of the Firebase database and the classes that write and   *)
(* read it.  Data/<uid>/<listName> is a list: its listName, its listUser,  *)
(* and under listItems one node per item, keyed by the item's name.        *)
(*                                                                         *)
(* A node only exists as long as something is below it.  Two writers with  *)
(* different ideas of an item meet here: SaveListOnCloud stores its name   *)
(* under the key "item Name", SaveItemToCloud under the key "Item name",   *)
(* and ReadDataFromCloud only knows the first.  listUser is left out: the  *)
(* merge gives every list it read a new owner before anything looks at it. *)
(*                                                                         *)
(* The database itself is external code (Pods/FirebaseDatabase), modelled  *)
(* from how the app uses it: setValue: takes effect in the app at once and *)
(* on the server later, in the order of the calls; persistence is not      *)
(* enabled, so a write that has not left dies with the process.  The       *)
(* server's access rules are not part of the repository: it accepts all.   *)
(***************************************************************************)
EXTENDS ShopingTypes, SequencesExt

\* Names are keys of the database, which are at most 768 bytes long.
ASSUME KeysAssumption == IsFiniteSet(ListNames) /\ IsFiniteSet(ItemNames)

ItemNode == [itemNameKey : BOOLEAN, purchased : BOOLEAN]

ListNode == [listNameKey : BOOLEAN,
             listItems   : [ItemNames -> ItemNode \cup {Nil}]]

\* An absent node is no node.
ASSUME NilIsNoNode == Nil \notin ListNode \cup ItemNode

NoItems == [n \in ItemNames |-> Nil]

NoLists == [n \in ListNames |-> Nil]

\* The Data node: below each uid a node per list.
DataNode == [Uids -> [ListNames -> ListNode \cup {Nil}]]

\* One write: a node for a list, or for one item of it; Nil removes the node.
ListWrite == [uid : Uids, list : ListNames, item : {Nil}, node : ListNode \cup {Nil}]

ItemWrite == [uid : Uids, list : ListNames, item : ItemNames, node : ItemNode \cup {Nil}]

Write == ListWrite \cup ItemWrite

\* A list node without anything below it does not exist.
Pruned(node) ==
    IF ~ node.listNameKey /\ node.listItems = NoItems THEN Nil ELSE node

ListNodeOrEmpty(node) ==
    IF node = Nil THEN [listNameKey |-> FALSE, listItems |-> NoItems] ELSE node

\* The server's data after a write.
Apply(data, w) ==
    [data EXCEPT ![w.uid][w.list] =
        IF w.item = Nil THEN w.node
        ELSE Pruned([ListNodeOrEmpty(@) EXCEPT !.listItems[w.item] = w.node])]

ApplyAll(data, ws) ==
    LET after[i \in 0..Len(ws)] ==
            IF i = 0 THEN data ELSE Apply(after[i - 1], ws[i])
    IN  after[Len(ws)]

-----------------------------------------------------------------------------
(* The writers, for a list and an item that have names.                    *)

\* SaveListOnCloud: of two items with one name the later is stored.
SaveListOnCloud(uid, l) ==
    LET items == l.listItems
        named(n) == {i \in DOMAIN items : items[i].itemName = n}
        last(n) == CHOOSE i \in named(n) : \A j \in named(n) : j <= i
    IN  [uid |-> uid, list |-> l.listName, item |-> Nil,
         node |-> [listNameKey |-> TRUE,
                   listItems |->
                      [n \in ItemNames |->
                         IF named(n) = {} THEN Nil
                         ELSE [itemNameKey |-> TRUE,
                               purchased |-> items[last(n)].itemPuchased]]]]

\* SaveItemToCloud, under the list's owner.
SaveItemToCloud(it, l) ==
    [uid |-> l.listOwner, list |-> l.listName, item |-> it.itemName,
     node |-> [itemNameKey |-> FALSE, purchased |-> it.itemPuchased]]

\* DeleteListFromCloud, under the list's owner.
DeleteListFromCloud(l) ==
    [uid |-> l.listOwner, list |-> l.listName, item |-> Nil, node |-> Nil]

\* DeleteItemFromCloud, under the current user.
DeleteItemFromCloud(uid, it, l) ==
    [uid |-> uid, list |-> l.listName, item |-> it.itemName, node |-> Nil]

-----------------------------------------------------------------------------
(* The reader.                                                             *)

\* What is read without its key has no name.
ReadItem(n, node) ==
    [itemName |-> IF node.itemNameKey THEN n ELSE Nil,
     itemPuchased |-> node.purchased]

ReadList(n, node, itemOrder) ==
    [listName |-> IF node.listNameKey THEN n ELSE Nil,
     listOwner |-> Nil,
     mine |-> FALSE,
     copy |-> 0,
     twins |-> {},
     listItems |-> [i \in DOMAIN itemOrder |->
                       ReadItem(itemOrder[i], node.listItems[itemOrder[i]])]]

\* The children of a node.
Present(node) == {n \in DOMAIN node : node[n] # Nil}

\* The arrays ReadDataFromCloud may make of the lists under one uid: allValues
\* returns the values of a dictionary in any order.
ReadDataFromCloud(lists) ==
    LET names == Present(lists)
        itemOrders(n) == SetToSeqs(Present(lists[n].listItems))
        allOrders == {f \in [names -> UNION {itemOrders(n) : n \in names}] :
                        \A n \in names : f[n] \in itemOrders(n)}
    IN  {[i \in DOMAIN order |->
            ReadList(order[i], lists[order[i]], items[order[i]])] :
            order \in SetToSeqs(names), items \in allOrders}

=============================================================================

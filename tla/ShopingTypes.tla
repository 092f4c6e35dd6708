---------------------------- MODULE ShopingTypes ----------------------------
(***************************************************************************)
(* The values the shopping list app handles: items, lists and users.       *)
(*                                                                         *)
(* A user is represented by its uid: the name and the e-mail travel with   *)
(* it and decide nothing here.  An item's time is left out as well: the    *)
(* only code that reads it, CompareList, compares the two NSDate POINTERS, *)
(* whose order does not depend on the times (see CompareList.tla; what is  *)
(* written as time is the subject of DateAndTime.tla).                     *)
(*                                                                         *)
(* Two places of the program compare uids with == instead of               *)
(* isEqualToString:.  What == sees is whether two NSString pointers are    *)
(* the same object.  The field  mine  of a list says whether the uid held  *)
(* by its owner is the very object held by AppData.curUser: it is TRUE for *)
(* a list created for (or re-assigned to) the current UserClass object,    *)
(* and FALSE once list and user have been decoded from different archives. *)
(*                                                                         *)
(* A list FetchInvitationList made (Sharing.tla) may be in curLST more     *)
(* than once and in invitationLST as well.  copy is the number of such an  *)
(* object, and 0 for every other list: rows with one copy # 0 are the same *)
(* object, and change together.                                            *)
(*                                                                         *)
(* Likewise a merge may put one ItemClass object on several rows of a list *)
(* (CompareList.tla), and the archive keeps it one object.  twins are the  *)
(* names of the items this may have happened to; which of the equal rows   *)
(* of such a name are the same object is left open.                        *)
(***************************************************************************)
EXTENDS Arrays

CONSTANTS
    ListNames,   \* names a list can have
    ItemNames,   \* names an item can have
    Accounts,    \* uids Firebase Auth gives out
    defUid,      \* the uid of the user made on the first run
    sampleList,  \* "Sample List ", the list made on the first run
    testItem,    \* "test item", its only item
    Nil          \* nil, an absent file, an absent node

ASSUME NamesAssumption == sampleList \in ListNames /\ testItem \in ItemNames
ASSUME UidAssumption == defUid \notin Accounts
ASSUME NilAssumption ==
    Nil \notin ListNames \cup ItemNames \cup Accounts \cup {defUid}

Uids == Accounts \cup {defUid}

Item == [itemName : ItemNames \cup {Nil}, itemPuchased : BOOLEAN]

List == [listName  : ListNames \cup {Nil},
         listOwner : Uids \cup {Nil},
         mine      : BOOLEAN,
         copy      : Nat,
         twins     : SUBSET ItemNames,
         listItems : Seq(Item)]

\* nil is not an array.
ASSUME NilIsNoArray == Nil \notin Seq(List)

NewItem(n) == [itemName |-> n, itemPuchased |-> FALSE]

\* A list made for the current user: its owner IS the curUser object.
NewList(n, uid, items) ==
    [listName |-> n, listOwner |-> uid, mine |-> TRUE, copy |-> 0, twins |-> {},
     listItems |-> items]

\* PrepareFirstLists: one list with one item, owned by the current user.
SampleList(uid) == NewList(sampleList, uid, <<NewItem(testItem)>>)

\* Mutant: two decoded strings are never the same object.
SameUidObject(l, uid) == l.mine

(***************************************************************************)
(* curUser.uid == list.listOwner.uid.  The pointers agree when the objects *)
(* are the same, and also when both are decoded copies of a string short   *)
(* enough for a tagged pointer: "defUid" is, the 28 characters of a        *)
(* Firebase uid are not.                                                   *)
(***************************************************************************)
SameUid(l, uid) == l.mine \/ (l.listOwner = uid /\ uid = defUid)

\* The array a nil-able property stands for: messages to nil answer 0 / nil.
Rows(lst) == IF lst = Nil THEN << >> ELSE lst

\* NSKeyedArchiver: what comes back from the file are new objects.
Archive(lst) == [i \in DOMAIN lst |-> [lst[i] EXCEPT !.mine = FALSE, !.copy = 0]]

\* removeObject: takes the list of row i off every row it has.
RemoveObject(lst, i) ==
    IF lst[i].copy = 0 THEN Without(lst, i)
    ELSE Kept(lst, {l \in Elements(lst) : l.copy # lst[i].copy})

\* The list of row i holds these items: a change seen in every row it has.
WithItems(lst, i, items) ==
    [j \in DOMAIN lst |->
        IF j = i \/ (lst[i].copy # 0 /\ lst[j].copy = lst[i].copy)
        THEN [lst[j] EXCEPT !.listItems = items] ELSE lst[j]]

\* The rows that may show the very item row r of the list shows.
ItemRows(l, r) ==
    {k \in DOMAIN l.listItems :
        \/ k = r
        \/ l.listItems[k] = l.listItems[r] /\ l.listItems[r].itemName \in l.twins}

\* Mutant: WriteDataToDisk without its test.
AllLists(lst, uid) == Rows(lst)

\* The loop of WriteDataToDisk: the lists whose owner is the current user.
OwnLists(lst, uid) == Kept(Rows(lst), {l \in Elements(Rows(lst)) : SameUid(l, uid)})

\* What a list is to its reader: its name and its items.
Content(l) == [listName |-> l.listName, listItems |-> l.listItems]

\* nil is not an array of these either.
Document == [listName : ListNames \cup {Nil}, listItems : Seq(Item)]
ASSUME NilIsNoDocument == Nil \notin Seq(Document)

Contents(lst) == [i \in DOMAIN Rows(lst) |-> Content(Rows(lst)[i])]

=============================================================================

-------------------------- MODULE LocalStoreProofs --------------------------
(***************************************************************************)
(* The offline app, for every set of names and every bound: LocalInv is an *)
(* invariant, and with it the type invariant, DiskMatchesScreen and        *)
(* NeverRaises.                                                            *)
(***************************************************************************)
EXTENDS LocalStore, ArraysProofs

-----------------------------------------------------------------------------
(* What WriteData writes when the lists are the default user's.            *)

\* An array of the default user's lists is an array of lists, and not nil.
LEMMA DefListsArray ==
    ASSUME NEW lst \in Seq(DefLists)
    PROVE  lst \in Seq(List) /\ lst # Nil /\ Rows(lst) = lst
<1>1. DefLists \subseteq List
  BY DEF DefLists
<1>2. lst \in Seq(List)
  BY <1>1
<1>3. lst # Nil
  BY <1>2, NilIsNoArray
<1> QED BY <1>2, <1>3 DEF Rows

\* The pointer test of WriteData accepts all of them.
LEMMA OwnListsAll ==
    ASSUME NEW lst \in Seq(DefLists)
    PROVE  OwnLists(lst, defUid) = lst
<1> DEFINE K == {l \in Elements(lst) : SameUid(l, defUid)}
<1>1. \A l \in DefLists : SameUid(l, defUid)
  BY DEF DefLists, SameUid
<1>2. \A l \in Elements(lst) : l \in DefLists
  BY DEF Elements
<1>3. Elements(lst) \subseteq K
  BY <1>1, <1>2
<1> HIDE DEF K
<1>4. Kept(lst, K) = lst
  BY <1>3, KeptAll
<1> QED BY <1>4, DefListsArray DEF OwnLists, K

\* A list's content does not depend on which object its owner is.
LEMMA ArchivedList ==
    ASSUME NEW l \in DefLists
    PROVE  /\ [l EXCEPT !.mine = FALSE, !.copy = 0] \in DefLists
           /\ Content([l EXCEPT !.mine = FALSE, !.copy = 0]) = Content(l)
BY DEF DefLists, List, Displayable, Content

\* The archive holds the same lists, decoded into new objects.
LEMMA ArchiveFacts ==
    ASSUME NEW lst \in Seq(DefLists)
    PROVE  /\ Archive(lst) \in Seq(DefLists)
           /\ Contents(Archive(lst)) = Contents(lst)
           /\ Len(Archive(lst)) = Len(lst)
<1>1. /\ Archive(lst) = [i \in 1..Len(lst) |-> [lst[i] EXCEPT !.mine = FALSE, !.copy = 0]]
  BY DEF Archive
<1>2. \A i \in 1..Len(lst) : lst[i] \in DefLists
  OBVIOUS
<1>3. \A i \in 1..Len(lst) : Archive(lst)[i] \in DefLists
  BY <1>1, <1>2, ArchivedList
<1>4. Archive(lst) \in Seq(DefLists) /\ Len(Archive(lst)) = Len(lst)
  <2> DEFINE arch == Archive(lst)
  <2>1. /\ arch = [i \in 1..Len(lst) |-> arch[i]]
        /\ \A i \in 1..Len(lst) : arch[i] \in DefLists
    BY <1>1, <1>3
  <2> HIDE DEF arch
  <2>2. arch \in [1..Len(lst) -> DefLists] /\ Len(lst) \in Nat
    BY <2>1
  <2>3. arch \in Seq(DefLists) /\ Len(arch) = Len(lst)
    BY <2>2
  <2> QED BY <2>3 DEF arch
<1>5. Rows(Archive(lst)) = Archive(lst) /\ Rows(lst) = lst
  BY <1>4, DefListsArray
<1>6. \A i \in 1..Len(lst) : Content(Archive(lst)[i]) = Content(lst[i])
  BY <1>1, <1>2, ArchivedList
<1>7. DOMAIN Archive(lst) = 1..Len(lst) /\ DOMAIN lst = 1..Len(lst)
  BY <1>4
<1>8. Contents(Archive(lst)) = [i \in 1..Len(lst) |-> Content(Archive(lst)[i])]
  BY <1>5, <1>7 DEF Contents
<1>9. Contents(lst) = [i \in 1..Len(lst) |-> Content(lst[i])]
  BY <1>5, <1>7 DEF Contents
<1> QED BY <1>4, <1>6, <1>8, <1>9

\* WriteData leaves data.plist with the contents of curLST.
LEMMA WriteDataFacts ==
    ASSUME NEW lst \in Seq(DefLists), WriteData(lst, defUid)
    PROVE  /\ offlineLST' \in Seq(List)
           /\ dataPlist' \in Seq(DefLists)
           /\ dataPlist' \in Seq(List)
           /\ dataPlist' # Nil
           /\ Contents(dataPlist') = Contents(lst)
<1>1. offlineLST' = lst /\ dataPlist' = Archive(lst)
  BY OwnListsAll DEF WriteData
<1>2. lst \in Seq(List)
  BY DefListsArray
<1>3. Archive(lst) \in Seq(DefLists) /\ Contents(Archive(lst)) = Contents(lst)
  BY ArchiveFacts
<1>4. dataPlist' \in Seq(List) /\ dataPlist' # Nil
  BY <1>1, <1>3, DefListsArray
<1> QED BY <1>1, <1>2, <1>3, <1>4

\* With a nil curLST it writes an empty array.
LEMMA WriteDataNil ==
    ASSUME WriteData(Nil, defUid)
    PROVE  /\ offlineLST' \in Seq(List)
           /\ dataPlist' \in Seq(DefLists)
           /\ dataPlist' \in Seq(List)
<1>1. << >> \in Seq(DefLists) /\ Rows(Nil) = << >> /\ Rows(<< >>) = << >>
  BY DEF Rows
<1>2. OwnLists(Nil, defUid) = OwnLists(<< >>, defUid)
  BY <1>1 DEF OwnLists
<1>3. WriteData(<< >>, defUid)
  BY <1>2 DEF WriteData
<1> QED BY <1>1, <1>3, WriteDataFacts

-----------------------------------------------------------------------------
(* A list of the default user's stays one when its items change.           *)

\* A new, empty list of the default user's.
LEMMA NewListFacts ==
    ASSUME NEW n \in ListNames
    PROVE  NewList(n, defUid, << >>) \in DefLists
BY DEF NewList, DefLists, List, Displayable, Uids

\* The sample list.
LEMMA SampleListFacts == SampleList(defUid) \in DefLists
<1>1. NewItem(testItem) \in Item /\ NewItem(testItem).itemName # Nil
  BY NamesAssumption, NilAssumption DEF NewItem, Item
<1>2. <<NewItem(testItem)>> \in Seq(Item)
  BY <1>1
<1> QED BY <1>1, <1>2, NamesAssumption
        DEF SampleList, NewList, DefLists, List, Displayable, Uids

\* Items of a list that can all be displayed.
NamedItems == {it \in Item : it.itemName # Nil}

\* The items of a list of the default user's are named.
LEMMA DefListItems ==
    ASSUME NEW l \in DefLists
    PROVE  l.listItems \in Seq(NamedItems)
BY DEF DefLists, List, Displayable, NamedItems

\* Toggling an item keeps its name.
LEMMA ToggledItems ==
    ASSUME NEW items \in Seq(NamedItems), NEW r \in 1..Len(items)
    PROVE  [items EXCEPT ![r].itemPuchased = ~ @] \in Seq(NamedItems)
<1> DEFINE it == [items[r] EXCEPT !.itemPuchased = ~ @]
<1>1. items[r] \in NamedItems
  OBVIOUS
<1>2. it \in NamedItems
  BY <1>1 DEF NamedItems, Item
<1>3. [items EXCEPT ![r].itemPuchased = ~ @] = [items EXCEPT ![r] = it]
  OBVIOUS
<1> HIDE DEF it
<1> QED BY <1>2, <1>3

\* Replacing the items of one list by named items.
LEMMA ListWithItems ==
    ASSUME NEW lst \in Seq(DefLists), NEW i \in 1..Len(lst),
           NEW items \in Seq(NamedItems)
    PROVE  /\ [lst EXCEPT ![i].listItems = items] \in Seq(DefLists)
           /\ Len([lst EXCEPT ![i].listItems = items]) = Len(lst)
           /\ [lst EXCEPT ![i].listItems = items][i].listItems = items
           /\ Displayable([lst EXCEPT ![i].listItems = items][i])
<1> DEFINE l == [lst[i] EXCEPT !.listItems = items]
           new == [lst EXCEPT ![i].listItems = items]
<1>1. items \in Seq(Item) /\ \A k \in DOMAIN items : items[k].itemName # Nil
  BY DEF NamedItems
<1>2. lst[i] \in DefLists
  OBVIOUS
<1>3. l \in DefLists /\ l.listItems = items /\ Displayable(l)
  BY <1>1, <1>2 DEF DefLists, List, Displayable
<1>4. new = [lst EXCEPT ![i] = l]
  OBVIOUS
<1> HIDE DEF l
<1>5. new \in Seq(DefLists) /\ Len(new) = Len(lst) /\ new[i] = l
  BY <1>3, <1>4
<1> HIDE DEF new
<1>6. new[i].listItems = items /\ Displayable(new[i])
  BY <1>3, <1>5
<1> QED BY <1>5, <1>6 DEF new

\* Without invited lists no two rows are one object: removeObject: takes away
\* one row, and a change of a list is seen in one row.
LEMMA OneRowRemoved ==
    ASSUME NEW lst \in Seq(DefLists), NEW i \in 1..Len(lst)
    PROVE  RemoveObject(lst, i) = Without(lst, i)
BY DEF RemoveObject, DefLists

LEMMA OneRowChanged ==
    ASSUME NEW lst \in Seq(DefLists), NEW i \in 1..Len(lst),
           NEW items \in Seq(NamedItems)
    PROVE  WithItems(lst, i, items) = [lst EXCEPT ![i].listItems = items]
<1>1. lst[i].copy = 0
  BY DEF DefLists
<1>2. WithItems(lst, i, items) =
        [j \in DOMAIN lst |-> IF j = i THEN [lst[j] EXCEPT !.listItems = items]
                                       ELSE lst[j]]
  BY <1>1 DEF WithItems
<1> QED BY <1>2

-----------------------------------------------------------------------------
(* The handlers keep LocalInv.                                             *)

\* The process is off at the beginning, with no file and an empty AppData.
LEMMA LocalInitInv == LocalInit => LocalInv
BY DEF LocalInit, LocalInv, LocalTypeOK, NeverRaises, Uids

\* A handler that ends with the lists written and the table of lists shown.
LEMMA ShowsLists ==
    ASSUME LocalInv, NEW lst \in Seq(DefLists),
           proc' = "running", curUser' = defUid, userPlist' = defUid,
           curLST' = lst, screen' = Nil, rows' = Len(lst),
           offlineLST' \in Seq(List), dataPlist' \in Seq(DefLists),
           Contents(dataPlist') = Contents(lst)
    PROVE  LocalInv'
<1>1. lst \in Seq(List) /\ lst # Nil /\ Rows(lst) = lst
  BY DefListsArray
<1>2. dataPlist' \in Seq(List) /\ dataPlist' # Nil
  BY DefListsArray
<1>3. rows' \in Nat
  OBVIOUS
<1>4. LocalTypeOK'
  BY <1>1, <1>2, <1>3 DEF LocalTypeOK, Uids
<1>5. TablesMatch'
  BY <1>1 DEF TablesMatch
<1>6. DiskMatchesScreen'
  BY <1>2 DEF DiskMatchesScreen
<1> QED BY <1>4, <1>5, <1>6 DEF LocalInv, NeverRaises

\* The same, with the item screen shown on row i.
LEMMA ShowsItems ==
    ASSUME LocalInv, NEW lst \in Seq(DefLists), NEW i \in 1..Len(lst),
           proc' = "running", curUser' = defUid, userPlist' = defUid,
           curLST' = lst, rows' \in Nat,
           screen' = [row |-> i, shown |-> Len(lst[i].listItems)],
           offlineLST' \in Seq(List) \cup {Nil}, dataPlist' \in Seq(DefLists),
           Contents(dataPlist') = Contents(lst)
    PROVE  LocalInv'
<1>1. lst \in Seq(List) /\ lst # Nil
  BY DefListsArray
<1>2. dataPlist' \in Seq(List) /\ dataPlist' # Nil
  BY DefListsArray
<1>3. lst[i] \in DefLists
  OBVIOUS
<1>4. lst[i].listItems \in Seq(NamedItems)
  BY <1>3, DefListItems
<1>5. screen' \in Screens /\ screen' # Nil
  BY <1>4, NilIsNoScreen DEF Screens
<1>6. LocalTypeOK'
  BY <1>1, <1>2, <1>5 DEF LocalTypeOK, Uids
<1>7. screen'.row = i /\ screen'.shown = Len(lst[i].listItems)
  OBVIOUS
<1>8. TablesMatch'
  BY <1>1, <1>5, <1>7 DEF TablesMatch
<1>9. DiskMatchesScreen'
  BY <1>2 DEF DiskMatchesScreen
<1> QED BY <1>6, <1>8, <1>9 DEF LocalInv, NeverRaises

\* What LocalInv says while the process runs.
LEMMA Running ==
    ASSUME LocalInv, proc = "running"
    PROVE  /\ curUser = defUid /\ userPlist = defUid
           /\ curLST \in Seq(DefLists) \cup {Nil}
           /\ TablesMatch
           /\ curLST # Nil => /\ dataPlist \in Seq(DefLists)
                              /\ Contents(dataPlist) = Contents(curLST)
           /\ offlineLST \in Seq(List) \cup {Nil}
           /\ rows \in Nat
           /\ screen \in Screens \cup {Nil}
BY DEF LocalInv, LocalTypeOK, DiskMatchesScreen

\* Launching the app, and killing it.
LEMMA LaunchInv ==
    ASSUME LocalInv, FirstRun \/ FirstRunKilled \/ Relaunch \/ Kill
    PROVE  LocalInv'
<1>1. CASE FirstRun
  <2> DEFINE lst == <<SampleList(defUid)>>
  <2>1. lst \in Seq(DefLists) /\ Len(lst) = 1
    BY SampleListFacts
  <2>2. /\ proc' = "running" /\ curUser' = defUid /\ userPlist' = defUid
        /\ curLST' = lst /\ screen' = Nil
        /\ WriteData(lst, defUid)
        /\ rows' = Len(Rows(lst))
    BY <1>1 DEF FirstRun, ReloadLists
  <2> HIDE DEF lst
  <2>3. Rows(lst) = lst
    BY <2>1, DefListsArray
  <2>4. /\ offlineLST' \in Seq(List) /\ dataPlist' \in Seq(DefLists)
        /\ Contents(dataPlist') = Contents(lst)
    BY <2>1, <2>2, WriteDataFacts
  <2> QED BY <2>1, <2>2, <2>3, <2>4, ShowsLists
<1>2. CASE FirstRunKilled
  <2>1. userPlist' = defUid /\ proc # "running"
        /\ UNCHANGED <<proc, dataPlist, curUser, curLST, offlineLST, rows, screen>>
    BY <1>2 DEF FirstRunKilled, memory, tables
  <2> QED BY <2>1 DEF LocalInv, LocalTypeOK, NeverRaises, Uids
<1>3. CASE Relaunch
  <2>1. /\ proc = "off" /\ offlineLST = Nil /\ userPlist = defUid
        /\ dataPlist \in Seq(DefLists) \cup {Nil}
    BY <1>3 DEF Relaunch, LocalInv, LocalTypeOK, NeverRaises
  <2>2. /\ proc' = "running" /\ curUser' = defUid /\ userPlist' = defUid
        /\ dataPlist' = dataPlist
        /\ curLST' = dataPlist /\ offlineLST' = dataPlist
        /\ screen' = Nil
        /\ rows' = Len(Rows(dataPlist))
    BY <1>3, <2>1 DEF Relaunch, ReadFromDisk, ReadData, ReloadLists, disk
  <2>3. CASE dataPlist = Nil
    <3>1. rows' = 0
      BY <2>2, <2>3 DEF Rows
    <3>2. LocalTypeOK'
      BY <2>2, <2>3, <3>1 DEF LocalTypeOK, Uids
    <3>3. TablesMatch' /\ DiskMatchesScreen'
      BY <2>2, <2>3 DEF TablesMatch, DiskMatchesScreen
    <3> QED BY <2>2, <2>3, <3>2, <3>3 DEF LocalInv, NeverRaises
  <2>4. CASE dataPlist # Nil
    <3>1. dataPlist \in Seq(DefLists)
      BY <2>1, <2>4
    <3>2. dataPlist \in Seq(List) /\ Rows(dataPlist) = dataPlist
      BY <3>1, DefListsArray
    <3> QED BY <2>2, <3>1, <3>2, ShowsLists
  <2> QED BY <2>3, <2>4
<1>4. CASE Kill
  <2>1. /\ proc' = "off" /\ offlineLST' = Nil /\ curUser' = Nil
        /\ curLST' = << >> /\ rows' = 0 /\ screen' = Nil
        /\ userPlist' = userPlist /\ dataPlist' = dataPlist
    BY <1>4 DEF Kill, Forgotten, disk
  <2> QED BY <2>1 DEF LocalInv, LocalTypeOK, NeverRaises
<1> QED BY <1>1, <1>2, <1>3, <1>4

\* The handlers of the table of lists.
LEMMA ListScreenInv ==
    ASSUME LocalInv,
           \/ \E n \in ListNames : AddNewList(n)
           \/ \E i \in 1..rows : DeleteList(i, FALSE) \/ OpenList(i)
    PROVE  LocalInv'
<1>0. proc = "running" /\ screen = Nil
  BY DEF AddNewList, DeleteList, OpenList, OnListScreen
<1>1. /\ curUser = defUid /\ userPlist = defUid
      /\ curLST \in Seq(DefLists) \cup {Nil}
      /\ TablesMatch
      /\ curLST # Nil => /\ dataPlist \in Seq(DefLists)
                         /\ Contents(dataPlist) = Contents(curLST)
      /\ offlineLST \in Seq(List) \cup {Nil}
      /\ rows \in Nat
  BY <1>0, Running
<1>2. rows = Len(Rows(curLST))
  BY <1>0, <1>1 DEF TablesMatch
<1>3. ASSUME NEW n \in ListNames, AddNewList(n) PROVE LocalInv'
  <2>1. /\ proc' = "running" /\ curUser' = defUid /\ userPlist' = defUid
        /\ screen' = Nil
        /\ rows' = Len(Rows(curLST'))
        /\ WriteData(curLST', defUid)
    BY <1>0, <1>1, <1>3 DEF AddNewList, ReloadLists
  <2>2. CASE curLST = Nil
    <3>1. curLST' = Nil
      BY <1>3, <2>2 DEF AddNewList
    <3>2. /\ offlineLST' \in Seq(List) /\ dataPlist' \in Seq(DefLists)
          /\ dataPlist' \in Seq(List)
      BY <2>1, <3>1, WriteDataNil
    <3>3. rows' = 0
      BY <2>1, <3>1 DEF Rows
    <3>4. LocalTypeOK'
      BY <2>1, <3>1, <3>2, <3>3 DEF LocalTypeOK, Uids
    <3>5. TablesMatch' /\ DiskMatchesScreen'
      BY <2>1, <3>1 DEF TablesMatch, DiskMatchesScreen
    <3> QED BY <2>1, <3>1, <3>2, <3>4, <3>5 DEF LocalInv, NeverRaises
  <2>3. CASE curLST # Nil
    <3> DEFINE lst == Append(curLST, NewList(n, defUid, << >>))
    <3>1. curLST' = lst
      BY <1>1, <1>3, <2>3 DEF AddNewList
    <3>2. lst \in Seq(DefLists)
      BY <1>1, <2>3, NewListFacts
    <3> HIDE DEF lst
    <3>3. Rows(lst) = lst
      BY <3>2, DefListsArray
    <3>4. /\ offlineLST' \in Seq(List) /\ dataPlist' \in Seq(DefLists)
          /\ Contents(dataPlist') = Contents(lst)
      BY <2>1, <3>1, <3>2, WriteDataFacts
    <3> QED BY <2>1, <3>1, <3>2, <3>3, <3>4, ShowsLists
  <2> QED BY <2>2, <2>3
<1>4. ASSUME NEW i \in 1..rows PROVE curLST # Nil /\ i \in 1..Len(curLST)
                                     /\ Rows(curLST) = curLST
  BY <1>1, <1>2, <1>4 DEF Rows
<1>5. ASSUME NEW i \in 1..rows, DeleteList(i, FALSE) PROVE LocalInv'
  <2> DEFINE left == Without(curLST, i)
  <2>1. curLST \in Seq(DefLists) /\ i \in 1..Len(curLST) /\ rows = Len(curLST)
    BY <1>1, <1>2, <1>4
  <2>2. left \in Seq(DefLists) /\ Len(left) = Len(curLST) - 1
    BY <2>1, WithoutType
  <2>3. curLST[i] \in DefLists
    BY <2>1
  <2>4. curLST[i].listOwner = curUser
    BY <1>1, <2>3 DEF DefLists
  <2>5. OneRowLess(rows, left)
    BY <2>1, <2>2 DEF OneRowLess
  <2>6. ~ (i > Len(curLST))
    BY <2>1
  <2>7. /\ proc' = "running" /\ curUser' = defUid /\ userPlist' = defUid
        /\ curLST' = left /\ screen' = Nil /\ rows' = rows - 1
        /\ WriteData(left, defUid)
    BY <1>0, <1>1, <1>5, <2>1, <2>4, <2>5, <2>6, OneRowRemoved DEF DeleteList
  <2> HIDE DEF left
  <2>8. /\ offlineLST' \in Seq(List) /\ dataPlist' \in Seq(DefLists)
        /\ Contents(dataPlist') = Contents(left)
    BY <2>2, <2>7, WriteDataFacts
  <2>9. rows' = Len(left)
    BY <2>1, <2>2, <2>7
  <2> QED BY <2>2, <2>7, <2>8, <2>9, ShowsLists
<1>6. ASSUME NEW i \in 1..rows, OpenList(i) PROVE LocalInv'
  <2>1. curLST \in Seq(DefLists) /\ i \in 1..Len(curLST)
    BY <1>1, <1>4
  <2>2. curLST[i] \in DefLists
    BY <2>1
  <2>3. i \in DOMAIN curLST /\ Displayable(curLST[i])
    BY <2>1, <2>2 DEF DefLists
  <2>4. /\ screen' = [row |-> i, shown |-> Len(curLST[i].listItems)]
        /\ proc' = "running" /\ curUser' = defUid /\ userPlist' = defUid
        /\ UNCHANGED <<dataPlist, curLST, offlineLST, rows>>
    BY <1>0, <1>1, <1>6, <2>3 DEF OpenList, disk, memory
  <2>5. /\ curLST' = curLST /\ dataPlist' \in Seq(DefLists)
        /\ Contents(dataPlist') = Contents(curLST)
        /\ rows' \in Nat /\ offlineLST' \in Seq(List) \cup {Nil}
    BY <1>1, <1>4, <2>4
  <2> QED BY <2>1, <2>4, <2>5, ShowsItems
<1> QED BY <1>3, <1>5, <1>6

\* Closing the item screen.
LEMMA BackInv == ASSUME LocalInv, Back PROVE LocalInv'
<1>1. proc = "running" /\ screen # Nil
  BY DEF Back, OnItemScreen
<1>2. /\ curUser = defUid /\ userPlist = defUid
      /\ curLST \in Seq(DefLists)
      /\ dataPlist \in Seq(DefLists) /\ Contents(dataPlist) = Contents(curLST)
      /\ offlineLST \in Seq(List) \cup {Nil}
  BY <1>1, Running DEF TablesMatch
<1>3. curLST \in Seq(List) /\ curLST # Nil /\ Rows(curLST) = curLST
  BY <1>2, DefListsArray
<1>4. /\ screen' = Nil /\ rows' = Len(curLST)
      /\ UNCHANGED <<proc, userPlist, dataPlist, curUser, curLST, offlineLST>>
  BY <1>3 DEF Back, ReloadLists, disk, memory
<1>5. rows' \in Nat
  BY <1>2, <1>4
<1>6. LocalTypeOK'
  BY <1>4, <1>5 DEF LocalInv, LocalTypeOK
<1>7. TablesMatch' /\ DiskMatchesScreen'
  BY <1>3, <1>4 DEF TablesMatch, LocalInv, DiskMatchesScreen
<1> QED BY <1>4, <1>6, <1>7 DEF LocalInv, NeverRaises

\* What the item screen stands on, and what its handlers leave behind.
LEMMA ItemScreen ==
    ASSUME LocalInv, OnItemScreen
    PROVE  /\ curUser = defUid /\ userPlist = defUid
           /\ curLST \in Seq(DefLists)
           /\ screen.row \in 1..Len(curLST)
           /\ screen.shown = Len(curLST[screen.row].listItems)
           /\ screen = [row |-> screen.row, shown |-> screen.shown]
           /\ curLST[screen.row].listItems \in Seq(NamedItems)
           /\ rows \in Nat
<1>1. proc = "running" /\ screen # Nil
  BY DEF OnItemScreen
<1>2. /\ curUser = defUid /\ userPlist = defUid
      /\ curLST \in Seq(DefLists)
      /\ screen.row \in 1..Len(curLST)
      /\ screen.shown = Len(curLST[screen.row].listItems)
      /\ screen \in Screens
      /\ rows \in Nat
  BY <1>1, Running DEF TablesMatch
<1>3. curLST[screen.row] \in DefLists
  BY <1>2
<1>4. curLST[screen.row].listItems \in Seq(NamedItems)
  BY <1>3, DefListItems
<1>5. screen = [row |-> screen.row, shown |-> screen.shown]
  BY <1>2 DEF Screens
<1> QED BY <1>2, <1>4, <1>5

\* The lists with other named items in the open one.
LEMMA OpenListWith ==
    ASSUME LocalInv, OnItemScreen, NEW items \in Seq(NamedItems)
    PROVE  /\ [curLST EXCEPT ![screen.row].listItems = items] \in Seq(DefLists)
           /\ Len([curLST EXCEPT ![screen.row].listItems = items]) = Len(curLST)
           /\ [curLST EXCEPT ![screen.row].listItems = items][screen.row].listItems
                = items
           /\ Displayable([curLST EXCEPT ![screen.row].listItems = items][screen.row])
<1>1. curLST \in Seq(DefLists) /\ screen.row \in 1..Len(curLST)
  BY ItemScreen
<1> QED BY <1>1, ListWithItems

\* The open list is one row.
LEMMA OpenListOneObject ==
    ASSUME LocalInv, OnItemScreen, NEW items \in Seq(NamedItems)
    PROVE  WithItems(curLST, screen.row, items)
             = [curLST EXCEPT ![screen.row].listItems = items]
<1>1. curLST \in Seq(DefLists) /\ screen.row \in 1..Len(curLST)
  BY ItemScreen
<1>2. \A lst \in Seq(DefLists) : \A i \in 1..Len(lst) :
        WithItems(lst, i, items) = [lst EXCEPT ![i].listItems = items]
  BY OneRowChanged
<1> QED BY <1>1, <1>2, Zenon

\* Without merges no two rows are one item.
LEMMA OneItemRow ==
    ASSUME LocalInv, OnItemScreen, NEW r \in 1..screen.shown
    PROVE  LET items == curLST[screen.row].listItems
           IN  /\ ItemRows(curLST[screen.row], r) = {r} /\ Alone(r) = {TRUE}
               /\ Toggled(items, {r}) = [items EXCEPT ![r].itemPuchased = ~ @]
<1> DEFINE l == curLST[screen.row]
<1>1. /\ curLST \in Seq(DefLists) /\ screen.row \in 1..Len(curLST)
      /\ screen.shown = Len(l.listItems) /\ l.listItems \in Seq(NamedItems)
  BY ItemScreen
<1>2. l.twins = {}
  BY <1>1 DEF DefLists
<1>3. r \in DOMAIN l.listItems
  BY <1>1
<1> HIDE DEF l
<1>4. ItemRows(l, r) = {r}
  BY <1>2, <1>3 DEF ItemRows
<1>5. Toggled(l.listItems, {r}) = [l.listItems EXCEPT ![r].itemPuchased = ~ @]
  BY <1>1, <1>3 DEF Toggled
<1> QED BY <1>4, <1>5 DEF Alone, l

\* Any handler that gives the open list other named items, writes the disk and
\* shows the new number of rows.
LEMMA ItemsChange ==
    ASSUME LocalInv, OnItemScreen, NEW items \in Seq(NamedItems),
           curLST' = [curLST EXCEPT ![screen.row].listItems = items],
           WriteData(curLST', defUid),
           screen' = [row |-> screen.row, shown |-> Len(items)],
           UNCHANGED <<proc, userPlist, curUser, rows>>
    PROVE  LocalInv'
<1> DEFINE new == [curLST EXCEPT ![screen.row].listItems = items]
<1>1. /\ curUser = defUid /\ userPlist = defUid /\ proc = "running"
      /\ curLST \in Seq(DefLists) /\ screen.row \in 1..Len(curLST)
      /\ rows \in Nat
  BY ItemScreen DEF OnItemScreen
<1>2. /\ new \in Seq(DefLists) /\ Len(new) = Len(curLST)
      /\ new[screen.row].listItems = items
  BY OpenListWith
<1>3. curLST' = new
  OBVIOUS
<1> HIDE DEF new
<1>4. /\ offlineLST' \in Seq(List) /\ dataPlist' \in Seq(DefLists)
      /\ Contents(dataPlist') = Contents(new)
  BY <1>2, <1>3, WriteDataFacts
<1>5. screen' = [row |-> screen.row, shown |-> Len(new[screen.row].listItems)]
  BY <1>2
<1>6. screen.row \in 1..Len(new)
  BY <1>1, <1>2
<1>7. /\ proc' = "running" /\ curUser' = defUid /\ userPlist' = defUid
      /\ rows' \in Nat
  BY <1>1
<1> QED BY <1>2, <1>3, <1>4, <1>5, <1>6, <1>7, ShowsItems

\* The handlers of the item screen.
LEMMA ItemScreenInv ==
    ASSUME LocalInv, OnItemScreen,
           \/ \E n \in ItemNames : AddItem(n, FALSE)
           \/ \E r \in 1..screen.shown :
                 \/ ToggleItem(r, FALSE)
                 \/ \E alone \in Alone(r) : DeleteItem(r, alone, FALSE)
    PROVE  LocalInv'
<1> DEFINE items == curLST[screen.row].listItems
<1>1. /\ curUser = defUid
      /\ curLST \in Seq(DefLists)
      /\ screen.row \in 1..Len(curLST)
      /\ screen.shown = Len(items)
      /\ screen = [row |-> screen.row, shown |-> screen.shown]
      /\ items \in Seq(NamedItems)
  BY ItemScreen
<1>2. screen.row \in DOMAIN curLST
  BY <1>1
<1>3. ASSUME NEW new \in Seq(NamedItems), WriteItems(new, FALSE) PROVE LocalInv'
  <2>0. WithItems(curLST, screen.row, new) = [curLST EXCEPT ![screen.row].listItems = new]
    BY OpenListOneObject
  <2>1. Displayable(WithItems(curLST, screen.row, new)[screen.row])
    BY <1>1, <2>0, ListWithItems
  <2>2. /\ curLST' = [curLST EXCEPT ![screen.row].listItems = new]
        /\ WriteData(curLST', defUid)
        /\ screen' = [screen EXCEPT !.shown = Len(new)]
        /\ UNCHANGED <<proc, userPlist, curUser, rows>>
    BY <1>1, <1>3, <2>0, <2>1 DEF WriteItems
  <2>3. screen' = [row |-> screen.row, shown |-> Len(new)]
    BY <1>1, <2>2
  <2> QED BY <2>2, <2>3, ItemsChange
<1>4. ASSUME NEW n \in ItemNames, AddItem(n, FALSE) PROVE LocalInv'
  <2>1. NewItem(n) \in NamedItems
    BY NilAssumption DEF NewItem, NamedItems, Item
  <2>2. Append(items, NewItem(n)) \in Seq(NamedItems)
    BY <1>1, <2>1
  <2>3. WriteItems(Append(items, NewItem(n)), FALSE)
    BY <1>2, <1>4 DEF AddItem
  <2> QED BY <1>3, <2>2, <2>3
<1>5. ASSUME NEW r \in 1..screen.shown PROVE ItemAt(r) /\ r \in 1..Len(items)
  BY <1>1, <1>2 DEF ItemAt
<1>6. ASSUME NEW r \in 1..screen.shown, ToggleItem(r, FALSE) PROVE LocalInv'
  <2> DEFINE new == [items EXCEPT ![r].itemPuchased = ~ @]
  <2>1. new \in Seq(NamedItems)
    BY <1>1, <1>5, ToggledItems
  <2>2. WriteItems(new, FALSE)
    <3>1. ItemRows(curLST[screen.row], r) = {r} /\ Toggled(items, {r}) = new
      BY OneItemRow
    <3> QED BY <1>5, <1>6, <3>1 DEF ToggleItem
  <2> QED BY <1>3, <2>1, <2>2
<1>7. ASSUME NEW r \in 1..screen.shown, \E alone \in Alone(r) : DeleteItem(r, alone, FALSE)
      PROVE LocalInv'
  <2> DEFINE left == Without(items, r)
  <2>1. left \in Seq(NamedItems) /\ Len(left) = screen.shown - 1
    BY <1>1, <1>5, WithoutType
  <2>2. /\ curLST' = [curLST EXCEPT ![screen.row].listItems = left]
        /\ WriteData(curLST', defUid)
        /\ screen' = [screen EXCEPT !.shown = @ - 1]
        /\ UNCHANGED <<proc, userPlist, curUser, rows>>
    <3>1. DeleteItem(r, TRUE, FALSE)
      BY <1>7, OneItemRow
    <3>2. WithItems(curLST, screen.row, left) = [curLST EXCEPT ![screen.row].listItems = left]
      BY <2>1, OpenListOneObject
    <3> QED BY <1>1, <1>5, <3>1, <3>2 DEF DeleteItem
  <2>3. screen' = [row |-> screen.row, shown |-> Len(left)]
    BY <1>1, <2>1, <2>2
  <2> QED BY <2>1, <2>2, <2>3, ItemsChange
<1> QED BY <1>4, <1>6, <1>7

\* Every step of the offline app keeps LocalInv.
LEMMA LocalNextInv == LocalInv /\ [LocalNext]_localVars => LocalInv'
<1> SUFFICES ASSUME LocalInv, [LocalNext]_localVars PROVE LocalInv'
  OBVIOUS
<1>1. CASE FirstRun \/ FirstRunKilled \/ Relaunch \/ Kill
  BY <1>1, LaunchInv
<1>2. CASE \/ \E n \in ListNames : AddNewList(n)
           \/ \E i \in 1..rows : DeleteList(i, FALSE) \/ OpenList(i)
  BY <1>2, ListScreenInv
<1>3. CASE Back
  BY <1>3, BackInv
<1>4. CASE \/ \E n \in ItemNames : AddItem(n, FALSE)
           \/ \E r \in 1..(IF screen = Nil THEN 0 ELSE screen.shown) :
                 \/ ToggleItem(r, FALSE)
                 \/ \E alone \in Alone(r) : DeleteItem(r, alone, FALSE)
  <2>1. OnItemScreen
    BY <1>4 DEF AddItem, ToggleItem, DeleteItem
  <2>2. screen # Nil
    BY <2>1 DEF OnItemScreen
  <2> QED BY <1>4, <2>1, <2>2, ItemScreenInv
<1>5. CASE UNCHANGED localVars
  <2>1. UNCHANGED <<proc, userPlist, dataPlist, curUser, curLST, offlineLST,
                    rows, screen>>
    BY <1>5 DEF localVars, disk, memory, tables
  <2> QED BY <2>1 DEF LocalInv, LocalTypeOK, NeverRaises, TablesMatch,
                      DiskMatchesScreen
<1> QED BY <1>1, <1>2, <1>3, <1>4, <1>5 DEF LocalNext

-----------------------------------------------------------------------------
\* LocalInv is an invariant of the offline app: the inductive argument.
THEOREM LocalInvariant == LocalSpec => []LocalInv
BY LocalInitInv, LocalNextInv, PTL DEF LocalSpec

\* Every variable of the offline app keeps its type (AppData's properties,
\* the two archives and the two tables).
THEOREM LocalTypeCorrect == LocalSpec => []LocalTypeOK
<1>1. LocalInv => LocalTypeOK
  BY DEF LocalInv
<1> QED BY <1>1, LocalInvariant, PTL

\* Between two handlers data.plist holds exactly the lists on the screen:
\* WriteData is called by every handler that changes curLST and its pointer
\* test drops nothing.
THEOREM DiskFollowsScreen == LocalSpec => []DiskMatchesScreen
<1>1. LocalInv => DiskMatchesScreen
  BY DEF LocalInv, DiskMatchesScreen
<1> QED BY <1>1, LocalInvariant, PTL

\* No exception ends the offline app: curLST[indexPath.row],
\* curLST[curLSTInt] and deleteRowsAtIndexPaths never meet a stale row.
THEOREM OfflineNeverRaises == LocalSpec => []NeverRaises
<1>1. LocalInv => NeverRaises
  BY DEF LocalInv
<1> QED BY <1>1, LocalInvariant, PTL

=============================================================================

------------------------ MODULE LocalStoreRefinement ------------------------
(***************************************************************************)
(* data.plist implements DurableLists: every handler of the offline app    *)
(* maps to the tap it stands for, and everything else to no step at all.   *)
(***************************************************************************)
EXTENDS LocalStoreProofs

-----------------------------------------------------------------------------
(* Contents commutes with the changes the handlers make.                   *)

\* The contents of the default user's lists are an array of documents.
LEMMA ContentsFacts ==
    ASSUME NEW lst \in Seq(DefLists)
    PROVE  /\ Contents(lst) = [i \in 1..Len(lst) |-> Content(lst[i])]
           /\ Contents(lst) \in Seq(Document)
           /\ Contents(lst) # Nil
           /\ DOMAIN Contents(lst) = 1..Len(lst)
           /\ Len(Contents(lst)) = Len(lst)
<1>1. Rows(lst) = lst /\ DOMAIN lst = 1..Len(lst)
  BY DefListsArray
<1>2. Contents(lst) = [i \in 1..Len(lst) |-> Content(lst[i])]
  BY <1>1 DEF Contents
<1>3. \A l \in DefLists : Content(l) \in Document
  BY DEF DefLists, List, Content, Document
<1>4. \A i \in 1..Len(lst) : Content(lst[i]) \in Document
  BY <1>3
<1>5. Contents(lst) \in Seq(Document) /\ Len(Contents(lst)) = Len(lst)
  BY <1>2, <1>4
<1> QED BY <1>2, <1>5, NilIsNoDocument

\* A new list is a new document.
LEMMA ContentsOfAppend ==
    ASSUME NEW lst \in Seq(DefLists), NEW l \in DefLists
    PROVE  Contents(Append(lst, l)) = Append(Contents(lst), Content(l))
<1> DEFINE new == Append(lst, l)
<1>1. new \in Seq(DefLists) /\ Len(new) = Len(lst) + 1
      /\ new[Len(lst) + 1] = l /\ \A i \in 1..Len(lst) : new[i] = lst[i]
  OBVIOUS
<1> HIDE DEF new
<1>2. Contents(new) = [i \in 1..(Len(lst) + 1) |-> Content(new[i])]
  BY <1>1, ContentsFacts
<1>3. /\ Contents(lst) = [i \in 1..Len(lst) |-> Content(lst[i])]
      /\ Contents(lst) \in Seq(Document) /\ Len(Contents(lst)) = Len(lst)
  BY ContentsFacts
<1>4. Append(Contents(lst), Content(l)) =
        [i \in 1..(Len(lst) + 1) |-> IF i = Len(lst) + 1 THEN Content(l)
                                                        ELSE Contents(lst)[i]]
  BY <1>3
<1>5. \A i \in 1..(Len(lst) + 1) :
        Content(new[i]) = IF i = Len(lst) + 1 THEN Content(l) ELSE Contents(lst)[i]
  BY <1>1, <1>3
<1>6. Contents(new) = Append(Contents(lst), Content(l))
  BY <1>2, <1>4, <1>5
<1> QED BY <1>6 DEF new

\* Deleting a list deletes its document.
LEMMA ContentsOfWithout ==
    ASSUME NEW lst \in Seq(DefLists), NEW i \in 1..Len(lst)
    PROVE  Contents(Without(lst, i)) = Without(Contents(lst), i)
<1>1. Without(lst, i) \in Seq(DefLists) /\ Len(Without(lst, i)) = Len(lst) - 1
  BY WithoutType
<1>2. Contents(Without(lst, i)) =
        [j \in 1..(Len(lst) - 1) |-> Content(Without(lst, i)[j])]
  BY <1>1, ContentsFacts
<1>3. /\ Contents(lst) = [j \in 1..Len(lst) |-> Content(lst[j])]
      /\ Len(Contents(lst)) = Len(lst)
  BY ContentsFacts
<1>4. Without(Contents(lst), i) =
        [j \in 1..(Len(lst) - 1) |-> IF j < i THEN Contents(lst)[j]
                                             ELSE Contents(lst)[j + 1]]
  BY <1>3 DEF Without
<1>5. \A j \in 1..(Len(lst) - 1) :
        Content(Without(lst, i)[j]) = IF j < i THEN Contents(lst)[j]
                                               ELSE Contents(lst)[j + 1]
  BY <1>3 DEF Without
<1> QED BY <1>2, <1>4, <1>5

\* Changing the items of a list changes those of its document.
LEMMA ContentsOfItems ==
    ASSUME NEW lst \in Seq(DefLists), NEW i \in 1..Len(lst),
           NEW items \in Seq(NamedItems)
    PROVE  /\ Contents([lst EXCEPT ![i].listItems = items])
                = [Contents(lst) EXCEPT ![i].listItems = items]
           /\ Contents(lst)[i].listItems = lst[i].listItems
<1> DEFINE new == [lst EXCEPT ![i].listItems = items]
           l == [lst[i] EXCEPT !.listItems = items]
<1>1. new \in Seq(DefLists) /\ Len(new) = Len(lst)
  BY ListWithItems
<1>2. lst[i] \in List
  BY DEF DefLists
<1>3. Content(l) = [Content(lst[i]) EXCEPT !.listItems = items]
      /\ Content(lst[i]).listItems = lst[i].listItems
  BY <1>2 DEF Content, List
<1>4. new[i] = l /\ \A j \in 1..Len(lst) : j # i => new[j] = lst[j]
  OBVIOUS
<1> HIDE DEF new, l
<1>5. Contents(new) = [j \in 1..Len(lst) |-> Content(new[j])]
  BY <1>1, ContentsFacts
<1>6. Contents(lst) = [j \in 1..Len(lst) |-> Content(lst[j])]
  BY ContentsFacts
<1>7. [Contents(lst) EXCEPT ![i].listItems = items] =
        [j \in 1..Len(lst) |-> IF j = i THEN [Content(lst[i]) EXCEPT !.listItems = items]
                                        ELSE Content(lst[j])]
  BY <1>6
<1>8. Contents(new) = [Contents(lst) EXCEPT ![i].listItems = items]
  BY <1>3, <1>4, <1>5, <1>7
<1> QED BY <1>3, <1>6, <1>8 DEF new

-----------------------------------------------------------------------------
(* SeedInv is an invariant.                                                *)

\* What WriteData writes for a nil curLST.
LEMMA WriteNothing ==
    ASSUME WriteData(Nil, defUid)
    PROVE  dataPlist' = << >>
<1>1. << >> \in Seq(DefLists) /\ Rows(Nil) = << >> /\ Rows(<< >>) = << >>
  BY DEF Rows
<1>2. OwnLists(Nil, defUid) = OwnLists(<< >>, defUid)
  BY <1>1 DEF OwnLists
<1>3. OwnLists(<< >>, defUid) = << >>
  BY <1>1, OwnListsAll
<1>4. Archive(<< >>) \in Seq(DefLists) /\ Len(Archive(<< >>)) = 0
  BY <1>1, ArchiveFacts
<1>5. Archive(<< >>) = << >>
  BY <1>4
<1> QED BY <1>2, <1>3, <1>5 DEF WriteData

\* The handlers of the item screen write a curLST that is not nil.
LEMMA ItemScreenWrites ==
    ASSUME LocalInv, OnItemScreen,
           \/ \E n \in ItemNames : AddItem(n, FALSE)
           \/ \E r \in 1..screen.shown :
                 \/ ToggleItem(r, FALSE)
                 \/ \E alone \in Alone(r) : DeleteItem(r, alone, FALSE)
    PROVE  /\ userPlist' = defUid
           /\ \E items \in Seq(NamedItems) :
                 /\ curLST' = [curLST EXCEPT ![screen.row].listItems = items]
                 /\ WriteData(curLST', defUid)
                 /\ \/ \E n \in ItemNames :
                         items = Append(curLST[screen.row].listItems, NewItem(n))
                    \/ \E r \in 1..Len(curLST[screen.row].listItems) :
                         \/ items = [curLST[screen.row].listItems
                                        EXCEPT ![r].itemPuchased = ~ @]
                         \/ items = Without(curLST[screen.row].listItems, r)
<1> DEFINE items == curLST[screen.row].listItems
           Changed(new) == \/ \E n \in ItemNames : new = Append(items, NewItem(n))
                           \/ \E r \in 1..Len(items) :
                                \/ new = [items EXCEPT ![r].itemPuchased = ~ @]
                                \/ new = Without(items, r)
           Goal == /\ userPlist' = defUid
                   /\ \E new \in Seq(NamedItems) :
                        /\ curLST' = [curLST EXCEPT ![screen.row].listItems = new]
                        /\ WriteData(curLST', defUid)
                        /\ Changed(new)
<1>1. /\ curUser = defUid /\ userPlist = defUid
      /\ curLST \in Seq(DefLists)
      /\ screen.row \in 1..Len(curLST)
      /\ screen.shown = Len(items)
      /\ items \in Seq(NamedItems)
  BY ItemScreen
<1>2. screen.row \in DOMAIN curLST
  BY <1>1
<1> HIDE DEF Changed
<1>3. ASSUME NEW new \in Seq(NamedItems), WriteItems(new, FALSE), Changed(new)
      PROVE  Goal
  <2>0. WithItems(curLST, screen.row, new) = [curLST EXCEPT ![screen.row].listItems = new]
    BY OpenListOneObject
  <2>1. Displayable(WithItems(curLST, screen.row, new)[screen.row])
    BY <2>0, OpenListWith
  <2>2. /\ curLST' = [curLST EXCEPT ![screen.row].listItems = new]
        /\ WriteData(curLST', defUid)
        /\ userPlist' = userPlist
    BY <1>1, <1>3, <2>0, <2>1 DEF WriteItems
  <2> QED BY <1>1, <1>3, <2>2
<1>4. ASSUME NEW n \in ItemNames, AddItem(n, FALSE) PROVE Goal
  <2>1. NewItem(n) \in NamedItems
    BY NilAssumption DEF NewItem, NamedItems, Item
  <2>2. Append(items, NewItem(n)) \in Seq(NamedItems)
    BY <1>1, <2>1
  <2>3. WriteItems(Append(items, NewItem(n)), FALSE)
    BY <1>2, <1>4 DEF AddItem
  <2>4. Changed(Append(items, NewItem(n)))
    BY DEF Changed
  <2> QED BY <1>3, <2>2, <2>3, <2>4
<1>5. ASSUME NEW r \in 1..screen.shown PROVE ItemAt(r) /\ r \in 1..Len(items)
  BY <1>1, <1>2 DEF ItemAt
<1>6. ASSUME NEW r \in 1..screen.shown, ToggleItem(r, FALSE) PROVE Goal
  <2> DEFINE new == [items EXCEPT ![r].itemPuchased = ~ @]
  <2>1. new \in Seq(NamedItems)
    BY <1>1, <1>5, ToggledItems
  <2>2. WriteItems(new, FALSE)
    <3>1. ItemRows(curLST[screen.row], r) = {r} /\ Toggled(items, {r}) = new
      BY OneItemRow
    <3> QED BY <1>5, <1>6, <3>1 DEF ToggleItem
  <2>3. Changed(new)
    BY <1>5 DEF Changed
  <2> QED BY <1>3, <2>1, <2>2, <2>3
<1>7. ASSUME NEW r \in 1..screen.shown, \E alone \in Alone(r) : DeleteItem(r, alone, FALSE)
      PROVE Goal
  <2> DEFINE left == Without(items, r)
  <2>1. left \in Seq(NamedItems)
    BY <1>1, <1>5, WithoutType
  <2>2. /\ curLST' = [curLST EXCEPT ![screen.row].listItems = left]
        /\ WriteData(curLST', defUid)
        /\ userPlist' = userPlist
    <3>1. DeleteItem(r, TRUE, FALSE)
      BY <1>7, OneItemRow
    <3>2. WithItems(curLST, screen.row, left) = [curLST EXCEPT ![screen.row].listItems = left]
      BY <2>1, OpenListOneObject
    <3> QED BY <1>1, <1>5, <3>1, <3>2 DEF DeleteItem
  <2>3. Changed(left)
    BY <1>5 DEF Changed
  <2> QED BY <1>1, <2>1, <2>2, <2>3
<1> QED BY <1>4, <1>6, <1>7 DEF Changed

-----------------------------------------------------------------------------
(* Each step of the offline app is a step of DurableLists, or none.        *)

\* The operators of DurableLists are those of the app.
LEMMA SameOperators ==
    /\ \A n : Durable!NewItem(n) = NewItem(n)
    /\ \A s, i : Durable!Without(s, i) = Without(s, i)
    /\ Durable!Contents(<<Durable!SampleList(defUid)>>)
         = Contents(<<SampleList(defUid)>>)
<1>1. \A n : Durable!NewItem(n) = NewItem(n)
  BY DEF Durable!NewItem, NewItem
<1>2. \A s, i : Durable!Without(s, i) = Without(s, i)
  BY DEF Durable!Without, Without
<1>3. Durable!SampleList(defUid) = SampleList(defUid)
  BY <1>1 DEF Durable!SampleList, SampleList, Durable!NewList, NewList
<1>4. \A lst : Durable!Contents(lst) = Contents(lst)
  BY DEF Durable!Contents, Contents, Durable!Rows, Rows, Durable!Content, Content
<1> QED BY <1>1, <1>2, <1>3, <1>4

\* Before and after a WriteData in a process that has lists.
LEMMA WrittenLists ==
    ASSUME LocalInv, proc = "running", curLST # Nil,
           NEW lst \in Seq(DefLists), WriteData(lst, defUid)
    PROVE  /\ ArchivedLists = Contents(curLST)
           /\ ArchivedLists # Nil
           /\ ArchivedLists' = Contents(lst)
<1>1. /\ curLST \in Seq(DefLists) /\ dataPlist \in Seq(DefLists)
      /\ Contents(dataPlist) = Contents(curLST)
  BY Running
<1>2. dataPlist # Nil
  BY <1>1, DefListsArray
<1>3. ArchivedLists = Contents(curLST) /\ Contents(curLST) # Nil
  BY <1>1, <1>2, ContentsFacts DEF ArchivedLists
<1>4. dataPlist' # Nil /\ Contents(dataPlist') = Contents(lst)
  BY WriteDataFacts
<1>5. ArchivedLists' = Contents(lst)
  BY <1>4 DEF ArchivedLists
<1> QED BY <1>3, <1>5

\* Launching and killing: only a first run that completes is a step.
LEMMA LaunchStep ==
    ASSUME LocalInv, SeedInv, FirstRun \/ FirstRunKilled \/ Relaunch \/ Kill
    PROVE  SeedInv' /\ (Durable!Next \/ UNCHANGED ArchivedLists)
<1>1. CASE FirstRun
  <2> DEFINE lst == <<SampleList(defUid)>>
  <2>1. lst \in Seq(DefLists)
    BY SampleListFacts
  <2>2. /\ dataPlist = Nil /\ userPlist' = defUid
        /\ curLST' = lst /\ WriteData(lst, defUid)
    BY <1>1 DEF FirstRun, SeedInv
  <2> HIDE DEF lst
  <2>3. lst # Nil /\ defUid # Nil
    BY <2>1, DefListsArray, NilAssumption
  <2>4. dataPlist' # Nil /\ Contents(dataPlist') = Contents(lst)
    BY <2>1, <2>2, WriteDataFacts
  <2>5. ArchivedLists = Nil /\ ArchivedLists' = Contents(lst)
    BY <2>2, <2>4 DEF ArchivedLists
  <2>6. Durable!Seed
    BY <2>5, SameOperators DEF Durable!Seed, lst
  <2> QED BY <2>2, <2>3, <2>6 DEF SeedInv, Durable!Next
<1>2. CASE FirstRunKilled
  <2>1. userPlist' = defUid /\ proc # "running" /\ UNCHANGED <<proc, dataPlist>>
    BY <1>2 DEF FirstRunKilled
  <2>2. defUid # Nil
    BY NilAssumption
  <2> QED BY <2>1, <2>2 DEF SeedInv, ArchivedLists
<1>3. CASE Relaunch
  <2>1. offlineLST = Nil
    BY <1>3 DEF Relaunch, LocalInv, LocalTypeOK, NeverRaises
  <2>2. UNCHANGED <<userPlist, dataPlist>> /\ curLST' = dataPlist
    BY <1>3, <2>1 DEF Relaunch, ReadFromDisk, ReadData, disk
  <2> QED BY <2>2 DEF SeedInv, ArchivedLists
<1>4. CASE Kill
  <2>1. UNCHANGED <<userPlist, dataPlist>> /\ proc' = "off"
    BY <1>4 DEF Kill, disk
  <2> QED BY <2>1 DEF SeedInv, ArchivedLists
<1> QED BY <1>1, <1>2, <1>3, <1>4

\* The table of lists: a new list, a deleted list, and an opened one.
LEMMA ListScreenStep ==
    ASSUME LocalInv, SeedInv,
           \/ \E n \in ListNames : AddNewList(n)
           \/ \E i \in 1..rows : DeleteList(i, FALSE) \/ OpenList(i)
    PROVE  SeedInv' /\ (Durable!Next \/ UNCHANGED ArchivedLists)
<1>0. proc = "running" /\ screen = Nil /\ defUid # Nil
  BY NilAssumption DEF AddNewList, DeleteList, OpenList, OnListScreen
<1>1. /\ curUser = defUid /\ userPlist = defUid
      /\ curLST \in Seq(DefLists) \cup {Nil}
      /\ rows = Len(Rows(curLST))
  BY <1>0, Running DEF TablesMatch
<1>2. ASSUME NEW n \in ListNames, AddNewList(n)
      PROVE  SeedInv' /\ (Durable!Next \/ UNCHANGED ArchivedLists)
  <2>1. WriteData(curLST', defUid) /\ userPlist' = defUid
    BY <1>1, <1>2 DEF AddNewList
  <2>2. CASE curLST = Nil
    <3>1. curLST' = Nil
      BY <1>2, <2>2 DEF AddNewList
    <3>2. dataPlist' = << >>
      BY <2>1, <3>1, WriteNothing
    <3>3. << >> \in Seq(DefLists)
      OBVIOUS
    <3>4. << >> # Nil /\ Contents(<< >>) = << >>
      <4>1. Contents(<< >>) \in Seq(Document) /\ Len(Contents(<< >>)) = 0
        BY <3>3, ContentsFacts
      <4>2. Contents(<< >>) = << >>
        BY <4>1
      <4>3. << >> # Nil
        BY <3>3, DefListsArray
      <4> QED BY <4>2, <4>3
    <3>5. ArchivedLists' = << >>
      BY <3>2, <3>4 DEF ArchivedLists
    <3>6. dataPlist \in {Nil, << >>}
      BY <1>0, <2>2 DEF SeedInv
    <3>7. ArchivedLists \in {Nil, << >>}
      BY <3>4, <3>6 DEF ArchivedLists
    <3>8. Durable!SeedNothing \/ UNCHANGED ArchivedLists
      BY <3>5, <3>7 DEF Durable!SeedNothing
    <3> QED BY <1>0, <2>1, <3>2, <3>8 DEF SeedInv, Durable!Next
  <2>3. CASE curLST # Nil
    <3> DEFINE l == NewList(n, defUid, << >>)
               lst == Append(curLST, l)
    <3>1. curLST \in Seq(DefLists) /\ l \in DefLists
      BY <1>1, <2>3, NewListFacts
    <3>2. curLST' = lst
      BY <1>1, <1>2, <2>3 DEF AddNewList
    <3>3. Content(l) = [listName |-> n, listItems |-> << >>]
      BY DEF Content, NewList
    <3> HIDE DEF l
    <3>4. lst \in Seq(DefLists) /\ Contents(lst) = Append(Contents(curLST), Content(l))
      BY <3>1, ContentsOfAppend
    <3> HIDE DEF lst
    <3>5. /\ ArchivedLists = Contents(curLST) /\ ArchivedLists # Nil
          /\ ArchivedLists' = Contents(lst)
      BY <1>0, <2>1, <2>3, <3>2, <3>4, WrittenLists
    <3>6. Durable!AddList(n)
      BY <3>3, <3>4, <3>5 DEF Durable!AddList
    <3>7. lst # Nil
      BY <3>4, DefListsArray
    <3> QED BY <1>0, <2>1, <3>2, <3>5, <3>6, <3>7 DEF SeedInv, Durable!Next, Durable!Tap
  <2> QED BY <2>2, <2>3
<1>3. ASSUME NEW i \in 1..rows
      PROVE  curLST # Nil /\ curLST \in Seq(DefLists) /\ i \in 1..Len(curLST)
             /\ rows = Len(curLST)
  BY <1>1, <1>3 DEF Rows
<1>4. ASSUME NEW i \in 1..rows, DeleteList(i, FALSE)
      PROVE  SeedInv' /\ Durable!Next
  <2> DEFINE left == Without(curLST, i)
  <2>1. curLST \in Seq(DefLists) /\ curLST # Nil /\ i \in 1..Len(curLST)
        /\ rows = Len(curLST)
    BY <1>3
  <2>2. left \in Seq(DefLists) /\ Len(left) = Len(curLST) - 1
    BY <2>1, WithoutType
  <2>3. curLST[i].listOwner = curUser
    BY <1>1, <2>1 DEF DefLists
  <2>4. OneRowLess(rows, left) /\ ~ (i > Len(curLST))
    BY <2>1, <2>2 DEF OneRowLess
  <2>5. userPlist' = defUid /\ curLST' = left /\ WriteData(left, defUid)
    BY <1>1, <1>4, <2>1, <2>3, <2>4, OneRowRemoved DEF DeleteList
  <2>6. Contents(left) = Without(Contents(curLST), i)
    BY <2>1, ContentsOfWithout
  <2> HIDE DEF left
  <2>7. /\ ArchivedLists = Contents(curLST) /\ ArchivedLists # Nil
        /\ ArchivedLists' = Contents(left)
    BY <1>0, <2>1, <2>2, <2>5, WrittenLists
  <2>8. i \in DOMAIN ArchivedLists
    BY <2>1, <2>7, ContentsFacts
  <2>9. Durable!RemoveList(i)
    BY <2>6, <2>7, SameOperators DEF Durable!RemoveList
  <2>10. left # Nil
    BY <2>2, DefListsArray
  <2> QED BY <1>0, <2>5, <2>7, <2>8, <2>9, <2>10 DEF SeedInv, Durable!Next, Durable!Tap
<1>5. ASSUME NEW i \in 1..rows, OpenList(i)
      PROVE  SeedInv' /\ UNCHANGED ArchivedLists
  <2>0. curLST # Nil /\ curLST \in Seq(DefLists) /\ i \in 1..Len(curLST)
    BY <1>3
  <2>1. i \in DOMAIN curLST /\ Displayable(curLST[i]) /\ curLST # Nil
    BY <2>0 DEF DefLists
  <2>2. UNCHANGED <<userPlist, dataPlist, curLST>>
    BY <1>5, <2>1 DEF OpenList, disk, memory
  <2> QED BY <1>1, <2>1, <2>2, <1>0 DEF SeedInv, ArchivedLists
<1> QED BY <1>2, <1>4, <1>5

\* The item screen: one item more, one less, or one toggled.
LEMMA ItemScreenStep ==
    ASSUME LocalInv, SeedInv, OnItemScreen,
           \/ \E n \in ItemNames : AddItem(n, FALSE)
           \/ \E r \in 1..screen.shown :
                 \/ ToggleItem(r, FALSE)
                 \/ \E alone \in Alone(r) : DeleteItem(r, alone, FALSE)
    PROVE  SeedInv' /\ Durable!Next
<1> DEFINE i == screen.row
           old == curLST[i].listItems
<1>1. /\ proc = "running" /\ defUid # Nil
      /\ curLST \in Seq(DefLists) /\ curLST # Nil
      /\ i \in 1..Len(curLST) /\ old \in Seq(NamedItems)
  BY ItemScreen, DefListsArray, NilAssumption DEF OnItemScreen
<1>2. PICK items \in Seq(NamedItems) :
         /\ curLST' = [curLST EXCEPT ![i].listItems = items]
         /\ WriteData(curLST', defUid)
         /\ \/ \E n \in ItemNames : items = Append(old, NewItem(n))
            \/ \E r \in 1..Len(old) : \/ items = [old EXCEPT ![r].itemPuchased = ~ @]
                                      \/ items = Without(old, r)
  BY ItemScreenWrites
<1>3. userPlist' = defUid
  BY ItemScreenWrites
<1> DEFINE lst == [curLST EXCEPT ![i].listItems = items]
           docs == Contents(curLST)
<1>4. lst \in Seq(DefLists)
  BY <1>1, ListWithItems
<1>5. /\ Contents(lst) = [docs EXCEPT ![i].listItems = items]
      /\ docs[i].listItems = old
      /\ docs \in Seq(Document) /\ i \in DOMAIN docs
  <2>1. /\ Contents(lst) = [docs EXCEPT ![i].listItems = items]
        /\ docs[i].listItems = old
    BY <1>1, ContentsOfItems
  <2>2. docs \in Seq(Document) /\ i \in DOMAIN docs
    BY <1>1, ContentsFacts
  <2> QED BY <2>1, <2>2
<1>6. curLST' = lst
  BY <1>2
<1> HIDE DEF lst
<1>7. lst # Nil
  BY <1>4, DefListsArray
<1>8. SeedInv'
  BY <1>1, <1>3, <1>6, <1>7 DEF SeedInv
<1>9. ArchivedLists = docs /\ ArchivedLists # Nil /\ ArchivedLists' = Contents(lst)
  BY <1>1, <1>2, <1>4, <1>6, WrittenLists
<1> HIDE DEF docs
<1>10. ASSUME NEW n \in ItemNames, items = Append(old, NewItem(n))
       PROVE  Durable!AddItem(i, n)
  <2>1. Contents(lst) = [docs EXCEPT ![i].listItems = Append(@, NewItem(n))]
    BY <1>5, <1>10
  <2> QED BY <1>9, <2>1, SameOperators DEF Durable!AddItem
<1>11. ASSUME NEW r \in 1..Len(old), items = [old EXCEPT ![r].itemPuchased = ~ @]
       PROVE  Durable!ToggleItem(i, r)
  <2>1. Contents(lst) = [docs EXCEPT ![i].listItems[r].itemPuchased = ~ @]
    BY <1>5, <1>11
  <2> QED BY <1>9, <2>1 DEF Durable!ToggleItem
<1>12. ASSUME NEW r \in 1..Len(old), items = Without(old, r)
       PROVE  Durable!RemoveItem(i, r)
  <2>1. Contents(lst) = [docs EXCEPT ![i].listItems = Without(@, r)]
    BY <1>5, <1>12
  <2> QED BY <1>9, <2>1, SameOperators DEF Durable!RemoveItem
<1>13. \A r \in 1..Len(old) : r \in DOMAIN docs[i].listItems
  BY <1>1, <1>5
<1>14. Durable!Tap
  BY <1>2, <1>5, <1>9, <1>10, <1>11, <1>12, <1>13 DEF Durable!Tap
<1> QED BY <1>8, <1>9, <1>14 DEF Durable!Next

\* Every step of the offline app.
LEMMA StepImplements ==
    LocalInv /\ SeedInv /\ [LocalNext]_localVars =>
        SeedInv' /\ [Durable!Next]_ArchivedLists
<1> SUFFICES ASSUME LocalInv, SeedInv, [LocalNext]_localVars
             PROVE  SeedInv' /\ (Durable!Next \/ UNCHANGED ArchivedLists)
  OBVIOUS
<1>1. CASE FirstRun \/ FirstRunKilled \/ Relaunch \/ Kill
  BY <1>1, LaunchStep
<1>2. CASE \/ \E n \in ListNames : AddNewList(n)
           \/ \E i \in 1..rows : DeleteList(i, FALSE) \/ OpenList(i)
  BY <1>2, ListScreenStep
<1>3. CASE Back
  BY <1>3 DEF Back, disk, memory, SeedInv, ArchivedLists
<1>4. CASE \/ \E n \in ItemNames : AddItem(n, FALSE)
           \/ \E r \in 1..(IF screen = Nil THEN 0 ELSE screen.shown) :
                 \/ ToggleItem(r, FALSE)
                 \/ \E alone \in Alone(r) : DeleteItem(r, alone, FALSE)
  <2>1. OnItemScreen
    BY <1>4 DEF AddItem, ToggleItem, DeleteItem
  <2>2. screen # Nil
    BY <2>1 DEF OnItemScreen
  <2> QED BY <1>4, <2>1, <2>2, ItemScreenStep
<1>5. CASE UNCHANGED localVars
  BY <1>5 DEF localVars, disk, memory, SeedInv, ArchivedLists
<1> QED BY <1>1, <1>2, <1>3, <1>4, <1>5 DEF LocalNext

-----------------------------------------------------------------------------
\* data.plist is a document that only the user's taps change: whatever the
\* handlers, kills and relaunches, the first run interrupted half-way
\* included, each change of the archive is one tap on one list or item, and
\* the sample list is given at most once.
THEOREM OfflineImplementsDurableLists == LocalSpec => ImplementsDurableLists
<1>1. LocalInit => SeedInv /\ Durable!Init
  BY DEF LocalInit, SeedInv, Durable!Init, ArchivedLists
<1> QED BY <1>1, LocalInvariant, StepImplements, PTL
        DEF LocalSpec, ImplementsDurableLists, Durable!Spec

=============================================================================

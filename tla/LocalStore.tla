----------------------------- MODULE LocalStore -----------------------------
(***************************************************************************)
(* The app without the cloud: the AppData singleton, its two archives      *)
(* (user.plist and data.plist), the table of lists (ListViewController)    *)
(* and the table of items (itemViewController), used by one person who is  *)
(* signed in to nothing.                                                   *)
(*                                                                         *)
(* Everything runs on the main queue, so a handler is one atomic step;     *)
(* the process may be killed between any two of them, and in the middle of *)
(* the one handler that writes both archives (the first run).  An          *)
(* Objective-C exception nobody catches ends the process: proc becomes     *)
(* "raised", and whatever the handler had not written yet is not written.  *)
(*                                                                         *)
(* AppSession.tla adds the cloud to these handlers.  Those that end with a *)
(* call that addresses a node of the database by a name of the list take a *)
(* parameter  refused: the call raises, because that name is nil.  It is   *)
(* FALSE here: without a signed-in user these calls return at once.        *)
(***************************************************************************)
EXTENDS ShopingTypes, Integers

CONSTANTS
    MaxLists,    \* bound: lists the user keeps in the app
    MaxItems     \* bound: items the user keeps in one list

ASSUME BoundsAssumption == MaxLists \in Nat /\ MaxItems \in Nat

\* The states of the item screen: closed, or open on a row of the lists.
Screens == [row : Nat, shown : Nat]
ASSUME NilIsNoScreen == Nil \notin Screens

VARIABLES
    proc,        \* "off" (never run, or killed), "running", "raised"
    userPlist,   \* the uid archived in user.plist, Nil: no such file
    dataPlist,   \* the lists archived in data.plist, Nil: no such file
    curUser,     \* AppData.curUser, by its uid
    curLST,      \* AppData.curLST
    offlineLST,  \* AppData.offlineLST
    rows,        \* the rows the table of lists currently displays
    screen       \* the item screen: Nil, or the list's row it was opened on
                 \* (curLSTInt) and the rows its table displays

disk == <<userPlist, dataPlist>>
memory == <<curUser, curLST, offlineLST>>
tables == <<rows, screen>>
localVars == <<proc, disk, memory, tables>>

-----------------------------------------------------------------------------
(* AppData as init leaves it, and what is left of it when the process ends. *)

Forgotten ==
    /\ curUser' = Nil
    /\ curLST' = << >>
    /\ offlineLST' = Nil
    /\ rows' = 0
    /\ screen' = Nil

LocalInit ==
    /\ proc = "off"
    /\ userPlist = Nil /\ dataPlist = Nil
    /\ curUser = Nil /\ curLST = << >> /\ offlineLST = Nil
    /\ rows = 0 /\ screen = Nil

\* An uncaught exception, raised before the handler changed either file.
Raise ==
    /\ proc' = "raised"
    /\ Forgotten
    /\ UNCHANGED disk

\* WriteDataToDisk.WriteData, called with curLST = lst and curUser = uid.
WriteData(lst, uid) ==
    /\ offlineLST' = OwnLists(lst, uid)
    /\ dataPlist' = Archive(OwnLists(lst, uid))

\* The same, in a handler that raises further down.
WriteDataThenRaise(lst) ==
    /\ dataPlist' = Archive(OwnLists(lst, curUser))
    /\ proc' = "raised"
    /\ Forgotten

\* Mutant: the index of the last list instead of their number.
ReloadListsToLast(lst) == rows' = Len(Rows(lst)) - 1

\* reloadData of the table of lists, with curLST = lst when it is called.
ReloadLists(lst) == rows' = Len(Rows(lst))

-----------------------------------------------------------------------------
(* Launching: viewDidLoad -> readData, then viewDidAppear -> reloadData.   *)

\* Mutant: without the test curUser.uid == nil.
FirstRunAgain ==
    /\ proc # "running"
    /\ proc' = "running"
    /\ curUser' = defUid /\ userPlist' = defUid
    /\ curLST' = <<SampleList(defUid)>>
    /\ WriteData(curLST', defUid)
    /\ ReloadLists(curLST') /\ screen' = Nil

\* readData without user.plist: the default user and the sample list.
FirstRun ==
    /\ proc # "running" /\ userPlist = Nil
    /\ proc' = "running"
    /\ curUser' = defUid /\ userPlist' = defUid
    /\ curLST' = <<SampleList(defUid)>>
    /\ WriteData(curLST', defUid)
    /\ ReloadLists(curLST') /\ screen' = Nil

\* The first run is killed after WriteUserToDisk and before WriteData.
FirstRunKilled ==
    /\ proc # "running" /\ userPlist = Nil
    /\ userPlist' = defUid
    /\ UNCHANGED <<proc, dataPlist, memory, tables>>

\* ReadDataFromDisk: offlineLST keeps what it had when there is no file.
ReadData == IF dataPlist = Nil THEN offlineLST ELSE dataPlist

\* readData with user.plist: curLST becomes the archived lists, nil if none.
ReadFromDisk ==
    /\ curUser' = userPlist
    /\ curLST' = ReadData
    /\ offlineLST' = ReadData

Relaunch ==
    /\ proc # "running" /\ userPlist # Nil
    /\ proc' = "running"
    /\ ReadFromDisk
    /\ ReloadLists(curLST') /\ screen' = Nil
    /\ UNCHANGED disk

\* iOS or the user ends the process between two handlers.
Kill ==
    /\ proc = "running"
    /\ proc' = "off"
    /\ Forgotten
    /\ UNCHANGED disk

-----------------------------------------------------------------------------
(* The table of lists.                                                     *)

OnListScreen == proc = "running" /\ screen = Nil

\* Mutants: addNewList without WriteData, and without reloadData.
AddNewListUnwritten(n) ==
    /\ OnListScreen /\ Len(Rows(curLST)) < MaxLists
    /\ curLST' = IF curLST = Nil THEN Nil
                 ELSE Append(curLST, NewList(n, curUser, << >>))
    /\ ReloadLists(curLST')
    /\ UNCHANGED <<proc, disk, curUser, offlineLST, screen>>

AddNewListUnloaded(n) ==
    /\ OnListScreen /\ Len(Rows(curLST)) < MaxLists
    /\ curLST' = IF curLST = Nil THEN Nil
                 ELSE Append(curLST, NewList(n, curUser, << >>))
    /\ WriteData(curLST', curUser)
    /\ UNCHANGED <<proc, userPlist, curUser, tables>>

\* addNewList: sending addObject: to a nil curLST does nothing.
AddNewList(n) ==
    /\ OnListScreen /\ Len(Rows(curLST)) < MaxLists
    /\ curLST' = IF curLST = Nil THEN Nil
                 ELSE Append(curLST, NewList(n, curUser, << >>))
    /\ ReloadLists(curLST')
    /\ WriteData(curLST', curUser)
    /\ UNCHANGED <<proc, userPlist, curUser, screen>>

\* Whether deleteRowsAtIndexPaths finds one row less than it displays.
OneRowLess(displayed, lst) == Len(lst) = displayed - 1

(***************************************************************************)
(* commitEditingStyle on row i.  The owner is compared with                *)
(* isEqualToString: here; a list of somebody else's is only taken off the  *)
(* screen.  deleteRowsAtIndexPaths comes last, and raises when the table   *)
(* was showing another number of rows than curLST had.                     *)
(***************************************************************************)
DeleteList(i, refused) ==
    /\ OnListScreen /\ i \in 1..rows
    /\ IF i > Len(curLST) THEN Raise
       ELSE LET left == RemoveObject(curLST, i)
                own  == curLST[i].listOwner = curUser
            IN  /\ IF OneRowLess(rows, left) /\ ~ (own /\ refused)
                   THEN /\ IF own THEN WriteData(left, curUser)
                                  ELSE UNCHANGED <<offlineLST, dataPlist>>
                        /\ curLST' = left
                        /\ rows' = rows - 1
                        /\ UNCHANGED <<proc, curUser, screen>>
                   ELSE IF own THEN WriteDataThenRaise(left)
                               ELSE Raise
                /\ UNCHANGED userPlist

\* A row of the item table with a nil name raises when it is displayed.
Displayable(l) == \A k \in DOMAIN l.listItems : l.listItems[k].itemName # Nil

\* didSelectRow on row i, prepareForSegue, and the item screen loads.
OpenList(i) ==
    /\ OnListScreen /\ i \in 1..rows
    /\ IF i \in DOMAIN curLST /\ Displayable(curLST[i])
       THEN /\ screen' = [row |-> i, shown |-> Len(curLST[i].listItems)]
            /\ UNCHANGED <<proc, disk, memory, rows>>
       ELSE Raise

-----------------------------------------------------------------------------
(***************************************************************************)
(* The table of items.  The item screen addresses its list by the row it   *)
(* was opened on, curLST[curLSTInt], each time it needs it.                *)
(***************************************************************************)

OnItemScreen == proc = "running" /\ screen # Nil

\* backAction: the list screen appears again and reloads its table.
Back ==
    /\ OnItemScreen
    /\ screen' = Nil
    /\ ReloadLists(curLST)
    /\ UNCHANGED <<proc, disk, memory>>

\* The item table's list holds these items; the lists are written to the
\* disk, and the table reloads its rows.
WriteItems(items, refused) ==
    LET lst == WithItems(curLST, screen.row, items)
    IN  /\ IF Displayable(lst[screen.row]) /\ ~ refused
           THEN /\ curLST' = lst
                /\ WriteData(lst, curUser)
                /\ screen' = [screen EXCEPT !.shown = Len(items)]
                /\ UNCHANGED <<proc, curUser, rows>>
           ELSE WriteDataThenRaise(lst)
        /\ UNCHANGED userPlist

\* textFieldDidEndEditing with the text n.
AddItem(n, refused) ==
    /\ OnItemScreen
    /\ IF screen.row \in DOMAIN curLST
       THEN LET items == curLST[screen.row].listItems
            IN  /\ Len(items) < MaxItems
                /\ WriteItems(Append(items, NewItem(n)), refused)
       ELSE Raise

\* Whether row r of the item table still stands for an item.
ItemAt(r) ==
    /\ screen.row \in DOMAIN curLST
    /\ r \in DOMAIN curLST[screen.row].listItems

\* The items when the object on the rows ks is toggled.
Toggled(items, ks) ==
    [k \in DOMAIN items |->
        IF k \in ks THEN [items[k] EXCEPT !.itemPuchased = ~ @] ELSE items[k]]

\* didSelectRow on item r: toggle itemPuchased, on every row the item is on.
ToggleItem(r, refused) ==
    /\ OnItemScreen /\ r \in 1..screen.shown
    /\ IF ItemAt(r)
       THEN LET l == curLST[screen.row]
            IN  \E ks \in SUBSET ItemRows(l, r) :
                   r \in ks /\ WriteItems(Toggled(l.listItems, ks), refused)
       ELSE Raise

\* Whether the item of row r is on this row only: TRUE unless it has a twin.
Alone(r) ==
    IF ItemAt(r) /\ ItemRows(curLST[screen.row], r) # {r} THEN BOOLEAN ELSE {TRUE}

(***************************************************************************)
(* commitEditingStyle on item r.  removeObject: takes the item off every   *)
(* row it is on; deleteRowsAtIndexPaths, which comes before WriteData,     *)
(* raises unless the table has one row less than it displayed.             *)
(***************************************************************************)
DeleteItem(r, alone, refused) ==
    /\ OnItemScreen /\ r \in 1..screen.shown
    /\ IF ItemAt(r) /\ alone /\ Len(curLST[screen.row].listItems) = screen.shown
       THEN LET left == Without(curLST[screen.row].listItems, r)
                lst  == WithItems(curLST, screen.row, left)
            IN  /\ IF ~ refused
                   THEN /\ curLST' = lst
                        /\ WriteData(lst, curUser)
                        /\ screen' = [screen EXCEPT !.shown = @ - 1]
                        /\ UNCHANGED <<proc, curUser, rows>>
                   ELSE WriteDataThenRaise(lst)
                /\ UNCHANGED userPlist
       ELSE Raise

-----------------------------------------------------------------------------
LocalNext ==
    \/ FirstRun \/ FirstRunKilled \/ Relaunch \/ Kill
    \/ \E n \in ListNames : AddNewList(n)
    \/ \E i \in 1..rows : DeleteList(i, FALSE) \/ OpenList(i)
    \/ Back
    \/ \E n \in ItemNames : AddItem(n, FALSE)
    \/ \E r \in 1..(IF screen = Nil THEN 0 ELSE screen.shown) :
            \/ ToggleItem(r, FALSE)
            \/ \E alone \in Alone(r) : DeleteItem(r, alone, FALSE)

LocalSpec == LocalInit /\ [][LocalNext]_localVars

-----------------------------------------------------------------------------
(* The type of the state, of the offline app and of the whole one.         *)
LocalTypeOK ==
    /\ proc \in {"off", "running", "raised"}
    /\ userPlist \in Uids \cup {Nil}
    /\ dataPlist \in Seq(List) \cup {Nil}
    /\ curUser \in Uids \cup {Nil}
    /\ curLST \in Seq(List) \cup {Nil}
    /\ offlineLST \in Seq(List) \cup {Nil}
    /\ rows \in Nat
    /\ screen \in Screens \cup {Nil}

(***************************************************************************)
(* Whenever no handler is running, data.plist holds exactly the lists on   *)
(* the screen: every change of curLST has been written, by the WriteData   *)
(* of the handler that made it, and the filter of WriteData                *)
(* (curUser.uid == listOwner.uid) has dropped none of them, whatever kills *)
(* and relaunches came before.  (curLST is nil only after a first run that *)
(* was killed half-way.)                                                   *)
(***************************************************************************)
DiskMatchesScreen ==
    (proc = "running" /\ curLST # Nil) =>
        dataPlist # Nil /\ Contents(dataPlist) = Contents(curLST)

(***************************************************************************)
(* Without the cloud no sequence of taps, kills and relaunches raises: a   *)
(* row the user can tap always stands for a list or an item, and both      *)
(* tables always agree with the arrays when rows are deleted.              *)
(***************************************************************************)
NeverRaises == proc # "raised"

\* data.plist, as the document the user believes in.
ArchivedLists == IF dataPlist = Nil THEN Nil ELSE Contents(dataPlist)

Durable == INSTANCE DurableLists WITH lists <- ArchivedLists

(***************************************************************************)
(* data.plist implements DurableLists: each handler changes the archive by *)
(* exactly the list or item that was tapped, and Kill, FirstRunKilled,     *)
(* Relaunch and the screens change nothing in it.                          *)
(***************************************************************************)
ImplementsDurableLists == Durable!Spec

-----------------------------------------------------------------------------
(***************************************************************************)
(* Why DiskMatchesScreen and NeverRaises hold: the only user there ever is *)
(* is the default one, so every list in memory and on the disk is his and  *)
(* the pointer test of WriteData accepts it even when it was decoded from  *)
(* the archive; every item has a name and a row of its own; and each       *)
(* handler leaves the tables showing what the arrays hold.                 *)
(***************************************************************************)
DefLists ==
    {l \in List : l.listOwner = defUid /\ l.copy = 0 /\ l.twins = {} /\ Displayable(l)}

TablesMatch ==
    /\ screen = Nil => rows = Len(Rows(curLST))
    /\ screen # Nil =>
          /\ curLST # Nil
          /\ screen.row \in 1..Len(curLST)
          /\ screen.shown = Len(curLST[screen.row].listItems)

LocalInv ==
    /\ LocalTypeOK
    /\ NeverRaises
    /\ userPlist \in {defUid, Nil}
    /\ dataPlist \in Seq(DefLists) \cup {Nil}
    /\ proc = "off" => offlineLST = Nil
    /\ proc = "running" =>
          /\ curUser = defUid
          /\ userPlist = defUid
          /\ curLST \in Seq(DefLists) \cup {Nil}
          /\ TablesMatch
          /\ DiskMatchesScreen

(***************************************************************************)
(* What the refinement needs in addition: before user.plist there is no    *)
(* data.plist, so the sample list is given once; and a process with a nil  *)
(* curLST has no list on the disk that its WriteData could destroy.        *)
(***************************************************************************)
SeedInv ==
    /\ userPlist = Nil => dataPlist = Nil
    /\ (proc = "running" /\ curLST = Nil) => dataPlist \in {Nil, << >>}

=============================================================================

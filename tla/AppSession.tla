----------------------------- MODULE AppSession -----------------------------
(***************************************************************************)
(* The whole app of one person: the local store, the account, the cloud    *)
(* and the timers that tie them together (ListViewController).             *)
(*                                                                         *)
(* readData of a signed-in user starts a read of Data/<uid> and, instead   *)
(* of waiting for its answer, a timer of one second.  When the timer fires *)
(* it merges whatever onlineLST holds by then with offlineLST, makes the   *)
(* result the lists of the current user, uploads and archives them.  The   *)
(* answer may come before or after, the user may go on tapping, sign out   *)
(* or leave, and the process may die, between any two of these steps.      *)
(*                                                                         *)
(* Nobody shares lists in this module: there are no invitations to read or *)
(* to fetch, and invitationLST stays nil.  Sharing.tla adds them.          *)
(***************************************************************************)
EXTENDS LocalStore, CompareList, Cloud

CONSTANTS
    Existing,       \* the accounts that exist from the start
    Here,           \* the accounts of the people who use this phone
    DuplicateNames, \* whether the user gives two lists the same name
    OtherDevices,   \* whether the accounts are used on other devices, too
    Reinstalls,     \* whether the app is deleted and installed again
    MaxEvents       \* bound: what users and the system do in a behaviour

ASSUME SessionAssumption ==
    /\ Existing \subseteq Accounts /\ Here \subseteq Accounts
    /\ DuplicateNames \in BOOLEAN /\ OtherDevices \in BOOLEAN
    /\ Reinstalls \in BOOLEAN
    /\ MaxEvents \in Nat

VARIABLES
    auth,       \* FIRAuth.auth.currentUser.uid; in the keychain, survives
    accounts,   \* the accounts Firebase Auth knows
    server,     \* the Data node
    pending,    \* writes made by this process that the server has not seen
    onlineLST,  \* AppData.onlineLST
    reads,      \* the uids whose Data node was asked for, oldest first
    timers,     \* dispatch_after blocks that have not run, oldest first
    authCalls,  \* the requests Firebase Auth is working on
    events      \* how many events there were, for the bound MaxEvents

inFlight == <<pending, onlineLST, reads, timers, authCalls>>
sessionVars == <<auth, accounts, server, inFlight>>
vars == <<localVars, sessionVars, events>>

Init ==
    /\ LocalInit
    /\ auth = Nil
    /\ accounts = Existing
    /\ server = [u \in Uids |-> NoLists]
    /\ pending = << >> /\ onlineLST = << >> /\ reads = << >>
    /\ timers = << >> /\ authCalls = << >>
    /\ events = 0

-----------------------------------------------------------------------------
(* What the end of the process takes along.                                *)

Lost ==
    /\ pending' = << >> /\ onlineLST' = << >> /\ reads' = << >>
    /\ timers' = << >> /\ authCalls' = << >>

(***************************************************************************)
(* The handler makes these writes if somebody is signed in.  When it       *)
(* raises afterwards, the first of the writes may still have got out.      *)
(***************************************************************************)
SignedIn(ws) == IF auth = Nil THEN << >> ELSE ws

Issue(ws) ==
    LET all == pending \o SignedIn(ws)
    IN  IF proc' = "running"
        THEN pending' = all /\ UNCHANGED <<server, onlineLST, reads, timers, authCalls>>
        ELSE /\ Lost
             /\ \E k \in 0..Len(all) : server' = ApplyAll(server, SubSeq(all, 1, k))

\* A tap that changes something, a kill, a write by another device.
Event == events < MaxEvents /\ events' = events + 1

-----------------------------------------------------------------------------
(* Launching and ending the process.                                       *)

\* Mutant: without the test FIRAuth.auth.currentUser.uid != nil.
StartSyncAlways(uid) ==
    /\ reads' = Append(reads, uid)
    /\ timers' = Append(timers, [kind |-> "merge", uid |-> uid])

\* The end of readData: the read and the timer, if somebody is signed in.
StartSync(uid) ==
    IF uid = Nil THEN UNCHANGED <<reads, timers>>
    ELSE /\ reads' = Append(reads, uid)
         /\ timers' = Append(timers, [kind |-> "merge", uid |-> uid])

\* readData goes on to the sync after a first run, too: somebody is signed in
\* on a first run if the app was deleted and installed again.
LaunchFirst ==
    /\ \/ FirstRun /\ StartSync(auth)
       \/ FirstRunKilled /\ UNCHANGED <<reads, timers>>
    /\ UNCHANGED <<auth, accounts, server, pending, onlineLST, authCalls, events>>

Launch ==
    /\ Relaunch
    /\ StartSync(auth)
    /\ UNCHANGED <<auth, accounts, server, pending, onlineLST, authCalls, events>>

Killed ==
    /\ Event
    /\ Kill
    /\ Lost
    /\ UNCHANGED <<auth, accounts, server>>

\* The app is deleted and installed again: its files are gone, while FIRAuth
\* finds its user in the keychain.
Reinstall ==
    /\ Reinstalls /\ Event
    /\ userPlist # Nil
    /\ proc' = "off" /\ Forgotten
    /\ userPlist' = Nil /\ dataPlist' = Nil
    /\ Lost
    /\ UNCHANGED <<auth, accounts, server>>

-----------------------------------------------------------------------------
(* The taps of LocalStore, with what they do to the cloud.                 *)

\* child:nil raises: what has no name has no node.
Refused(name) == auth # Nil /\ name = Nil

\* Mutant: without SaveListOnCloud.
NewListTapUnsaved(n) ==
    /\ Event /\ (DuplicateNames \/ n \notin Names(Rows(curLST)))
    /\ AddNewList(n)
    /\ Issue(<< >>)
    /\ UNCHANGED <<auth, accounts>>

\* addNewList, from newListBtnAction.
NewListTap(n) ==
    /\ Event /\ (DuplicateNames \/ n \notin Names(Rows(curLST)))
    /\ AddNewList(n)
    /\ Issue(<<SaveListOnCloud(curUser, NewList(n, curUser, << >>))>>)
    /\ UNCHANGED <<auth, accounts>>

\* A list of somebody else's is a rejected invitation: no write to Data.
DeleteListTap(i) ==
    /\ Event
    /\ IF i \in DOMAIN curLST
       THEN LET l == curLST[i]
            IN  /\ DeleteList(i, Refused(l.listName))
                /\ Issue(IF l.listOwner = curUser /\ ~ Refused(l.listName)
                         THEN <<DeleteListFromCloud(l)>> ELSE << >>)
       ELSE DeleteList(i, FALSE) /\ Issue(<< >>)
    /\ UNCHANGED <<auth, accounts>>

OpenListTap(i) ==
    /\ OpenList(i) /\ Issue(<< >>)
    /\ UNCHANGED <<auth, accounts, events>>

BackTap == Back /\ UNCHANGED <<sessionVars, events>>

\* The item of row r, if the row still stands for one; the handler raises if not.
Tapped(r) == IF ItemAt(r) THEN <<curLST[screen.row].listItems[r]>> ELSE << >>

\* The opened list, or one of these items of it, has no name.
RefusedItems(items) ==
    /\ screen.row \in DOMAIN curLST
    /\ \/ Refused(curLST[screen.row].listName)
       \/ \E k \in DOMAIN items : Refused(items[k].itemName)

\* Mutant: below the current user, as DeleteItemFromCloud does it.
SavedItemsAtUser(items) ==
    IF screen.row \notin DOMAIN curLST \/ RefusedItems(items) THEN << >>
    ELSE [k \in DOMAIN items |->
             SaveItemToCloud(items[k], [curLST[screen.row] EXCEPT !.listOwner = curUser])]

\* What a handler of the item screen does in the cloud with these items.
SavedItems(items) ==
    IF screen.row \notin DOMAIN curLST \/ RefusedItems(items) THEN << >>
    ELSE [k \in DOMAIN items |-> SaveItemToCloud(items[k], curLST[screen.row])]

DeletedItems(items) ==
    IF screen.row \notin DOMAIN curLST \/ RefusedItems(items) THEN << >>
    ELSE [k \in DOMAIN items |->
             DeleteItemFromCloud(curUser, items[k], curLST[screen.row])]

AddItemTap(n) ==
    /\ OnItemScreen /\ Event
    /\ AddItem(n, RefusedItems(<<NewItem(n)>>))
    /\ Issue(SavedItems(<<NewItem(n)>>))
    /\ UNCHANGED <<auth, accounts>>

ToggleItemTap(r) ==
    LET items == [k \in DOMAIN Tapped(r) |->
                     [Tapped(r)[k] EXCEPT !.itemPuchased = ~ @]]
    IN  /\ OnItemScreen /\ Event
        /\ ToggleItem(r, RefusedItems(items))
        /\ Issue(SavedItems(items))
        /\ UNCHANGED <<auth, accounts>>

\* A number of rows other than displayed raises before the item is deleted.
DeleteItemTap(r) ==
    /\ OnItemScreen /\ Event
    /\ \E alone \in Alone(r) :
          LET fits == alone /\ Len(curLST[screen.row].listItems) = screen.shown
              items == IF ItemAt(r) /\ fits THEN Tapped(r) ELSE << >>
          IN  /\ DeleteItem(r, alone, RefusedItems(items))
              /\ Issue(DeletedItems(items))
    /\ UNCHANGED <<auth, accounts>>

-----------------------------------------------------------------------------
(***************************************************************************)
(* Signing in, signing up and signing out, from the sheet the list screen  *)
(* shows.  A tap does not wait for the answer to the one before, and       *)
(* answers come in any order.                                              *)
(***************************************************************************)

Request(kind, uid) == authCalls' = Append(authCalls, [kind |-> kind, uid |-> uid])

MayRequest == OnListScreen /\ Event

\* loginWithEmail: readData, then the request.
LoginTap(uid) ==
    /\ MayRequest
    /\ ReadFromDisk
    /\ StartSync(auth)
    /\ Request("signIn", uid)
    /\ UNCHANGED <<proc, disk, tables, auth, accounts, server, pending, onlineLST>>

\* The answer to signInWithEmail: the account, and a timer of a second.
SignInDone(c) ==
    /\ authCalls[c].kind = "signIn" /\ authCalls[c].uid \in accounts
    /\ auth' = authCalls[c].uid
    /\ timers' = Append(timers, [kind |-> "signedIn", uid |-> authCalls[c].uid])
    /\ authCalls' = Without(authCalls, c)
    /\ UNCHANGED <<localVars, accounts, server, pending, onlineLST, reads, events>>

\* registerUserWithName.
RegisterTap(uid) ==
    /\ MayRequest
    /\ Request("create", uid)
    /\ UNCHANGED <<localVars, auth, accounts, server, pending, onlineLST, reads, timers>>

\* The answer to createUserWithEmail: the new user is signed in at once, and
\* his profile is to be changed next.
CreateDone(c) ==
    /\ authCalls[c].kind = "create" /\ authCalls[c].uid \notin accounts
    /\ accounts' = accounts \cup {authCalls[c].uid}
    /\ auth' = authCalls[c].uid
    /\ authCalls' = Append(Without(authCalls, c),
                           [kind |-> "profile", uid |-> authCalls[c].uid])
    /\ UNCHANGED <<localVars, server, pending, onlineLST, reads, timers, events>>

\* The answer to commitChanges: a timer of half a second.
ProfileDone(c) ==
    /\ authCalls[c].kind = "profile"
    /\ timers' = Append(timers, [kind |-> "registered", uid |-> authCalls[c].uid])
    /\ authCalls' = Without(authCalls, c)
    /\ UNCHANGED <<localVars, auth, accounts, server, pending, onlineLST, reads, events>>

\* An error answers any of the three requests: an alert, and nothing more.
AuthFails(c) ==
    /\ authCalls' = Without(authCalls, c)
    /\ UNCHANGED <<localVars, auth, accounts, server, pending, onlineLST, reads, timers, events>>

LogoutTap ==
    /\ OnListScreen /\ auth # Nil /\ Event
    /\ auth' = Nil
    /\ UNCHANGED <<localVars, accounts, server, inFlight>>

-----------------------------------------------------------------------------
(***************************************************************************)
(* The timers.  Each delay is a constant, in hundredths of a second, so a  *)
(* block runs before every block that was started later with at least the  *)
(* same delay.                                                             *)
(***************************************************************************)

Delay == [registered |-> 50, invite |-> 75, merge |-> 100, signedIn |-> 100]

Fires(k, kind) ==
    /\ proc = "running"
    /\ timers[k].kind = kind
    /\ \A j \in 1..(k - 1) : Delay[timers[j].kind] > Delay[kind]

\* SetTheUser on the lists: the current user's become the new user's.
SetTheUser(lst, uid) ==
    [i \in DOMAIN lst |->
        IF SameUid(lst[i], curUser) THEN [lst[i] EXCEPT !.listOwner = uid, !.mine = TRUE]
                                    ELSE [lst[i] EXCEPT !.mine = FALSE]]

\* The block of loginWithEmail: SetTheUser, then readData, which reads back
\* the lists as they were archived.
SignedInTimer(k) ==
    /\ Fires(k, "signedIn")
    /\ userPlist' = timers[k].uid /\ curUser' = timers[k].uid
    /\ curLST' = ReadData /\ offlineLST' = ReadData
    /\ LET rest == Without(timers, k)
       IN  IF auth = Nil THEN timers' = rest /\ UNCHANGED reads
           ELSE /\ reads' = Append(reads, auth)
                /\ timers' = Append(rest, [kind |-> "merge", uid |-> auth])
    /\ UNCHANGED <<proc, dataPlist, tables, auth, accounts, server, pending,
                   onlineLST, authCalls, events>>

\* SaveListOnCloud raises on a list, or an item, without a name.
Savable(l) == l.listName # Nil /\ Displayable(l)

\* A loop of SaveListOnCloud: what it writes before it ends or raises.
Saves(lst, uid) ==
    LET bad == {p \in DOMAIN lst : ~ Savable(lst[p])}
        good == {p \in DOMAIN lst : \A q \in bad : p < q}
    IN  [p \in good |-> SaveListOnCloud(uid, lst[p])]

AllSavable(lst) == auth = Nil \/ \A p \in DOMAIN lst : Savable(lst[p])

\* The block of registerUserWithName: SetTheUser, and all lists are uploaded
\* for the new user.  The lists are not archived again.
RegisteredTimer(k) ==
    LET uid == timers[k].uid
        lst == IF curLST = Nil THEN Nil ELSE SetTheUser(curLST, uid)
    IN  /\ Fires(k, "registered")
        /\ userPlist' = uid
        /\ IF AllSavable(Rows(lst))
           THEN /\ curUser' = uid /\ curLST' = lst
                /\ ReloadLists(lst)
                /\ pending' = pending \o SignedIn(Saves(Rows(lst), uid))
                /\ timers' = Without(timers, k)
                /\ UNCHANGED <<proc, dataPlist, offlineLST, screen, server,
                               onlineLST, reads, authCalls, events>>
           ELSE /\ proc' = "raised" /\ Forgotten /\ UNCHANGED dataPlist
                /\ Issue(Saves(Rows(lst), uid))
        /\ UNCHANGED <<auth, accounts, events>>

\* Mutant: the merged lists keep their owners.
MergeResultNotOwned(later) == compare(onlineLST, Rows(offlineLST), later)

\* Mutant: what the cloud has replaces what the phone has.
MergeResultOfCloud(later) ==
    [i \in DOMAIN onlineLST |-> [onlineLST[i] EXCEPT !.listOwner = curUser, !.mine = TRUE]]

\* The lists the merge makes: they all become the current user's.
MergeResult(later) ==
    LET all == compare(onlineLST, Rows(offlineLST), later)
    IN  [i \in DOMAIN all |-> [all[i] EXCEPT !.listOwner = curUser, !.mine = TRUE]]

(***************************************************************************)
(* The block of readData: merge, upload, archive, then ask for invitations *)
(* (child:nil raises when nobody is signed in any more) and start the last *)
(* timer.  compare:and: leaves onlineLST without its unique lists.         *)
(***************************************************************************)
MergeTimer(k) ==
    /\ Fires(k, "merge")
    /\ \E later \in SUBSET Ties(onlineLST, Rows(offlineLST)) :
         LET lst == MergeResult(later)
         IN  IF auth = Nil
             THEN WriteDataThenRaise(lst) /\ UNCHANGED userPlist /\ Issue(<< >>)
             ELSE IF ~ AllSavable(lst)
             THEN Raise /\ Issue(Saves(lst, curUser))
             ELSE /\ curLST' = lst
                  /\ WriteData(lst, curUser)
                  /\ pending' = pending \o Saves(lst, curUser)
                  /\ onlineLST' = Residual(onlineLST, Rows(offlineLST))
                  /\ timers' = Append(Without(timers, k),
                                      [kind |-> "invite", uid |-> auth])
                  /\ UNCHANGED <<proc, userPlist, curUser, tables, server, reads,
                                 authCalls>>
    /\ UNCHANGED <<auth, accounts, events>>

\* Mutant: the inner block starts over.
InviteTimerAgain(k, invitationLST) ==
    /\ Fires(k, "invite")
    /\ ReloadLists(curLST)
    /\ timers' = Append(Without(timers, k), [kind |-> "merge", uid |-> timers[k].uid])
    /\ UNCHANGED <<proc, disk, memory, screen, auth, accounts, server, pending,
                   onlineLST, reads, authCalls, events>>

\* The inner block: the invited lists are appended, and the table reloads.
InviteTimer(k, invitationLST) ==
    /\ Fires(k, "invite")
    /\ curLST' = IF curLST = Nil THEN Nil ELSE curLST \o invitationLST
    /\ ReloadLists(curLST')
    /\ timers' = Without(timers, k)
    /\ UNCHANGED <<proc, disk, curUser, offlineLST, screen, auth, accounts, server,
                   pending, onlineLST, reads, authCalls, events>>

-----------------------------------------------------------------------------
(* The network.                                                            *)

\* The answer to the oldest read; an empty Data node leaves onlineLST alone.
ReadAnswer ==
    /\ reads # << >>
    /\ LET lists == ApplyAll(server, pending)[Head(reads)]
       IN  onlineLST' \in IF Present(lists) = {} THEN {onlineLST}
                          ELSE ReadDataFromCloud(lists)
    /\ reads' = Tail(reads)
    /\ UNCHANGED <<localVars, auth, accounts, server, pending, timers, authCalls, events>>

WriteArrives ==
    /\ pending # << >>
    /\ server' = Apply(server, Head(pending))
    /\ pending' = Tail(pending)
    /\ UNCHANGED <<localVars, auth, accounts, onlineLST, reads, timers, authCalls, events>>

\* The same app on another device adds a list, adds an item or deletes a list.
OtherDevice(uid, n) ==
    /\ OtherDevices /\ uid \in accounts /\ Event
    /\ \/ /\ server[uid][n] = Nil
          /\ server' = Apply(server, SaveListOnCloud(uid, NewList(n, uid, << >>)))
       \/ /\ server[uid][n] # Nil
          /\ \E i \in ItemNames :
                server' = Apply(server, SaveItemToCloud(NewItem(i), NewList(n, uid, << >>)))
       \/ /\ server[uid][n] # Nil
          /\ server' = Apply(server, DeleteListFromCloud(NewList(n, uid, << >>)))
    /\ UNCHANGED <<localVars, auth, accounts, inFlight>>

-----------------------------------------------------------------------------
Tap ==
    \/ \E n \in ListNames : NewListTap(n)
    \/ \E i \in 1..rows : DeleteListTap(i) \/ OpenListTap(i)
    \/ BackTap
    \/ \E n \in ItemNames : AddItemTap(n)
    \/ \E r \in 1..(IF screen = Nil THEN 0 ELSE screen.shown) :
            ToggleItemTap(r) \/ DeleteItemTap(r)
    \/ \E uid \in Here : LoginTap(uid) \/ RegisterTap(uid)
    \/ LogoutTap

Timer ==
    \E k \in DOMAIN timers :
        SignedInTimer(k) \/ RegisteredTimer(k) \/ MergeTimer(k) \/ InviteTimer(k, << >>)

AuthAnswer ==
    \E c \in DOMAIN authCalls :
        SignInDone(c) \/ CreateDone(c) \/ ProfileDone(c) \/ AuthFails(c)

Next ==
    \/ LaunchFirst \/ Launch \/ Killed \/ Reinstall
    \/ Tap \/ Timer \/ AuthAnswer
    \/ ReadAnswer \/ WriteArrives
    \/ \E uid \in Accounts, n \in ListNames : OtherDevice(uid, n)

Spec == Init /\ [][Next]_vars

(***************************************************************************)
(* Fairness: the main queue runs a block whose time has come, and while    *)
(* the process lives the device gets through to Firebase in the end.       *)
(* Nothing is assumed of the user, of the system that kills the process,   *)
(* or of the other devices.  The first conjunct is WF_vars(Timer) with     *)
(* ENABLED written out: the oldest of the timers with the shortest delay   *)
(* may always run.                                                         *)
(***************************************************************************)
Fairness ==
    /\ []<>(timers = << >>) \/ []<><<Timer>>_vars
    /\ WF_vars(AuthAnswer)
    /\ WF_vars(ReadAnswer)
    /\ WF_vars(WriteArrives)

FairSpec == Spec /\ Fairness

-----------------------------------------------------------------------------
\* The blocks that dispatch_after holds, and the requests to Firebase Auth.
Block == [kind : {"registered", "invite", "merge", "signedIn"}, uid : Accounts]

AuthRequest == [kind : {"signIn", "create", "profile"}, uid : Accounts]

\* The type of the cloud's part of the state.
CloudTypeOK ==
    /\ auth \in Accounts \cup {Nil}
    /\ accounts \subseteq Accounts
    /\ server \in DataNode
    /\ pending \in Seq(Write)
    /\ onlineLST \in Seq(List)
    /\ reads \in Seq(Accounts)
    /\ timers \in Seq(Block)
    /\ authCalls \in Seq(AuthRequest)
    /\ events \in 0..MaxEvents

TypeOK == LocalTypeOK /\ CloudTypeOK

(***************************************************************************)
(* As long as the user is the default one, data.plist has exactly the      *)
(* lists on the screen: also after a sign-up that failed half-way (signed  *)
(* in, but still the default user), after the merges that follow it, and   *)
(* after kills and relaunches.  SetTheUser is the only way out of this.    *)
(***************************************************************************)
DefaultDiskIsScreen == curUser = defUid => DiskMatchesScreen

(***************************************************************************)
(* No list and no item disappears from the default user's data.plist,      *)
(* unless he deletes it: not by a merge that runs before, after or without *)
(* the answer of the cloud, with what another account's cloud had answered *)
(* before, or for a user who has signed out meanwhile, and not by a tap    *)
(* between two of these steps, a process that is killed or an exception.   *)
(* (Of two lists of one name the merge drops the second: DuplicateNames.)  *)
(***************************************************************************)
Deletion ==
    \/ \E i \in 1..rows : DeleteListTap(i)
    \/ \E r \in 1..(IF screen = Nil THEN 0 ELSE screen.shown) : DeleteItemTap(r)

DefaultUserLosesNothing ==
    [][userPlist = defUid /\ userPlist' = defUid /\ ~ Deletion =>
          \A n \in Names(Rows(dataPlist)) :
             /\ n \in Names(Rows(dataPlist'))
             /\ ItemNamesUnder(n, Rows(dataPlist))
                   \subseteq ItemNamesUnder(n, Rows(dataPlist'))]_vars

(***************************************************************************)
(* data.plist never mixes the lists of two users, and AppData.curUser is   *)
(* the user of user.plist: whoever signed in, out or up, in whatever order *)
(* the timers and answers came.                                            *)
(***************************************************************************)
OneOwnerOnDisk ==
    /\ \A i, j \in DOMAIN Rows(dataPlist) :
          dataPlist[i].listOwner = dataPlist[j].listOwner
    /\ proc = "running" => curUser = userPlist

\* The Data node as this process sees it: with its own writes.
View == ApplyAll(server, pending)

\* What ReadDataFromCloud would find of a list it finds with that name.
SeenAs(l, node) ==
    /\ node # Nil /\ node.listNameKey
    /\ \A n \in ItemNames :
          LET flags == {it.itemPuchased : it \in {x \in Elements(l.listItems) : x.itemName = n}}
          IN  IF node.listItems[n] = Nil THEN flags = {}
              ELSE node.listItems[n].itemNameKey /\ node.listItems[n].purchased \in flags

(***************************************************************************)
(* The merge that readData starts ends, unless it raises, with the screen, *)
(* the archive and the cloud (as this device sees it) in agreement on      *)
(* every list, for the user who is current at that moment: whatever the    *)
(* cloud had answered by then, and whatever was tapped meanwhile.          *)
(***************************************************************************)
MergeAgrees ==
    [][(\E k \in DOMAIN timers : MergeTimer(k)) /\ proc' = "running" =>
          /\ DiskMatchesScreen'
          /\ \A i \in DOMAIN curLST' :
                /\ curLST'[i].listOwner = curUser'
                /\ SeenAs(curLST'[i], View'[curUser'][curLST'[i].listName])]_vars

(***************************************************************************)
(* No sync goes on for ever: the timers of readData, loginWithEmail and    *)
(* registerUserWithName start one another, and the chain ends, with every  *)
(* answer applied and every write delivered.                               *)
(***************************************************************************)
SyncsEnd ==
    []<>(timers = << >> /\ reads = << >> /\ pending = << >> /\ authCalls = << >>)

(***************************************************************************)
(* A list shown to a signed-in user reaches his Data node, however it came *)
(* to the screen (typed in before, while or after he signed in, read from  *)
(* the disk, merged), unless it leaves the screen, the user signs out or   *)
(* changes, or the process ends.  Two lists of one name share a node and   *)
(* are excluded by DuplicateNames = FALSE.                                 *)
(***************************************************************************)
ShownListsReachServer ==
    \A n \in ListNames :
        LET shown == /\ proc = "running" /\ auth # Nil /\ auth = curUser
                     /\ n \in Names(Rows(curLST))
        IN  shown ~> (~ shown \/ server[curUser][n] # Nil)

-----------------------------------------------------------------------------
(* What comments and messages of the program say, and the code does not do. *)

(***************************************************************************)
(* itemViewController.m:199, "///write date to disk": a toggled item is in *)
(* data.plist when the handler of the tap is done.                         *)
(***************************************************************************)
ToggleIsOnDisk ==
    [][\A r \in 1..(IF screen = Nil THEN 0 ELSE screen.shown) :
          ToggleItemTap(r) /\ proc' = "running" =>
              Content(curLST'[screen.row]) \in Elements(Contents(dataPlist'))]_vars

(***************************************************************************)
(* itemViewController.m:203, "//save item purchased state to cloud": the   *)
(* item just toggled by a signed-in user, in a list the cloud knows, can   *)
(* be read back with its name and its new state.                           *)
(***************************************************************************)
ToggleIsInCloud ==
    [][\A r \in 1..(IF screen = Nil THEN 0 ELSE screen.shown) :
          ToggleItemTap(r) /\ proc' = "running" /\ auth # Nil =>
              LET l == curLST'[screen.row]
                  it == l.listItems[r]
                  node == View'[l.listOwner][l.listName]
              IN  View[l.listOwner][l.listName] # Nil =>
                    ReadItem(it.itemName, node.listItems[it.itemName]) = it]_vars

(***************************************************************************)
(* ListViewController.m:220, "you date saved successfully": when the block *)
(* of registerUserWithName shows this, all lists are in the cloud or on    *)
(* their way to it.                                                        *)
(***************************************************************************)
RegistrationSaves ==
    [][\A k \in DOMAIN timers :
          RegisteredTimer(k) /\ proc' = "running" =>
              \A i \in DOMAIN Rows(curLST') :
                  SeenAs(curLST'[i], View'[timers[k].uid][curLST'[i].listName])]_vars

-----------------------------------------------------------------------------
(***************************************************************************)
(* Why TypeOK, OneOwnerOnDisk and DefaultDiskIsScreen hold.  What is in    *)
(* data.plist was decoded from it (no list of it is mine) and was the      *)
(* lists of one user when WriteData wrote it.  A list in memory that holds *)
(* the very uid object of curUser is curUser's: SetTheUser, MergeResult    *)
(* and NewList give a list both, and ReadFromDisk neither.                 *)
(***************************************************************************)
OwnedLists(uid) == {l \in List : l.listOwner = uid}

DecodedLists(uid) == {l \in OwnedLists(uid) : ~ l.mine /\ l.copy = 0}

UserLists(uid) == {l \in List : l.listOwner \in Uids /\ (l.mine => l.listOwner = uid)}

StoreInv ==
    /\ LocalTypeOK
    /\ dataPlist = Nil => offlineLST = Nil
    /\ userPlist = Nil => dataPlist = Nil /\ proc # "running"
    /\ dataPlist # Nil => \E uid \in Uids : dataPlist \in Seq(DecodedLists(uid))
    /\ proc = "running" =>
          /\ curUser = userPlist
          /\ curLST \in Seq(UserLists(curUser)) \cup {Nil}
          /\ dataPlist = Nil => curLST = Nil
          /\ curLST = Nil => rows = 0 /\ screen = Nil

(***************************************************************************)
(* As long as the user is the default one, all lists are his, on the disk  *)
(* and in memory: the filter of WriteData lets all of them through.        *)
(***************************************************************************)
DefaultInv ==
    /\ userPlist = defUid /\ dataPlist # Nil => dataPlist \in Seq(DecodedLists(defUid))
    /\ proc = "running" /\ curUser = defUid =>
          /\ curLST \in Seq(OwnedLists(defUid)) \cup {Nil}
          /\ DiskMatchesScreen

SessionInv == StoreInv /\ CloudTypeOK

(***************************************************************************)
(* Why MergeAgrees holds when the user gives no two lists the same name:   *)
(* no array ever holds two lists of one name, not the one compare:and:     *)
(* makes either, so each list of the merge is uploaded to a node of its    *)
(* own.  (Lists without a name may be many; they are not uploaded.)        *)
(***************************************************************************)
NamesDiffer(lst) == Distinct([i \in DOMAIN lst |-> lst[i].listName])

NamesInv ==
    /\ NamesDiffer(Rows(dataPlist)) /\ NamesDiffer(Rows(offlineLST))
    /\ NamesDiffer(Rows(curLST)) /\ NamesDiffer(onlineLST)

(***************************************************************************)
(* Why DefaultUserLosesNothing holds: offlineLST, which the merge starts   *)
(* from, always has what data.plist has, and a nil curLST, which WriteData *)
(* archives as an empty array, has no list on the disk to destroy.         *)
(***************************************************************************)
KeepInv ==
    proc = "running" =>
        /\ Contents(offlineLST) = Contents(dataPlist)
        /\ curLST = Nil => dataPlist \in {Nil, << >>}

=============================================================================

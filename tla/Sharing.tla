------------------------------ MODULE Sharing -------------------------------
(***************************************************************************)
(* Shared lists.  inviteUserWithEmail stores an invitation, the uid of a   *)
(* list's owner and the list's name, at Users/<uid>/invitations of the     *)
(* invited user.  His app reads them after each merge (ReadInvitations),   *)
(* watches the owners' Data nodes (FetchInvitationList) and, 0.75 seconds  *)
(* later, appends what has come by then to curLST.                         *)
(*                                                                         *)
(* Both kinds of observers stay for the life of the process.  The one      *)
(* inviteUserWithEmail attaches watches all of Users, where it also        *)
(* writes; the ones of FetchInvitationList make another copy of the list   *)
(* whenever anything below Data/<owner> changes.  A change is delivered    *)
(* some time after it became visible to this process, and changes that     *)
(* follow each other may be delivered as one.                              *)
(*                                                                         *)
(* The other users are their invitations and what OtherDevice does to      *)
(* their lists.                                                            *)
(***************************************************************************)
EXTENDS AppSession

CONSTANT
    TaggedNames  \* the names short enough for a tagged pointer: copies of
                 \* one of these are == to one another, of others never

ASSUME TaggedAssumption == TaggedNames \subseteq ListNames

VARIABLES
    users,         \* the Users node: Nil, or the invitations of an entry
    usersPending,  \* writes to it that the server has not seen
    coords,        \* AppData.invitationsCoords, nil until some were read
    coordReads,    \* the uids whose Users node was asked for, oldest first
    fetched,       \* the lists FetchInvitationList has made, with the call
                   \* and the node each was made from
    invited,       \* the call whose fetchedArr invitationLST is, 0: nil
    fetchers,      \* the observers of FetchInvitationList
    inviters,      \* the observers of inviteUserWithEmail
    everInvited,   \* history: who has ever been invited to what
    everSignedIn   \* history: the accounts ever signed in on this phone

watching == <<coords, coordReads, fetched, invited, fetchers, inviters>>
sharingVars == <<users, usersPending, watching>>
history == <<everInvited, everSignedIn>>
allVars == <<vars, sharingVars, history>>

\* The name of an invitation's node is made of these two: "<uid>|<listName>".
Invitation == Uids \X ListNames

\* Firebase has so many accounts, and an absent entry is no set of invitations.
ASSUME UsersAssumption ==
    IsFiniteSet(Accounts) /\ \A invs \in SUBSET Invitation : invs # Nil

SharingInit ==
    /\ Init
    /\ users \in [Uids -> {Nil, {}}] /\ {u \in Uids : users[u] # Nil} \subseteq Existing
    /\ usersPending = << >>
    /\ coords = Nil /\ coordReads = << >>
    /\ fetched = << >> /\ invited = 0
    /\ fetchers = {} /\ inviters = {}
    /\ everInvited = {} /\ everSignedIn = {}

-----------------------------------------------------------------------------
(* The Users node.                                                         *)

\* An entry, an invitation, or the removal of one, below Users/<uid>.
PutEntry(uid) == [kind |-> "entry", uid |-> uid, inv |-> Nil]

\* Mutant: the invitation is stored below its owner.
PutInvitationAtOwner(uid, inv) == [kind |-> "put", uid |-> inv[1], inv |-> inv]

PutInvitation(uid, inv) == [kind |-> "put", uid |-> uid, inv |-> inv]

\* RemoveInvitation looks below the list's owner.
RemoveInvitation(l) ==
    [kind |-> "remove", uid |-> l.listOwner, inv |-> <<l.listOwner, l.listName>>]

\* setValue: of an entry replaces what was there; without an entry, which has
\* the e-mail, nobody finds what else is there.
ApplyUser(us, w) ==
    [us EXCEPT ![w.uid] =
        CASE w.kind = "entry"  -> {}
          [] w.kind = "put"    -> IF @ = Nil THEN Nil ELSE @ \cup {w.inv}
          [] w.kind = "remove" -> IF @ = Nil THEN Nil ELSE @ \ {w.inv}]

ApplyUsers(us, ws) ==
    LET after[i \in 0..Len(ws)] ==
            IF i = 0 THEN us ELSE ApplyUser(after[i - 1], ws[i])
    IN  after[Len(ws)]

\* The Users node as this process sees it: with its own writes.
UsersView == ApplyUsers(users, usersPending)

\* The handler makes these writes; if it raises, the first may have got out.
IssueUsers(ws) ==
    LET all == usersPending \o ws
    IN  IF proc' = "running" THEN usersPending' = all /\ UNCHANGED users
        ELSE /\ usersPending' = << >>
             /\ \E k \in 0..Len(all) : users' = ApplyUsers(users, SubSeq(all, 1, k))

-----------------------------------------------------------------------------
(* AppData and the observers, which end with the process.                  *)

Unwatched ==
    /\ coords' = Nil /\ coordReads' = << >> /\ fetched' = << >>
    /\ invited' = 0 /\ fetchers' = {} /\ inviters' = {}

Watching == IF proc' = "running" THEN UNCHANGED watching ELSE Unwatched

(***************************************************************************)
(* The fetched lists are the very objects curLST shows them with.  A       *)
(* handler that changes the lists of an array changes these too.  When     *)
(* there is another curUser object, read from the disk or made by          *)
(* SetTheUser, only lists that were given its uid object have it.          *)
(***************************************************************************)
ChangedIn(fs, lst) ==
    [c \in DOMAIN fs |->
        LET rowsOf == {i \in DOMAIN Rows(lst) : lst[i].copy = c}
        IN  IF rowsOf = {} THEN fs[c]
            ELSE [fs[c] EXCEPT !.list = lst[CHOOSE i \in rowsOf : TRUE]]]

Disowned(fs) == [c \in DOMAIN fs |-> [fs[c] EXCEPT !.list.mine = FALSE]]

ChangingFetched(fs) ==
    IF proc' = "running"
    THEN fetched' = fs /\ UNCHANGED <<coords, coordReads, invited, fetchers, inviters>>
    ELSE Unwatched

\* invitationLST: the array of the call that added to its array last.
InvitationLST ==
    LET made == Kept(fetched, {f \in Elements(fetched) : f.call = invited})
    IN  [i \in DOMAIN made |-> made[i].list]

-----------------------------------------------------------------------------
(* What the handlers of AppSession do about shared lists.                  *)

\* The handlers that know nothing of them.
UnsharedStep ==
    /\ \/ LaunchFirst \/ Launch \/ Killed \/ Reinstall
       \/ \E n \in ListNames : NewListTap(n)
       \/ \E i \in 1..rows : OpenListTap(i)
       \/ BackTap
       \/ \E uid \in Here : RegisterTap(uid)
       \/ LogoutTap
    /\ Watching /\ IssueUsers(<< >>)

\* loginWithEmail begins with readData.
LoginStep ==
    /\ \E uid \in Here : LoginTap(uid)
    /\ ChangingFetched(Disowned(fetched)) /\ IssueUsers(<< >>)

\* An item of an invited list changes in invitationLST as well.
ItemTap ==
    /\ \/ \E n \in ItemNames : AddItemTap(n)
       \/ \E r \in 1..(IF screen = Nil THEN 0 ELSE screen.shown) :
             ToggleItemTap(r) \/ DeleteItemTap(r)
    /\ ChangingFetched(ChangedIn(fetched, curLST')) /\ IssueUsers(<< >>)

\* commitEditingStyle: somebody else's list is rejected.
RejectTap(i) ==
    /\ DeleteListTap(i)
    /\ Watching
    /\ IssueUsers(IF i \in DOMAIN curLST /\ auth # Nil
                     /\ curLST[i].listOwner # curUser /\ curLST[i].listName # Nil
                  THEN <<RemoveInvitation(curLST[i])>> ELSE << >>)

\* Mutant: the entry is stored before SetTheUser.
EntryTimerEarly(k) ==
    /\ RegisteredTimer(k)
    /\ ChangingFetched(ChangedIn(Disowned(fetched), curLST'))
    /\ IssueUsers(<<PutEntry(curUser)>>)

\* The block of registerUserWithName stores the user's entry, signed in or not.
EntryTimer(k) ==
    /\ RegisteredTimer(k)
    /\ ChangingFetched(ChangedIn(Disowned(fetched), curLST'))
    /\ IssueUsers(<<PutEntry(timers[k].uid)>>)

(***************************************************************************)
(* The end of the block of readData: readCoordinates asks for the          *)
(* invitations, and FetchInvitationList attaches an observer for each of   *)
(* those known so far.  (Logging invitationLST[0] would raise if the array *)
(* were empty; see SharingTypeOK.)                                         *)
(***************************************************************************)
FetchTimer(k) ==
    /\ MergeTimer(k)
    /\ IF proc' = "running"
       THEN LET call == 1 + Cardinality({f.call : f \in fetchers})
            IN  /\ coordReads' = Append(coordReads, auth)
                /\ fetchers' = fetchers \cup
                     {[call |-> call, owner |-> c[1], list |-> c[2], seen |-> Nil] :
                         c \in (IF coords = Nil THEN {} ELSE coords)}
                /\ fetched' = ChangedIn(fetched, curLST')
                /\ UNCHANGED <<coords, invited, inviters>>
       ELSE Unwatched
    /\ IssueUsers(<< >>)

\* The inner block of readData.
ShowTimer(k) ==
    /\ InviteTimer(k, InvitationLST)
    /\ Watching /\ IssueUsers(<< >>)

\* The block of loginWithEmail: SetTheUser, then readData.
EnterTimer(k) ==
    /\ SignedInTimer(k)
    /\ ChangingFetched(Disowned(ChangedIn(fetched,
                                          SetTheUser(Rows(curLST), timers[k].uid))))
    /\ IssueUsers(<< >>)

-----------------------------------------------------------------------------
(* Inviting.                                                               *)

\* Mutant: the observer is attached again after each event.
InviterAgain(v) == {[v EXCEPT !.seen = UsersView], [v EXCEPT !.seen = Nil]}

\* The observer after an event.
InviterSeen(v) == {[v EXCEPT !.seen = UsersView]}

\* shareBtnAction and inviteUserWithEmail, for the account with the e-mail t.
InviteTap(t) ==
    /\ OnItemScreen /\ auth # Nil /\ Event
    /\ IF screen.row \in DOMAIN Rows(curLST)
       THEN LET l == curLST[screen.row]
            IN  /\ inviters' = inviters \cup
                     {[target |-> t, owner |-> l.listOwner, list |-> l.listName, seen |-> Nil]}
                /\ UNCHANGED <<localVars, sessionVars, users, usersPending, coords,
                               coordReads, fetched, invited, fetchers>>
       ELSE /\ Raise /\ Issue(<< >>) /\ IssueUsers(<< >>) /\ Unwatched
            /\ UNCHANGED <<auth, accounts>>

(***************************************************************************)
(* Users as it now is gets to an observer of inviteUserWithEmail, which    *)
(* looks for the entry of the invited user and stores the invitation.      *)
(* allValues of NSNull, what an empty node's value is, raises.             *)
(***************************************************************************)
InviterEvent(v) ==
    /\ v.seen # UsersView
    /\ IF \A u \in Uids : UsersView[u] = Nil
       THEN Raise /\ Issue(<< >>) /\ IssueUsers(<< >>) /\ Unwatched
       ELSE /\ inviters' = (inviters \ {v}) \cup InviterSeen(v)
            /\ usersPending' = usersPending \o
                  (IF UsersView[v.target] = Nil \/ v.list = Nil THEN << >>
                   ELSE <<PutInvitation(v.target, <<v.owner, v.list>>)>>)
            /\ UNCHANGED <<localVars, server, inFlight, users, coords, coordReads,
                           fetched, invited, fetchers>>
    /\ UNCHANGED <<auth, accounts, events>>

-----------------------------------------------------------------------------
(* Being invited.                                                          *)

\* The answer to readCoordinates: without invitations coords stays as it was.
CoordAnswer ==
    /\ coordReads # << >>
    /\ LET invs == UsersView[Head(coordReads)]
       IN  coords' = IF invs \in {Nil, {}} THEN coords ELSE invs
    /\ coordReads' = Tail(coordReads)
    /\ UNCHANGED <<vars, users, usersPending, fetched, invited, fetchers, inviters>>

\* Mutants: without the test on the list's name, and on a device without
\* tagged pointers.
AnyList(f, lists) == {n \in Present(lists) : lists[n].listNameKey}

NoList(f, lists) == {}

\* The lists below the owner's node that the block takes: pointers are compared.
InvitedList(f, lists) ==
    {n \in Present(lists) : n = f.list /\ lists[n].listNameKey /\ n \in TaggedNames}

\* What is fetched of a list: a new object, owned by the inviting user.
FetchedList(f, n, node, itemOrder) ==
    [ReadList(n, node, itemOrder) EXCEPT !.listOwner = f.owner,
                                         !.copy = Len(fetched) + 1]

\* Mutant: invitationLST is set before there is anything in it.
InvitedCallEarly(f, lists) == f.call

\* Which call's array invitationLST is afterwards.
InvitedCall(f, lists) == IF InvitedList(f, lists) = {} THEN invited ELSE f.call

\* The owner's Data node as it now is gets to an observer of FetchInvitationList.
FetcherEvent(f) ==
    LET lists == View[f.owner]
    IN  /\ f.seen # lists
        /\ fetchers' = (fetchers \ {f}) \cup {[f EXCEPT !.seen = lists]}
        /\ invited' = InvitedCall(f, lists)
        /\ IF InvitedList(f, lists) = {} THEN UNCHANGED fetched
           ELSE \E n \in InvitedList(f, lists) :
                \E order \in SetToSeqs(Present(lists[n].listItems)) :
                   fetched' = Append(fetched,
                      [call |-> f.call, node |-> <<f.owner, n>>,
                       list |-> FetchedList(f, n, lists[n], order)])
        /\ UNCHANGED <<vars, users, usersPending, coords, coordReads, inviters>>

-----------------------------------------------------------------------------
(* The network and the other users.                                        *)

UsersWriteArrives ==
    /\ usersPending # << >>
    /\ users' = ApplyUser(users, Head(usersPending))
    /\ usersPending' = Tail(usersPending)
    /\ UNCHANGED <<vars, watching>>

\* Another user invites to a list of his, from his own phone.
OtherInvites(owner, n, t) ==
    /\ OtherDevices /\ Event
    /\ owner \in accounts
    /\ server[owner][n] # Nil /\ users[t] # Nil
    /\ users' = ApplyUser(users, PutInvitation(t, <<owner, n>>))
    /\ UNCHANGED <<localVars, sessionVars, usersPending, watching>>

\* The answers of Firebase to what AppSession asked.
Answer == (AuthAnswer \/ ReadAnswer) /\ UNCHANGED sharingVars

DataWriteArrives == WriteArrives /\ UNCHANGED sharingVars

-----------------------------------------------------------------------------
SharingTimer ==
    \E k \in DOMAIN timers :
        EntryTimer(k) \/ FetchTimer(k) \/ ShowTimer(k) \/ EnterTimer(k)

Observed ==
    \/ \E v \in inviters : InviterEvent(v)
    \/ \E f \in fetchers : FetcherEvent(f)

SharingStep ==
    \/ UnsharedStep \/ LoginStep \/ ItemTap
    \/ \E i \in 1..rows : RejectTap(i)
    \/ \E t \in Accounts : InviteTap(t)
    \/ SharingTimer \/ Observed
    \/ CoordAnswer \/ Answer \/ DataWriteArrives \/ UsersWriteArrives
    \/ \E uid \in Accounts, n \in ListNames : OtherDevice(uid, n) /\ UNCHANGED sharingVars
    \/ \E uid, t \in Accounts, n \in ListNames : OtherInvites(uid, n, t)

\* Who is invited to what, as this process sees it.
Invitees ==
    {p \in Uids \X Invitation : UsersView[p[1]] # Nil /\ p[2] \in UsersView[p[1]]}

\* The history variables only record: no step depends on them.
Recorded ==
    /\ everInvited' = everInvited \cup Invitees'
    /\ everSignedIn' = everSignedIn \cup ({auth'} \ {Nil})

SharingNext == SharingStep /\ Recorded

SharingSpec == SharingInit /\ [][SharingNext]_allVars

\* As in AppSession; observers hear of what changed.
SharingFairness ==
    /\ []<>(timers = << >>) \/ []<><<SharingTimer>>_allVars
    /\ WF_allVars(AuthAnswer /\ UNCHANGED sharingVars /\ Recorded)
    /\ WF_allVars(ReadAnswer /\ UNCHANGED sharingVars /\ Recorded)
    /\ WF_allVars(DataWriteArrives /\ Recorded)
    /\ WF_allVars(UsersWriteArrives /\ Recorded)
    /\ WF_allVars(CoordAnswer /\ Recorded)
    /\ WF_allVars(Observed /\ Recorded)

SharingFairSpec == SharingSpec /\ SharingFairness

-----------------------------------------------------------------------------
Observer == [owner : Uids, list : ListNames,
             seen : [ListNames -> ListNode \cup {Nil}] \cup {Nil}, call : Nat]

UsersNode == [Uids -> (SUBSET Invitation) \cup {Nil}]

UserWrite ==
    [kind : {"entry"}, uid : Uids, inv : {Nil}]
        \cup [kind : {"put", "remove"}, uid : Uids, inv : Invitation]

Inviter == [target : Accounts, owner : Uids, list : ListNames \cup {Nil},
            seen : UsersNode \cup {Nil}]

\* A list FetchInvitationList made, and the node below Data it made it from.
Fetched == [call : Nat, node : Invitation, list : List]

(***************************************************************************)
(* The type of what sharing adds.  invitationLST, once it is not nil, is   *)
(* not empty: each observer adds to its array before it sets the property, *)
(* so that logging invitationLST[0] after a merge does not raise.          *)
(***************************************************************************)
SharingTypeOK ==
    /\ TypeOK
    /\ users \in UsersNode
    /\ usersPending \in Seq(UserWrite)
    /\ coords = Nil \/ (coords # {} /\ coords \subseteq Invitation)
    /\ coordReads \in Seq(Accounts)
    /\ fetched \in Seq(Fetched)
    /\ invited \in Nat /\ (invited # 0 => InvitationLST # << >>)
    /\ fetchers \subseteq Observer
    /\ inviters \subseteq Inviter
    /\ everInvited \subseteq Uids \X Invitation
    /\ everSignedIn \subseteq Accounts

\* The server has this invitation below the user.
IsInvited(t, inv) == users[t] # Nil /\ inv \in users[t]

\* Somebody who has signed in on this phone has been invited to this list.
Shared(inv) == \E u \in everSignedIn : <<u, inv>> \in everInvited

(***************************************************************************)
(* Nobody else's list is shown unless it was shared with somebody who has  *)
(* used this phone: the observers of FetchInvitationList get all lists of  *)
(* the inviting user, and the others never come to the screen, whoever has *)
(* signed in or registered meanwhile, whichever call's array is appended,  *)
(* and whatever the owner does to his lists.                               *)
(***************************************************************************)
OnlySharedListsShown ==
    \A i \in DOMAIN Rows(curLST) :
        curLST[i].copy # 0 => Shared(fetched[curLST[i].copy].node)

(***************************************************************************)
(* An invitation leaves the server only if somebody has rejected a list:   *)
(* setValue: of a user's entry, which replaces what is below it, never     *)
(* finds an invitation there, however sign-ups, sign-ins, invitations and  *)
(* kills follow one another.                                               *)
(***************************************************************************)
Rejected(u, inv) ==
    \/ [kind |-> "remove", uid |-> u, inv |-> inv] \in Elements(usersPending)
    \/ \E i \in 1..rows : RejectTap(i)

InvitationsStay ==
    [][\A u \in Uids, inv \in Invitation :
          IsInvited(u, inv) => IsInvited(u, inv)' \/ Rejected(u, inv)]_allVars

(***************************************************************************)
(* What a signed-in user adds or toggles in somebody else's list goes to   *)
(* that list below its owner, and leaves his own lists in the cloud alone, *)
(* also when the row was shifted, the list was fetched several times or he *)
(* has a list of the same name.                                            *)
(***************************************************************************)
SharedEditsReachOwner ==
    [][ItemTap /\ auth # Nil /\ proc' = "running" =>
          LET l == curLST[screen.row]
              new == Elements(curLST'[screen.row].listItems) \ Elements(l.listItems)
          IN  l.listOwner # curUser =>
                /\ \A it \in new :
                      LET node == View'[l.listOwner][l.listName]
                      IN  node.listItems[it.itemName].purchased = it.itemPuchased
                /\ new # {} => View'[curUser] = View[curUser]]_allVars

(***************************************************************************)
(* An invitation of a registered user is on the server in the end, unless  *)
(* the process ends first: whichever list was on the screen, whoever else  *)
(* is invited or rejects a list meanwhile, and also if the user registers  *)
(* only after he was invited, because the observer stays.  (Of the list's  *)
(* owner, whose e-mail is accepted, too, this cannot be said: his is the   *)
(* invitation that RemoveInvitation does remove.)                          *)
(***************************************************************************)
Invites(t, inv) ==
    proc = "running" /\ \E v \in inviters : v.target = t /\ <<v.owner, v.list>> = inv

InvitationsArrive ==
    []<>(\A t \in Accounts, inv \in Invitation :
            t # inv[1] /\ Invites(t, inv) /\ users[t] # Nil => IsInvited(t, inv))

(***************************************************************************)
(* Every call of FetchInvitationList gets each list it was made for, if    *)
(* the list is there and its name is short: whether the answer comes       *)
(* before or after the inner block has run, and in whatever order answers  *)
(* of several calls come.                                                  *)
(***************************************************************************)
InvitedListsFetched ==
    []<>(\A f \in fetchers :
            LET node == View[f.owner][f.list]
            IN  f.list \in TaggedNames /\ node # Nil /\ node.listNameKey =>
                  \E x \in Elements(fetched) : /\ x.call = f.call
                                               /\ x.list.listOwner = f.owner
                                               /\ x.list.listName = f.list)

(***************************************************************************)
(* The observers come to rest: the one of inviteUserWithEmail writes to    *)
(* the node it watches, and those of FetchInvitationList are told of the   *)
(* changes made to the lists they fetched; neither sets off the other for  *)
(* ever.                                                                   *)
(***************************************************************************)
ObserversRest ==
    []<>(/\ timers = << >> /\ pending = << >> /\ usersPending = << >>
         /\ coordReads = << >> /\ reads = << >> /\ authCalls = << >>
         /\ \A v \in inviters : v.seen = UsersView
         /\ \A f \in fetchers : f.seen = View[f.owner])

-----------------------------------------------------------------------------
(* What comments and messages of the program say, and the code does not do. *)

(***************************************************************************)
(* ListViewController.m:472, "Reject?": after a signed-in user has         *)
(* rejected somebody else's list, he is not invited to it any more.        *)
(***************************************************************************)
RejectRemovesInvitation ==
    [][\A i \in 1..rows :
          RejectTap(i) /\ proc' = "running" /\ auth # Nil /\ curLST[i].listOwner # curUser =>
              \/ UsersView'[auth] = Nil
              \/ <<curLST[i].listOwner, curLST[i].listName>> \notin UsersView'[auth]]_allVars

(***************************************************************************)
(* itemViewController.m:225, "//delete item from cloud": an item a         *)
(* signed-in user has deleted is not in the cloud any more.                *)
(***************************************************************************)
DeleteIsInCloud ==
    [][\A r \in 1..(IF screen = Nil THEN 0 ELSE screen.shown) :
          DeleteItemTap(r) /\ proc' = "running" /\ auth # Nil =>
              LET l == curLST[screen.row]
                  node == View'[l.listOwner][l.listName]
              IN  node = Nil \/ node.listItems[l.listItems[r].itemName] = Nil]_allVars

-----------------------------------------------------------------------------
(***************************************************************************)
(* Why SharingTypeOK and OneOwnerOnDisk hold with shared lists: those that *)
(* were fetched are among the lists StoreInv allows on the screen, and     *)
(* there are none, and no observers, when the app starts.                  *)
(***************************************************************************)
FetchedInv ==
    /\ proc # "running" => fetched = << >> /\ fetchers = {} /\ inviters = {}
    /\ \A c \in DOMAIN fetched : fetched[c].list \in UserLists(curUser)
    /\ invited # 0 => \E c \in DOMAIN fetched : fetched[c].call = invited
    /\ IsFiniteSet(fetchers)

(***************************************************************************)
(* Why InvitationsStay holds: the block of registerUserWithName runs once  *)
(* for an account, which had no entry till then, so that an entry is on    *)
(* its way to the server only if there is none.                            *)
(***************************************************************************)
NoEntry(uid) ==
    /\ users[uid] = Nil
    /\ \A k \in DOMAIN usersPending : usersPending[k] # PutEntry(uid)

\* Firebase Auth, or a block, has yet to come back to registerUserWithName.
Profile(uid) == [kind |-> "profile", uid |-> uid]

Registered(uid) == [kind |-> "registered", uid |-> uid]

Registering(calls, blocks, uid) ==
    Profile(uid) \in Elements(calls) \/ Registered(uid) \in Elements(blocks)

Once(s, x) == \A j, k \in DOMAIN s : s[j] = x /\ s[k] = x => j = k

RegisteringOnce(calls, blocks) ==
    \A uid \in Accounts :
        /\ Once(calls, Profile(uid)) /\ Once(blocks, Registered(uid))
        /\ ~ (Profile(uid) \in Elements(calls) /\ Registered(uid) \in Elements(blocks))

EntriesInv ==
    /\ RegisteringOnce(authCalls, timers)
    /\ \A uid \in Accounts : Registering(authCalls, timers, uid) => uid \in accounts
    /\ \A uid \in Accounts :
          uid \notin accounts \/ Registering(authCalls, timers, uid) => NoEntry(uid)
    /\ \A uid \in Uids :
          /\ Once(usersPending, PutEntry(uid))
          /\ PutEntry(uid) \in Elements(usersPending) => users[uid] = Nil

\* The fetched lists a screen can show, by their copy.
Copies(lists) == {lists[i].copy : i \in DOMAIN lists}

\* What the history variables have recorded by now.
HistoryInv ==
    /\ Invitees \subseteq everInvited
    /\ auth # Nil => auth \in everSignedIn
    /\ coordReads \in Seq(everSignedIn)

SharedInv ==
    /\ coords # Nil => \A inv \in coords : Shared(inv)
    /\ \A f \in fetchers : Shared(<<f.owner, f.list>>)
    /\ \A c \in DOMAIN fetched : Shared(fetched[c].node)
    /\ Copies(Rows(curLST)) \cup Copies(Rows(offlineLST)) \cup Copies(onlineLST)
          \cup {fetched[c].list.copy : c \in DOMAIN fetched}
             \subseteq {0} \cup DOMAIN fetched

SharingInv ==
    SessionInv /\ SharingTypeOK /\ FetchedInv /\ EntriesInv /\ HistoryInv /\ SharedInv

=============================================================================

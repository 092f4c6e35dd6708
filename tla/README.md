# Verification of the shopping list app

The app keeps shopping lists on a phone, in two archives, and, for a user who
has signed in, in a Firebase database. This directory holds a TLA+ model of its
own code (`ShopingListProject/ShopingListProject/`, about 1,400 lines of
Objective-C), the TLC runs that check it, and proofs checked by TLAPS. Paths
below are relative to that directory.

## 1. The system

### Inventory

| component | state | operations | correct when |
|---|---|---|---|
| values: `ItemClass`, `ShopingListsClass`, `UserClass`, `PrepareFirstLists` | item name, time, purchased; list name, owner, items; user name, e-mail, uid | construct, encode, decode | - |
| `AppData` and the archives: `ReadUserFromDisk`, `WriteUserToDisk`, `ReadDataFromDisk`, `WriteDataToDisk` | `curUser`, `curLST`, `offlineLST`, `onlineLST`, `invitationLST`; `user.plist`, `data.plist` | read and write each file; `WriteData` archives the lists of `curLST` whose owner's uid `==` the current one | the archive holds what the screen shows; one owner |
| list screen, `ListViewController` | the rows its table displays | launch (`viewDidLoad`, `readData`), new list, delete, open, profile sheet | rows stand for lists; nothing raises |
| item screen, `itemViewController` | `curLSTInt`, the rows its table displays | add, toggle, delete an item, back, share | as above |
| merge, `CompareList` | - | `compare:and:` | nothing lost, invented or duplicated |
| cloud: `SaveListOnCloud`, `SaveItemToCloud`, `DeleteListFromCloud`, `DeleteItemFromCloud`, `ReadDataFromCloud` | `Data/<uid>/<list>` on the server, writes on their way | write, remove, read | what was written can be read back |
| account: login, register, logout, `SetTheUser` | FIRAuth's user (in the keychain), `curUser` | sign in, up, out | lists follow the user; success messages are true |
| sharing: `inviteUserWithEmail`, `ReadInvitations`, `FetchInvitationnData`, `RemoveInvitation` | `Users/<uid>/invitations`, `invitationsCoords`, `invitationLST`, observers | invite, fetch, show, edit, reject | only shared lists are shown, invitations arrive, edits reach the owner, a rejected list is gone |
| time, `DateAndTime` | the time string of an item | format, parse | order of changes is kept |
| `AppDelegate`, `main`, `WritePlist`, alerts | - | nothing that changes state | - |
| Firebase SDK (`Pods/`) | vendored | | |

### How the parts interact

Everything of the app runs on the main queue, so a handler is atomic with
respect to other handlers. What makes the system hard is what happens between
them:

* `readData` of a signed-in user starts a read of the cloud and a timer of one
  second; the timer's block merges whatever the read has delivered by then,
  uploads and archives the result, and starts a second timer of 0.75 s that
  reloads the table.
* Signing in and signing up finish in blocks that run 1 s and 0.5 s after
  Firebase's answer. Until then FIRAuth's user and `curUser` differ.
* Sharing uses observers that are never removed. `inviteUserWithEmail` watches all
  of `Users` and writes below it. `FetchInvitationList` watches the `Data` nodes of
  the inviting users, known from the invitations read by the sync before, and each
  of its calls has an array of its own, which becomes `invitationLST` whenever one
  of its observers hears of a change. The inner block of `readData` appends what
  `invitationLST` holds by then to the screen.
* The process may be killed between any two handlers. The application delegate
  saves nothing; FIRAuth's user survives, writes on their way to the server and
  pending blocks do not.
* FIRAuth's user also survives the deletion of the app, whose files do not.
* Two comparisons of uids (`WriteDataToDisk.m:12`, `SetTheUser.m:12`), one of list
  names (`FetchInvitationnData.m:17`) and one of dates (`CompareList.m:71`) compare
  pointers.
* Two writers of an item use different keys (`SaveListOnCloud.m:25`,
  `SaveItemToCloud.m:11`).
* An Objective-C exception nobody catches (index out of range, nil key, nil
  child, wrong number of rows) ends the process.

`PROJECT.json` lists the hazards this leads to, each at its line.

## 2. The modules

| module | models | extends |
|---|---|---|
| `Arrays` | the filtering loop and the removal of one element | |
| `ShopingTypes` | items, lists, users; the pointer test on uids; archiving | `Arrays` |
| `DurableLists` | abstract: the lists as a document that only taps change | `ShopingTypes` |
| `LocalStore` | `AppData`, the archives and both screens, without the cloud | `ShopingTypes`, instance of `DurableLists` |
| `CompareList` | `compare:and:`, and the reference it is checked against | `ShopingTypes` |
| `Cloud` | the Data node, its writers and its reader | `ShopingTypes` |
| `AppSession` | everything above with the account, the timers and the network | `LocalStore`, `CompareList`, `Cloud` |
| `Sharing` | the Users node, invitations and observers, composed with every handler of `AppSession` | `AppSession` |
| `DateAndTime` | the time string of an item's versions | |
| `MCLocalStore`, `MCCompareList`, `MCAppSession`, `MCSharing` | instances for TLC | |
| `ArraysProofs` | lemmas about `Arrays` | `Arrays` |
| `LocalStoreProofs`, `LocalStoreRefinement` | theorems about the offline app | `LocalStore` |
| `CompareListProofs`, `MCCompareListProofs` | what each loop of the merge does; theorems about its calls | `CompareList`, `MCCompareList` |
| `AppSessionProofs` | theorems about the app with accounts and network | `AppSession` |
| `SharingProofs` | theorems about shared lists | `Sharing`, `AppSessionProofs` |
| `DateAndTimeProofs` | theorem about the time string | `DateAndTime` |

Correspondence with the code, beyond the table of lines in `PROJECT.json`:

* **State.** `curUser`, `curLST`, `offlineLST`, `onlineLST` are AppData's
  properties. `userPlist` and `dataPlist` are the files. `rows` and `screen.shown`
  are the row counts the two table views display, which may lag behind the
  arrays; `screen.row` is `curLSTInt`. `auth` is
  `FIRAuth.auth.currentUser.uid`. `timers` are the `dispatch_after` blocks that
  have not run, `reads` the single observers that have not been answered,
  `pending` the writes the server has not seen, `authCalls` the requests to
  Firebase Auth, which may overlap and are answered in any order. `nil` is `Nil`.
* **A handler is one action**, with every call it makes: `AddNewList` is the
  append, `reloadData` and `WriteData`; `NewListTap` adds `SaveListOnCloud`. The
  handlers of `LocalStore` are reused by `AppSession`, which adds the writes to
  the cloud. When the cloud call at a handler's end would raise, the handler is
  told so by its parameter `refused`.
* **Raising.** `Raise` and `WriteDataThenRaise` end the process before or after
  `WriteData`; of the writes made before the exception any prefix may have
  reached the server (`Issue`).
* **Pointers.** The field `mine` of a list says whether its owner's uid is the
  very object in `curUser`. Lists made by the process for the current user have
  it, decoded ones do not. Two decoded copies of `"defUid"` are nevertheless one
  pointer, because a string that short is a tagged pointer on every device the
  deployment target (64 bit) allows; two decoded copies of a 28-character
  Firebase uid are two objects. `SameUid` is exactly this.
* **Dates.** The outcome of `readTimeAnyItem > readTimeCounterItem` is the
  parameter `later` of `compare`; the actions choose it from all outcomes that
  make a difference (`Ties`).
* **Sharing.** `users` is the Users node: for each uid `Nil`, or the invitations of its
  entry, an invitation being the owner's uid and the list's name. `coords` is
  `invitationsCoords`. `fetchers` and `inviters` are the attached observers, with
  what they heard of last (`seen`); `fetched` are the list objects the calls of
  `FetchInvitationList` have made, each with its call and the node below `Data` it was
  made from, and `invited` is the call whose array `invitationLST` is. Two history variables
  record what the properties refer to: who has ever been invited to what
  (`everInvited`) and which accounts have ever been signed in here (`everSignedIn`);
  `Recorded` sets them at each step, and no step depends on them. Each action conjoins the handler of `AppSession` with what the
  handler does about shared lists: `FetchTimer` is `MergeTimer` with
  `readCoordinates` and `FetchInvitationList`, `EntryTimer` is `RegisteredTimer` with the
  user's entry, `RejectTap` is `DeleteListTap` with `RemoveInvitation`, `ShowTimer` gives
  `InviteTimer` the invited lists, `LoginStep` and `EnterTimer` are the two halves of
  `loginWithEmail`.
* **Objects on several rows.** A fetched list is one object that may be on several
  rows and in `invitationLST`: the field `copy` is its number, and `RemoveObject` and
  `WithItems` act on all rows that have it. A handler that changes the lists of
  `curLST` changes the fetched objects among them (`ChangedIn`). `readData` and
  `SetTheUser` make a new `curUser` object, after which a fetched list is the current
  user's only if it was on the screen and `SetTheUser` gave it the new one (`Disowned`).
  An item, too, may be on two rows: `compare:and:` adds the cloud's item once for each
  namesake of the disk's (`Doubled`). The field `twins` of a list has the names of such
  items, and `ItemRows` the rows that may be the same object. A toggle changes any of
  these rows with the one that was tapped, and deleting one of several raises before
  `WriteData`. Which of the rows are one object is left open: more behaviours
  than the app has.
* **Names by pointer.** `FetchInvitationnData.m:17` compares names with `==`: decoded
  copies are one pointer for names short enough for a tagged pointer
  (`TaggedNames`) and different ones for all others.
* **`allValues`** returns a dictionary's values in no defined order:
  `ReadDataFromCloud` is the set of arrays the reader may build.

### Abstractions

* A user is its uid; the e-mail that inviting looks for stands for it. The item's
  time is left out of lists, since only its pointer is compared, and modelled by
  itself in `DateAndTime`: a pattern is the sequence of its fields, the clock goes
  forward in one time zone. Names are model
  values that are legal database keys, and never empty (the guards of
  `newListBtnAction` and `textFieldDidEndEditing`).
* Values instead of objects. After `readData` without a signed-in user `curLST`
  and `offlineLST` are one array, and lists in both share their items. Every
  change of `curLST` is followed in the same handler by `WriteData`, which
  replaces `offlineLST`, and the blocks of `readData` work on lists read from
  the disk again, so the sharing has no effect of its own. There is one
  exception, left out: a merge started before the last sign-out is still waiting
  while `curLST` and `offlineLST` are one array, and somebody else's list is deleted
  from it, or the inner block of an earlier sync appends invited lists to it.
* Likewise SetTheUser's new owner is not copied into `offlineLST`: the merge
  overwrites the owners of everything it takes from there.
* Archiving succeeds, and is atomic for each file. A first run interrupted
  between its two files is an action of its own (`FirstRunKilled`).
* A table reloads at once when `reloadData` is called.
* The server accepts every write: its rules are not part of the repository. The
  writes to `Data` and to `Users` are two queues, so that one may overtake the other,
  which Firebase does not do: more behaviours than the app has. An observer may
  hear of several changes at once; in `Sharing` it does so whenever they are visible
  before it runs.
* Anybody may be invited to the list on the screen, its owner and the inviting user
  included, as in the code. The other users are what they invite to (`OtherInvites`) and what they do to their lists (`OtherDevice`); their own
  merges are not modelled.
* Lists the merge left in `onlineLST` may share items with `curLST`, so that a toggle
  changes them there as well. A next merge that no answer preceded takes either
  version of an item in the model, which includes what the code does, unless the item was
  deleted after the toggle: then it comes back with the state it had before the
  toggle. No property depends on that state.
* Alerts that only inform are left out.
* One device runs the app; what the same account does on others is the action
  `OtherDevice`.

## 3. The runs

Deadlock is checked in `offline`, where there is always something to tap or to
launch; the other runs bound the number of events (or make a single call), so
their behaviours end.

| run | instance | shows |
|---|---|---|
| `offline` | 2 list names, 2 item names, at most 2 lists of 2 items; 17,856 states | `DiskMatchesScreen`, `NeverRaises`, and that `data.plist` implements `DurableLists`: killing and relaunching lose and add nothing |
| `compare` | all arrays of at most 2 lists with at most 2 items over 2 names each, at most 3 items in an array, unnamed lists and items included on both sides; 1.6 M states | `DistinctNamesMerge`: with distinct names the result is the merge by name, whatever the pointers; `CloudSideSurvives`: the half of it that holds without that assumption |
| `accounts` | a new phone with 3 events, or one that was signed in before with 2; accounts ann (existing, used on another device as well) and bob (to be registered); the app may be reinstalled; 729,370 states | `OneOwnerOnDisk`: `data.plist` never mixes two users and `curUser` is the user of `user.plist`; `DefaultDiskIsScreen`: until `SetTheUser` runs the archive holds what the screen shows; `DefaultUserLosesNothing`: nothing disappears from it that he has not deleted; `MergeAgrees`: screen, archive and cloud agree after a merge |
| `live` | a new phone, one existing account, 3 events, fairness; 78,723 states | `SyncsEnd`, `ShownListsReachServer` |
| `shared_lists` | bob's list is on ann's screen, or about to be shown again; both go on, 2 events; bob has another list that he does not share; 744,196 states | `SharingTypeOK`, `OnlySharedListsShown`, `SharedEditsReachOwner` |
| `invite` | bob's list is on ann's screen, eve, who has no account yet, uses her phone as well, 2 events, fairness; 151,143 states | `InvitationsArrive`, `InvitedListsFetched`, `ObserversRest`; `OnlySharedListsShown` while eve signs up or in; `InvitationsStay`: nothing but a rejection removes an invitation; `OneOwnerOnDisk` with invited lists among those on the screen |
| `time_order` | 48 moments: 2 years, months, days and minutes, 3 hours; 2 changes; 20,824 states | `ChangesStayInOrder` |
| `toggle_disk` | signed in before, 1 event | violated: `ToggleIsOnDisk` |
| `toggle_cloud` | signed in before, 1 event | violated: `ToggleIsInCloud` |
| `registration` | a new phone, 2 events | violated: `RegistrationSaves` |
| `reject` | bob's list on ann's screen, 1 event | violated: `RejectRemovesInvitation` |
| `delete_shared` | the same | violated: `DeleteIsInCloud` |

In `accounts` and `shared_lists` the app may also be deleted and installed again
(`Reinstalls`), with an account still signed in. `Here` are the accounts of the
people who use the phone; the other accounts exist elsewhere.

The sharing runs start from states the program reaches, with the way to them cut
off to leave room for what comes after. `Showing(FALSE)` is what the first two syncs of
a process lead to: the first reads the invitations, the second (started by tapping
login, which may fail) attaches the observer that fetches bob's list, and its
inner block shows it. `Showing(TRUE)` is the state after another such tap, with the
third sync under way. A kill leads from there to a launch with nothing fetched,
so the runs include this way as well.

An event is a tap that changes something, a kill, a reinstallation, an invitation,
or a write by another device; answers (also negative ones), timers, arrivals,
launches and navigation are free. Three events reach sign in, a change during the sync, and a kill, or a sign-up that fails (free), a
change and a kill. Two list names make lists meet their namesakes in
the merge; the sample list has an item, so items are merged, toggled and deleted
as well. In the session runs a user does not give two lists the same name
(`DuplicateNames = FALSE`): the code merges and uploads by name, and what it does
with duplicates is the subject of `compare`.

### Fairness

`FairSpec` assumes that a block whose time has come runs (the main queue), that
Firebase Auth answers, that reads are answered and that writes arrive while the
process lives. `SharingFairness` adds that writes to `Users` arrive, that
`readCoordinates` is answered, and that observers hear of changes, which is what
FIRDatabase does for an attached observer. Nothing is
assumed of the user, of kills or of other devices. The conjunct for the timers is weak fairness with its enabling condition written
out: some timer can always fire when there is one.

### What the violated properties show

1. **A tap between launch and merge empties `data.plist`.** User and lists have
   been decoded from two archives, `WriteDataToDisk.m:12` compares the pointers
   of their uids, and no list passes. `itemViewController.m:199` says
   `///write date to disk`. Comparing with `isEqualToString:`, as
   `commitEditingStyle` does, makes the property hold.
2. **A toggled or added item loses its name in the cloud.** `SaveItemToCloud.m:11`
   writes the key `Item name`, `ReadDataFromCloud.m:31` reads `item Name`.
   `itemViewController.m:203` says `//save item purchased state to cloud`. The trace
   toggles an item of a list whose node is in the cloud already.
3. **"you date saved successfully" is shown although nothing was sent**
   (`ListViewController.m:220`), if the user signed out in the half second before.
4. **Rejecting removes nothing** (`RemoveInvitation.m:15`): the invitation is looked
   for below the list's owner and not below the invited user.
   `ListViewController.m:472` says `Reject?`.
5. **An item deleted from a shared list stays in the cloud**
   (`DeleteItemFromCloud.m:18` uses the current user, `SaveItemToCloud.m:15` the owner).
   `itemViewController.m:225` says `//delete item from cloud`.

Met while modelling, without a run: "your Invitation sent successfully"
(`itemViewController.m:135`) is shown before the observer has looked for the invited
user, and also if there is none; the time of an item has the month in the place
of the minutes (`DateAndTime.m:22`), and `time_order` shows what is left of the order
of changes: it is right up to the hour.

Without a property: the comment `PrepareFirstLists.m:2` announces two lists; the
code makes one.

## 4. The proofs

Every safety property of the passing runs, invariant or action property, is also a
theorem, for every set of names and accounts and for all bounds:

| theorem | of | states |
|---|---|---|
| `LocalTypeCorrect`, `DiskFollowsScreen`, `OfflineNeverRaises` | `LocalSpec` | `LocalTypeOK`, `DiskMatchesScreen`, `NeverRaises` |
| `OfflineImplementsDurableLists` | `LocalSpec` | `Durable!Spec`, the abstract document |
| `CloudSideNeverLost`, `DistinctNamesMergeByName` | `MCCompareList`'s `Spec` | `CloudSideSurvives`, `DistinctNamesMerge`, for arrays of any length |
| `SessionTypeCorrect`, `DiskHasOneOwner`, `DefaultDiskFollowsScreen` | `AppSession`'s `Spec` | `TypeOK`, `OneOwnerOnDisk`, `DefaultDiskIsScreen` |
| `DefaultUserKeepsEverything` | `AppSession`'s `Spec` | `DefaultUserLosesNothing`, if `DuplicateNames = FALSE` |
| `MergeLeavesAgreement` | `AppSession`'s `Spec` | `MergeAgrees`, if `DuplicateNames = FALSE` |
| `SharingTypeCorrect`, `SharingDiskHasOneOwner`, `ShownListsAreShared` | `SharingSpec` | `SharingTypeOK`, `OneOwnerOnDisk`, `OnlySharedListsShown` |
| `OnlyRejectedInvitationsLeave` | `SharingSpec` | `InvitationsStay` |
| `EditsGoToTheOwner` | `SharingSpec` | `SharedEditsReachOwner` |
| `TimesStayInOrder` | `DateAndTime`'s `Spec` | `ChangesStayInOrder`, for every calendar clock |

### Assumptions

All are named and stated where the constants are declared, and TLC evaluates them
for each instance. The sample names are names (`NamesAssumption`); the default uid is
no account's (`UidAssumption`); tagged names are names (`TaggedAssumption`); the bounds
are natural numbers (`BoundsAssumption`, `LengthsAssumption`); the accounts
that exist and those used on the phone are accounts (`SessionAssumption`); `ClockAssumption` says what a
calendar is. A database has finitely many keys (`KeysAssumption`) and Firebase finitely
many accounts (`UsersAssumption`), so that `allValues` has an order to choose. The
others say that `Nil` is not one of the values it stands in for (`NilAssumption`,
`NilIsNoArray`, `NilIsNoDocument`, `NilIsNoScreen`, `NilIsNoNode`,
the second half of `UsersAssumption`).

`MergeLeavesAgreement` and `DefaultUserKeepsEverything` have the one hypothesis that is
about the user: no two lists get one name. With two lists of one name the upload of
the second replaces that of the first, and the merge drops the disk's second one, so
the statements without it are false of the code.

### The offline app

The two safety invariants are not inductive as they stand. `DiskMatchesScreen` needs to know that the
pointer filter of `WriteData` drops nothing, which is true because all lists are
the default user's: after a relaunch they are decoded copies, and only the
tagged pointer of `"defUid"` makes the test succeed. `NeverRaises` needs to know
that the row counts of both tables agree with the arrays in every state and that
every item has a name. `LocalInv` is the conjunction of these facts;
`LocalInvariant` proves it inductive, one step per action. The lemmas it rests
on are in `ArraysProofs`: what `Kept` returns is a sequence over the same set
(`KeptType`), and if everything is to be kept it is the identity (`KeptAll`), both
by unfolding the recursive function along an explicit induction on the position.

The refinement maps `lists` to the contents of `data.plist` (`ArchivedLists`). Its
argument is one lemma per screen: a handler that writes maps to the tap it
stands for, because `Contents` commutes with appending, deleting and changing a
list (`ContentsOfAppend`, `ContentsOfWithout`, `ContentsOfItems`); kills, relaunches and
navigation leave the archive alone. Besides `LocalInv` it needs `SeedInv`: there
is no `data.plist` before there is a `user.plist`, so the sample list is given
once, and a process whose `curLST` is nil (after a first run that was killed
half-way) has nothing on the disk that its `WriteData` could destroy.

### The merge

`CompareListProofs` says of each loop of `compare:and:` what its result contains: the
unique lists of A, their counterparts in B, the chosen version of an item that both
have, what is only in B. A chosen item has the name it is chosen for whichever way the
pointers of the two dates compare, so neither theorem depends on the dates. Without distinct
names only A's side is safe, because B's second list of a name that A has too is
neither unique nor anybody's counterpart; with distinct names the two sides are treated alike.

### The session

`SessionInv` (`StoreInv` with the types of what is under way) is the inductive invariant.
`OneOwnerOnDisk` compares owners, `WriteData` compares pointers, and the two agree only
because of two facts `StoreInv` records: what was decoded from `data.plist` was
written for one user, at once, and no list of it holds an object of this process;
and a list in memory that does hold `curUser`'s uid object (`mine`) is `curUser`'s. The
second is what the pointers could break: `SetTheUser`, `MergeResult` and `NewList` give
a list both the owner and the object, and reading the disk gives it neither.

`DefaultDiskIsScreen` needs `DefaultInv` in addition: as long as the user is the
default one every list is his, also those a merge made while the account was
already signed in and `curUser` not yet set, so the filter of `WriteData` drops nothing.

That says nothing of what a merge may drop from both the screen and the archive.
`DefaultUserLosesNothing` does, and needs `KeepInv`: `offlineLST`, which the merge starts
from, has what `data.plist` has, and a nil `curLST`, which `WriteData` archives as an
empty array, has nothing on the disk to destroy. When names differ the merge covers
`offlineLST` by name whatever the cloud has answered (`MergeCovers`), so the archive
it writes covers the one it replaces; a tap either adds or toggles, which keeps
every name (`TapLosesNothing`), or is a deletion.

`MergeAgrees` needs `NamesInv`: no array holds two lists of one name, and the
merge keeps it so (this is where `DistinctNamesMergeByName`'s lemmas are used). Each
list of the result is then uploaded to a node of its own, and no later write of
the same merge touches the node of an earlier one.

### Shared lists

Each action of `Sharing` conjoins one of `AppSession`, so the lemmas on the session are
reused; `SharingInv` adds four parts.

* `FetchedInv`: fetched lists are lists `StoreInv` allows on the screen, whoever is the
  current user by the time they are shown. The proof of this part failed at first, at
  the block of `registerUserWithName`: the model left fetched lists off the screen the
  current user's after `SetTheUser` had made another `curUser` object. `Disowned`
  is what the code does.
* `EntriesInv`: an account's entry is written once. `setValue:` of an entry
  replaces the invitations below it; the block that does it runs once for an account,
  which had no entry till then, so that nobody can have been invited below it. This is
  what `InvitationsStay` rests on: the other write that takes an invitation away is
  `RemoveInvitation`, which finds one only if somebody was invited to his own list.
* `HistoryInv`: the history variables have recorded what there is now: whoever is signed in,
  was asked for invitations or is being read for is in `everSignedIn`, and every
  invitation this process sees is in `everInvited`.
* `SharedInv`: what `invitationsCoords`, the observers and the fetched lists were made
  for was shared with an account that has signed in here, and every copy on a screen,
  on its way to one, or left in `offlineLST` is the copy of some fetched list. It is
  about what has been shared, since a rejection of a list may remove an invitation
  whose copies are shown.

`SharedEditsReachOwner` follows from the last write of the handler: the item is written
below the list's owner after everything that was pending, so the view of that node has
it (`ItemWritten`), and a write below one user leaves the node of another alone.

### Only model-checked

* Liveness: `SyncsEnd`, `ShownListsReachServer`, `InvitationsArrive`,
  `InvitedListsFetched`, `ObserversRest`. They need fairness and ENABLED, which are
  out of the prover's reach.
* The violated properties, each by its counterexample.

## 5. Plan

Done: all modules of section 2 and the theorems of section 4.

Next:

1. That `Sharing` without invitations implements `AppSession`, action by action.
2. An abstract specification of one account's lists in the cloud, as several devices
   see it, and the part of `AppSession` that implements it.

## 6. Not modelled

* Wording and layout of alerts and cells, logging.
* `WritePlist`: only a log line calls it, and `dateAndTimeWithFormat`: nothing does.
* The Firebase SDK and the other libraries in `Pods/` are vendored, and the same in
  every app that uses them; the model has what the app relies on, marked external
  in `PROJECT.json`. Their code is not the subject here.
* Archive writes that fail, names that are no legal database keys, time zones.
* The merges of other users' phones, and so the updates these lose; another
  device is what it does to the cloud.

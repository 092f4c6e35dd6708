----------------------------- MODULE MCSharing ------------------------------
(***************************************************************************)
(* Instances of Sharing: the phone of ann, who has been invited to bob's   *)
(* list.                                                                   *)
(***************************************************************************)
EXTENDS Sharing

CONSTANTS ann, bob,    \* two accounts
          bobsList     \* the name of the list bob shares

BobsItems == <<NewItem(testItem)>>

\* ann's sample list is in the cloud, and so are bob's and the list he shares.
Stored ==
    ApplyAll([u \in Uids |-> NoLists],
             <<SaveListOnCloud(ann, SampleList(ann)), SaveListOnCloud(bob, SampleList(bob)),
               SaveListOnCloud(bob, NewList(bobsList, bob, BobsItems))>>)

\* Both have an entry in Users, and ann is invited to bob's list.
Invited ==
    [u \in Uids |-> IF u = ann THEN {<<bob, bobsList>>} ELSE IF u = bob THEN {} ELSE Nil]

(***************************************************************************)
(* Her app has been running for a while, and its second sync has put bob's *)
(* list on the screen; or she has then tapped login, which failed, but     *)
(* started a third sync from the lists on the disk.                        *)
(***************************************************************************)
Showing(syncing) ==
    LET sample == SampleList(ann)
        decoded == Archive(<<sample>>)
        copy == [NewList(bobsList, bob, BobsItems) EXCEPT !.mine = FALSE, !.copy = 1]
    IN  /\ proc = "running"
        /\ userPlist = ann /\ dataPlist = decoded
        /\ curUser = ann
        /\ curLST = IF syncing THEN decoded ELSE <<sample, copy>>
        /\ offlineLST = IF syncing THEN decoded ELSE <<sample>>
        /\ rows = 2 /\ screen = Nil
        /\ auth = ann /\ accounts = Existing
        /\ server = Stored
        /\ pending = << >> /\ authCalls = << >>
        /\ reads = IF syncing THEN <<ann>> ELSE << >>
        /\ timers = IF syncing THEN <<[kind |-> "merge", uid |-> ann]>> ELSE << >>
        /\ onlineLST = <<ReadList(sampleList, Stored[ann][sampleList], <<testItem>>)>>
        /\ events = 0
        /\ users = Invited
        /\ usersPending = << >>
        /\ coords = {<<bob, bobsList>>} /\ coordReads = << >>
        /\ fetched = <<[call |-> 1, node |-> <<bob, bobsList>>, list |-> copy]>> /\ invited = 1
        /\ fetchers = {[call |-> 1, owner |-> bob, list |-> bobsList, seen |-> Stored[bob]]}
        /\ inviters = {}
        /\ everInvited = {<<ann, <<bob, bobsList>>>>} /\ everSignedIn = {ann}

ShownSpec == Showing(FALSE) /\ [][SharingNext]_allVars

ShownFairSpec == ShownSpec /\ SharingFairness

SyncingSpec == (Showing(FALSE) \/ Showing(TRUE)) /\ [][SharingNext]_allVars

=============================================================================

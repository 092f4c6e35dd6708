---------------------------- MODULE MCAppSession ----------------------------
(***************************************************************************)
(* Instances of AppSession: from a new phone (Spec, FairSpec), and from a  *)
(* phone whose user has signed in before (SignedInSpec), which reaches the *)
(* races of a relaunch with fewer events.                                  *)
(***************************************************************************)
EXTENDS AppSession

(***************************************************************************)
(* A phone some time after its user signed in to the account uid: the      *)
(* process is not running, the sample list is archived as his, and it is   *)
(* on the server unless the upload was lost with the process.  It has its  *)
(* item copies times, added by him under the same name.  Of the events of  *)
(* the bound, spent are behind him.                                        *)
(***************************************************************************)
InitSignedIn(copies, spent) ==
    \E uid \in Existing, uploaded \in BOOLEAN, n \in copies :
        LET sample == NewList(sampleList, uid, [k \in 1..n |-> NewItem(testItem)])
        IN
        /\ proc = "off"
        /\ userPlist = uid /\ dataPlist = Archive(<<sample>>)
        /\ curUser = Nil /\ curLST = << >> /\ offlineLST = Nil
        /\ rows = 0 /\ screen = Nil
        /\ auth = uid
        /\ accounts = Existing
        /\ server = IF uploaded
                    THEN Apply([u \in Uids |-> NoLists],
                               SaveListOnCloud(uid, sample))
                    ELSE [u \in Uids |-> NoLists]
        /\ pending = << >> /\ onlineLST = << >> /\ reads = << >>
        /\ timers = << >> /\ authCalls = << >>
        /\ events = spent

SignedInSpec == InitSignedIn({1}, 0) /\ [][Next]_vars

\* A new phone, or one that was signed in by one of the events.
AnyPhoneSpec == (Init \/ InitSignedIn({1, 2}, 1)) /\ [][Next]_vars

=============================================================================

-------------------------- MODULE AppSessionProofs --------------------------
(***************************************************************************)
(* The whole app, for every set of names and accounts and every bound:     *)
(* SessionInv is an invariant, and with it the type invariant,             *)
(* OneOwnerOnDisk and DefaultDiskIsScreen.  With NamesInv, when no two     *)
(* lists get the same name, MergeAgrees follows, and with KeepInv,         *)
(* DefaultUserLosesNothing.                                                *)
(*                                                                         *)
(* The facts come in the order in which a handler uses them: what the      *)
(* cloud's writers and reader return, what WriteData and SetTheUser do to  *)
(* arrays whose lists have known owners, how a handler of LocalStore       *)
(* changes the files and AppData, and the handlers of the session.         *)
(***************************************************************************)
EXTENDS AppSession, CompareListProofs, FiniteSetTheorems

-----------------------------------------------------------------------------
(* The Data node stays a Data node.                                        *)

\* A list node stays one when one of its items is set, and is then pruned.
LEMMA SetItemType ==
    ASSUME NEW old \in ListNode \cup {Nil}, NEW n \in ItemNames,
           NEW node \in ItemNode \cup {Nil}
    PROVE  Pruned([ListNodeOrEmpty(old) EXCEPT !.listItems[n] = node])
             \in ListNode \cup {Nil}
<1> DEFINE base == ListNodeOrEmpty(old)
           items == [base.listItems EXCEPT ![n] = node]
           new == [base EXCEPT !.listItems = items]
<1>1. base \in ListNode
  BY DEF ListNodeOrEmpty, ListNode, NoItems
<1> HIDE DEF base
<1>2. items \in [ItemNames -> ItemNode \cup {Nil}]
  BY <1>1 DEF ListNode
<1>3. [base EXCEPT !.listItems[n] = node] = new
  OBVIOUS
<1> HIDE DEF items
<1>4. new \in ListNode
  BY <1>1, <1>2 DEF ListNode
<1> HIDE DEF new
<1>5. Pruned(new) \in ListNode \cup {Nil}
  BY <1>4 DEF Pruned
<1> QED BY <1>3, <1>5 DEF base

\* One write.
LEMMA ApplyType ==
    ASSUME NEW data \in DataNode, NEW w \in Write
    PROVE  Apply(data, w) \in DataNode
<1> DEFINE old == data[w.uid][w.list]
           new == IF w.item = Nil THEN w.node
                  ELSE Pruned([ListNodeOrEmpty(old) EXCEPT !.listItems[w.item] = w.node])
<1>1. w.uid \in Uids /\ w.list \in ListNames
  BY DEF Write, ListWrite, ItemWrite
<1>2. /\ data[w.uid] \in [ListNames -> ListNode \cup {Nil}]
      /\ old \in ListNode \cup {Nil}
  BY <1>1 DEF DataNode
<1>3. new \in ListNode \cup {Nil}
  <2>1. CASE w \in ListWrite
    BY <2>1 DEF ListWrite
  <2>2. CASE w \in ItemWrite
    <3>1. w.item \in ItemNames /\ w.item # Nil /\ w.node \in ItemNode \cup {Nil}
      BY <2>2, NilAssumption DEF ItemWrite
    <3> QED BY <1>2, <3>1, SetItemType
  <2> QED BY <2>1, <2>2 DEF Write
<1>4. Apply(data, w) = [data EXCEPT ![w.uid] = [data[w.uid] EXCEPT ![w.list] = new]]
  BY <1>1, <1>2 DEF Apply, DataNode
<1> HIDE DEF new
<1>5. [data[w.uid] EXCEPT ![w.list] = new] \in [ListNames -> ListNode \cup {Nil}]
  BY <1>1, <1>2, <1>3
<1> QED BY <1>1, <1>4, <1>5 DEF DataNode

\* The body of ApplyAll's recursion, with the function as a parameter.
ApplyStep(data, ws, F, i) == IF i = 0 THEN data ELSE Apply(F[i - 1], ws[i])

\* The recursion of ApplyAll has a solution over every initial segment.
LEMMA ApplyExists ==
    ASSUME NEW data, NEW ws
    PROVE  \A n \in Nat : \E F : F = [i \in 0..n |-> ApplyStep(data, ws, F, i)]
<1> DEFINE T == {n \in Nat : \E F : F = [i \in 0..n |-> ApplyStep(data, ws, F, i)]}
<1>1. 0 \in T
  <2> DEFINE G == [i \in 0..0 |-> data]
  <2>1. G = [i \in 0..0 |-> ApplyStep(data, ws, G, i)]
    BY DEF ApplyStep
  <2> QED BY <2>1
<1>2. \A n \in T : n + 1 \in T
  <2> SUFFICES ASSUME NEW n \in Nat, NEW F,
                      F = [i \in 0..n |-> ApplyStep(data, ws, F, i)]
               PROVE  \E G : G = [i \in 0..(n + 1) |-> ApplyStep(data, ws, G, i)]
    OBVIOUS
  <2> DEFINE G == [i \in 0..(n + 1) |->
                     IF i = n + 1 THEN ApplyStep(data, ws, F, i) ELSE F[i]]
  <2>1. ASSUME NEW i \in 0..(n + 1) PROVE G[i] = ApplyStep(data, ws, G, i)
    <3>1. CASE i = 0
      BY <3>1 DEF ApplyStep
    <3>2. CASE i \in 1..n
      <4>1. G[i - 1] = F[i - 1] /\ G[i] = F[i]
        BY <3>2
      <4>2. F[i] = ApplyStep(data, ws, F, i)
        BY <3>2
      <4> QED BY <4>1, <4>2, <3>2 DEF ApplyStep
    <3>3. CASE i = n + 1
      <4>1. G[i - 1] = F[i - 1]
        BY <3>3
      <4> QED BY <4>1, <3>3 DEF ApplyStep
    <3> QED BY <3>1, <3>2, <3>3
  <2>2. G = [i \in 0..(n + 1) |-> ApplyStep(data, ws, G, i)]
    BY <2>1
  <2> QED BY <2>2
<1> HIDE DEF T
<1>3. T = Nat
  BY <1>1, <1>2, NatSet DEF T
<1> QED BY <1>3 DEF T

\* ApplyAll makes one more write at each step.
LEMMA ApplyUnfolds ==
    ASSUME NEW data, NEW S, NEW ws \in Seq(S)
    PROVE  \E F :
             /\ F[0] = data
             /\ \A n \in Nat : n + 1 <= Len(ws) => F[n + 1] = Apply(F[n], ws[n + 1])
             /\ ApplyAll(data, ws) = F[Len(ws)]
<1> DEFINE F == CHOOSE G : G = [i \in 0..Len(ws) |-> ApplyStep(data, ws, G, i)]
<1>1. F = [i \in 0..Len(ws) |-> ApplyStep(data, ws, F, i)]
  BY ApplyExists
<1>2. ApplyAll(data, ws) = F[Len(ws)]
  BY DEF ApplyAll, ApplyStep
<1> HIDE DEF F
<1>3. \A i \in 0..Len(ws) : F[i] = ApplyStep(data, ws, F, i)
  BY <1>1
<1>4. F[0] = data
  BY <1>3 DEF ApplyStep
<1>5. ASSUME NEW n \in Nat, n + 1 <= Len(ws)
      PROVE  F[n + 1] = Apply(F[n], ws[n + 1])
  <2>1. n + 1 \in 0..Len(ws) /\ n + 1 # 0 /\ n + 1 - 1 = n
    BY <1>5
  <2>2. F[n + 1] = ApplyStep(data, ws, F, n + 1)
    BY <1>3, <2>1
  <2> QED BY <2>1, <2>2 DEF ApplyStep
<1> QED BY <1>2, <1>4, <1>5

\* Any number of writes.
LEMMA ApplyAllType ==
    ASSUME NEW data \in DataNode, NEW ws \in Seq(Write)
    PROVE  ApplyAll(data, ws) \in DataNode
<1>1. PICK F :
        /\ F[0] = data
        /\ \A n \in Nat : n + 1 <= Len(ws) => F[n + 1] = Apply(F[n], ws[n + 1])
        /\ ApplyAll(data, ws) = F[Len(ws)]
  BY ApplyUnfolds
<1> DEFINE T == {n \in Nat : n <= Len(ws) => F[n] \in DataNode}
<1>2. 0 \in T
  BY <1>1
<1>3. \A n \in T : n + 1 \in T
  <2> SUFFICES ASSUME NEW n \in Nat, n + 1 <= Len(ws), F[n] \in DataNode
               PROVE  F[n + 1] \in DataNode
    OBVIOUS
  <2>1. F[n + 1] = Apply(F[n], ws[n + 1])
    BY <1>1
  <2>2. ws[n + 1] \in Write
    OBVIOUS
  <2> QED BY <2>1, <2>2, ApplyType
<1> HIDE DEF T
<1>4. T = Nat
  BY <1>2, <1>3, NatSet DEF T
<1> QED BY <1>1, <1>4 DEF T

-----------------------------------------------------------------------------
(* What the writers write, and what the reader reads.                      *)

\* Of the items with one name there is a last one.
LEMMA LastNamed ==
    ASSUME NEW items \in Seq(Item), NEW named \in SUBSET DOMAIN items, named # {}
    PROVE  \E i \in named : \A j \in named : j <= i
<1> DEFINE D == {Len(items) - i : i \in named}
<1>1. \A i \in named : i \in 1..Len(items)
  OBVIOUS
<1>2. Len(items) \in Nat
  OBVIOUS
<1>3. D \subseteq Nat /\ D # {}
  <2>1. \A i \in 1..Len(items) : Len(items) - i \in Nat
    BY <1>2
  <2>2. \A i \in named : Len(items) - i \in Nat
    BY <1>1, <2>1
  <2> QED BY <2>2
<1>4. PICK d \in D : \A e \in D : d <= e
  <2> HIDE DEF D
  <2> QED BY <1>3, LeastNat
<1>5. PICK i \in named : d = Len(items) - i
  BY <1>4
<1>6. ASSUME NEW j \in named PROVE j <= i
  <2>1. Len(items) - j \in D
    BY <1>6
  <2>2. d <= Len(items) - j
    BY <1>4, <2>1
  <2>3. i \in Nat /\ j \in Nat
    BY <1>1, <1>5, <1>6
  <2> QED BY <1>2, <1>5, <2>2, <2>3
<1> QED BY <1>5, <1>6

\* The node of a list.
LEMMA ListWriteType ==
    ASSUME NEW uid \in Uids, NEW l \in List, l.listName # Nil
    PROVE  /\ SaveListOnCloud(uid, l) \in Write
           /\ SaveListOnCloud(uid, l).node \in ListNode
<1> DEFINE items == l.listItems
           named(n) == {i \in DOMAIN items : items[i].itemName = n}
           last(n) == CHOOSE i \in named(n) : \A j \in named(n) : j <= i
           nodes == [n \in ItemNames |->
                       IF named(n) = {} THEN Nil
                       ELSE [itemNameKey |-> TRUE,
                             purchased |-> items[last(n)].itemPuchased]]
<1>1. items \in Seq(Item) /\ l.listName \in ListNames
  BY DEF List
<1>2. ASSUME NEW n \in ItemNames, named(n) # {}
      PROVE  items[last(n)].itemPuchased \in BOOLEAN
  <2>1. \E i \in named(n) : \A j \in named(n) : j <= i
    <3>1. named(n) \subseteq DOMAIN items
      OBVIOUS
    <3> HIDE DEF items, named
    <3> QED BY <1>1, <1>2, <3>1, LastNamed
  <2>2. last(n) \in named(n)
    BY <2>1
  <2> HIDE DEF last
  <2>3. items[last(n)] \in Item
    BY <1>1, <2>2
  <2> QED BY <2>3 DEF Item
<1> HIDE DEF items, named, last
<1>3. nodes \in [ItemNames -> ItemNode \cup {Nil}]
  BY <1>2 DEF ItemNode
<1>4. SaveListOnCloud(uid, l) =
        [uid |-> uid, list |-> l.listName, item |-> Nil,
         node |-> [listNameKey |-> TRUE, listItems |-> nodes]]
  BY DEF SaveListOnCloud, items, named, last
<1> HIDE DEF nodes
<1>5. [listNameKey |-> TRUE, listItems |-> nodes] \in ListNode
  BY <1>3 DEF ListNode
<1>6. SaveListOnCloud(uid, l) \in ListWrite
  BY <1>1, <1>4, <1>5 DEF ListWrite
<1> QED BY <1>4, <1>5, <1>6 DEF Write

\* The node of an item, and the removal of a node.
LEMMA NodeWriteTypes ==
    ASSUME NEW uid \in Uids, NEW l \in List, NEW it \in Item,
           l.listName # Nil, l.listOwner \in Uids
    PROVE  /\ DeleteListFromCloud(l) \in Write
           /\ it.itemName # Nil => /\ SaveItemToCloud(it, l) \in Write
                                   /\ DeleteItemFromCloud(uid, it, l) \in Write
<1>1. l.listName \in ListNames
  BY DEF List
<1>2. DeleteListFromCloud(l) \in ListWrite
  BY <1>1 DEF DeleteListFromCloud, ListWrite
<1>3. ASSUME it.itemName # Nil
      PROVE  SaveItemToCloud(it, l) \in ItemWrite /\ DeleteItemFromCloud(uid, it, l) \in ItemWrite
  <2>1. it.itemName \in ItemNames /\ it.itemPuchased \in BOOLEAN
    BY <1>3 DEF Item
  <2>2. [itemNameKey |-> FALSE, purchased |-> it.itemPuchased] \in ItemNode
    BY <2>1 DEF ItemNode
  <2> QED BY <1>1, <2>1, <2>2 DEF SaveItemToCloud, DeleteItemFromCloud, ItemWrite
<1> QED BY <1>2, <1>3 DEF Write

\* An order of the keys below a node is an array of them.
LEMMA OrdersOf ==
    ASSUME NEW K, IsFiniteSet(K), NEW S \in SUBSET K, NEW order \in SetToSeqs(S)
    PROVE  order \in Seq(S)
<1>1. IsFiniteSet(S)
  BY FS_Subset
<1>2. Cardinality(S) \in Nat
  BY <1>1, FS_CardinalityType
<1>3. order \in [1..Cardinality(S) -> S]
  BY DEF SetToSeqs
<1> QED BY <1>2, <1>3

\* A list that is read from its node.
LEMMA ReadListType ==
    ASSUME NEW n \in ListNames, NEW node \in ListNode,
           NEW order \in SetToSeqs(Present(node.listItems))
    PROVE  /\ ReadList(n, node, order) \in List
           /\ ReadList(n, node, order).copy = 0
           /\ ~ ReadList(n, node, order).mine
<1> DEFINE S == Present(node.listItems)
           items == [i \in DOMAIN order |->
                       ReadItem(order[i], node.listItems[order[i]])]
<1>1. S \subseteq ItemNames /\ \A k \in S : node.listItems[k] \in ItemNode
  BY DEF Present, ListNode
<1> HIDE DEF S
<1>2. order \in Seq(S)
  BY <1>1, KeysAssumption, OrdersOf DEF S
<1>3. ASSUME NEW i \in 1..Len(order)
      PROVE  ReadItem(order[i], node.listItems[order[i]]) \in Item
  <2>1. order[i] \in S
    BY <1>2
  <2>2. order[i] \in ItemNames /\ node.listItems[order[i]] \in ItemNode
    BY <1>1, <2>1
  <2> QED BY <2>2 DEF ReadItem, Item, ItemNode
<1>4. items \in [1..Len(order) -> Item]
  BY <1>2, <1>3
<1>5. Len(order) \in Nat
  BY <1>2
<1>6. items \in Seq(Item)
  <2> HIDE DEF items
  <2> QED BY <1>4, <1>5
<1>7. ReadList(n, node, order) =
        [listName |-> IF node.listNameKey THEN n ELSE Nil, listOwner |-> Nil,
         mine |-> FALSE, copy |-> 0, twins |-> {}, listItems |-> items]
  BY DEF ReadList
<1> HIDE DEF items
<1> QED BY <1>6, <1>7 DEF List

\* What ReadDataFromCloud makes of the lists of one user.
LEMMA ReadDataFromCloudType ==
    ASSUME NEW lists \in [ListNames -> ListNode \cup {Nil}],
           NEW lst \in ReadDataFromCloud(lists)
    PROVE  lst \in Seq(List)
<1> DEFINE names == Present(lists)
<1>1. names \subseteq ListNames /\ \A n \in names : lists[n] \in ListNode
  BY DEF Present
<1>2. PICK order, items :
        /\ order \in SetToSeqs(names)
        /\ \A n \in names : items[n] \in SetToSeqs(Present(lists[n].listItems))
        /\ lst = [i \in DOMAIN order |->
                    ReadList(order[i], lists[order[i]], items[order[i]])]
  BY DEF ReadDataFromCloud
<1> HIDE DEF names
<1>3. order \in Seq(names)
  BY <1>1, <1>2, KeysAssumption, OrdersOf
<1>4. ASSUME NEW i \in 1..Len(order)
      PROVE  ReadList(order[i], lists[order[i]], items[order[i]]) \in List
  <2>1. order[i] \in names
    BY <1>3
  <2>2. /\ order[i] \in ListNames /\ lists[order[i]] \in ListNode
        /\ items[order[i]] \in SetToSeqs(Present(lists[order[i]].listItems))
    BY <1>1, <1>2, <2>1
  <2> QED BY <2>2, ReadListType
<1>5. lst \in [1..Len(order) -> List]
  BY <1>2, <1>3, <1>4
<1>6. Len(order) \in Nat
  BY <1>3
<1> QED BY <1>5, <1>6

\* A loop of SaveListOnCloud writes a list per step, up to the first list it
\* raises on.
LEMMA SavesType ==
    ASSUME NEW uid \in Uids, NEW lst \in Seq(List)
    PROVE  /\ Saves(lst, uid) \in Seq(Write)
           /\ (\A p \in DOMAIN lst : Savable(lst[p])) =>
                 /\ Len(Saves(lst, uid)) = Len(lst)
                 /\ \A p \in DOMAIN lst : Saves(lst, uid)[p] = SaveListOnCloud(uid, lst[p])
<1> DEFINE bad == {p \in DOMAIN lst : ~ Savable(lst[p])}
           good == {p \in DOMAIN lst : \A q \in bad : p < q}
           saves == [p \in good |-> SaveListOnCloud(uid, lst[p])]
<1>1. Saves(lst, uid) = saves
  BY DEF Saves
<1>2. Len(lst) \in Nat /\ DOMAIN lst = 1..Len(lst)
  OBVIOUS
<1>3. bad \subseteq 1..Len(lst)
  BY <1>2
<1>4. PICK n \in Nat : good = 1..n /\ (bad = {} => n = Len(lst))
  <2>1. CASE bad = {}
    <3>1. good = 1..Len(lst)
      BY <1>2, <2>1
    <3> QED BY <1>2, <3>1
  <2>2. CASE bad # {}
    <3> HIDE DEF bad
    <3>1. bad \subseteq Nat
      BY <1>3
    <3>2. PICK q \in bad : \A r \in bad : q <= r
      BY <2>2, <3>1, LeastNat
    <3>3. q \in 1..Len(lst) /\ q - 1 \in Nat
      BY <1>2, <1>3, <3>2
    <3>4. \A p \in 1..Len(lst) : (\A r \in bad : p < r) <=> p \in 1..(q - 1)
      <4> SUFFICES ASSUME NEW p \in 1..Len(lst)
                   PROVE  (\A r \in bad : p < r) <=> p \in 1..(q - 1)
        OBVIOUS
      <4>1. ASSUME \A r \in bad : p < r PROVE p \in 1..(q - 1)
        <5>1. p < q
          BY <3>2, <4>1
        <5> QED BY <3>3, <5>1
      <4>2. ASSUME p \in 1..(q - 1), NEW r \in bad PROVE p < r
        <5>1. q <= r /\ r \in Nat
          BY <3>1, <3>2
        <5> QED BY <3>3, <4>2, <5>1
      <4> QED BY <4>1, <4>2
    <3>5. 1..(q - 1) \subseteq 1..Len(lst)
      BY <3>3
    <3>6. good = 1..(q - 1)
      BY <1>2, <3>4, <3>5
    <3> QED BY <2>2, <3>3, <3>6
  <2> QED BY <2>1, <2>2
<1>5. ASSUME NEW p \in good PROVE SaveListOnCloud(uid, lst[p]) \in Write
  <2>1. p \in DOMAIN lst /\ p \notin bad
    <3>1. p \in Nat /\ p \in DOMAIN lst
      BY <1>2
    <3>2. ~ (p < p)
      BY <3>1
    <3> QED BY <3>1, <3>2
  <2>2. Savable(lst[p])
    BY <2>1
  <2>3. lst[p] \in List /\ lst[p].listName # Nil
    BY <2>1, <2>2 DEF Savable
  <2> QED BY <2>3, ListWriteType
<1> HIDE DEF good
<1>6. saves \in [1..n -> Write]
  BY <1>4, <1>5
<1>7. saves \in Seq(Write) /\ Len(saves) = n
  <2> HIDE DEF saves
  <2> QED BY <1>4, <1>6
<1>8. ASSUME \A p \in DOMAIN lst : Savable(lst[p])
      PROVE  /\ Len(saves) = Len(lst)
             /\ \A p \in DOMAIN lst : saves[p] = SaveListOnCloud(uid, lst[p])
  <2>1. bad = {}
    BY <1>8
  <2>2. n = Len(lst)
    BY <1>4, <2>1
  <2>3. good = DOMAIN lst
    BY <1>2, <1>4, <2>2
  <2>4. \A p \in DOMAIN lst : saves[p] = SaveListOnCloud(uid, lst[p])
    BY <2>3
  <2> HIDE DEF saves
  <2> QED BY <1>7, <2>2, <2>4
<1> HIDE DEF saves
<1> QED BY <1>1, <1>7, <1>8

-----------------------------------------------------------------------------
(* Making writes, and the end of the process.                              *)

\* What CloudTypeOK says of the writes, reads, timers and requests.
InFlightTypeOK ==
    /\ server \in DataNode
    /\ pending \in Seq(Write)
    /\ onlineLST \in Seq(List)
    /\ reads \in Seq(Accounts)
    /\ timers \in Seq(Block)
    /\ authCalls \in Seq(AuthRequest)

LEMMA InFlight == CloudTypeOK => InFlightTypeOK
BY DEF CloudTypeOK, InFlightTypeOK

\* The process ends: nothing is in flight any more.
LEMMA LostType ==
    ASSUME Lost, server' \in DataNode
    PROVE  InFlightTypeOK'
BY DEF Lost, InFlightTypeOK

\* A handler issues its writes, or raises after some of them.
LEMMA IssueType ==
    ASSUME CloudTypeOK, NEW ws, auth # Nil => ws \in Seq(Write), Issue(ws)
    PROVE  InFlightTypeOK'
<1> DEFINE all == pending \o SignedIn(ws)
<1>1. SignedIn(ws) \in Seq(Write)
  <2>1. << >> \in Seq(Write)
    OBVIOUS
  <2> QED BY <2>1 DEF SignedIn
<1>2. all \in Seq(Write)
  <2>1. pending \in Seq(Write)
    BY DEF CloudTypeOK
  <2> HIDE DEF Write
  <2> QED BY <1>1, <2>1, ConcatFacts
<1>3. server \in DataNode
  BY DEF CloudTypeOK
<1> HIDE DEF all
<1>4. CASE proc' = "running"
  <2>1. pending' = all /\ UNCHANGED <<server, onlineLST, reads, timers, authCalls>>
    BY <1>4 DEF Issue, all
  <2> QED BY <1>2, <2>1 DEF CloudTypeOK, InFlightTypeOK
<1>5. CASE proc' # "running"
  <2>1. Lost /\ \E k \in 0..Len(all) : server' = ApplyAll(server, SubSeq(all, 1, k))
    BY <1>5 DEF Issue, all
  <2>2. PICK k \in 0..Len(all) : server' = ApplyAll(server, SubSeq(all, 1, k))
    BY <2>1
  <2>3. SubSeq(all, 1, k) \in Seq(Write)
    BY <1>2
  <2>4. server' \in DataNode
    BY <1>3, <2>2, <2>3, ApplyAllType
  <2> QED BY <2>1, <2>4, LostType
<1> QED BY <1>4, <1>5

\* An event is counted.
LEMMA EventType ==
    ASSUME CloudTypeOK, Event
    PROVE  events' \in 0..MaxEvents
BY SessionAssumption DEF CloudTypeOK, Event

\* What a handler has to show for CloudTypeOK.
LEMMA CloudTypeFrom ==
    ASSUME InFlightTypeOK', auth' \in Accounts \cup {Nil}, accounts' \subseteq Accounts,
           events' \in 0..MaxEvents
    PROVE  CloudTypeOK'
BY DEF CloudTypeOK, InFlightTypeOK

\* A tap that changes nothing of the account.
LEMMA TapType ==
    ASSUME CloudTypeOK, NEW ws, auth # Nil => ws \in Seq(Write), Issue(ws),
           UNCHANGED <<auth, accounts>>, Event \/ UNCHANGED events
    PROVE  CloudTypeOK'
<1>1. InFlightTypeOK'
  BY IssueType
<1>2. events' \in 0..MaxEvents
  BY EventType DEF CloudTypeOK
<1>3. auth' \in Accounts \cup {Nil} /\ accounts' \subseteq Accounts
  BY DEF CloudTypeOK
<1> QED BY <1>1, <1>2, <1>3, CloudTypeFrom

-----------------------------------------------------------------------------
(* Arrays of lists with known owners.                                      *)

\* They are arrays of lists, and not nil.
LEMMA ListsArray ==
    ASSUME NEW S, S \subseteq List, NEW lst \in Seq(S)
    PROVE  lst \in Seq(List) /\ lst # Nil /\ Rows(lst) = lst
<1>1. lst \in Seq(List)
  OBVIOUS
<1>2. lst # Nil
  BY <1>1, NilIsNoArray
<1> QED BY <1>1, <1>2 DEF Rows

\* How the sets of lists of StoreInv relate.
LEMMA OwnerSets ==
    ASSUME NEW uid, NEW u
    PROVE  /\ OwnedLists(uid) \subseteq List /\ DecodedLists(uid) \subseteq List
           /\ UserLists(uid) \subseteq List
           /\ DecodedLists(uid) \subseteq OwnedLists(uid)
           /\ uid \in Uids => /\ OwnedLists(uid) \subseteq UserLists(uid)
                              /\ DecodedLists(uid) \subseteq UserLists(u)
BY DEF OwnedLists, DecodedLists, UserLists

\* The lists the pointer test of WriteData accepts are the user's.
LEMMA OwnListsType ==
    ASSUME NEW uid \in Uids, NEW lst \in Seq(UserLists(uid)) \cup {Nil}
    PROVE  OwnLists(lst, uid) \in Seq(OwnedLists(uid))
<1> DEFINE own == {l \in Elements(Rows(lst)) : SameUid(l, uid)}
<1>1. Rows(lst) \in Seq(UserLists(uid))
  <2>1. CASE lst = Nil
    BY <2>1 DEF Rows
  <2>2. CASE lst \in Seq(UserLists(uid))
    BY <2>2, OwnerSets, ListsArray
  <2> QED BY <2>1, <2>2
<1>2. OwnLists(lst, uid) = Kept(Rows(lst), own)
  BY DEF OwnLists
<1>3. UserLists(uid) \cap own \subseteq OwnedLists(uid)
  BY DEF UserLists, SameUid, OwnedLists
<1> HIDE DEF own
<1>4. OwnLists(lst, uid) \in Seq(UserLists(uid) \cap own)
  BY <1>1, <1>2, KeptType
<1> HIDE DEF OwnLists
<1> QED BY <1>3, <1>4

\* A list as NSKeyedUnarchiver returns it.
LEMMA DecodedList ==
    ASSUME NEW uid, NEW l \in OwnedLists(uid)
    PROVE  /\ [l EXCEPT !.mine = FALSE, !.copy = 0] \in DecodedLists(uid)
           /\ Content([l EXCEPT !.mine = FALSE, !.copy = 0]) = Content(l)
BY DEF OwnedLists, DecodedLists, List, Content

\* The archive of the lists of one user.
LEMMA ArchiveOwned ==
    ASSUME NEW uid, NEW lst \in Seq(OwnedLists(uid))
    PROVE  /\ Archive(lst) \in Seq(DecodedLists(uid))
           /\ Contents(Archive(lst)) = Contents(lst)
<1> DEFINE arch == Archive(lst)
<1>1. DOMAIN lst = 1..Len(lst) /\ Len(lst) \in Nat
  OBVIOUS
<1>2. arch = [i \in 1..Len(lst) |-> [lst[i] EXCEPT !.mine = FALSE, !.copy = 0]]
  BY <1>1 DEF Archive
<1>3. \A i \in 1..Len(lst) : lst[i] \in OwnedLists(uid)
  OBVIOUS
<1>4. \A i \in 1..Len(lst) :
        arch[i] \in DecodedLists(uid) /\ Content(arch[i]) = Content(lst[i])
  BY <1>2, <1>3, DecodedList
<1>5. arch = [i \in 1..Len(lst) |-> arch[i]]
  BY <1>2
<1> HIDE DEF arch
<1>6. arch \in [1..Len(lst) -> DecodedLists(uid)]
  BY <1>4, <1>5
<1>7. arch \in Seq(DecodedLists(uid)) /\ DOMAIN arch = 1..Len(lst)
  BY <1>1, <1>6
<1>8. Rows(arch) = arch /\ Rows(lst) = lst
  BY <1>7, OwnerSets, ListsArray
<1>9. /\ Contents(arch) = [i \in 1..Len(lst) |-> Content(arch[i])]
      /\ Contents(lst) = [i \in 1..Len(lst) |-> Content(lst[i])]
  BY <1>1, <1>7, <1>8 DEF Contents
<1>10. Contents(arch) = Contents(lst)
  BY <1>4, <1>9
<1> QED BY <1>7, <1>10 DEF arch

\* What WriteData leaves in data.plist is the current user's.
LEMMA WrittenType ==
    ASSUME NEW uid \in Uids, NEW lst \in Seq(UserLists(uid)) \cup {Nil}
    PROVE  /\ OwnLists(lst, uid) \in Seq(List)
           /\ Archive(OwnLists(lst, uid)) \in Seq(DecodedLists(uid))
           /\ Archive(OwnLists(lst, uid)) # Nil
<1> DEFINE own == OwnLists(lst, uid)
<1>1. own \in Seq(OwnedLists(uid))
  BY OwnListsType
<1> HIDE DEF own
<1>2. own \in Seq(List) /\ Archive(own) \in Seq(DecodedLists(uid))
  BY <1>1, OwnerSets, ListsArray, ArchiveOwned
<1>3. Archive(own) # Nil
  BY <1>2, OwnerSets, ListsArray
<1> QED BY <1>2, <1>3 DEF own

\* The default user's lists are all written: the pointer test accepts them
\* whichever objects hold their owner.
LEMMA DefaultWritten ==
    ASSUME NEW lst \in Seq(OwnedLists(defUid))
    PROVE  /\ OwnLists(lst, defUid) = lst
           /\ Contents(Archive(OwnLists(lst, defUid))) = Contents(lst)
<1> DEFINE own == {l \in Elements(lst) : SameUid(l, defUid)}
<1>1. Rows(lst) = lst
  BY OwnerSets, ListsArray
<1>2. \A l \in Elements(lst) : l \in OwnedLists(defUid)
  BY DEF Elements
<1>3. Elements(lst) \subseteq own
  BY <1>2 DEF OwnedLists, SameUid
<1> HIDE DEF own
<1>4. Kept(lst, own) = lst
  BY <1>3, KeptAll
<1>5. OwnLists(lst, defUid) = lst
  BY <1>1, <1>4 DEF OwnLists, own
<1> QED BY <1>5, ArchiveOwned

-----------------------------------------------------------------------------
(* What the handlers do to such arrays.                                    *)

\* A set of lists that does not care about their items.
ItemsFree(S) ==
    /\ S \subseteq List
    /\ \A l \in S, items \in Seq(Item) : [l EXCEPT !.listItems = items] \in S
    /\ \A l \in S, items \in Seq(Item), names \in SUBSET ItemNames :
          [l EXCEPT !.listItems = items, !.twins = names] \in S

LEMMA OwnersItemsFree ==
    ASSUME NEW uid
    PROVE  ItemsFree(OwnedLists(uid)) /\ ItemsFree(UserLists(uid))
BY DEF ItemsFree, OwnedLists, UserLists, List

\* The items of a list change.
LEMMA WithItemsType ==
    ASSUME NEW S, ItemsFree(S), NEW lst \in Seq(S), NEW i \in 1..Len(lst),
           NEW items \in Seq(Item)
    PROVE  WithItems(lst, i, items) \in Seq(S)
<1> DEFINE new == WithItems(lst, i, items)
           changed(j) == j = i \/ (lst[i].copy # 0 /\ lst[j].copy = lst[i].copy)
<1>1. DOMAIN lst = 1..Len(lst) /\ Len(lst) \in Nat
  OBVIOUS
<1>2. new = [j \in 1..Len(lst) |->
                IF changed(j) THEN [lst[j] EXCEPT !.listItems = items] ELSE lst[j]]
  BY <1>1 DEF WithItems
<1> HIDE DEF changed
<1>3. ASSUME NEW j \in 1..Len(lst)
      PROVE  (IF changed(j) THEN [lst[j] EXCEPT !.listItems = items] ELSE lst[j]) \in S
  <2>1. lst[j] \in S
    OBVIOUS
  <2>2. [lst[j] EXCEPT !.listItems = items] \in S
    BY <2>1 DEF ItemsFree
  <2> QED BY <2>1, <2>2
<1>4. new \in [1..Len(lst) -> S]
  BY <1>2, <1>3
<1> HIDE DEF new
<1>5. new \in Seq(S)
  BY <1>1, <1>4
<1> QED BY <1>5 DEF new

\* A list is removed.
LEMMA RemoveObjectType ==
    ASSUME NEW S, NEW lst \in Seq(S), NEW i \in 1..Len(lst)
    PROVE  RemoveObject(lst, i) \in Seq(S)
<1> DEFINE K == {l \in Elements(lst) : l.copy # lst[i].copy}
<1>1. Without(lst, i) \in Seq(S)
  BY WithoutType
<1>2. Kept(lst, K) \in Seq(S \cap K)
  <2> HIDE DEF K
  <2> QED BY KeptType
<1>3. Kept(lst, K) \in Seq(S)
  <2> DEFINE kept == Kept(lst, K)
  <2> HIDE DEF kept, K
  <2> QED BY <1>2 DEF kept
<1> QED BY <1>1, <1>3 DEF RemoveObject

\* A list that is new.
LEMMA NewListOwned ==
    ASSUME NEW n \in ListNames, NEW uid \in Uids, NEW items \in Seq(Item)
    PROVE  NewList(n, uid, items) \in OwnedLists(uid)
BY DEF NewList, OwnedLists, List

LEMMA SampleListOwned == SampleList(defUid) \in OwnedLists(defUid)
<1>1. NewItem(testItem) \in Item
  BY NamesAssumption DEF NewItem, Item
<1>2. <<NewItem(testItem)>> \in Seq(Item)
  BY <1>1
<1> QED BY <1>2, NamesAssumption, NewListOwned DEF SampleList, Uids

\* SetTheUser gives the new user the lists that were the old one's objects.
LEMMA SetTheUserType ==
    ASSUME NEW lst \in Seq(UserLists(curUser)), NEW uid \in Uids
    PROVE  SetTheUser(lst, uid) \in Seq(UserLists(uid))
<1> DEFINE new == SetTheUser(lst, uid)
           change(l) == IF SameUid(l, curUser)
                        THEN [l EXCEPT !.listOwner = uid, !.mine = TRUE]
                        ELSE [l EXCEPT !.mine = FALSE]
<1>1. DOMAIN lst = 1..Len(lst) /\ Len(lst) \in Nat
  OBVIOUS
<1>2. new = [i \in 1..Len(lst) |-> change(lst[i])]
  BY <1>1 DEF SetTheUser
<1>3. \A l \in UserLists(curUser) : change(l) \in UserLists(uid)
  BY DEF UserLists, List
<1>4. \A i \in 1..Len(lst) : lst[i] \in UserLists(curUser)
  OBVIOUS
<1> HIDE DEF change
<1>5. new \in [1..Len(lst) -> UserLists(uid)]
  BY <1>2, <1>3, <1>4
<1> HIDE DEF new
<1>6. new \in Seq(UserLists(uid))
  BY <1>1, <1>5
<1> QED BY <1>6 DEF new

\* The merge gives all lists to the current user.
LEMMA MergeResultType ==
    ASSUME onlineLST \in Seq(List), offlineLST \in Seq(List) \cup {Nil},
           curUser \in Uids, NEW later
    PROVE  /\ MergeResult(later) \in Seq(OwnedLists(curUser))
           /\ MergeResult(later) \in Seq(UserLists(curUser))
           /\ MergeResult(later) \in Seq(List)
<1> DEFINE all == compare(onlineLST, Rows(offlineLST), later)
           change(l) == [l EXCEPT !.listOwner = curUser, !.mine = TRUE]
           new == MergeResult(later)
<1>1. Rows(offlineLST) \in Seq(List)
  <2>1. << >> \in Seq(List)
    OBVIOUS
  <2> QED BY <2>1 DEF Rows
<1>2. all \in Seq(List)
  BY <1>1, CompareElements
<1>3. new = [i \in DOMAIN all |-> change(all[i])]
  BY DEF MergeResult
<1>4. \A l \in List : change(l) \in OwnedLists(curUser)
  BY DEF OwnedLists, List
<1> HIDE DEF all, change, new
<1>5. DOMAIN all = 1..Len(all) /\ Len(all) \in Nat /\ \A i \in 1..Len(all) : all[i] \in List
  BY <1>2
<1>6. new \in [1..Len(all) -> OwnedLists(curUser)]
  BY <1>3, <1>4, <1>5
<1>7. new \in Seq(OwnedLists(curUser))
  BY <1>5, <1>6
<1>8. new \in Seq(UserLists(curUser))
  BY <1>7, OwnerSets
<1>9. new \in Seq(List)
  BY <1>7, OwnerSets, ListsArray
<1> QED BY <1>7, <1>8, <1>9 DEF new

-----------------------------------------------------------------------------
(* The ways in which a handler ends.  DefaultInv is carried along as an    *)
(* implication: it holds as long as no invited list was shown, StoreInv    *)
(* holds with invitations as well.                                         *)

KeepsDefault == DefaultInv => DefaultInv'

\* What StoreInv says while the process runs.
LEMMA StoreRunning ==
    ASSUME StoreInv, proc = "running"
    PROVE  /\ curUser = userPlist /\ curUser \in Uids /\ curUser # Nil
           /\ curLST \in Seq(UserLists(curUser)) \cup {Nil}
           /\ curLST # Nil => curLST \in Seq(UserLists(curUser))
           /\ dataPlist = Nil => curLST = Nil
           /\ curLST = Nil => rows = 0 /\ screen = Nil
           /\ rows \in Nat /\ screen \in Screens \cup {Nil}
BY NilAssumption DEF StoreInv, LocalTypeOK, Uids

\* The lists ReadDataFromDisk returns are those of data.plist.
LEMMA ReadDataIs ==
    ASSUME StoreInv
    PROVE  /\ ReadData = dataPlist
           /\ dataPlist \in Seq(List) \cup {Nil}
           /\ \A u : dataPlist \in Seq(UserLists(u)) \cup {Nil}
<1>1. ReadData = dataPlist
  BY DEF ReadData, StoreInv
<1>2. dataPlist \in Seq(List) \cup {Nil}
  BY DEF StoreInv, LocalTypeOK
<1>3. ASSUME NEW u, dataPlist # Nil PROVE dataPlist \in Seq(UserLists(u))
  <2>1. PICK uid \in Uids : dataPlist \in Seq(DecodedLists(uid))
    BY <1>3 DEF StoreInv
  <2>2. DecodedLists(uid) \subseteq UserLists(u)
    BY OwnerSets
  <2> QED BY <2>1, <2>2
<1> QED BY <1>1, <1>2, <1>3

\* The process ends, by a kill or an exception, with or without WriteData.
LEMMA ProcessEnds ==
    ASSUME StoreInv, proc' \in {"off", "raised"}, Forgotten,
           userPlist' \in Uids, dataPlist' = dataPlist \/ dataPlist' \in Seq(DecodedLists(userPlist')),
           userPlist' = defUid => userPlist = defUid
    PROVE  StoreInv' /\ KeepsDefault
<1>1. /\ curUser' = Nil /\ curLST' = << >> /\ offlineLST' = Nil /\ rows' = 0 /\ screen' = Nil
      /\ proc' # "running"
  BY DEF Forgotten
<1>2. dataPlist' # Nil => \E uid \in Uids : dataPlist' \in Seq(DecodedLists(uid))
  BY DEF StoreInv
<1>3. dataPlist' \in Seq(List) \cup {Nil}
  <2>1. CASE dataPlist' = dataPlist
    BY <2>1 DEF StoreInv, LocalTypeOK
  <2>2. CASE dataPlist' \in Seq(DecodedLists(userPlist'))
    BY <2>2, OwnerSets, ListsArray
  <2> QED BY <2>1, <2>2
<1>4. LocalTypeOK'
  <2>1. << >> \in Seq(List) /\ 0 \in Nat
    OBVIOUS
  <2> QED BY <1>1, <1>3, <2>1 DEF LocalTypeOK
<1>5. userPlist' # Nil
  BY NilAssumption DEF Uids
<1>6. StoreInv'
  BY <1>1, <1>2, <1>4, <1>5 DEF StoreInv
<1>7. ASSUME DefaultInv PROVE DefaultInv'
  <2>1. userPlist' = defUid /\ dataPlist' # Nil => dataPlist' \in Seq(DecodedLists(defUid))
    BY <1>7 DEF DefaultInv
  <2> QED BY <1>1, <2>1 DEF DefaultInv
<1>8. KeepsDefault
  BY <1>7 DEF KeepsDefault
<1> QED BY <1>6, <1>8

\* The process goes on, with some lists on the screen and some on the disk.
LEMMA ProcessRuns ==
    ASSUME proc' = "running", curUser' \in Uids, userPlist' = curUser',
           curLST' \in Seq(UserLists(curUser')) \cup {Nil},
           rows' \in Nat, screen' \in Screens \cup {Nil},
           curLST' = Nil => rows' = 0 /\ screen' = Nil,
           offlineLST' \in Seq(List) \cup {Nil},
           dataPlist' = Nil => offlineLST' = Nil /\ curLST' = Nil,
           NEW uid \in Uids, dataPlist' \in Seq(DecodedLists(uid)) \cup {Nil},
           DefaultInv /\ curUser' = defUid =>
              /\ uid = defUid
              /\ curLST' # Nil => /\ curLST' \in Seq(OwnedLists(defUid))
                                  /\ Contents(dataPlist') = Contents(curLST')
    PROVE  StoreInv' /\ KeepsDefault
<1>1. dataPlist' \in Seq(List) \cup {Nil}
  BY OwnerSets, ListsArray
<1>2. curLST' \in Seq(List) \cup {Nil}
  BY OwnerSets, ListsArray
<1>3. LocalTypeOK'
  BY <1>1, <1>2 DEF LocalTypeOK
<1>4. userPlist' # Nil
  BY NilAssumption DEF Uids
<1>5. dataPlist' # Nil => \E u \in Uids : dataPlist' \in Seq(DecodedLists(u))
  OBVIOUS
<1>6. StoreInv'
  BY <1>3, <1>4, <1>5 DEF StoreInv
<1>7. KeepsDefault
  <2> SUFFICES ASSUME DefaultInv PROVE DefaultInv'
    BY DEF KeepsDefault
  <2>1. userPlist' = defUid /\ dataPlist' # Nil => dataPlist' \in Seq(DecodedLists(defUid))
    OBVIOUS
  <2>2. curUser' = defUid => curLST' \in Seq(OwnedLists(defUid)) \cup {Nil}
    OBVIOUS
  <2>3. curUser' = defUid => DiskMatchesScreen'
    BY DEF DiskMatchesScreen
  <2> QED BY <2>1, <2>2, <2>3 DEF DefaultInv
<1> QED BY <1>6, <1>7

\* The process goes on, and the handler has written its lists to the disk.
LEMMA ProcessWrites ==
    ASSUME proc' = "running", curUser' \in Uids, userPlist' = curUser',
           NEW lst \in Seq(UserLists(curUser')) \cup {Nil}, curLST' = lst,
           WriteData(lst, curUser'),
           rows' \in Nat, screen' \in Screens \cup {Nil},
           lst = Nil => rows' = 0 /\ screen' = Nil,
           DefaultInv /\ curUser' = defUid => lst \in Seq(OwnedLists(defUid)) \cup {Nil}
    PROVE  StoreInv' /\ KeepsDefault
<1>1. /\ offlineLST' = OwnLists(lst, curUser')
      /\ dataPlist' = Archive(OwnLists(lst, curUser'))
  BY DEF WriteData
<1>2. /\ offlineLST' \in Seq(List)
      /\ dataPlist' \in Seq(DecodedLists(curUser'))
      /\ dataPlist' # Nil
  BY <1>1, WrittenType
<1>3. DefaultInv /\ curUser' = defUid /\ curLST' # Nil =>
        Contents(dataPlist') = Contents(curLST')
  BY <1>1, DefaultWritten
<1> QED BY <1>2, <1>3, ProcessRuns

\* The handler raises after it has written its lists.
LEMMA WritesThenEnds ==
    ASSUME StoreInv, proc = "running",
           NEW lst \in Seq(UserLists(curUser)) \cup {Nil},
           WriteDataThenRaise(lst), UNCHANGED userPlist
    PROVE  StoreInv' /\ KeepsDefault
<1>1. curUser = userPlist /\ curUser \in Uids
  BY StoreRunning
<1>2. /\ dataPlist' = Archive(OwnLists(lst, curUser))
      /\ proc' = "raised" /\ Forgotten
  BY DEF WriteDataThenRaise
<1>3. dataPlist' \in Seq(DecodedLists(userPlist'))
  BY <1>1, <1>2, WrittenType
<1> QED BY <1>1, <1>2, <1>3, ProcessEnds

\* The handler raises before it has written anything.
LEMMA RaiseEnds ==
    ASSUME StoreInv, proc = "running", Raise
    PROVE  StoreInv' /\ KeepsDefault
<1>1. curUser = userPlist /\ curUser \in Uids
  BY StoreRunning
<1>2. proc' = "raised" /\ Forgotten /\ userPlist' = userPlist /\ dataPlist' = dataPlist
  BY DEF Raise, disk
<1> QED BY <1>1, <1>2, ProcessEnds

\* As long as the user is the default one, his lists are those on the disk.
LEMMA DefaultRunning ==
    ASSUME DefaultInv, proc = "running", curUser = defUid
    PROVE  /\ curLST # Nil => /\ curLST \in Seq(OwnedLists(defUid))
                              /\ Contents(dataPlist) = Contents(curLST)
           /\ curLST \in Seq(OwnedLists(defUid)) \cup {Nil}
           /\ userPlist = defUid => dataPlist \in Seq(DecodedLists(defUid)) \cup {Nil}
BY DEF DefaultInv, DiskMatchesScreen

\* A handler changes the tables only.
LEMMA TablesChange ==
    ASSUME StoreInv, proc = "running",
           UNCHANGED <<proc, userPlist, dataPlist, curUser, curLST, offlineLST>>,
           rows' \in Nat, screen' \in Screens \cup {Nil},
           curLST = Nil => rows' = 0 /\ screen' = Nil
    PROVE  StoreInv' /\ KeepsDefault
<1>1. StoreInv'
  BY DEF StoreInv, LocalTypeOK
<1>2. KeepsDefault
  BY DEF DefaultInv, DiskMatchesScreen, KeepsDefault
<1> QED BY <1>1, <1>2

-----------------------------------------------------------------------------
(* The handlers of LocalStore, whatever their calls of the cloud refuse.   *)

\* The first run.
LEMMA FirstRunStore ==
    ASSUME StoreInv, FirstRun
    PROVE  StoreInv' /\ KeepsDefault
<1> DEFINE lst == <<SampleList(defUid)>>
<1>1. lst \in Seq(OwnedLists(defUid)) /\ Len(lst) = 1
  BY SampleListOwned
<1>2. /\ proc' = "running" /\ curUser' = defUid /\ userPlist' = defUid
      /\ curLST' = lst /\ WriteData(lst, defUid)
      /\ rows' = Len(Rows(lst)) /\ screen' = Nil
  BY DEF FirstRun, ReloadLists
<1> HIDE DEF lst
<1>3. defUid \in Uids
  BY DEF Uids
<1>4. lst \in Seq(UserLists(defUid)) /\ lst # Nil /\ Rows(lst) = lst
  <2>1. OwnedLists(defUid) \subseteq UserLists(defUid)
    BY <1>3, OwnerSets
  <2>2. lst \in Seq(UserLists(defUid))
    BY <1>1, <2>1
  <2> QED BY <1>1, <2>2, OwnerSets, ListsArray
<1>5. rows' \in Nat
  BY <1>1, <1>2, <1>4
<1> QED BY <1>1, <1>2, <1>3, <1>4, <1>5, ProcessWrites

\* The first run, killed between its two files.
LEMMA FirstRunKilledStore ==
    ASSUME StoreInv, FirstRunKilled
    PROVE  StoreInv' /\ KeepsDefault
<1>1. /\ proc # "running" /\ userPlist = Nil /\ userPlist' = defUid
      /\ UNCHANGED <<proc, dataPlist, curUser, curLST, offlineLST, rows, screen>>
  BY DEF FirstRunKilled, memory, tables
<1>2. dataPlist = Nil
  BY <1>1 DEF StoreInv
<1>3. userPlist' # Nil /\ userPlist' \in Uids
  BY <1>1, NilAssumption DEF Uids
<1>4. LocalTypeOK'
  BY <1>1, <1>3 DEF StoreInv, LocalTypeOK
<1>5. StoreInv'
  BY <1>1, <1>2, <1>3, <1>4 DEF StoreInv
<1>6. KeepsDefault
  BY <1>1, <1>2 DEF DefaultInv, KeepsDefault
<1> QED BY <1>5, <1>6

\* The lists are read back from the disk, for the user of user.plist or for
\* another one who has an account.
LEMMA ListsReadBack ==
    ASSUME StoreInv, proc' = "running", dataPlist' = dataPlist,
           userPlist' \in Uids, userPlist' = defUid => userPlist = defUid,
           curUser' = userPlist', curLST' = ReadData, offlineLST' = ReadData,
           rows' \in Nat, screen' \in Screens \cup {Nil},
           dataPlist = Nil => rows' = 0 /\ screen' = Nil
    PROVE  StoreInv' /\ KeepsDefault
<1>1. /\ curLST' = dataPlist /\ offlineLST' = dataPlist
      /\ dataPlist \in Seq(List) \cup {Nil}
      /\ dataPlist \in Seq(UserLists(curUser')) \cup {Nil}
  BY ReadDataIs
<1>2. PICK uid \in Uids : /\ dataPlist \in Seq(DecodedLists(uid)) \cup {Nil}
                          /\ DefaultInv /\ curUser' = defUid => uid = defUid
  <2>1. CASE DefaultInv /\ curUser' = defUid
    BY <2>1 DEF DefaultInv
  <2>2. CASE ~ (DefaultInv /\ curUser' = defUid)
    BY <2>2 DEF StoreInv
  <2> QED BY <2>1, <2>2
<1>3. ASSUME DefaultInv, curUser' = defUid, curLST' # Nil
      PROVE  curLST' \in Seq(OwnedLists(defUid)) /\ Contents(dataPlist') = Contents(curLST')
  <2>1. dataPlist \in Seq(DecodedLists(defUid))
    BY <1>1, <1>2, <1>3
  <2>2. DecodedLists(defUid) \subseteq OwnedLists(defUid)
    BY OwnerSets
  <2> QED BY <1>1, <2>1, <2>2
<1> QED BY <1>1, <1>2, <1>3, ProcessRuns

LEMMA RelaunchStore ==
    ASSUME StoreInv, Relaunch
    PROVE  StoreInv' /\ KeepsDefault
<1>1. /\ userPlist # Nil /\ proc' = "running"
      /\ curUser' = userPlist /\ curLST' = ReadData /\ offlineLST' = ReadData
      /\ rows' = Len(Rows(ReadData)) /\ screen' = Nil
      /\ userPlist' = userPlist /\ dataPlist' = dataPlist
  BY DEF Relaunch, ReadFromDisk, ReloadLists, disk
<1>2. userPlist \in Uids
  BY <1>1 DEF StoreInv, LocalTypeOK
<1>3. rows' = Len(Rows(dataPlist)) /\ dataPlist \in Seq(List) \cup {Nil}
  BY <1>1, ReadDataIs
<1>4. rows' \in Nat /\ (dataPlist = Nil => rows' = 0)
  <2>1. CASE dataPlist = Nil
    BY <1>3, <2>1 DEF Rows
  <2>2. CASE dataPlist # Nil
    BY <1>3, <2>2 DEF Rows
  <2> QED BY <2>1, <2>2
<1> QED BY <1>1, <1>2, <1>4, ListsReadBack

LEMMA KillStore ==
    ASSUME StoreInv, Kill
    PROVE  StoreInv' /\ KeepsDefault
<1>1. /\ proc = "running" /\ proc' = "off" /\ Forgotten
      /\ userPlist' = userPlist /\ dataPlist' = dataPlist
  BY DEF Kill, disk
<1>2. userPlist \in Uids
  BY <1>1, StoreRunning
<1> QED BY <1>1, <1>2, ProcessEnds

\* addNewList.
LEMMA AddNewListStore ==
    ASSUME StoreInv, NEW n \in ListNames, AddNewList(n)
    PROVE  StoreInv' /\ KeepsDefault
<1> DEFINE new == NewList(n, curUser, << >>)
           lst == IF curLST = Nil THEN Nil ELSE Append(curLST, new)
<1>1. /\ proc = "running" /\ screen = Nil /\ proc' = proc
      /\ userPlist' = userPlist /\ curUser' = curUser /\ screen' = screen
      /\ curLST' = lst /\ rows' = Len(Rows(lst)) /\ WriteData(lst, curUser)
  BY DEF AddNewList, OnListScreen, ReloadLists
<1>2. /\ curUser = userPlist /\ curUser \in Uids
      /\ curLST # Nil => curLST \in Seq(UserLists(curUser))
  BY <1>1, StoreRunning
<1>3. new \in OwnedLists(curUser) /\ new \in UserLists(curUser)
  <2>1. << >> \in Seq(Item)
    OBVIOUS
  <2> QED BY <1>2, <2>1, NewListOwned, OwnerSets
<1> HIDE DEF new
<1>4. CASE curLST = Nil
  <2>1. lst = Nil /\ rows' = 0
    BY <1>1, <1>4 DEF Rows
  <2> HIDE DEF lst
  <2> QED BY <1>1, <1>2, <2>1, ProcessWrites
<1>5. CASE curLST # Nil
  <2>1. lst = Append(curLST, new)
    BY <1>5
  <2> HIDE DEF lst
  <2>2. lst \in Seq(UserLists(curUser))
    BY <1>2, <1>3, <1>5, <2>1
  <2>3. DefaultInv /\ curUser = defUid => lst \in Seq(OwnedLists(defUid))
    BY <1>1, <1>3, <1>5, <2>1, DefaultRunning
  <2>4. lst \in Seq(List) /\ lst # Nil /\ Rows(lst) = lst
    BY <2>2, OwnerSets, ListsArray
  <2>5. rows' \in Nat
    BY <1>1, <2>4
  <2> QED BY <1>1, <1>2, <2>2, <2>3, <2>4, <2>5, ProcessWrites
<1> QED BY <1>4, <1>5

\* commitEditingStyle of the table of lists.
LEMMA DeleteListStore ==
    ASSUME StoreInv, NEW i, NEW refused, DeleteList(i, refused)
    PROVE  StoreInv' /\ KeepsDefault
<1>1. proc = "running" /\ screen = Nil /\ i \in 1..rows
  BY DEF DeleteList, OnListScreen
<1>2. /\ curUser = userPlist /\ curUser \in Uids /\ rows \in Nat
      /\ curLST # Nil => curLST \in Seq(UserLists(curUser))
      /\ curLST = Nil => rows = 0
      /\ dataPlist = Nil => curLST = Nil
  BY <1>1, StoreRunning
<1>3. curLST # Nil /\ curLST \in Seq(UserLists(curUser))
  BY <1>1, <1>2
<1>4. CASE i > Len(curLST)
  <2>1. Raise
    BY <1>4 DEF DeleteList
  <2> QED BY <1>1, <2>1, RaiseEnds
<1>5. CASE ~ (i > Len(curLST))
  <2> DEFINE left == RemoveObject(curLST, i)
             own == curLST[i].listOwner = curUser
             fine == OneRowLess(rows, left) /\ ~ (own /\ refused)
  <2>1. i \in 1..Len(curLST)
    BY <1>1, <1>2, <1>3, <1>5
  <2>2. left \in Seq(UserLists(curUser))
    BY <1>3, <2>1, RemoveObjectType
  <2>3. DefaultInv /\ curUser = defUid => left \in Seq(OwnedLists(defUid))
    BY <1>1, <1>3, <2>1, RemoveObjectType, DefaultRunning
  <2>4. left # Nil
    BY <2>2, OwnerSets, ListsArray
  <2>5. /\ fine => /\ own => WriteData(left, curUser)
                   /\ ~ own => UNCHANGED <<offlineLST, dataPlist>>
                   /\ curLST' = left /\ rows' = rows - 1
                   /\ UNCHANGED <<proc, curUser, screen>>
        /\ ~ fine => IF own THEN WriteDataThenRaise(left) ELSE Raise
        /\ UNCHANGED userPlist
    BY <1>5 DEF DeleteList
  <2> HIDE DEF left, own, fine
  <2>6. rows - 1 \in Nat
    BY <1>1, <1>2
  <2>7. CASE fine /\ own
    BY <1>1, <1>2, <2>2, <2>3, <2>4, <2>5, <2>6, <2>7, ProcessWrites
  <2>8. CASE fine /\ ~ own
    <3>1. ~ (DefaultInv /\ curUser = defUid)
      <4> SUFFICES ASSUME DefaultInv, curUser = defUid PROVE FALSE
        OBVIOUS
      <4>1. curLST \in Seq(OwnedLists(defUid))
        BY <1>1, <1>3, DefaultRunning
      <4>2. curLST[i] \in OwnedLists(defUid)
        BY <2>1, <4>1
      <4> QED BY <2>8, <4>2 DEF own, OwnedLists
    <3>2. /\ curLST' = left /\ rows' = rows - 1 /\ offlineLST' = offlineLST
          /\ dataPlist' = dataPlist /\ proc' = proc /\ curUser' = curUser
          /\ screen' = screen /\ userPlist' = userPlist
      BY <2>5, <2>8
    <3>3. dataPlist # Nil
      BY <1>2, <1>3
    <3>4. PICK uid \in Uids : dataPlist \in Seq(DecodedLists(uid))
      BY <3>3 DEF StoreInv
    <3>5. offlineLST \in Seq(List) \cup {Nil}
      BY DEF StoreInv, LocalTypeOK
    <3> QED BY <1>1, <1>2, <2>2, <2>4, <2>6, <3>1, <3>2, <3>3, <3>4, <3>5, ProcessRuns
  <2>9. CASE ~ fine /\ own
    BY <1>1, <2>2, <2>5, <2>9, WritesThenEnds
  <2>10. CASE ~ fine /\ ~ own
    BY <1>1, <2>5, <2>10, RaiseEnds
  <2> QED BY <2>7, <2>8, <2>9, <2>10
<1> QED BY <1>4, <1>5

\* didSelectRow of the table of lists, and backAction.
LEMMA OpenListStore ==
    ASSUME StoreInv, NEW i, OpenList(i)
    PROVE  StoreInv' /\ KeepsDefault
<1>1. proc = "running" /\ screen = Nil /\ i \in 1..rows
  BY DEF OpenList, OnListScreen
<1>2. rows \in Nat
  BY <1>1, StoreRunning
<1>3. curLST # Nil /\ curLST \in Seq(UserLists(curUser))
  BY <1>1, StoreRunning
<1>4. CASE i \in DOMAIN curLST /\ Displayable(curLST[i])
  <2>1. /\ screen' = [row |-> i, shown |-> Len(curLST[i].listItems)]
        /\ UNCHANGED <<proc, userPlist, dataPlist, curUser, curLST, offlineLST, rows>>
    BY <1>4 DEF OpenList, disk, memory
  <2>2. curLST \in Seq(List)
    BY <1>3, OwnerSets, ListsArray
  <2>3. curLST[i] \in List
    BY <1>4, <2>2
  <2>4. Len(curLST[i].listItems) \in Nat /\ i \in Nat
    BY <1>1, <2>3 DEF List
  <2>5. screen' \in Screens
    BY <2>1, <2>4 DEF Screens
  <2>6. rows' \in Nat
    BY <1>2, <2>1
  <2> QED BY <1>1, <1>3, <2>1, <2>5, <2>6, TablesChange
<1>5. CASE ~ (i \in DOMAIN curLST /\ Displayable(curLST[i]))
  <2>1. Raise
    BY <1>5 DEF OpenList
  <2> QED BY <1>1, <2>1, RaiseEnds
<1> QED BY <1>4, <1>5

LEMMA BackStore ==
    ASSUME StoreInv, Back
    PROVE  StoreInv' /\ KeepsDefault
<1>1. /\ proc = "running" /\ screen' = Nil /\ rows' = Len(Rows(curLST))
      /\ UNCHANGED <<proc, userPlist, dataPlist, curUser, curLST, offlineLST>>
  BY DEF Back, OnItemScreen, ReloadLists, disk, memory
<1>2. curLST # Nil => curLST \in Seq(List) /\ Rows(curLST) = curLST
  BY <1>1, StoreRunning, OwnerSets, ListsArray
<1>3. curLST = Nil => rows' = 0
  BY <1>1 DEF Rows
<1>4. rows' \in Nat
  BY <1>1, <1>2, <1>3
<1> QED BY <1>1, <1>3, <1>4, TablesChange

\* The lists of the app after the opened list got these items: their owners
\* are the same.
LEMMA WithItemsStore ==
    ASSUME StoreInv, proc = "running", curLST # Nil,
           NEW i \in DOMAIN curLST, NEW items \in Seq(Item)
    PROVE  /\ WithItems(curLST, i, items) \in Seq(UserLists(curUser))
           /\ DefaultInv /\ curUser = defUid => WithItems(curLST, i, items) \in Seq(OwnedLists(defUid))
           /\ WithItems(curLST, i, items) # Nil
<1>1. curLST \in Seq(UserLists(curUser))
  BY StoreRunning
<1>2. i \in 1..Len(curLST)
  BY <1>1
<1>3. WithItems(curLST, i, items) \in Seq(UserLists(curUser))
  BY <1>1, <1>2, OwnersItemsFree, WithItemsType
<1>4. DefaultInv /\ curUser = defUid => WithItems(curLST, i, items) \in Seq(OwnedLists(defUid))
  BY <1>2, DefaultRunning, OwnersItemsFree, WithItemsType
<1>5. WithItems(curLST, i, items) # Nil
  BY <1>3, OwnerSets, ListsArray
<1> QED BY <1>3, <1>4, <1>5

\* The items of the opened list.
LEMMA OpenedItems ==
    ASSUME StoreInv, proc = "running", screen # Nil
    PROVE  /\ curLST # Nil /\ curLST \in Seq(UserLists(curUser))
           /\ screen.row \in Nat /\ screen.shown \in Nat
           /\ \A i \in DOMAIN curLST : /\ curLST[i] \in List
                                       /\ curLST[i].listOwner \in Uids
                                       /\ curLST[i].listItems \in Seq(Item)
<1>1. curLST # Nil /\ curLST \in Seq(UserLists(curUser)) /\ screen \in Screens
  BY StoreRunning
<1>2. \A i \in DOMAIN curLST : curLST[i] \in UserLists(curUser)
  BY <1>1
<1> QED BY <1>1, <1>2 DEF UserLists, List, Screens

\* One item is toggled.
LEMMA ToggledType ==
    ASSUME NEW items \in Seq(Item), NEW r \in DOMAIN items
    PROVE  /\ [items[r] EXCEPT !.itemPuchased = ~ @] \in Item
           /\ [items[r] EXCEPT !.itemPuchased = ~ @].itemName = items[r].itemName
<1>1. items[r] \in Item
  OBVIOUS
<1> QED BY <1>1 DEF Item

\* One item, which may be on several rows, is toggled.
LEMMA ToggledItemsType ==
    ASSUME NEW items \in Seq(Item), NEW ks
    PROVE  /\ Toggled(items, ks) \in Seq(Item) /\ Len(Toggled(items, ks)) = Len(items)
           /\ \A k \in 1..Len(items) : Toggled(items, ks)[k].itemName = items[k].itemName
<1> DEFINE it(k) == IF k \in ks THEN [items[k] EXCEPT !.itemPuchased = ~ @] ELSE items[k]
           new == Toggled(items, ks)
<1>1. DOMAIN items = 1..Len(items) /\ Len(items) \in Nat
  OBVIOUS
<1>2. \A k \in 1..Len(items) : it(k) \in Item /\ it(k).itemName = items[k].itemName
  BY <1>1, ToggledType
<1>3. new = [k \in 1..Len(items) |-> it(k)]
  BY <1>1 DEF Toggled
<1> HIDE DEF it, new
<1>4. new \in [1..Len(items) -> Item]
  BY <1>2, <1>3
<1>5. new \in Seq(Item) /\ Len(new) = Len(items)
  BY <1>1, <1>4
<1> QED BY <1>2, <1>3, <1>5 DEF new

\* The end of the handlers that add and toggle an item.
LEMMA WriteItemsStore ==
    ASSUME StoreInv, proc = "running", screen # Nil,
           screen.row \in DOMAIN curLST, NEW items \in Seq(Item), NEW refused,
           WriteItems(items, refused)
    PROVE  StoreInv' /\ KeepsDefault
<1> DEFINE lst == WithItems(curLST, screen.row, items)
<1>1. /\ lst \in Seq(UserLists(curUser)) /\ lst # Nil
      /\ DefaultInv /\ curUser = defUid => lst \in Seq(OwnedLists(defUid))
  BY OpenedItems, WithItemsStore
<1>2. /\ curUser = userPlist /\ curUser \in Uids /\ rows \in Nat
      /\ screen \in Screens
  BY StoreRunning
<1>3. CASE Displayable(lst[screen.row]) /\ ~ refused
  <2>1. /\ curLST' = lst /\ WriteData(lst, curUser)
        /\ screen' = [screen EXCEPT !.shown = Len(items)]
        /\ proc' = proc /\ curUser' = curUser /\ rows' = rows /\ userPlist' = userPlist
    BY <1>3 DEF WriteItems
  <2>2. screen' \in Screens
    BY <1>2, <2>1 DEF Screens
  <2> HIDE DEF lst
  <2> QED BY <1>1, <1>2, <2>1, <2>2, ProcessWrites
<1>4. CASE ~ (Displayable(lst[screen.row]) /\ ~ refused)
  <2>1. WriteDataThenRaise(lst) /\ UNCHANGED userPlist
    BY <1>4 DEF WriteItems
  <2> HIDE DEF lst
  <2> QED BY <1>1, <2>1, WritesThenEnds
<1> QED BY <1>3, <1>4

\* textFieldDidEndEditing.
LEMMA AddItemStore ==
    ASSUME StoreInv, NEW n \in ItemNames, NEW refused, AddItem(n, refused)
    PROVE  StoreInv' /\ KeepsDefault
<1>1. proc = "running" /\ screen # Nil
  BY DEF AddItem, OnItemScreen
<1>2. CASE screen.row \in DOMAIN curLST
  <2> DEFINE items == Append(curLST[screen.row].listItems, NewItem(n))
  <2>1. NewItem(n) \in Item
    BY DEF NewItem, Item
  <2>2. curLST[screen.row].listItems \in Seq(Item)
    BY <1>1, <1>2, OpenedItems
  <2>3. items \in Seq(Item)
    BY <2>1, <2>2
  <2>4. WriteItems(items, refused)
    BY <1>2 DEF AddItem
  <2> HIDE DEF items
  <2> QED BY <1>1, <1>2, <2>3, <2>4, WriteItemsStore
<1>3. CASE screen.row \notin DOMAIN curLST
  <2>1. Raise
    BY <1>3 DEF AddItem
  <2> QED BY <1>1, <2>1, RaiseEnds
<1> QED BY <1>2, <1>3

\* didSelectRow of the table of items.
LEMMA ToggleItemStore ==
    ASSUME StoreInv, NEW r, NEW refused, ToggleItem(r, refused)
    PROVE  StoreInv' /\ KeepsDefault
<1>1. proc = "running" /\ screen # Nil
  BY DEF ToggleItem, OnItemScreen
<1>2. CASE ItemAt(r)
  <2>0. PICK ks : WriteItems(Toggled(curLST[screen.row].listItems, ks), refused)
    BY <1>2 DEF ToggleItem
  <2> DEFINE items == Toggled(curLST[screen.row].listItems, ks)
  <2>1. screen.row \in DOMAIN curLST /\ r \in DOMAIN curLST[screen.row].listItems
    BY <1>2 DEF ItemAt
  <2>2. curLST[screen.row].listItems \in Seq(Item)
    BY <1>1, <2>1, OpenedItems
  <2>3. items \in Seq(Item)
    BY <2>2, ToggledItemsType
  <2>4. WriteItems(items, refused)
    BY <2>0
  <2> HIDE DEF items
  <2> QED BY <1>1, <2>1, <2>3, <2>4, WriteItemsStore
<1>3. CASE ~ ItemAt(r)
  <2>1. Raise
    BY <1>3 DEF ToggleItem
  <2> QED BY <1>1, <2>1, RaiseEnds
<1> QED BY <1>2, <1>3

\* commitEditingStyle of the table of items.
LEMMA DeleteItemStore ==
    ASSUME StoreInv, NEW r, NEW alone, NEW refused,
           DeleteItem(r, alone, refused)
    PROVE  StoreInv' /\ KeepsDefault
<1>1. proc = "running" /\ screen # Nil /\ r \in 1..screen.shown
  BY DEF DeleteItem, OnItemScreen
<1>2. CASE ItemAt(r) /\ alone /\ Len(curLST[screen.row].listItems) = screen.shown
  <2> DEFINE left == Without(curLST[screen.row].listItems, r)
             lst == WithItems(curLST, screen.row, left)
  <2>1. screen.row \in DOMAIN curLST /\ r \in DOMAIN curLST[screen.row].listItems
    BY <1>2 DEF ItemAt
  <2>2. curLST[screen.row].listItems \in Seq(Item)
    BY <1>1, <2>1, OpenedItems
  <2>3. r \in 1..Len(curLST[screen.row].listItems)
    BY <2>1, <2>2
  <2>4. left \in Seq(Item)
    BY <2>2, <2>3, WithoutType
  <2>5. IF ~ refused
        THEN /\ curLST' = lst /\ WriteData(lst, curUser)
             /\ screen' = [screen EXCEPT !.shown = @ - 1]
             /\ UNCHANGED <<proc, curUser, rows, userPlist>>
        ELSE WriteDataThenRaise(lst) /\ UNCHANGED userPlist
    BY <1>2 DEF DeleteItem
  <2> HIDE DEF left
  <2>6. /\ lst \in Seq(UserLists(curUser)) /\ lst # Nil
        /\ DefaultInv /\ curUser = defUid => lst \in Seq(OwnedLists(defUid))
    BY <1>1, <2>1, <2>4, OpenedItems, WithItemsStore
  <2>7. /\ curUser = userPlist /\ curUser \in Uids /\ rows \in Nat
        /\ screen \in Screens
    BY <1>1, StoreRunning
  <2> HIDE DEF lst
  <2>8. CASE ~ refused
    <3>1. screen.shown \in Nat /\ screen.shown - 1 \in Nat
      BY <1>1, <2>7 DEF Screens
    <3>2. screen' \in Screens
      BY <2>5, <2>7, <2>8, <3>1 DEF Screens
    <3> QED BY <1>1, <2>5, <2>6, <2>7, <2>8, <3>2, ProcessWrites
  <2>9. CASE refused
    BY <1>1, <2>5, <2>6, <2>9, WritesThenEnds
  <2> QED BY <2>8, <2>9
<1>3. CASE ~ (ItemAt(r) /\ alone /\ Len(curLST[screen.row].listItems) = screen.shown)
  <2>1. Raise
    BY <1>3 DEF DeleteItem
  <2> QED BY <1>1, <2>1, RaiseEnds
<1> QED BY <1>2, <1>3

-----------------------------------------------------------------------------
(* The handlers of the session keep SessionInv.                            *)

\* At the beginning.
LEMMA SessionInit == Init => SessionInv /\ DefaultInv
<1> SUFFICES ASSUME Init PROVE SessionInv /\ DefaultInv
  OBVIOUS
<1>1. /\ proc = "off" /\ userPlist = Nil /\ dataPlist = Nil /\ curUser = Nil
      /\ curLST = << >> /\ offlineLST = Nil /\ rows = 0 /\ screen = Nil
  BY DEF Init, LocalInit
<1>2. StoreInv /\ DefaultInv
  BY <1>1 DEF StoreInv, LocalTypeOK, DefaultInv
<1>3. server \in DataNode
  BY DEF Init, NoLists, DataNode
<1>4. CloudTypeOK
  BY <1>3, SessionAssumption DEF Init, CloudTypeOK
<1> QED BY <1>2, <1>4 DEF SessionInv

\* The read and the timer that readData starts.
LEMMA StartSyncType ==
    ASSUME CloudTypeOK, StartSync(auth)
    PROVE  reads' \in Seq(Accounts) /\ timers' \in Seq(Block)
<1>1. reads \in Seq(Accounts) /\ timers \in Seq(Block) /\ auth \in Accounts \cup {Nil}
  BY DEF CloudTypeOK
<1>2. CASE auth = Nil
  BY <1>1, <1>2 DEF StartSync
<1>3. CASE auth # Nil
  <2>1. [kind |-> "merge", uid |-> auth] \in Block
    BY <1>1, <1>3 DEF Block
  <2>2. /\ reads' = Append(reads, auth)
        /\ timers' = Append(timers, [kind |-> "merge", uid |-> auth])
    BY <1>3 DEF StartSync
  <2> QED BY <1>1, <1>3, <2>1, <2>2
<1> QED BY <1>2, <1>3

\* Launches, kills and a new installation.
LEMMA LaunchFirstInv ==
    ASSUME SessionInv, LaunchFirst
    PROVE  SessionInv' /\ KeepsDefault
<1>1. StoreInv' /\ KeepsDefault
  BY FirstRunStore, FirstRunKilledStore DEF LaunchFirst, SessionInv
<1>2. reads' \in Seq(Accounts) /\ timers' \in Seq(Block)
  BY StartSyncType DEF LaunchFirst, SessionInv, CloudTypeOK
<1>3. CloudTypeOK'
  BY <1>2 DEF LaunchFirst, SessionInv, CloudTypeOK
<1> QED BY <1>1, <1>3 DEF SessionInv

LEMMA LaunchInv ==
    ASSUME SessionInv, Launch
    PROVE  SessionInv' /\ KeepsDefault
<1>1. StoreInv' /\ KeepsDefault
  BY RelaunchStore DEF Launch, SessionInv
<1>2. reads' \in Seq(Accounts) /\ timers' \in Seq(Block)
  BY StartSyncType DEF Launch, SessionInv
<1>3. CloudTypeOK'
  BY <1>2 DEF Launch, SessionInv, CloudTypeOK
<1> QED BY <1>1, <1>3 DEF SessionInv

LEMMA EndCloud ==
    ASSUME CloudTypeOK, Event, Lost, UNCHANGED <<auth, accounts, server>>
    PROVE  CloudTypeOK'
<1>1. server' \in DataNode
  BY DEF CloudTypeOK
<1>2. InFlightTypeOK'
  BY <1>1, LostType
<1>3. auth' \in Accounts \cup {Nil} /\ accounts' \subseteq Accounts
  BY DEF CloudTypeOK
<1> QED BY <1>2, <1>3, EventType, CloudTypeFrom

LEMMA KilledInv ==
    ASSUME SessionInv, Killed
    PROVE  SessionInv' /\ KeepsDefault
<1>1. StoreInv' /\ KeepsDefault
  BY KillStore DEF Killed, SessionInv
<1>2. CloudTypeOK'
  BY EndCloud DEF Killed, SessionInv
<1> QED BY <1>1, <1>2 DEF SessionInv

LEMMA ReinstallInv ==
    ASSUME SessionInv, Reinstall
    PROVE  SessionInv' /\ KeepsDefault
<1>1. /\ proc' = "off" /\ userPlist' = Nil /\ dataPlist' = Nil /\ curUser' = Nil
      /\ curLST' = << >> /\ offlineLST' = Nil /\ rows' = 0 /\ screen' = Nil
  BY DEF Reinstall, Forgotten
<1>2. StoreInv' /\ KeepsDefault
  BY <1>1 DEF StoreInv, LocalTypeOK, DefaultInv, KeepsDefault
<1>3. CloudTypeOK'
  BY EndCloud DEF Reinstall, SessionInv
<1> QED BY <1>2, <1>3 DEF SessionInv

\* The taps on the table of lists.
LEMMA NewListTapInv ==
    ASSUME SessionInv, NEW n \in ListNames, NewListTap(n)
    PROVE  SessionInv' /\ KeepsDefault
<1> DEFINE w == SaveListOnCloud(curUser, NewList(n, curUser, << >>))
<1>1. /\ Event /\ AddNewList(n) /\ Issue(<<w>>) /\ UNCHANGED <<auth, accounts>>
      /\ StoreInv /\ CloudTypeOK
  BY DEF NewListTap, SessionInv
<1>2. curUser \in Uids
  BY <1>1, StoreRunning DEF AddNewList, OnListScreen
<1>3. NewList(n, curUser, << >>) \in List /\ NewList(n, curUser, << >>).listName # Nil
  <2>1. << >> \in Seq(Item)
    OBVIOUS
  <2> QED BY <1>2, <2>1, NilAssumption DEF NewList, List
<1>4. w \in Write
  BY <1>2, <1>3, ListWriteType
<1> HIDE DEF w
<1>5. <<w>> \in Seq(Write)
  BY <1>4
<1>6. CloudTypeOK'
  BY <1>1, <1>5, TapType
<1>7. StoreInv' /\ KeepsDefault
  BY <1>1, AddNewListStore
<1> QED BY <1>6, <1>7 DEF SessionInv

LEMMA NoWrites == << >> \in Seq(Write)
OBVIOUS

LEMMA DeleteListTapInv ==
    ASSUME SessionInv, NEW i, DeleteListTap(i)
    PROVE  SessionInv' /\ KeepsDefault
<1>1. Event /\ UNCHANGED <<auth, accounts>> /\ StoreInv /\ CloudTypeOK
  BY DEF DeleteListTap, SessionInv
<1>2. CASE i \in DOMAIN curLST
  <2> DEFINE l == curLST[i]
             ws == IF l.listOwner = curUser /\ ~ Refused(l.listName)
                   THEN <<DeleteListFromCloud(l)>> ELSE << >>
  <2>1. DeleteList(i, Refused(l.listName)) /\ Issue(ws)
    BY <1>2 DEF DeleteListTap
  <2>2. StoreInv' /\ KeepsDefault
    BY <1>1, <2>1, DeleteListStore
  <2>3. auth # Nil => ws \in Seq(Write)
    <3> SUFFICES ASSUME auth # Nil, l.listOwner = curUser, l.listName # Nil
                 PROVE  <<DeleteListFromCloud(l)>> \in Seq(Write)
      BY NoWrites DEF Refused
    <3>1. proc = "running" /\ i \in 1..rows
      BY <2>1 DEF DeleteList, OnListScreen
    <3>2. curLST # Nil /\ curLST \in Seq(UserLists(curUser)) /\ curUser \in Uids
      BY <1>1, <3>1, StoreRunning
    <3>3. l \in List /\ l.listOwner \in Uids
      BY <1>2, <3>2 DEF UserLists
    <3>4. NewItem(testItem) \in Item
      BY NamesAssumption DEF NewItem, Item
    <3>5. DeleteListFromCloud(l) \in Write
      BY <3>2, <3>3, <3>4, NodeWriteTypes
    <3> QED BY <3>5
  <2> HIDE DEF ws
  <2>4. CloudTypeOK'
    BY <1>1, <2>1, <2>3, TapType
  <2> QED BY <2>2, <2>4 DEF SessionInv
<1>3. CASE i \notin DOMAIN curLST
  <2>1. DeleteList(i, FALSE) /\ Issue(<< >>)
    BY <1>3 DEF DeleteListTap
  <2>2. StoreInv' /\ KeepsDefault
    BY <1>1, <2>1, DeleteListStore
  <2>3. CloudTypeOK'
    BY <1>1, <2>1, NoWrites, TapType
  <2> QED BY <2>2, <2>3 DEF SessionInv
<1> QED BY <1>2, <1>3

LEMMA OpenListTapInv ==
    ASSUME SessionInv, NEW i, OpenListTap(i)
    PROVE  SessionInv' /\ KeepsDefault
<1>1. /\ OpenList(i) /\ Issue(<< >>) /\ UNCHANGED <<auth, accounts>> /\ UNCHANGED events
      /\ StoreInv /\ CloudTypeOK
  BY DEF OpenListTap, SessionInv
<1>2. StoreInv' /\ KeepsDefault
  BY <1>1, OpenListStore
<1>3. CloudTypeOK'
  BY <1>1, NoWrites, TapType
<1> QED BY <1>2, <1>3 DEF SessionInv

LEMMA BackTapInv ==
    ASSUME SessionInv, BackTap
    PROVE  SessionInv' /\ KeepsDefault
<1>1. Back /\ StoreInv /\ CloudTypeOK
  BY DEF BackTap, SessionInv
<1>2. StoreInv' /\ KeepsDefault
  BY <1>1, BackStore
<1>3. UNCHANGED <<auth, accounts, server, pending, onlineLST, reads, timers, authCalls, events>>
  BY DEF BackTap, sessionVars, inFlight
<1>4. CloudTypeOK'
  BY <1>1, <1>3 DEF CloudTypeOK
<1> QED BY <1>2, <1>4 DEF SessionInv

\* The writes of the item screen, when the names they need are there.
LEMMA SavedItemsType ==
    ASSUME StoreInv, proc = "running", screen # Nil, auth # Nil, NEW items \in Seq(Item)
    PROVE  SavedItems(items) \in Seq(Write) /\ DeletedItems(items) \in Seq(Write)
<1>1. CASE screen.row \notin DOMAIN curLST \/ RefusedItems(items)
  BY <1>1, NoWrites DEF SavedItems, DeletedItems
<1>2. CASE screen.row \in DOMAIN curLST /\ ~ RefusedItems(items)
  <2> DEFINE l == curLST[screen.row]
             saves == [k \in DOMAIN items |-> SaveItemToCloud(items[k], l)]
             deletes == [k \in DOMAIN items |-> DeleteItemFromCloud(curUser, items[k], l)]
  <2>1. SavedItems(items) = saves /\ DeletedItems(items) = deletes
    BY <1>2 DEF SavedItems, DeletedItems
  <2>2. l \in List /\ l.listOwner \in Uids /\ curUser \in Uids
    BY <1>2, OpenedItems, StoreRunning
  <2>3. l.listName # Nil /\ \A k \in DOMAIN items : items[k].itemName # Nil
    BY <1>2 DEF RefusedItems, Refused
  <2>4. DOMAIN items = 1..Len(items) /\ Len(items) \in Nat
    OBVIOUS
  <2>5. \A k \in 1..Len(items) : items[k] \in Item
    OBVIOUS
  <2> HIDE DEF l
  <2>6. \A k \in 1..Len(items) : /\ SaveItemToCloud(items[k], l) \in Write
                                 /\ DeleteItemFromCloud(curUser, items[k], l) \in Write
    BY <2>2, <2>3, <2>4, <2>5, NodeWriteTypes
  <2>7. saves \in [1..Len(items) -> Write] /\ deletes \in [1..Len(items) -> Write]
    BY <2>4, <2>6
  <2> HIDE DEF saves, deletes
  <2>8. saves \in Seq(Write) /\ deletes \in Seq(Write)
    BY <2>4, <2>7
  <2> QED BY <2>1, <2>8
<1> QED BY <1>1, <1>2

\* The item that was tapped, as it was and toggled.
LEMMA TappedType ==
    ASSUME StoreInv, proc = "running", screen # Nil, NEW r
    PROVE  /\ Tapped(r) \in Seq(Item)
           /\ [k \in DOMAIN Tapped(r) |-> [Tapped(r)[k] EXCEPT !.itemPuchased = ~ @]]
                \in Seq(Item)
<1> DEFINE tapped == Tapped(r)
           toggled == [k \in DOMAIN tapped |-> [tapped[k] EXCEPT !.itemPuchased = ~ @]]
<1>1. tapped \in Seq(Item)
  <2>1. CASE ItemAt(r)
    <3>1. /\ screen.row \in DOMAIN curLST /\ r \in DOMAIN curLST[screen.row].listItems
          /\ tapped = <<curLST[screen.row].listItems[r]>>
      BY <2>1 DEF ItemAt, Tapped
    <3>2. curLST[screen.row].listItems \in Seq(Item)
      BY <3>1, OpenedItems
    <3>3. curLST[screen.row].listItems[r] \in Item
      BY <3>1, <3>2
    <3> QED BY <3>1, <3>3
  <2>2. CASE ~ ItemAt(r)
    BY <2>2 DEF Tapped
  <2> QED BY <2>1, <2>2
<1> HIDE DEF tapped
<1>2. DOMAIN tapped = 1..Len(tapped) /\ Len(tapped) \in Nat
  BY <1>1
<1>3. \A k \in 1..Len(tapped) : [tapped[k] EXCEPT !.itemPuchased = ~ @] \in Item
  BY <1>1, <1>2, ToggledType
<1>4. toggled \in [1..Len(tapped) -> Item]
  BY <1>2, <1>3
<1>5. toggled \in Seq(Item)
  <2> HIDE DEF toggled
  <2> QED BY <1>2, <1>4
<1> QED BY <1>1, <1>5 DEF tapped

\* The taps on the table of items.
LEMMA AddItemTapInv ==
    ASSUME SessionInv, NEW n \in ItemNames, AddItemTap(n)
    PROVE  SessionInv' /\ KeepsDefault
<1> DEFINE items == <<NewItem(n)>>
<1>1. /\ proc = "running" /\ screen # Nil /\ Event /\ AddItem(n, RefusedItems(items))
      /\ Issue(SavedItems(items)) /\ UNCHANGED <<auth, accounts>>
      /\ StoreInv /\ CloudTypeOK
  BY DEF AddItemTap, OnItemScreen, SessionInv
<1>2. items \in Seq(Item)
  <2>1. NewItem(n) \in Item
    BY DEF NewItem, Item
  <2> QED BY <2>1
<1> HIDE DEF items
<1>3. StoreInv' /\ KeepsDefault
  BY <1>1, AddItemStore
<1>4. auth # Nil => SavedItems(items) \in Seq(Write)
  BY <1>1, <1>2, SavedItemsType
<1>5. CloudTypeOK'
  BY <1>1, <1>4, TapType
<1> QED BY <1>3, <1>5 DEF SessionInv

LEMMA ToggleItemTapInv ==
    ASSUME SessionInv, NEW r, ToggleItemTap(r)
    PROVE  SessionInv' /\ KeepsDefault
<1> DEFINE items == [k \in DOMAIN Tapped(r) |->
                        [Tapped(r)[k] EXCEPT !.itemPuchased = ~ @]]
<1>1. /\ proc = "running" /\ screen # Nil /\ Event /\ ToggleItem(r, RefusedItems(items))
      /\ Issue(SavedItems(items)) /\ UNCHANGED <<auth, accounts>>
      /\ StoreInv /\ CloudTypeOK
  BY DEF ToggleItemTap, OnItemScreen, SessionInv
<1>2. items \in Seq(Item)
  BY <1>1, TappedType
<1> HIDE DEF items
<1>3. StoreInv' /\ KeepsDefault
  BY <1>1, ToggleItemStore
<1>4. auth # Nil => SavedItems(items) \in Seq(Write)
  BY <1>1, <1>2, SavedItemsType
<1>5. CloudTypeOK'
  BY <1>1, <1>4, TapType
<1> QED BY <1>3, <1>5 DEF SessionInv

LEMMA DeleteItemTapInv ==
    ASSUME SessionInv, NEW r, DeleteItemTap(r)
    PROVE  SessionInv' /\ KeepsDefault
<1>0. PICK alone \in Alone(r) :
        LET fits == alone /\ Len(curLST[screen.row].listItems) = screen.shown
            items == IF ItemAt(r) /\ fits THEN Tapped(r) ELSE << >>
        IN  DeleteItem(r, alone, RefusedItems(items)) /\ Issue(DeletedItems(items))
  BY DEF DeleteItemTap
<1> DEFINE items == IF ItemAt(r) /\ alone /\ Len(curLST[screen.row].listItems) = screen.shown
                    THEN Tapped(r) ELSE << >>
<1>1. /\ proc = "running" /\ screen # Nil /\ Event
      /\ DeleteItem(r, alone, RefusedItems(items))
      /\ Issue(DeletedItems(items)) /\ UNCHANGED <<auth, accounts>>
      /\ StoreInv /\ CloudTypeOK
  BY <1>0 DEF DeleteItemTap, OnItemScreen, SessionInv
<1>2. items \in Seq(Item)
  <2>1. << >> \in Seq(Item)
    OBVIOUS
  <2>2. Tapped(r) \in Seq(Item)
    BY <1>1, TappedType
  <2> QED BY <2>1, <2>2
<1> HIDE DEF items
<1>3. StoreInv' /\ KeepsDefault
  BY <1>1, DeleteItemStore
<1>4. auth # Nil => DeletedItems(items) \in Seq(Write)
  BY <1>1, <1>2, SavedItemsType
<1>5. CloudTypeOK'
  BY <1>1, <1>4, TapType
<1> QED BY <1>3, <1>5 DEF SessionInv

-----------------------------------------------------------------------------
(* The account.                                                            *)

\* Requests are made, and answered.
LEMMA RequestType ==
    ASSUME CloudTypeOK, NEW kind \in {"signIn", "create", "profile"}, NEW uid \in Accounts
    PROVE  Append(authCalls, [kind |-> kind, uid |-> uid]) \in Seq(AuthRequest)
<1>1. authCalls \in Seq(AuthRequest)
  BY DEF CloudTypeOK
<1>2. [kind |-> kind, uid |-> uid] \in AuthRequest
  BY DEF AuthRequest
<1> QED BY <1>1, <1>2

LEMMA AnswerType ==
    ASSUME CloudTypeOK, NEW c \in DOMAIN authCalls
    PROVE  /\ Without(authCalls, c) \in Seq(AuthRequest)
           /\ authCalls[c] \in AuthRequest /\ authCalls[c].uid \in Accounts
<1>1. authCalls \in Seq(AuthRequest)
  BY DEF CloudTypeOK
<1>2. c \in 1..Len(authCalls)
  BY <1>1
<1>3. authCalls[c] \in AuthRequest
  BY <1>1, <1>2
<1>4. authCalls[c].uid \in Accounts
  BY <1>3 DEF AuthRequest
<1>5. Without(authCalls, c) \in Seq(AuthRequest)
  BY <1>1, <1>2, WithoutType
<1> QED BY <1>3, <1>4, <1>5

\* loginWithEmail: readData, then the request.
LEMMA LoginTapInv ==
    ASSUME SessionInv, NEW uid \in Accounts, LoginTap(uid)
    PROVE  SessionInv' /\ KeepsDefault
<1>1. /\ proc = "running" /\ screen = Nil /\ proc' = "running" /\ Event
      /\ curUser' = userPlist /\ curLST' = ReadData /\ offlineLST' = ReadData
      /\ StartSync(auth) /\ authCalls' = Append(authCalls, [kind |-> "signIn", uid |-> uid])
      /\ userPlist' = userPlist /\ dataPlist' = dataPlist
      /\ rows' = rows /\ screen' = screen
      /\ UNCHANGED <<auth, accounts, server, pending, onlineLST>>
      /\ StoreInv /\ CloudTypeOK
  BY DEF LoginTap, MayRequest, OnListScreen, ReadFromDisk, Request, disk, tables, SessionInv
<1>2. userPlist \in Uids /\ rows \in Nat /\ (dataPlist = Nil => rows = 0)
  BY <1>1, StoreRunning
<1>3. StoreInv' /\ KeepsDefault
  BY <1>1, <1>2, ListsReadBack
<1>4. reads' \in Seq(Accounts) /\ timers' \in Seq(Block)
  BY <1>1, StartSyncType
<1>5. authCalls' \in Seq(AuthRequest)
  BY <1>1, RequestType
<1>6. events' \in 0..MaxEvents
  BY <1>1, EventType
<1>7. CloudTypeOK'
  BY <1>1, <1>4, <1>5, <1>6 DEF CloudTypeOK
<1> QED BY <1>3, <1>7 DEF SessionInv

\* A step that touches neither the files nor AppData.
LEMMA LocalUnchanged ==
    ASSUME StoreInv, UNCHANGED localVars
    PROVE  StoreInv' /\ KeepsDefault
<1>1. UNCHANGED <<proc, userPlist, dataPlist, curUser, curLST, offlineLST, rows, screen>>
  BY DEF localVars, disk, memory, tables
<1>2. StoreInv'
  BY <1>1 DEF StoreInv, LocalTypeOK
<1>3. KeepsDefault
  BY <1>1 DEF DefaultInv, DiskMatchesScreen, KeepsDefault
<1> QED BY <1>2, <1>3

\* The other taps and the answers of Firebase Auth.
LEMMA AccountInv ==
    ASSUME SessionInv,
           \/ \E uid \in Accounts : RegisterTap(uid)
           \/ LogoutTap \/ AuthAnswer
    PROVE  SessionInv' /\ KeepsDefault
<1>1. StoreInv /\ CloudTypeOK
  BY DEF SessionInv
<1>2. UNCHANGED localVars
  BY DEF RegisterTap, LogoutTap, AuthAnswer, SignInDone, CreateDone, ProfileDone, AuthFails
<1>3. StoreInv' /\ KeepsDefault
  BY <1>1, <1>2, LocalUnchanged
<1>4. CloudTypeOK'
  <2>1. ASSUME NEW uid \in Accounts, RegisterTap(uid) PROVE CloudTypeOK'
    <3>1. events' \in 0..MaxEvents
      BY <1>1, <2>1, EventType DEF RegisterTap, MayRequest
    <3>2. authCalls' \in Seq(AuthRequest)
      BY <1>1, <2>1, RequestType DEF RegisterTap, Request
    <3> QED BY <1>1, <2>1, <3>1, <3>2 DEF RegisterTap, CloudTypeOK
  <2>2. CASE LogoutTap
    <3>1. events' \in 0..MaxEvents
      BY <1>1, <2>2, EventType DEF LogoutTap
    <3> QED BY <1>1, <2>2, <3>1 DEF LogoutTap, inFlight, CloudTypeOK
  <2>3. ASSUME NEW c \in DOMAIN authCalls PROVE
          /\ Without(authCalls, c) \in Seq(AuthRequest) /\ authCalls[c].uid \in Accounts
          /\ \A kind \in {"signedIn", "registered"} :
                Append(timers, [kind |-> kind, uid |-> authCalls[c].uid]) \in Seq(Block)
    <3>1. /\ Without(authCalls, c) \in Seq(AuthRequest)
          /\ authCalls[c].uid \in Accounts
      BY <1>1, AnswerType
    <3>2. timers \in Seq(Block)
      BY <1>1 DEF CloudTypeOK
    <3>3. ASSUME NEW kind \in {"signedIn", "registered"}
          PROVE  Append(timers, [kind |-> kind, uid |-> authCalls[c].uid]) \in Seq(Block)
      <4>1. [kind |-> kind, uid |-> authCalls[c].uid] \in Block
        BY <3>1 DEF Block
      <4> QED BY <3>2, <4>1
    <3> QED BY <3>1, <3>3
  <2>4. ASSUME NEW c \in DOMAIN authCalls, SignInDone(c) PROVE CloudTypeOK'
    BY <1>1, <2>3, <2>4 DEF SignInDone, CloudTypeOK
  <2>5. ASSUME NEW c \in DOMAIN authCalls, CreateDone(c) PROVE CloudTypeOK'
    <3>1. [kind |-> "profile", uid |-> authCalls[c].uid] \in AuthRequest
      BY <2>3 DEF AuthRequest
    <3>2. authCalls' \in Seq(AuthRequest)
      <4>1. authCalls' = Append(Without(authCalls, c),
                                [kind |-> "profile", uid |-> authCalls[c].uid])
        BY <2>5 DEF CreateDone
      <4>2. Without(authCalls, c) \in Seq(AuthRequest)
        BY <2>3
      <4> QED BY <3>1, <4>1, <4>2
    <3> QED BY <1>1, <2>3, <2>5, <3>2 DEF CreateDone, CloudTypeOK
  <2>6. ASSUME NEW c \in DOMAIN authCalls, ProfileDone(c) PROVE CloudTypeOK'
    BY <1>1, <2>3, <2>6 DEF ProfileDone, CloudTypeOK
  <2>7. ASSUME NEW c \in DOMAIN authCalls, AuthFails(c) PROVE CloudTypeOK'
    BY <1>1, <2>3, <2>7 DEF AuthFails, CloudTypeOK
  <2> QED BY <2>1, <2>2, <2>4, <2>5, <2>6, <2>7 DEF AuthAnswer
<1> QED BY <1>3, <1>4 DEF SessionInv

-----------------------------------------------------------------------------
(* The timers.                                                             *)

\* The block that runs is for an account, and is taken off the queue.
LEMMA BlockFacts ==
    ASSUME CloudTypeOK, NEW k \in DOMAIN timers
    PROVE  /\ timers[k].uid \in Accounts /\ timers[k].uid \in Uids
           /\ timers[k].uid # Nil /\ timers[k].uid # defUid
           /\ Without(timers, k) \in Seq(Block)
<1>1. timers \in Seq(Block)
  BY DEF CloudTypeOK
<1>2. timers[k] \in Block /\ k \in 1..Len(timers)
  BY <1>1
<1>3. timers[k].uid \in Accounts
  BY <1>2 DEF Block
<1>4. Without(timers, k) \in Seq(Block)
  BY <1>1, <1>2, WithoutType
<1> QED BY <1>3, <1>4, UidAssumption, NilAssumption DEF Uids

\* The block of loginWithEmail.
LEMMA SignedInTimerInv ==
    ASSUME SessionInv, NEW k \in DOMAIN timers, SignedInTimer(k)
    PROVE  SessionInv' /\ KeepsDefault
<1> DEFINE rest == Without(timers, k)
           uid == timers[k].uid
<1>1. /\ proc = "running" /\ proc' = proc /\ userPlist' = uid /\ curUser' = uid
      /\ curLST' = ReadData /\ offlineLST' = ReadData /\ dataPlist' = dataPlist
      /\ rows' = rows /\ screen' = screen
      /\ UNCHANGED <<auth, accounts, server, pending, onlineLST, authCalls, events>>
      /\ StoreInv /\ CloudTypeOK
  BY DEF SignedInTimer, Fires, tables, SessionInv
<1>2. uid \in Uids /\ uid # defUid /\ rest \in Seq(Block)
  BY <1>1, BlockFacts
<1>3. /\ rows \in Nat /\ screen \in Screens \cup {Nil}
      /\ dataPlist = Nil => rows = 0 /\ screen = Nil
  BY <1>1, StoreRunning
<1>4. /\ auth = Nil => timers' = rest /\ reads' = reads
      /\ auth # Nil => /\ reads' = Append(reads, auth)
                       /\ timers' = Append(rest, [kind |-> "merge", uid |-> auth])
  BY DEF SignedInTimer
<1> HIDE DEF rest, uid
<1>5. StoreInv' /\ KeepsDefault
  BY <1>1, <1>2, <1>3, ListsReadBack
<1>6. reads \in Seq(Accounts) /\ auth \in Accounts \cup {Nil}
  BY <1>1 DEF CloudTypeOK
<1>7. reads' \in Seq(Accounts) /\ timers' \in Seq(Block)
  <2>1. CASE auth = Nil
    BY <1>2, <1>4, <1>6, <2>1
  <2>2. CASE auth # Nil
    <3>1. [kind |-> "merge", uid |-> auth] \in Block
      BY <1>6, <2>2 DEF Block
    <3>2. reads' = Append(reads, auth) /\ auth \in Accounts
      BY <1>4, <1>6, <2>2
    <3>3. reads' \in Seq(Accounts)
      BY <1>6, <3>2
    <3>4. timers' = Append(rest, [kind |-> "merge", uid |-> auth])
      BY <1>4, <2>2
    <3>5. timers' \in Seq(Block)
      BY <1>2, <3>1, <3>4
    <3> QED BY <3>3, <3>5
  <2> QED BY <2>1, <2>2
<1>8. CloudTypeOK'
  BY <1>1, <1>7 DEF CloudTypeOK
<1> QED BY <1>5, <1>8 DEF SessionInv

\* The block of registerUserWithName.
LEMMA RegisteredTimerInv ==
    ASSUME SessionInv, NEW k \in DOMAIN timers, RegisteredTimer(k)
    PROVE  SessionInv' /\ KeepsDefault
<1> DEFINE uid == timers[k].uid
           lst == IF curLST = Nil THEN Nil ELSE SetTheUser(curLST, uid)
           ws == Saves(Rows(lst), uid)
<1>1. /\ proc = "running" /\ userPlist' = uid
      /\ UNCHANGED <<auth, accounts, events>>
      /\ StoreInv /\ CloudTypeOK
  BY DEF RegisteredTimer, Fires, SessionInv
<1>2. uid \in Uids /\ uid # defUid /\ Without(timers, k) \in Seq(Block)
  BY <1>1, BlockFacts
<1>3. /\ curLST = Nil => rows = 0 /\ screen = Nil
      /\ curLST # Nil => curLST \in Seq(UserLists(curUser))
      /\ dataPlist = Nil => curLST = Nil
      /\ rows \in Nat /\ screen \in Screens \cup {Nil}
  BY <1>1, StoreRunning
<1>4. IF AllSavable(Rows(lst))
      THEN /\ curUser' = uid /\ curLST' = lst /\ rows' = Len(Rows(lst))
           /\ pending' = pending \o SignedIn(ws)
           /\ timers' = Without(timers, k)
           /\ UNCHANGED <<proc, dataPlist, offlineLST, screen, server, onlineLST,
                          reads, authCalls, events>>
      ELSE proc' = "raised" /\ Forgotten /\ UNCHANGED dataPlist /\ Issue(ws)
  BY DEF RegisteredTimer, ReloadLists
<1>5. /\ lst = Nil <=> curLST = Nil
      /\ lst # Nil => lst \in Seq(UserLists(uid))
  <2>1. CASE curLST = Nil
    BY <2>1
  <2>2. CASE curLST # Nil
    <3>1. SetTheUser(curLST, uid) \in Seq(UserLists(uid))
      BY <1>2, <1>3, <2>2, SetTheUserType
    <3>2. SetTheUser(curLST, uid) # Nil
      BY <3>1, OwnerSets, ListsArray
    <3> QED BY <2>2, <3>1, <3>2
  <2> QED BY <2>1, <2>2
<1> HIDE DEF lst
<1>6. Rows(lst) \in Seq(List) /\ (lst = Nil => Len(Rows(lst)) = 0)
  <2>1. CASE lst = Nil
    BY <2>1 DEF Rows
  <2>2. CASE lst # Nil
    BY <1>5, <2>2, OwnerSets, ListsArray
  <2> QED BY <2>1, <2>2
<1>7. ws \in Seq(Write)
  BY <1>2, <1>6, SavesType
<1> HIDE DEF ws, uid
<1>8. CASE AllSavable(Rows(lst))
  <2>1. /\ curUser' = uid /\ curLST' = lst /\ rows' = Len(Rows(lst))
        /\ pending' = pending \o SignedIn(ws)
        /\ timers' = Without(timers, k)
        /\ UNCHANGED <<proc, dataPlist, offlineLST, screen, server, onlineLST,
                       reads, authCalls, events>>
    BY <1>4, <1>8
  <2>2. rows' \in Nat /\ (curLST' = Nil => rows' = 0 /\ screen' = Nil)
    BY <1>3, <1>5, <1>6, <2>1
  <2>3. PICK owner \in Uids : dataPlist \in Seq(DecodedLists(owner)) \cup {Nil}
    BY <1>1, <1>2 DEF StoreInv
  <2>4. offlineLST \in Seq(List) \cup {Nil} /\ (dataPlist = Nil => offlineLST = Nil)
    BY <1>1 DEF StoreInv, LocalTypeOK
  <2>5. StoreInv' /\ KeepsDefault
    BY <1>1, <1>2, <1>3, <1>5, <2>1, <2>2, <2>3, <2>4, ProcessRuns
  <2>6. pending' \in Seq(Write)
    <3>1. SignedIn(ws) \in Seq(Write)
      BY <1>7, NoWrites DEF SignedIn
    <3>2. pending \in Seq(Write)
      BY <1>1 DEF CloudTypeOK
    <3> QED BY <2>1, <3>1, <3>2, ConcatFacts
  <2>7. CloudTypeOK'
    BY <1>1, <1>2, <2>1, <2>6 DEF CloudTypeOK
  <2> QED BY <2>5, <2>7 DEF SessionInv
<1>9. CASE ~ AllSavable(Rows(lst))
  <2>1. proc' = "raised" /\ Forgotten /\ dataPlist' = dataPlist /\ Issue(ws)
    BY <1>4, <1>9
  <2>2. StoreInv' /\ KeepsDefault
    BY <1>1, <1>2, <2>1, ProcessEnds
  <2>3. CloudTypeOK'
    BY <1>1, <1>7, <2>1, TapType
  <2> QED BY <2>2, <2>3 DEF SessionInv
<1> QED BY <1>8, <1>9

\* The block of readData.
LEMMA MergeTimerInv ==
    ASSUME SessionInv, NEW k \in DOMAIN timers, MergeTimer(k)
    PROVE  SessionInv' /\ KeepsDefault
<1>1. /\ proc = "running" /\ UNCHANGED <<auth, accounts>> /\ UNCHANGED events
      /\ StoreInv /\ CloudTypeOK
  BY DEF MergeTimer, Fires, SessionInv
<1>2. /\ curUser \in Uids /\ curUser = userPlist /\ rows \in Nat
      /\ screen \in Screens \cup {Nil}
  BY <1>1, StoreRunning
<1>3. /\ onlineLST \in Seq(List) /\ pending \in Seq(Write)
      /\ auth \in Accounts \cup {Nil} /\ offlineLST \in Seq(List) \cup {Nil}
  BY <1>1 DEF CloudTypeOK, StoreInv, LocalTypeOK
<1>4. PICK later :
        LET lst == MergeResult(later)
        IN  IF auth = Nil
            THEN WriteDataThenRaise(lst) /\ UNCHANGED userPlist /\ Issue(<< >>)
            ELSE IF ~ AllSavable(lst)
            THEN Raise /\ Issue(Saves(lst, curUser))
            ELSE /\ curLST' = lst
                 /\ WriteData(lst, curUser)
                 /\ pending' = pending \o Saves(lst, curUser)
                 /\ onlineLST' = Residual(onlineLST, Rows(offlineLST))
                 /\ timers' = Append(Without(timers, k), [kind |-> "invite", uid |-> auth])
                 /\ UNCHANGED <<proc, userPlist, curUser, tables, server, reads, authCalls>>
  BY DEF MergeTimer
<1> DEFINE lst == MergeResult(later)
           ws == Saves(lst, curUser)
<1>5. /\ lst \in Seq(OwnedLists(curUser)) /\ lst \in Seq(UserLists(curUser))
      /\ lst \in Seq(List) /\ lst # Nil
  BY <1>2, <1>3, MergeResultType, NilIsNoArray
<1>6. CASE auth = Nil
  <2>1. WriteDataThenRaise(lst) /\ UNCHANGED userPlist /\ Issue(<< >>)
    BY <1>4, <1>6
  <2> HIDE DEF lst
  <2>2. StoreInv' /\ KeepsDefault
    BY <1>1, <1>5, <2>1, WritesThenEnds
  <2>3. CloudTypeOK'
    BY <1>1, <2>1, NoWrites, TapType
  <2> QED BY <2>2, <2>3 DEF SessionInv
<1>7. ws \in Seq(Write)
  BY <1>2, <1>5, SavesType
<1>8. CASE auth # Nil /\ ~ AllSavable(lst)
  <2>1. Raise /\ Issue(ws)
    BY <1>4, <1>8
  <2> HIDE DEF ws
  <2>2. StoreInv' /\ KeepsDefault
    BY <1>1, <2>1, RaiseEnds
  <2>3. CloudTypeOK'
    BY <1>1, <1>7, <2>1, TapType
  <2> QED BY <2>2, <2>3 DEF SessionInv
<1>9. CASE auth # Nil /\ AllSavable(lst)
  <2>1. /\ curLST' = lst /\ WriteData(lst, curUser)
        /\ pending' = pending \o ws
        /\ onlineLST' = Residual(onlineLST, Rows(offlineLST))
        /\ timers' = Append(Without(timers, k), [kind |-> "invite", uid |-> auth])
        /\ UNCHANGED <<proc, userPlist, curUser, rows, screen, server, reads, authCalls>>
    BY <1>4, <1>9 DEF tables
  <2> HIDE DEF lst, ws
  <2>2. StoreInv' /\ KeepsDefault
    BY <1>1, <1>2, <1>5, <2>1, ProcessWrites
  <2>3. pending' \in Seq(Write)
    BY <1>3, <1>7, <2>1, ConcatFacts
  <2>4. onlineLST' \in Seq(List)
    <3>1. Rows(offlineLST) \in Seq(List)
      <4>1. << >> \in Seq(List)
        OBVIOUS
      <4> QED BY <1>3, <4>1 DEF Rows
    <3> QED BY <1>3, <2>1, <3>1, ResidualFacts
  <2>5. timers' \in Seq(Block)
    <3>1. [kind |-> "invite", uid |-> auth] \in Block
      BY <1>3, <1>9 DEF Block
    <3>2. Without(timers, k) \in Seq(Block)
      BY <1>1, BlockFacts
    <3> QED BY <2>1, <3>1, <3>2
  <2>6. CloudTypeOK'
    BY <1>1, <2>1, <2>3, <2>4, <2>5 DEF CloudTypeOK
  <2> QED BY <2>2, <2>6 DEF SessionInv
<1> QED BY <1>6, <1>8, <1>9

\* The inner block of readData, with any invited lists.
LEMMA InviteTimerInv ==
    ASSUME SessionInv, NEW k \in DOMAIN timers, NEW invitationLST \in Seq(UserLists(curUser)),
           InviteTimer(k, invitationLST)
    PROVE  SessionInv' /\ (invitationLST = << >> => KeepsDefault)
<1>1. /\ proc = "running" /\ curLST' = IF curLST = Nil THEN Nil ELSE curLST \o invitationLST
      /\ rows' = Len(Rows(curLST')) /\ timers' = Without(timers, k)
      /\ UNCHANGED <<proc, userPlist, dataPlist, curUser, offlineLST, screen, auth,
                     accounts, server, pending, onlineLST, reads, authCalls, events>>
      /\ StoreInv /\ CloudTypeOK
  BY DEF InviteTimer, Fires, ReloadLists, disk, SessionInv
<1>2. /\ curUser \in Uids /\ curUser = userPlist /\ screen \in Screens \cup {Nil}
      /\ curLST # Nil => curLST \in Seq(UserLists(curUser))
      /\ curLST = Nil => screen = Nil
      /\ dataPlist = Nil => curLST = Nil
  BY <1>1, StoreRunning
<1>3. /\ curLST' = Nil <=> curLST = Nil
      /\ curLST' \in Seq(UserLists(curUser)) \cup {Nil}
      /\ rows' \in Nat /\ (curLST' = Nil => rows' = 0)
  <2>1. CASE curLST = Nil
    BY <1>1, <2>1 DEF Rows
  <2>2. CASE curLST # Nil
    <3>1. curLST' \in Seq(UserLists(curUser))
      BY <1>1, <1>2, <2>2, ConcatFacts
    <3>2. curLST' # Nil /\ curLST' \in Seq(List) /\ Rows(curLST') = curLST'
      BY <3>1, OwnerSets, ListsArray
    <3> QED BY <1>1, <2>2, <3>1, <3>2
  <2> QED BY <2>1, <2>2
<1>4. StoreInv'
  <2>1. LocalTypeOK'
    <3>1. curLST' \in Seq(List) \cup {Nil}
      BY <1>3, OwnerSets, ListsArray
    <3> QED BY <1>1, <1>3, <3>1 DEF StoreInv, LocalTypeOK
  <2> QED BY <1>1, <1>2, <1>3, <2>1 DEF StoreInv
<1>5. ASSUME invitationLST = << >> PROVE KeepsDefault
  <2>1. curLST' = curLST
    <3>1. CASE curLST = Nil
      BY <1>1, <3>1
    <3>2. CASE curLST # Nil
      BY <1>1, <1>2, <1>5, <3>2
    <3> QED BY <3>1, <3>2
  <2> QED BY <1>1, <2>1 DEF DefaultInv, DiskMatchesScreen, KeepsDefault
<1>6. CloudTypeOK'
  <2>1. timers' \in Seq(Block)
    BY <1>1, BlockFacts
  <2> QED BY <1>1, <2>1 DEF CloudTypeOK
<1> QED BY <1>4, <1>5, <1>6 DEF SessionInv

-----------------------------------------------------------------------------
(* The network.                                                            *)

LEMMA ReadAnswerInv ==
    ASSUME SessionInv, ReadAnswer
    PROVE  SessionInv' /\ KeepsDefault
<1> DEFINE lists == ApplyAll(server, pending)[Head(reads)]
<1>1. /\ reads # << >> /\ reads' = Tail(reads)
      /\ onlineLST' \in IF Present(lists) = {} THEN {onlineLST} ELSE ReadDataFromCloud(lists)
      /\ UNCHANGED localVars
      /\ UNCHANGED <<auth, accounts, server, pending, timers, authCalls, events>>
      /\ StoreInv /\ CloudTypeOK
  BY DEF ReadAnswer, SessionInv
<1>2. /\ reads \in Seq(Accounts) /\ server \in DataNode /\ pending \in Seq(Write)
      /\ onlineLST \in Seq(List)
  BY <1>1 DEF CloudTypeOK
<1>3. Head(reads) \in Accounts /\ reads' \in Seq(Accounts)
  BY <1>1, <1>2
<1>4. ApplyAll(server, pending) \in DataNode
  BY <1>2, ApplyAllType
<1>5. lists \in [ListNames -> ListNode \cup {Nil}]
  BY <1>3, <1>4 DEF DataNode, Uids
<1> HIDE DEF lists
<1>6. onlineLST' \in Seq(List)
  BY <1>1, <1>2, <1>5, ReadDataFromCloudType
<1>7. CloudTypeOK'
  BY <1>1, <1>3, <1>6 DEF CloudTypeOK
<1> QED BY <1>1, <1>7, LocalUnchanged DEF SessionInv

LEMMA WriteArrivesInv ==
    ASSUME SessionInv, WriteArrives
    PROVE  SessionInv' /\ KeepsDefault
<1>1. /\ pending # << >> /\ server' = Apply(server, Head(pending)) /\ pending' = Tail(pending)
      /\ UNCHANGED localVars
      /\ UNCHANGED <<auth, accounts, onlineLST, reads, timers, authCalls, events>>
      /\ StoreInv /\ CloudTypeOK
  BY DEF WriteArrives, SessionInv
<1>2. server \in DataNode /\ pending \in Seq(Write)
  BY <1>1 DEF CloudTypeOK
<1>3. Head(pending) \in Write /\ Tail(pending) \in Seq(Write)
  BY <1>1, <1>2
<1>4. server' \in DataNode
  BY <1>1, <1>2, <1>3, ApplyType
<1>5. CloudTypeOK'
  BY <1>1, <1>3, <1>4 DEF CloudTypeOK
<1> QED BY <1>1, <1>5, LocalUnchanged DEF SessionInv

LEMMA OtherDeviceInv ==
    ASSUME SessionInv, NEW uid \in Accounts, NEW n \in ListNames, OtherDevice(uid, n)
    PROVE  SessionInv' /\ KeepsDefault
<1> DEFINE new == NewList(n, uid, << >>)
<1>1. /\ Event /\ UNCHANGED localVars
      /\ UNCHANGED <<auth, accounts, pending, onlineLST, reads, timers, authCalls>>
      /\ StoreInv /\ CloudTypeOK
  BY DEF OtherDevice, inFlight, SessionInv
<1>2. uid \in Uids /\ new \in List /\ new.listName # Nil /\ new.listOwner \in Uids
  <2>1. << >> \in Seq(Item)
    OBVIOUS
  <2> QED BY <2>1, NilAssumption DEF NewList, List, Uids
<1>3. PICK w \in Write : server' = Apply(server, w)
  <2>1. \/ server' = Apply(server, SaveListOnCloud(uid, new))
        \/ \E i \in ItemNames : server' = Apply(server, SaveItemToCloud(NewItem(i), new))
        \/ server' = Apply(server, DeleteListFromCloud(new))
    BY DEF OtherDevice
  <2> HIDE DEF new
  <2>2. \A i \in ItemNames : NewItem(i) \in Item /\ NewItem(i).itemName # Nil
    BY NilAssumption DEF NewItem, Item
  <2>3. /\ SaveListOnCloud(uid, new) \in Write
        /\ \A i \in ItemNames : SaveItemToCloud(NewItem(i), new) \in Write
    BY <1>2, <2>2, ListWriteType, NodeWriteTypes
  <2>4. DeleteListFromCloud(new) \in Write
    BY <1>2, <2>2, NamesAssumption, NodeWriteTypes
  <2> QED BY <2>1, <2>3, <2>4
<1>4. server' \in DataNode
  BY <1>1, <1>3, ApplyType DEF CloudTypeOK
<1>5. events' \in 0..MaxEvents
  BY <1>1, EventType
<1>6. CloudTypeOK'
  BY <1>1, <1>4, <1>5 DEF CloudTypeOK
<1> QED BY <1>1, <1>6, LocalUnchanged DEF SessionInv

-----------------------------------------------------------------------------
(* The theorems.                                                           *)

\* A step that changes nothing.
LEMMA SessionStutter ==
    ASSUME SessionInv, UNCHANGED vars
    PROVE  SessionInv' /\ KeepsDefault
<1>1. UNCHANGED localVars
  BY DEF vars
<1>2. UNCHANGED <<auth, accounts, server, pending, onlineLST, reads, timers, authCalls, events>>
  BY DEF vars, sessionVars, inFlight
<1>3. CloudTypeOK'
  BY <1>2 DEF SessionInv, CloudTypeOK
<1> QED BY <1>1, <1>3, LocalUnchanged DEF SessionInv

\* Every step of the whole app.
LEMMA SessionStep ==
    ASSUME SessionInv, [Next]_vars
    PROVE  SessionInv' /\ KeepsDefault
<1>1. CASE LaunchFirst
  BY <1>1, LaunchFirstInv
<1>2. CASE Launch
  BY <1>2, LaunchInv
<1>3. CASE Killed
  BY <1>3, KilledInv
<1>4. CASE Reinstall
  BY <1>4, ReinstallInv
<1>5. CASE Tap
  <2>1. ASSUME NEW n \in ListNames, NewListTap(n) PROVE SessionInv' /\ KeepsDefault
    BY <2>1, NewListTapInv
  <2>2. ASSUME NEW i, DeleteListTap(i) PROVE SessionInv' /\ KeepsDefault
    BY <2>2, DeleteListTapInv
  <2>3. ASSUME NEW i, OpenListTap(i) PROVE SessionInv' /\ KeepsDefault
    BY <2>3, OpenListTapInv
  <2>4. CASE BackTap
    BY <2>4, BackTapInv
  <2>5. ASSUME NEW n \in ItemNames, AddItemTap(n) PROVE SessionInv' /\ KeepsDefault
    BY <2>5, AddItemTapInv
  <2>6. ASSUME NEW r, ToggleItemTap(r) PROVE SessionInv' /\ KeepsDefault
    BY <2>6, ToggleItemTapInv
  <2>7. ASSUME NEW r, DeleteItemTap(r) PROVE SessionInv' /\ KeepsDefault
    BY <2>7, DeleteItemTapInv
  <2>8. ASSUME NEW uid \in Here, LoginTap(uid) PROVE SessionInv' /\ KeepsDefault
    BY <2>8, SessionAssumption, LoginTapInv
  <2>9. ASSUME NEW uid \in Here, RegisterTap(uid) PROVE SessionInv' /\ KeepsDefault
    BY <2>9, SessionAssumption, AccountInv
  <2>10. CASE LogoutTap
    BY <2>10, AccountInv
  <2> QED BY <1>5, <2>1, <2>2, <2>3, <2>4, <2>5, <2>6, <2>7, <2>8, <2>9, <2>10 DEF Tap
<1>6. CASE Timer
  <2>1. PICK k \in DOMAIN timers :
          SignedInTimer(k) \/ RegisteredTimer(k) \/ MergeTimer(k) \/ InviteTimer(k, << >>)
    BY <1>6 DEF Timer
  <2>2. CASE SignedInTimer(k)
    BY <2>2, SignedInTimerInv
  <2>3. CASE RegisteredTimer(k)
    BY <2>3, RegisteredTimerInv
  <2>4. CASE MergeTimer(k)
    BY <2>4, MergeTimerInv
  <2>5. CASE InviteTimer(k, << >>)
    <3>1. << >> \in Seq(UserLists(curUser))
      OBVIOUS
    <3> QED BY <2>5, <3>1, InviteTimerInv
  <2> QED BY <2>1, <2>2, <2>3, <2>4, <2>5
<1>7. CASE AuthAnswer
  BY <1>7, AccountInv
<1>8. CASE ReadAnswer
  BY <1>8, ReadAnswerInv
<1>9. CASE WriteArrives
  BY <1>9, WriteArrivesInv
<1>10. ASSUME NEW uid \in Accounts, NEW n \in ListNames, OtherDevice(uid, n)
       PROVE  SessionInv' /\ KeepsDefault
  BY <1>10, OtherDeviceInv
<1>11. CASE UNCHANGED vars
  BY <1>11, SessionStutter
<1> QED BY <1>1, <1>2, <1>3, <1>4, <1>5, <1>6, <1>7, <1>8, <1>9, <1>10, <1>11 DEF Next

(***************************************************************************)
(* SessionInv and DefaultInv hold in every state of the app, whatever is   *)
(* tapped, killed, answered and written by other devices, and in whatever  *)
(* order the blocks of dispatch_after run.                                 *)
(***************************************************************************)
THEOREM SessionInvariant == Spec => [](SessionInv /\ DefaultInv)
<1>1. Init => SessionInv /\ DefaultInv
  BY SessionInit
<1>2. SessionInv /\ DefaultInv /\ [Next]_vars => SessionInv' /\ DefaultInv'
  BY SessionStep DEF KeepsDefault
<1> QED BY <1>1, <1>2, PTL DEF Spec

(***************************************************************************)
(* The files, AppData, the tables, the Data node and all that is in flight *)
(* keep their types: every list that is uploaded has a name and an owner   *)
(* when somebody is signed in, and no answer, however late, puts anything  *)
(* but lists into onlineLST.                                               *)
(***************************************************************************)
THEOREM SessionTypeCorrect == Spec => []TypeOK
<1>1. SessionInv => TypeOK
  BY DEF SessionInv, StoreInv, TypeOK
<1> QED BY <1>1, SessionInvariant, PTL

\* What is in data.plist was written at once, for one user.
LEMMA OneOwner ==
    ASSUME StoreInv
    PROVE  OneOwnerOnDisk
<1>1. proc = "running" => curUser = userPlist
  BY DEF StoreInv
<1>2. ASSUME NEW i \in DOMAIN Rows(dataPlist), NEW j \in DOMAIN Rows(dataPlist)
      PROVE  dataPlist[i].listOwner = dataPlist[j].listOwner
  <2>1. dataPlist # Nil
    <3> SUFFICES ASSUME dataPlist = Nil PROVE FALSE
      OBVIOUS
    <3>1. Rows(dataPlist) = << >>
      BY DEF Rows
    <3> QED BY <1>2, <3>1
  <2>2. PICK uid \in Uids : dataPlist \in Seq(DecodedLists(uid))
    BY <2>1 DEF StoreInv
  <2>3. i \in DOMAIN dataPlist /\ j \in DOMAIN dataPlist
    BY <1>2, <2>1 DEF Rows
  <2>4. dataPlist[i] \in DecodedLists(uid) /\ dataPlist[j] \in DecodedLists(uid)
    BY <2>2, <2>3
  <2> QED BY <2>4 DEF DecodedLists, OwnedLists
<1> QED BY <1>1, <1>2 DEF OneOwnerOnDisk

(***************************************************************************)
(* data.plist never holds lists of two users, and a running app acts for   *)
(* the user of user.plist, for any number of accounts that sign in, out    *)
(* and up on the phone.                                                    *)
(***************************************************************************)
THEOREM DiskHasOneOwner == Spec => []OneOwnerOnDisk
<1>1. SessionInv => OneOwnerOnDisk
  BY OneOwner DEF SessionInv
<1> QED BY <1>1, SessionInvariant, PTL

(***************************************************************************)
(* As long as the user is the default one, data.plist has exactly the      *)
(* lists on the screen, whatever sign-ups that failed half-way, merges,    *)
(* kills and relaunches came before.                                       *)
(***************************************************************************)
THEOREM DefaultDiskFollowsScreen == Spec => []DefaultDiskIsScreen
<1>1. SessionInv /\ DefaultInv => DefaultDiskIsScreen
  BY DEF DefaultInv, DefaultDiskIsScreen, DiskMatchesScreen
<1> QED BY <1>1, SessionInvariant, PTL

-----------------------------------------------------------------------------
(* Names stay distinct.                                                    *)

LEMMA NamesAre ==
    ASSUME NEW lst \in Seq(List)
    PROVE  NamesDiffer(lst) <=> ListsDiffer(lst)
<1>1. DOMAIN lst = 1..Len(lst)
  OBVIOUS
<1> QED BY <1>1 DEF NamesDiffer, Distinct, ListsDiffer

LEMMA EmptyNames == NamesDiffer(<< >>)
BY DEF NamesDiffer, Distinct

\* The rows of what is nil or an array are an array.
LEMMA RowsType ==
    ASSUME NEW lst \in Seq(List) \cup {Nil}
    PROVE  /\ Rows(lst) \in Seq(List)
           /\ lst = Nil => Rows(lst) = << >>
           /\ lst # Nil => Rows(lst) = lst
BY DEF Rows

\* An array with the names of another.
LEMMA NamesCopied ==
    ASSUME NEW s \in Seq(List), NEW t \in Seq(List), NamesDiffer(s), Len(t) = Len(s),
           \A i \in 1..Len(s) : t[i].listName = s[i].listName
    PROVE  NamesDiffer(t)
<1>1. ListsDiffer(s)
  BY NamesAre
<1>2. ListsDiffer(t)
  BY <1>1 DEF ListsDiffer
<1> QED BY <1>2, NamesAre

\* An array with one list more, or one less.
LEMMA NamesAppended ==
    ASSUME NEW s \in Seq(List), NamesDiffer(s), NEW l \in List, l.listName \notin Names(s)
    PROVE  NamesDiffer(Append(s, l))
<1> DEFINE t == Append(s, l)
<1>1. ListsDiffer(s)
  BY NamesAre
<1>2. /\ t \in Seq(List) /\ Len(t) = Len(s) + 1 /\ t[Len(s) + 1] = l
      /\ \A i \in 1..Len(s) : t[i] = s[i]
  OBVIOUS
<1>3. \A i \in 1..Len(s) : s[i].listName # l.listName
  BY DEF Names
<1>4. Len(s) \in Nat
  OBVIOUS
<1> HIDE DEF t
<1>5. ASSUME NEW i \in 1..Len(t), NEW j \in 1..Len(t), i # j
      PROVE  ~ SameName(t[i].listName, t[j].listName)
  <2>1. CASE i \in 1..Len(s) /\ j \in 1..Len(s)
    BY <1>1, <1>2, <1>5, <2>1 DEF ListsDiffer
  <2>2. CASE i = Len(s) + 1
    <3>1. j \in 1..Len(s)
      BY <1>2, <1>4, <1>5, <2>2
    <3> QED BY <1>2, <1>3, <2>2, <3>1 DEF SameName
  <2>3. CASE j = Len(s) + 1
    <3>1. i \in 1..Len(s)
      BY <1>2, <1>4, <1>5, <2>3
    <3> QED BY <1>2, <1>3, <2>3, <3>1 DEF SameName
  <2>4. /\ i \in 1..Len(s) \/ i = Len(s) + 1
        /\ j \in 1..Len(s) \/ j = Len(s) + 1
    BY <1>2, <1>4
  <2> QED BY <2>1, <2>2, <2>3, <2>4
<1>6. ListsDiffer(t)
  BY <1>5 DEF ListsDiffer
<1> QED BY <1>2, <1>6, NamesAre DEF t

LEMMA NamesKept ==
    ASSUME NEW s \in Seq(List), NamesDiffer(s), NEW K
    PROVE  NamesDiffer(Kept(s, K))
<1> DEFINE kept == Kept(s, K)
<1>1. ListsDiffer(kept)
  BY NamesAre, KeptListsDiffer
<1>2. kept \in Seq(List \cap K)
  BY KeptType
<1> HIDE DEF kept
<1>3. kept \in Seq(List)
  BY <1>2
<1> QED BY <1>1, <1>3, NamesAre DEF kept

LEMMA NamesRemoved ==
    ASSUME NEW s \in Seq(List), NamesDiffer(s), NEW i \in 1..Len(s)
    PROVE  NamesDiffer(RemoveObject(s, i))
<1>1. NamesDiffer(Without(s, i))
  <2> DEFINE t == Without(s, i)
  <2>1. t \in Seq(List) /\ Len(t) = Len(s) - 1
    BY WithoutType
  <2>2. ListsDiffer(s)
    BY NamesAre
  <2>3. ASSUME NEW j \in 1..Len(t)
        PROVE  t[j] = s[IF j < i THEN j ELSE j + 1]
    <3>1. j \in 1..(Len(s) - 1)
      BY <2>1
    <3> QED BY <3>1 DEF Without
  <2> HIDE DEF t
  <2>4. ASSUME NEW j \in 1..Len(t), NEW h \in 1..Len(t), j # h
        PROVE  ~ SameName(t[j].listName, t[h].listName)
    <3> DEFINE g(x) == IF x < i THEN x ELSE x + 1
    <3>1. g(j) \in 1..Len(s) /\ g(h) \in 1..Len(s) /\ g(j) # g(h)
      BY <2>1, <2>4
    <3>2. t[j] = s[g(j)] /\ t[h] = s[g(h)]
      BY <2>3
    <3> HIDE DEF g
    <3> QED BY <2>2, <3>1, <3>2 DEF ListsDiffer
  <2>5. ListsDiffer(t)
    BY <2>4 DEF ListsDiffer
  <2> QED BY <2>1, <2>5, NamesAre DEF t
<1>2. NamesDiffer(Kept(s, {l \in Elements(s) : l.copy # s[i].copy}))
  BY NamesKept
<1> QED BY <1>1, <1>2 DEF RemoveObject

LEMMA NamesWithItems ==
    ASSUME NEW lst \in Seq(List), NamesDiffer(lst), NEW i \in 1..Len(lst),
           NEW items \in Seq(Item)
    PROVE  NamesDiffer(WithItems(lst, i, items))
<1> DEFINE new == WithItems(lst, i, items)
           changed(j) == j = i \/ (lst[i].copy # 0 /\ lst[j].copy = lst[i].copy)
<1>1. DOMAIN lst = 1..Len(lst) /\ Len(lst) \in Nat
  OBVIOUS
<1>2. new = [j \in 1..Len(lst) |->
                IF changed(j) THEN [lst[j] EXCEPT !.listItems = items] ELSE lst[j]]
  BY <1>1 DEF WithItems
<1> HIDE DEF changed
<1>3. ASSUME NEW j \in 1..Len(lst) PROVE new[j].listName = lst[j].listName
  <2>1. lst[j] \in List
    OBVIOUS
  <2>2. [lst[j] EXCEPT !.listItems = items].listName = lst[j].listName
    BY <2>1 DEF List
  <2>3. new[j] = IF changed(j) THEN [lst[j] EXCEPT !.listItems = items] ELSE lst[j]
    BY <1>2
  <2> HIDE DEF new
  <2> QED BY <2>2, <2>3
<1>4. new \in Seq(List)
  <2>1. ItemsFree(List)
    BY DEF ItemsFree, List
  <2> QED BY <2>1, WithItemsType
<1>5. Len(new) = Len(lst)
  <2>1. DOMAIN new = 1..Len(lst)
    BY <1>2
  <2> HIDE DEF new
  <2> QED BY <1>1, <1>4, <2>1
<1> HIDE DEF new
<1>6. NamesDiffer(new)
  BY <1>3, <1>4, <1>5, NamesCopied
<1> QED BY <1>6 DEF new

\* The lists as WriteData writes them.
LEMMA NamesWritten ==
    ASSUME NEW uid \in Uids, NEW lst \in Seq(UserLists(uid)) \cup {Nil},
           NamesDiffer(Rows(lst))
    PROVE  /\ NamesDiffer(Rows(OwnLists(lst, uid)))
           /\ NamesDiffer(Rows(Archive(OwnLists(lst, uid))))
<1> DEFINE own == OwnLists(lst, uid)
           arch == Archive(own)
<1>1. Rows(lst) \in Seq(List)
  <2>1. lst \in Seq(List) \cup {Nil}
    BY OwnerSets, ListsArray
  <2> QED BY <2>1, RowsType
<1>2. NamesDiffer(own)
  BY <1>1, NamesKept DEF OwnLists
<1>3. own \in Seq(List) /\ arch \in Seq(List)
  <2>1. own \in Seq(List) /\ arch \in Seq(DecodedLists(uid))
    BY WrittenType
  <2> HIDE DEF own, arch
  <2> QED BY <2>1, OwnerSets, ListsArray
<1>4. Rows(own) = own /\ Rows(arch) = arch
  BY <1>3, NilIsNoArray DEF Rows
<1> HIDE DEF own
<1>5. DOMAIN own = 1..Len(own) /\ Len(own) \in Nat
  BY <1>3
<1>6. arch = [i \in 1..Len(own) |-> [own[i] EXCEPT !.mine = FALSE, !.copy = 0]]
  BY <1>5 DEF Archive
<1>7. ASSUME NEW i \in 1..Len(own) PROVE arch[i].listName = own[i].listName
  <2>1. own[i] \in List
    BY <1>3
  <2>2. [own[i] EXCEPT !.mine = FALSE, !.copy = 0].listName = own[i].listName
    BY <2>1 DEF List
  <2> QED BY <1>6, <2>2
<1>8. DOMAIN arch = 1..Len(own)
  BY <1>6
<1> HIDE DEF arch
<1>9. Len(arch) = Len(own)
  BY <1>3, <1>5, <1>8
<1>10. NamesDiffer(arch)
  BY <1>2, <1>3, <1>7, <1>9, NamesCopied
<1> QED BY <1>2, <1>4, <1>10 DEF arch, own

LEMMA NamesSetTheUser ==
    ASSUME NEW lst \in Seq(UserLists(curUser)), NamesDiffer(lst), NEW uid \in Uids
    PROVE  NamesDiffer(SetTheUser(lst, uid))
<1> DEFINE new == SetTheUser(lst, uid)
           change(l) == IF SameUid(l, curUser)
                        THEN [l EXCEPT !.listOwner = uid, !.mine = TRUE]
                        ELSE [l EXCEPT !.mine = FALSE]
<1>1. lst \in Seq(List) /\ new \in Seq(List)
  BY SetTheUserType, OwnerSets, ListsArray
<1>2. DOMAIN lst = 1..Len(lst) /\ Len(lst) \in Nat /\ \A i \in 1..Len(lst) : lst[i] \in List
  BY <1>1
<1>3. new = [i \in 1..Len(lst) |-> change(lst[i])]
  BY <1>2 DEF SetTheUser
<1>4. \A l \in List : change(l).listName = l.listName
  BY DEF List
<1> HIDE DEF change
<1>5. /\ \A i \in 1..Len(lst) : new[i].listName = lst[i].listName
      /\ DOMAIN new = 1..Len(lst)
  BY <1>2, <1>3, <1>4
<1> HIDE DEF new
<1>6. Len(new) = Len(lst)
  BY <1>1, <1>2, <1>5
<1>7. NamesDiffer(new)
  BY <1>1, <1>5, <1>6, NamesCopied
<1> QED BY <1>7 DEF new

LEMMA NamesMerged ==
    ASSUME onlineLST \in Seq(List), offlineLST \in Seq(List) \cup {Nil}, curUser \in Uids,
           NamesDiffer(onlineLST), NamesDiffer(Rows(offlineLST)), NEW later
    PROVE  NamesDiffer(MergeResult(later))
<1> DEFINE all == compare(onlineLST, Rows(offlineLST), later)
           change(l) == [l EXCEPT !.listOwner = curUser, !.mine = TRUE]
           new == MergeResult(later)
<1>1. Rows(offlineLST) \in Seq(List)
  BY RowsType
<1>2. all \in Seq(List)
  BY <1>1, CompareElements
<1>3. ListsDiffer(all)
  BY <1>1, NamesAre, CompareListsDiffer
<1>4. new = [i \in DOMAIN all |-> change(all[i])]
  BY DEF MergeResult
<1>5. \A l \in List : change(l).listName = l.listName
  BY DEF List
<1>6. new \in Seq(List)
  BY MergeResultType
<1> HIDE DEF all, change, new
<1>7. DOMAIN all = 1..Len(all) /\ Len(all) \in Nat /\ \A i \in 1..Len(all) : all[i] \in List
  BY <1>2
<1>8. /\ \A i \in 1..Len(all) : new[i].listName = all[i].listName
      /\ DOMAIN new = 1..Len(all)
  BY <1>4, <1>5, <1>7
<1>9. Len(new) = Len(all)
  BY <1>6, <1>7, <1>8
<1>10. NamesDiffer(all)
  BY <1>2, <1>3, NamesAre
<1>11. NamesDiffer(new)
  BY <1>2, <1>6, <1>8, <1>9, <1>10, NamesCopied
<1> QED BY <1>11 DEF new

\* Each list has a node of its own in the cloud.
LEMMA NamesRead ==
    ASSUME NEW lists \in [ListNames -> ListNode \cup {Nil}],
           NEW lst \in ReadDataFromCloud(lists)
    PROVE  NamesDiffer(lst)
<1> DEFINE names == Present(lists)
<1>1. names \subseteq ListNames /\ \A n \in names : lists[n] \in ListNode
  BY DEF Present
<1>2. PICK order, items :
        /\ order \in SetToSeqs(names)
        /\ lst = [i \in DOMAIN order |->
                    ReadList(order[i], lists[order[i]], items[order[i]])]
  BY DEF ReadDataFromCloud
<1> HIDE DEF names
<1>3. /\ order \in [1..Cardinality(names) -> names]
      /\ \A i, j \in 1..Cardinality(names) : i # j => order[i] # order[j]
  BY <1>2 DEF SetToSeqs
<1>4. DOMAIN lst = 1..Cardinality(names)
  BY <1>2, <1>3
<1>5. \A i \in 1..Cardinality(names) : lst[i].listName \in {order[i], Nil}
  BY <1>2, <1>3 DEF ReadList
<1>6. ASSUME NEW i \in DOMAIN lst, NEW j \in DOMAIN lst, i # j
      PROVE  ~ SameName(lst[i].listName, lst[j].listName)
  BY <1>3, <1>4, <1>5, <1>6 DEF SameName
<1> QED BY <1>6 DEF NamesDiffer, Distinct

\* NamesInv, for the arrays of LocalStore.
LocalNames ==
    /\ NamesDiffer(Rows(dataPlist)) /\ NamesDiffer(Rows(offlineLST))
    /\ NamesDiffer(Rows(curLST))

\* The ways in which a handler ends, once more.
LEMMA NamesForgotten ==
    ASSUME Forgotten, NamesDiffer(Rows(dataPlist'))
    PROVE  LocalNames'
<1>1. offlineLST' = Nil /\ curLST' = << >>
  BY DEF Forgotten
<1>2. Rows(offlineLST') = << >> /\ Rows(curLST') = << >>
  BY <1>1 DEF Rows
<1> QED BY <1>2, EmptyNames DEF LocalNames

LEMMA NamesWriteAndGoOn ==
    ASSUME NEW uid \in Uids, NEW lst \in Seq(UserLists(uid)) \cup {Nil},
           NamesDiffer(Rows(lst)), WriteData(lst, uid), curLST' = lst
    PROVE  LocalNames'
BY NamesWritten DEF WriteData, LocalNames

LEMMA NamesWriteAndRaise ==
    ASSUME curUser \in Uids, NEW lst \in Seq(UserLists(curUser)) \cup {Nil},
           NamesDiffer(Rows(lst)), WriteDataThenRaise(lst)
    PROVE  LocalNames'
<1>1. Forgotten /\ dataPlist' = Archive(OwnLists(lst, curUser))
  BY DEF WriteDataThenRaise
<1>2. NamesDiffer(Rows(dataPlist'))
  BY <1>1, NamesWritten
<1> QED BY <1>1, <1>2, NamesForgotten

LEMMA NamesRaise ==
    ASSUME LocalNames, Raise
    PROVE  LocalNames'
<1>1. Forgotten /\ dataPlist' = dataPlist
  BY DEF Raise, disk
<1> QED BY <1>1, NamesForgotten DEF LocalNames

LEMMA NamesReadBack ==
    ASSUME StoreInv, LocalNames, dataPlist' = dataPlist, curLST' = ReadData, offlineLST' = ReadData
    PROVE  LocalNames'
BY ReadDataIs DEF LocalNames

\* Launches and kills.
LEMMA NamesLaunch ==
    ASSUME StoreInv, LocalNames, FirstRun \/ FirstRunKilled \/ Relaunch \/ Kill
    PROVE  LocalNames'
<1>1. CASE FirstRun
  <2> DEFINE lst == <<SampleList(defUid)>>
  <2>1. lst \in Seq(OwnedLists(defUid)) /\ Len(lst) = 1
    BY SampleListOwned
  <2>2. curLST' = lst /\ WriteData(lst, defUid)
    BY <1>1 DEF FirstRun
  <2> HIDE DEF lst
  <2>3. lst \in Seq(List) /\ Rows(lst) = lst /\ defUid \in Uids
    BY <2>1, OwnerSets, ListsArray DEF Uids
  <2>4. ListsDiffer(lst)
    BY <2>1 DEF ListsDiffer
  <2>5. NamesDiffer(Rows(lst))
    BY <2>3, <2>4, NamesAre
  <2>6. OwnedLists(defUid) \subseteq UserLists(defUid)
    BY <2>3, OwnerSets
  <2>7. lst \in Seq(UserLists(defUid))
    BY <2>1, <2>6
  <2> QED BY <2>2, <2>3, <2>5, <2>7, NamesWriteAndGoOn
<1>2. CASE FirstRunKilled
  BY <1>2 DEF FirstRunKilled, memory, LocalNames
<1>3. CASE Relaunch
  BY <1>3, NamesReadBack DEF Relaunch, ReadFromDisk, disk
<1>4. CASE Kill
  <2>1. Forgotten /\ dataPlist' = dataPlist
    BY <1>4 DEF Kill, disk
  <2> QED BY <2>1, NamesForgotten DEF LocalNames
<1> QED BY <1>1, <1>2, <1>3, <1>4

\* The table of lists.
LEMMA NamesAddNewList ==
    ASSUME StoreInv, LocalNames, NEW n \in ListNames, n \notin Names(Rows(curLST)),
           AddNewList(n)
    PROVE  LocalNames'
<1> DEFINE new == NewList(n, curUser, << >>)
           lst == IF curLST = Nil THEN Nil ELSE Append(curLST, new)
<1>1. proc = "running" /\ curLST' = lst /\ WriteData(lst, curUser)
  BY DEF AddNewList, OnListScreen
<1>2. curUser \in Uids /\ (curLST # Nil => curLST \in Seq(UserLists(curUser)))
  BY <1>1, StoreRunning
<1>3. new \in UserLists(curUser) /\ new.listName = n
  <2>1. << >> \in Seq(Item)
    OBVIOUS
  <2> QED BY <1>2, <2>1, NewListOwned, OwnerSets DEF NewList
<1> HIDE DEF new
<1>4. CASE curLST = Nil
  <2>1. lst = Nil /\ Rows(lst) = << >>
    BY <1>4 DEF Rows
  <2> HIDE DEF lst
  <2> QED BY <1>1, <1>2, <2>1, EmptyNames, NamesWriteAndGoOn
<1>5. CASE curLST # Nil
  <2>1. curLST \in Seq(List) /\ Rows(curLST) = curLST /\ new \in List
    BY <1>2, <1>3, <1>5, OwnerSets, ListsArray
  <2>2. lst = Append(curLST, new) /\ NamesDiffer(lst)
    BY <1>3, <1>5, <2>1, NamesAppended DEF LocalNames
  <2> HIDE DEF lst
  <2>3. lst \in Seq(UserLists(curUser))
    BY <1>2, <1>3, <1>5, <2>2
  <2>4. Rows(lst) = lst
    BY <2>3, OwnerSets, ListsArray
  <2> QED BY <1>1, <1>2, <2>2, <2>3, <2>4, NamesWriteAndGoOn
<1> QED BY <1>4, <1>5

LEMMA NamesDeleteList ==
    ASSUME StoreInv, LocalNames, NEW i, NEW refused, DeleteList(i, refused)
    PROVE  LocalNames'
<1>1. proc = "running" /\ i \in 1..rows
  BY DEF DeleteList, OnListScreen
<1>2. curUser \in Uids /\ rows \in Nat /\ curLST # Nil /\ curLST \in Seq(UserLists(curUser))
  BY <1>1, StoreRunning
<1>3. CASE i > Len(curLST)
  <2>1. Raise
    BY <1>3 DEF DeleteList
  <2> QED BY <2>1, NamesRaise
<1>4. CASE ~ (i > Len(curLST))
  <2> DEFINE left == RemoveObject(curLST, i)
  <2>1. i \in 1..Len(curLST)
    BY <1>1, <1>2, <1>4
  <2>2. curLST \in Seq(List) /\ Rows(curLST) = curLST
    BY <1>2, OwnerSets, ListsArray
  <2>3. left \in Seq(UserLists(curUser)) /\ NamesDiffer(left)
    BY <1>2, <2>1, <2>2, RemoveObjectType, NamesRemoved DEF LocalNames
  <2>4. \/ WriteData(left, curUser) /\ curLST' = left
        \/ UNCHANGED <<offlineLST, dataPlist>> /\ curLST' = left
        \/ WriteDataThenRaise(left)
        \/ Raise
    BY <1>4 DEF DeleteList
  <2> HIDE DEF left
  <2>5. Rows(left) = left
    BY <2>3, OwnerSets, ListsArray
  <2>6. CASE WriteData(left, curUser) /\ curLST' = left
    BY <1>2, <2>3, <2>5, <2>6, NamesWriteAndGoOn
  <2>7. CASE UNCHANGED <<offlineLST, dataPlist>> /\ curLST' = left
    BY <2>3, <2>5, <2>7 DEF LocalNames
  <2>8. CASE WriteDataThenRaise(left)
    BY <1>2, <2>3, <2>5, <2>8, NamesWriteAndRaise
  <2>9. CASE Raise
    BY <2>9, NamesRaise
  <2> QED BY <2>4, <2>6, <2>7, <2>8, <2>9
<1> QED BY <1>3, <1>4

LEMMA NamesOpenOrBack ==
    ASSUME StoreInv, LocalNames, Back \/ \E i : OpenList(i)
    PROVE  LocalNames'
<1>1. Raise \/ UNCHANGED <<dataPlist, curLST, offlineLST>>
  BY DEF Back, OpenList, disk, memory
<1> QED BY <1>1, NamesRaise DEF LocalNames

\* The table of items.
LEMMA NamesItems ==
    ASSUME StoreInv, LocalNames, proc = "running", screen # Nil,
           screen.row \in DOMAIN curLST, NEW items \in Seq(Item),
           LET lst == WithItems(curLST, screen.row, items)
           IN  (curLST' = lst /\ WriteData(lst, curUser)) \/ WriteDataThenRaise(lst)
    PROVE  LocalNames'
<1> DEFINE lst == WithItems(curLST, screen.row, items)
<1>1. curLST # Nil /\ curLST \in Seq(UserLists(curUser)) /\ curUser \in Uids
  BY OpenedItems, StoreRunning
<1>2. screen.row \in 1..Len(curLST)
  BY <1>1
<1>3. curLST \in Seq(List) /\ Rows(curLST) = curLST
  BY <1>1, OwnerSets, ListsArray
<1>4. lst \in Seq(UserLists(curUser)) /\ NamesDiffer(lst)
  BY <1>1, <1>2, <1>3, OwnersItemsFree, WithItemsType, NamesWithItems DEF LocalNames
<1>5. (curLST' = lst /\ WriteData(lst, curUser)) \/ WriteDataThenRaise(lst)
  OBVIOUS
<1> HIDE DEF lst
<1>6. Rows(lst) = lst
  BY <1>4, OwnerSets, ListsArray
<1> QED BY <1>1, <1>4, <1>5, <1>6, NamesWriteAndGoOn, NamesWriteAndRaise

LEMMA NamesAddItem ==
    ASSUME StoreInv, LocalNames, NEW n \in ItemNames, NEW refused, AddItem(n, refused)
    PROVE  LocalNames'
<1>1. proc = "running" /\ screen # Nil
  BY DEF AddItem, OnItemScreen
<1>2. CASE screen.row \in DOMAIN curLST
  <2> DEFINE items == Append(curLST[screen.row].listItems, NewItem(n))
  <2>1. NewItem(n) \in Item
    BY DEF NewItem, Item
  <2>2. curLST[screen.row].listItems \in Seq(Item)
    BY <1>1, <1>2, OpenedItems
  <2>3. items \in Seq(Item)
    BY <2>1, <2>2
  <2>4. WriteItems(items, refused)
    BY <1>2 DEF AddItem
  <2> HIDE DEF items
  <2> QED BY <1>1, <1>2, <2>3, <2>4, NamesItems DEF WriteItems
<1>3. CASE screen.row \notin DOMAIN curLST
  BY <1>3, NamesRaise DEF AddItem
<1> QED BY <1>2, <1>3

LEMMA NamesToggleItem ==
    ASSUME StoreInv, LocalNames, NEW r, NEW refused, ToggleItem(r, refused)
    PROVE  LocalNames'
<1>1. proc = "running" /\ screen # Nil
  BY DEF ToggleItem, OnItemScreen
<1>2. CASE ItemAt(r)
  <2>0. PICK ks : WriteItems(Toggled(curLST[screen.row].listItems, ks), refused)
    BY <1>2 DEF ToggleItem
  <2> DEFINE items == Toggled(curLST[screen.row].listItems, ks)
  <2>1. screen.row \in DOMAIN curLST /\ r \in DOMAIN curLST[screen.row].listItems
    BY <1>2 DEF ItemAt
  <2>2. curLST[screen.row].listItems \in Seq(Item)
    BY <1>1, <2>1, OpenedItems
  <2>3. items \in Seq(Item)
    BY <2>2, ToggledItemsType
  <2>4. WriteItems(items, refused)
    BY <2>0
  <2> HIDE DEF items
  <2> QED BY <1>1, <2>1, <2>3, <2>4, NamesItems DEF WriteItems
<1>3. CASE ~ ItemAt(r)
  BY <1>3, NamesRaise DEF ToggleItem
<1> QED BY <1>2, <1>3

LEMMA NamesDeleteItem ==
    ASSUME StoreInv, LocalNames, NEW r, NEW alone, NEW refused,
           DeleteItem(r, alone, refused)
    PROVE  LocalNames'
<1>1. proc = "running" /\ screen # Nil
  BY DEF DeleteItem, OnItemScreen
<1>2. CASE ItemAt(r) /\ alone /\ Len(curLST[screen.row].listItems) = screen.shown
  <2> DEFINE left == Without(curLST[screen.row].listItems, r)
  <2>1. screen.row \in DOMAIN curLST /\ r \in DOMAIN curLST[screen.row].listItems
    BY <1>2 DEF ItemAt
  <2>2. curLST[screen.row].listItems \in Seq(Item)
    BY <1>1, <2>1, OpenedItems
  <2>3. r \in 1..Len(curLST[screen.row].listItems)
    BY <2>1, <2>2
  <2>4. left \in Seq(Item)
    BY <2>2, <2>3, WithoutType
  <2>5. LET lst == WithItems(curLST, screen.row, left)
        IN  (curLST' = lst /\ WriteData(lst, curUser)) \/ WriteDataThenRaise(lst)
    BY <1>2 DEF DeleteItem
  <2> HIDE DEF left
  <2> QED BY <1>1, <2>1, <2>4, <2>5, NamesItems
<1>3. CASE ~ (ItemAt(r) /\ alone /\ Len(curLST[screen.row].listItems) = screen.shown)
  BY <1>3, NamesRaise DEF DeleteItem
<1> QED BY <1>2, <1>3

\* The lists read from the cloud, in the handlers that make writes or end.
LEMMA NamesOnline ==
    ASSUME NamesDiffer(onlineLST), Lost \/ (\E ws : Issue(ws)) \/ UNCHANGED onlineLST
    PROVE  NamesDiffer(onlineLST')
<1>1. onlineLST' = onlineLST \/ onlineLST' = << >>
  BY DEF Lost, Issue
<1> QED BY <1>1, EmptyNames

\* The taps.
LEMMA NamesTap ==
    ASSUME SessionInv, NamesInv, DuplicateNames = FALSE, Tap
    PROVE  NamesInv'
<1>1. StoreInv /\ LocalNames /\ NamesDiffer(onlineLST)
  BY DEF SessionInv, NamesInv, LocalNames
<1>2. NamesDiffer(onlineLST')
  <2>1. (\E ws : Issue(ws)) \/ UNCHANGED onlineLST
    BY DEF Tap, NewListTap, DeleteListTap, OpenListTap, BackTap, AddItemTap, ToggleItemTap,
           DeleteItemTap, LoginTap, RegisterTap, LogoutTap, sessionVars, inFlight
  <2> QED BY <1>1, <2>1, NamesOnline
<1>3. LocalNames'
  <2>1. ASSUME NEW n \in ListNames, NewListTap(n) PROVE LocalNames'
    BY <1>1, <2>1, NamesAddNewList DEF NewListTap
  <2>2. ASSUME NEW i, DeleteListTap(i) PROVE LocalNames'
    BY <1>1, <2>2, NamesDeleteList DEF DeleteListTap
  <2>3. ASSUME NEW i, OpenListTap(i) PROVE LocalNames'
    BY <1>1, <2>3, NamesOpenOrBack DEF OpenListTap
  <2>4. CASE BackTap
    BY <1>1, <2>4, NamesOpenOrBack DEF BackTap
  <2>5. ASSUME NEW n \in ItemNames, AddItemTap(n) PROVE LocalNames'
    BY <1>1, <2>5, NamesAddItem DEF AddItemTap
  <2>6. ASSUME NEW r, ToggleItemTap(r) PROVE LocalNames'
    BY <1>1, <2>6, NamesToggleItem DEF ToggleItemTap
  <2>7. ASSUME NEW r, DeleteItemTap(r) PROVE LocalNames'
    BY <1>1, <2>7, NamesDeleteItem DEF DeleteItemTap
  <2>8. ASSUME NEW uid \in Here, LoginTap(uid) PROVE LocalNames'
    BY <1>1, <2>8, NamesReadBack DEF LoginTap, ReadFromDisk, disk
  <2>9. CASE LogoutTap \/ \E uid \in Here : RegisterTap(uid)
    BY <1>1, <2>9 DEF LogoutTap, RegisterTap, localVars, disk, memory, LocalNames
  <2> QED BY <2>1, <2>2, <2>3, <2>4, <2>5, <2>6, <2>7, <2>8, <2>9 DEF Tap
<1> QED BY <1>2, <1>3 DEF NamesInv, LocalNames

\* The timers.
LEMMA NamesTimer ==
    ASSUME SessionInv, NamesInv, NEW k \in DOMAIN timers,
           SignedInTimer(k) \/ RegisteredTimer(k) \/ MergeTimer(k) \/ InviteTimer(k, << >>)
    PROVE  NamesInv'
<1>1. StoreInv /\ CloudTypeOK /\ LocalNames /\ NamesDiffer(onlineLST)
  BY DEF SessionInv, NamesInv, LocalNames
<1>2. proc = "running"
  BY DEF SignedInTimer, RegisteredTimer, MergeTimer, InviteTimer, Fires
<1>3. /\ curUser \in Uids /\ (curLST # Nil => curLST \in Seq(UserLists(curUser)))
      /\ timers[k].uid \in Uids
  BY <1>1, <1>2, StoreRunning, BlockFacts
<1>4. CASE SignedInTimer(k)
  <2>1. LocalNames'
    BY <1>1, <1>4, NamesReadBack DEF SignedInTimer
  <2>2. onlineLST' = onlineLST
    BY <1>4 DEF SignedInTimer
  <2> QED BY <1>1, <2>1, <2>2 DEF NamesInv, LocalNames
<1>5. CASE RegisteredTimer(k)
  <2> DEFINE uid == timers[k].uid
             lst == IF curLST = Nil THEN Nil ELSE SetTheUser(curLST, uid)
  <2>1. \/ curLST' = lst /\ UNCHANGED <<dataPlist, offlineLST, onlineLST>>
        \/ Forgotten /\ dataPlist' = dataPlist /\ Issue(Saves(Rows(lst), uid))
    BY <1>5 DEF RegisteredTimer
  <2>2. NamesDiffer(Rows(lst))
    <3>1. CASE curLST = Nil
      BY <3>1, EmptyNames DEF Rows
    <3>2. CASE curLST # Nil
      <4>1. curLST \in Seq(UserLists(curUser)) /\ Rows(curLST) = curLST
        BY <1>3, <3>2, OwnerSets, ListsArray
      <4>2. /\ SetTheUser(curLST, uid) \in Seq(UserLists(uid))
            /\ NamesDiffer(SetTheUser(curLST, uid))
        BY <1>1, <1>3, <4>1, SetTheUserType, NamesSetTheUser DEF LocalNames
      <4>3. Rows(SetTheUser(curLST, uid)) = SetTheUser(curLST, uid)
        BY <4>2, OwnerSets, ListsArray
      <4> QED BY <3>2, <4>2, <4>3
    <3> QED BY <3>1, <3>2
  <2> HIDE DEF lst, uid
  <2>3. CASE curLST' = lst /\ UNCHANGED <<dataPlist, offlineLST, onlineLST>>
    BY <1>1, <2>2, <2>3 DEF NamesInv, LocalNames
  <2>4. CASE Forgotten /\ dataPlist' = dataPlist /\ Issue(Saves(Rows(lst), uid))
    <3>1. LocalNames' /\ NamesDiffer(onlineLST')
      BY <1>1, <2>4, NamesForgotten, NamesOnline DEF LocalNames
    <3> QED BY <3>1 DEF NamesInv, LocalNames
  <2> QED BY <2>1, <2>3, <2>4
<1>6. CASE MergeTimer(k)
  <2>1. PICK later :
          LET lst == MergeResult(later)
          IN  \/ WriteDataThenRaise(lst) /\ Issue(<< >>)
              \/ Raise /\ Issue(Saves(lst, curUser))
              \/ /\ curLST' = lst /\ WriteData(lst, curUser)
                 /\ onlineLST' = Residual(onlineLST, Rows(offlineLST))
    BY <1>6 DEF MergeTimer
  <2> DEFINE lst == MergeResult(later)
  <2>2. onlineLST \in Seq(List) /\ offlineLST \in Seq(List) \cup {Nil}
    BY <1>1 DEF CloudTypeOK, StoreInv, LocalTypeOK
  <2>3. lst \in Seq(UserLists(curUser)) /\ NamesDiffer(lst)
    BY <1>1, <1>3, <2>2, MergeResultType, NamesMerged DEF LocalNames
  <2>4. CASE WriteDataThenRaise(lst) /\ Issue(<< >>)
    <3> HIDE DEF lst
    <3>1. Rows(lst) = lst
      BY <2>3, OwnerSets, ListsArray
    <3>2. LocalNames' /\ NamesDiffer(onlineLST')
      BY <1>1, <1>3, <2>3, <2>4, <3>1, NamesWriteAndRaise, NamesOnline
    <3> QED BY <3>2 DEF NamesInv, LocalNames
  <2>5. CASE Raise /\ Issue(Saves(lst, curUser))
    <3>1. LocalNames' /\ NamesDiffer(onlineLST')
      BY <1>1, <2>5, NamesRaise, NamesOnline
    <3> QED BY <3>1 DEF NamesInv, LocalNames
  <2>6. CASE /\ curLST' = lst /\ WriteData(lst, curUser)
             /\ onlineLST' = Residual(onlineLST, Rows(offlineLST))
    <3> HIDE DEF lst
    <3>1. Rows(lst) = lst
      BY <2>3, OwnerSets, ListsArray
    <3>2. LocalNames'
      BY <1>3, <2>3, <2>6, <3>1, NamesWriteAndGoOn
    <3>3. NamesDiffer(onlineLST')
      BY <1>1, <2>2, <2>6, NamesKept DEF Residual
    <3> QED BY <3>2, <3>3 DEF NamesInv, LocalNames
  <2> QED BY <2>1, <2>4, <2>5, <2>6
<1>7. CASE InviteTimer(k, << >>)
  <2>1. /\ curLST' = IF curLST = Nil THEN Nil ELSE curLST \o << >>
        /\ UNCHANGED <<dataPlist, offlineLST, onlineLST>>
    BY <1>7 DEF InviteTimer, disk
  <2>2. curLST' = curLST
    <3>1. CASE curLST = Nil
      BY <2>1, <3>1
    <3>2. CASE curLST # Nil
      BY <1>3, <2>1, <3>2
    <3> QED BY <3>1, <3>2
  <2> QED BY <1>1, <2>1, <2>2 DEF NamesInv, LocalNames
<1> QED BY <1>4, <1>5, <1>6, <1>7

\* Every step.
LEMMA NamesStep ==
    ASSUME SessionInv, NamesInv, DuplicateNames = FALSE, [Next]_vars
    PROVE  NamesInv'
<1>1. StoreInv /\ CloudTypeOK /\ LocalNames /\ NamesDiffer(onlineLST)
  BY DEF SessionInv, NamesInv, LocalNames
<1>2. CASE LaunchFirst \/ Launch \/ Killed
  <2>1. LocalNames'
    BY <1>1, <1>2, NamesLaunch DEF LaunchFirst, Launch, Killed
  <2>2. NamesDiffer(onlineLST')
    BY <1>1, <1>2, NamesOnline DEF LaunchFirst, Launch, Killed
  <2> QED BY <2>1, <2>2 DEF NamesInv, LocalNames
<1>3. CASE Reinstall
  <2>1. Forgotten /\ dataPlist' = Nil /\ Lost
    BY <1>3 DEF Reinstall
  <2>2. Rows(dataPlist') = << >>
    BY <2>1 DEF Rows
  <2>3. LocalNames' /\ NamesDiffer(onlineLST')
    BY <1>1, <2>1, <2>2, EmptyNames, NamesForgotten, NamesOnline
  <2> QED BY <2>3 DEF NamesInv, LocalNames
<1>4. CASE Tap
  BY <1>4, NamesTap
<1>5. CASE Timer
  BY <1>5, NamesTimer DEF Timer
<1>6. CASE ReadAnswer
  <2> DEFINE lists == ApplyAll(server, pending)[Head(reads)]
  <2>1. /\ reads # << >>
        /\ onlineLST' \in IF Present(lists) = {} THEN {onlineLST} ELSE ReadDataFromCloud(lists)
        /\ UNCHANGED <<dataPlist, curLST, offlineLST>>
    BY <1>6 DEF ReadAnswer, localVars, disk, memory
  <2>2. reads \in Seq(Accounts) /\ server \in DataNode /\ pending \in Seq(Write)
    BY <1>1 DEF CloudTypeOK
  <2>3. Head(reads) \in Accounts
    BY <2>1, <2>2
  <2>4. ApplyAll(server, pending) \in DataNode
    BY <2>2, ApplyAllType
  <2>5. lists \in [ListNames -> ListNode \cup {Nil}]
    BY <2>3, <2>4 DEF DataNode, Uids
  <2> HIDE DEF lists
  <2>6. NamesDiffer(onlineLST')
    BY <1>1, <2>1, <2>5, NamesRead
  <2> QED BY <1>1, <2>1, <2>6 DEF NamesInv, LocalNames
<1>7. CASE AuthAnswer \/ WriteArrives \/ \E uid \in Accounts, n \in ListNames : OtherDevice(uid, n)
  <2>1. UNCHANGED <<dataPlist, curLST, offlineLST, onlineLST>>
    BY <1>7 DEF AuthAnswer, SignInDone, CreateDone, ProfileDone, AuthFails, WriteArrives,
                OtherDevice, localVars, disk, memory, inFlight
  <2> QED BY <1>1, <2>1 DEF NamesInv, LocalNames
<1>8. CASE UNCHANGED vars
  <2>1. UNCHANGED <<dataPlist, curLST, offlineLST, onlineLST>>
    BY <1>8 DEF vars, sessionVars, localVars, disk, memory, inFlight
  <2> QED BY <1>1, <2>1 DEF NamesInv, LocalNames
<1> QED BY <1>2, <1>3, <1>4, <1>5, <1>6, <1>7, <1>8 DEF Next

\* At the beginning there are no lists.
LEMMA NamesInit == Init => NamesInv
<1> SUFFICES ASSUME Init PROVE NamesInv
  OBVIOUS
<1>1. dataPlist = Nil /\ offlineLST = Nil /\ curLST = << >> /\ onlineLST = << >>
  BY DEF Init, LocalInit
<1>2. Rows(dataPlist) = << >> /\ Rows(offlineLST) = << >> /\ Rows(curLST) = << >>
  BY <1>1 DEF Rows
<1> QED BY <1>1, <1>2, EmptyNames DEF NamesInv

-----------------------------------------------------------------------------
(* What the cloud holds after the merge has uploaded its lists.            *)

\* A write of a list replaces its node and leaves the others.
LEMMA ListWritten ==
    ASSUME NEW data \in DataNode, NEW w \in Write, w.item = Nil,
           NEW u \in Uids, NEW m \in ListNames
    PROVE  Apply(data, w)[u][m] =
             IF u = w.uid /\ m = w.list THEN w.node ELSE data[u][m]
<1>1. w.uid \in Uids /\ w.list \in ListNames
  BY DEF Write, ListWrite, ItemWrite
<1>2. Apply(data, w) = [data EXCEPT ![w.uid] = [data[w.uid] EXCEPT ![w.list] = w.node]]
  BY <1>1 DEF Apply, DataNode
<1>3. /\ data \in [Uids -> [ListNames -> ListNode \cup {Nil}]]
      /\ data[w.uid] \in [ListNames -> ListNode \cup {Nil}]
  BY <1>1 DEF DataNode
<1> HIDE DEF DataNode
<1> QED BY <1>1, <1>2, <1>3

\* What SaveListOnCloud addresses.
LEMMA SaveListOnCloudIs ==
    ASSUME NEW uid, NEW l
    PROVE  /\ SaveListOnCloud(uid, l).uid = uid
           /\ SaveListOnCloud(uid, l).list = l.listName
           /\ SaveListOnCloud(uid, l).item = Nil
BY DEF SaveListOnCloud

\* After writes that each have a node of their own, every node is there.
LEMMA WritesStay ==
    ASSUME NEW data \in DataNode, NEW before \in Seq(Write), NEW ws \in Seq(Write),
           NEW uid \in Uids,
           \A p \in 1..Len(ws) : ws[p].uid = uid /\ ws[p].item = Nil,
           \A p, q \in 1..Len(ws) : p # q => ws[p].list # ws[q].list
    PROVE  \A p \in 1..Len(ws) :
             ApplyAll(data, before \o ws)[uid][ws[p].list] = ws[p].node
<1>1. PICK all : all = before \o ws /\ all \in Seq(Write) /\ ConcatOf(all, before, ws)
  BY ConcatFacts, Zenon
<1>2. PICK F :
        /\ F[0] = data
        /\ \A n \in Nat : n + 1 <= Len(all) => F[n + 1] = Apply(F[n], all[n + 1])
        /\ ApplyAll(data, all) = F[Len(all)]
  <2>1. all \in Seq(Write)
    BY <1>1
  <2> QED BY <2>1, ApplyUnfolds
<1> DEFINE b == Len(before)
           P(n) == /\ F[b + n] \in DataNode
                   /\ \A p \in 1..n : F[b + n][uid][ws[p].list] = ws[p].node
           T == {n \in Nat : n <= Len(ws) => P(n)}
<1>3. /\ b \in Nat /\ Len(ws) \in Nat /\ Len(all) \in Nat /\ Len(all) = b + Len(ws)
      /\ \A i \in 1..Len(ws) : all[b + i] = ws[i]
      /\ \A i \in 1..Len(ws) : ws[i] \in Write
      /\ \A i \in 1..Len(all) : all[i] \in Write
  BY <1>1 DEF ConcatOf
<1> HIDE DEF b
<1>4. \A n \in Nat : n <= Len(all) => F[n] \in DataNode
  <2> DEFINE U == {n \in Nat : n <= Len(all) => F[n] \in DataNode}
  <2>1. 0 \in U
    BY <1>2
  <2>2. \A n \in U : n + 1 \in U
    <3> SUFFICES ASSUME NEW n \in Nat, n + 1 <= Len(all), F[n] \in DataNode
                 PROVE  F[n + 1] \in DataNode
      BY <1>3
    <3>1. F[n + 1] = Apply(F[n], all[n + 1])
      BY <1>2
    <3>2. all[n + 1] \in Write
      BY <1>3
    <3> QED BY <3>1, <3>2, ApplyType
  <2> HIDE DEF U
  <2>3. U = Nat
    BY <2>1, <2>2, NatSet DEF U
  <2> QED BY <2>3 DEF U
<1>5. 0 \in T
  <2>1. F[b + 0] \in DataNode
    BY <1>3, <1>4
  <2> QED BY <2>1
<1>6. \A n \in T : n + 1 \in T
  <2> SUFFICES ASSUME NEW n \in Nat, n + 1 <= Len(ws), P(n)
               PROVE  P(n + 1)
    BY <1>3
  <2>1. /\ b + n \in Nat /\ b + (n + 1) = (b + n) + 1 /\ (b + n) + 1 <= Len(all)
        /\ n + 1 \in 1..Len(ws)
    BY <1>3
  <2> DEFINE w == ws[n + 1]
  <2>2. F[b + (n + 1)] = Apply(F[b + n], w)
    <3>1. F[(b + n) + 1] = Apply(F[b + n], all[(b + n) + 1])
      BY <1>2, <2>1
    <3>2. all[b + (n + 1)] = w
      BY <1>3, <2>1
    <3> QED BY <2>1, <3>1, <3>2
  <2>3. F[b + (n + 1)] \in DataNode
    BY <1>4, <2>1
  <2>4. w \in Write /\ w.item = Nil /\ w.uid = uid
    BY <1>3, <2>1
  <2>5. ASSUME NEW p \in 1..(n + 1)
        PROVE  F[b + (n + 1)][uid][ws[p].list] = ws[p].node
    <3>1. p \in 1..Len(ws) /\ ws[p] \in Write
      BY <1>3
    <3>2. ws[p].list \in ListNames
      BY <3>1 DEF Write, ListWrite, ItemWrite
    <3> HIDE DEF w
    <3>3. F[b + (n + 1)][uid][ws[p].list] =
            IF ws[p].list = w.list THEN w.node ELSE F[b + n][uid][ws[p].list]
      BY <2>2, <2>4, <3>2, ListWritten
    <3>4. CASE p = n + 1
      BY <3>3, <3>4 DEF w
    <3>5. CASE p # n + 1
      <4>1. p \in 1..n
        BY <3>5
      <4>2. ws[p].list # w.list
        BY <2>1, <3>1, <3>5 DEF w
      <4>3. F[b + n][uid][ws[p].list] = ws[p].node
        BY <4>1
      <4> QED BY <3>3, <4>2, <4>3
    <3> QED BY <3>4, <3>5
  <2> QED BY <2>3, <2>5
<1> HIDE DEF T
<1>7. T = Nat
  BY <1>5, <1>6, NatSet DEF T
<1>8. P(Len(ws))
  BY <1>3, <1>7 DEF T
<1> QED BY <1>1, <1>2, <1>3, <1>8

\* The node SaveListOnCloud writes shows the list it was written for.
LEMMA SavedSeen ==
    ASSUME NEW uid \in Uids, NEW l \in List, Savable(l)
    PROVE  SeenAs(l, SaveListOnCloud(uid, l).node)
<1> DEFINE items == l.listItems
           named(n) == {i \in DOMAIN items : items[i].itemName = n}
           last(n) == CHOOSE i \in named(n) : \A j \in named(n) : j <= i
           nodes == [n \in ItemNames |->
                       IF named(n) = {} THEN Nil
                       ELSE [itemNameKey |-> TRUE,
                             purchased |-> items[last(n)].itemPuchased]]
           node == SaveListOnCloud(uid, l).node
<1>1. node = [listNameKey |-> TRUE, listItems |-> nodes]
  BY DEF SaveListOnCloud
<1>2. items \in Seq(Item)
  BY DEF List
<1>3. node # Nil /\ node.listNameKey /\ node.listItems = nodes
  <2>1. node \in ListNode
    BY ListWriteType DEF Savable
  <2> HIDE DEF node, nodes
  <2>2. node # Nil
    BY <2>1, NilIsNoNode
  <2> QED BY <1>1, <2>2
<1>4. ASSUME NEW n \in ItemNames
      PROVE  LET flags == {it.itemPuchased : it \in {x \in Elements(items) : x.itemName = n}}
             IN  IF node.listItems[n] = Nil THEN flags = {}
                 ELSE node.listItems[n].itemNameKey /\ node.listItems[n].purchased \in flags
  <2> DEFINE flags == {it.itemPuchased : it \in {x \in Elements(items) : x.itemName = n}}
  <2> HIDE DEF node
  <2>1. CASE named(n) = {}
    <3>1. node.listItems[n] = Nil
      BY <1>3, <2>1
    <3>2. flags = {}
      BY <2>1 DEF Elements
    <3> QED BY <3>1, <3>2
  <2>2. CASE named(n) # {}
    <3>1. \E i \in named(n) : \A j \in named(n) : j <= i
      <4>1. named(n) \subseteq DOMAIN items
        OBVIOUS
      <4> HIDE DEF items, named
      <4> QED BY <1>2, <2>2, <4>1, LastNamed
    <3>2. last(n) \in named(n)
      BY <3>1
    <3> HIDE DEF last
    <3> DEFINE it == items[last(n)]
    <3>3. it \in Item /\ it \in Elements(items) /\ it.itemName = n
      BY <1>2, <3>2 DEF Elements
    <3>4. it.itemPuchased \in flags
      BY <3>3
    <3>5. node.listItems[n] = [itemNameKey |-> TRUE, purchased |-> it.itemPuchased]
      BY <1>3, <2>2
    <3> HIDE DEF it, flags
    <3>6. node.listItems[n] # Nil
      <4>1. node.listItems[n] \in ItemNode
        BY <3>3, <3>5 DEF Item, ItemNode
      <4> QED BY <4>1, NilIsNoNode
    <3>7. node.listItems[n].itemNameKey /\ node.listItems[n].purchased \in flags
      BY <3>4, <3>5
    <3> QED BY <3>6, <3>7 DEF flags
  <2> QED BY <2>1, <2>2
<1> HIDE DEF nodes
<1> QED BY <1>3, <1>4 DEF SeenAs

\* All lists of an array that are the user's own objects are written.
LEMMA MineWritten ==
    ASSUME NEW uid \in Uids, NEW lst \in Seq(OwnedLists(uid)),
           \A i \in DOMAIN lst : lst[i].mine
    PROVE  Contents(Archive(OwnLists(lst, uid))) = Contents(lst)
<1> DEFINE own == {l \in Elements(lst) : SameUid(l, uid)}
<1>1. Rows(lst) = lst
  BY OwnerSets, ListsArray
<1>2. Elements(lst) \subseteq own
  BY DEF Elements, SameUid
<1> HIDE DEF own
<1>3. Kept(lst, own) = lst
  BY <1>2, KeptAll
<1>4. OwnLists(lst, uid) = lst
  BY <1>1, <1>3 DEF OwnLists, own
<1> QED BY <1>4, ArchiveOwned

\* The merge makes every list the current user's own object.
LEMMA MergeResultMine ==
    ASSUME onlineLST \in Seq(List), offlineLST \in Seq(List) \cup {Nil}, NEW later
    PROVE  \A i \in DOMAIN MergeResult(later) : MergeResult(later)[i].mine
<1> DEFINE all == compare(onlineLST, Rows(offlineLST), later)
           change(l) == [l EXCEPT !.listOwner = curUser, !.mine = TRUE]
<1>1. Rows(offlineLST) \in Seq(List)
  BY RowsType
<1>2. all \in Seq(List)
  BY <1>1, CompareElements
<1>3. MergeResult(later) = [i \in DOMAIN all |-> change(all[i])]
  BY DEF MergeResult
<1>4. \A l \in List : change(l).mine
  BY DEF List
<1> HIDE DEF all, change
<1>5. \A i \in DOMAIN all : all[i] \in List
  BY <1>2
<1> QED BY <1>3, <1>4, <1>5

(***************************************************************************)
(* A merge that does not raise: all its lists are archived, and each of    *)
(* them is the last to be written to its node.                             *)
(***************************************************************************)
LEMMA MergeStep ==
    ASSUME SessionInv, NamesInv, NEW k \in DOMAIN timers, MergeTimer(k),
           proc' = "running"
    PROVE  /\ DiskMatchesScreen'
           /\ \A i \in DOMAIN curLST' :
                /\ curLST'[i].listOwner = curUser'
                /\ SeenAs(curLST'[i], View'[curUser'][curLST'[i].listName])
<1>1. proc = "running" /\ StoreInv /\ CloudTypeOK
  BY DEF MergeTimer, Fires, SessionInv
<1>2. curUser \in Uids
  BY <1>1, StoreRunning
<1>3. /\ onlineLST \in Seq(List) /\ pending \in Seq(Write) /\ server \in DataNode
      /\ offlineLST \in Seq(List) \cup {Nil}
  BY <1>1 DEF CloudTypeOK, StoreInv, LocalTypeOK
<1>4. PICK later :
        /\ auth # Nil /\ AllSavable(MergeResult(later))
        /\ curLST' = MergeResult(later)
        /\ WriteData(MergeResult(later), curUser)
        /\ pending' = pending \o Saves(MergeResult(later), curUser)
        /\ UNCHANGED <<curUser, server>>
  BY DEF MergeTimer, WriteDataThenRaise, Raise
<1> DEFINE lst == MergeResult(later)
           ws == Saves(lst, curUser)
<1>5. /\ lst \in Seq(OwnedLists(curUser)) /\ lst \in Seq(List)
      /\ NamesDiffer(lst) /\ \A i \in DOMAIN lst : lst[i].mine
  BY <1>2, <1>3, MergeResultType, NamesMerged, MergeResultMine DEF NamesInv
<1> HIDE DEF lst
<1>6. DiskMatchesScreen'
  <2>1. Contents(dataPlist') = Contents(lst)
    BY <1>2, <1>4, <1>5, MineWritten DEF WriteData, lst
  <2>2. dataPlist' # Nil
    <3>1. lst \in Seq(UserLists(curUser))
      BY <1>2, <1>5, OwnerSets
    <3> QED BY <1>2, <1>4, <3>1, WrittenType DEF WriteData, lst
  <2> QED BY <1>4, <2>1, <2>2 DEF DiskMatchesScreen, lst
<1>7. \A p \in DOMAIN lst : Savable(lst[p])
  BY <1>4 DEF AllSavable, lst
<1>8. /\ ws \in Seq(Write) /\ Len(ws) = Len(lst)
      /\ \A p \in DOMAIN lst : ws[p] = SaveListOnCloud(curUser, lst[p])
  BY <1>2, <1>5, <1>7, SavesType
<1> HIDE DEF ws
<1>9. DOMAIN lst = 1..Len(lst) /\ \A p \in 1..Len(lst) : lst[p] \in List
  BY <1>5
<1>10. \A p \in 1..Len(ws) :
         ws[p].uid = curUser /\ ws[p].item = Nil /\ ws[p].list = lst[p].listName
  BY <1>8, <1>9, SaveListOnCloudIs
<1>11. \A p, q \in 1..Len(ws) : p # q => ws[p].list # ws[q].list
  <2> SUFFICES ASSUME NEW p \in 1..Len(ws), NEW q \in 1..Len(ws), p # q
               PROVE  ws[p].list # ws[q].list
    OBVIOUS
  <2>1. p \in 1..Len(lst) /\ q \in 1..Len(lst)
    BY <1>8
  <2>2. ~ SameName(lst[p].listName, lst[q].listName)
    BY <1>5, <2>1, NamesAre DEF ListsDiffer
  <2>3. lst[p].listName # Nil
    BY <1>7, <1>9, <2>1 DEF Savable
  <2> QED BY <1>10, <2>2, <2>3 DEF SameName
<1>12. \A p \in 1..Len(ws) :
         ApplyAll(server, pending \o ws)[curUser][ws[p].list] = ws[p].node
  BY <1>2, <1>3, <1>8, <1>10, <1>11, WritesStay
<1>13. View' = ApplyAll(server, pending \o ws)
  BY <1>4 DEF View, ws, lst
<1>14. ASSUME NEW i \in DOMAIN lst
       PROVE  /\ lst[i].listOwner = curUser
              /\ SeenAs(lst[i], View'[curUser][lst[i].listName])
  <2>1. i \in 1..Len(ws) /\ lst[i] \in List /\ Savable(lst[i])
    BY <1>7, <1>8, <1>9
  <2>2. View'[curUser][lst[i].listName] = SaveListOnCloud(curUser, lst[i]).node
    BY <1>8, <1>10, <1>12, <1>13, <2>1
  <2>3. lst[i].listOwner = curUser
    <3>1. lst[i] \in OwnedLists(curUser)
      BY <1>5
    <3> QED BY <3>1 DEF OwnedLists
  <2> QED BY <1>2, <2>1, <2>2, <2>3, SavedSeen
<1> QED BY <1>4, <1>6, <1>14 DEF lst

(***************************************************************************)
(* When the user gives no two lists the same name, the merge of readData   *)
(* ends, unless it raises, with the screen, data.plist and the cloud (as   *)
(* this device sees it) in agreement: whatever lists the cloud answered    *)
(* with, and whatever was tapped, killed or written elsewhere before.      *)
(***************************************************************************)
THEOREM MergeLeavesAgreement ==
    ASSUME DuplicateNames = FALSE
    PROVE  Spec => MergeAgrees
<1> DEFINE Inv == SessionInv /\ DefaultInv /\ NamesInv
           Agree == (\E k \in DOMAIN timers : MergeTimer(k)) /\ proc' = "running" =>
                      /\ DiskMatchesScreen'
                      /\ \A i \in DOMAIN curLST' :
                           /\ curLST'[i].listOwner = curUser'
                           /\ SeenAs(curLST'[i], View'[curUser'][curLST'[i].listName])
<1>1. Init => Inv
  BY SessionInit, NamesInit
<1>2. Inv /\ [Next]_vars => Inv'
  BY SessionStep, NamesStep DEF KeepsDefault
<1>3. Inv /\ [Next]_vars => [Agree]_vars
  BY MergeStep
<1> QED BY <1>1, <1>2, <1>3, PTL DEF Spec, MergeAgrees

-----------------------------------------------------------------------------
(* Which lists in memory are copies FetchInvitationList made (Sharing.tla). *)

\* The lists with a copy of C.
CopyLists(C) == {l \in List : l.copy \in C}

LEMMA CopyListsFacts ==
    ASSUME NEW C, 0 \in C
    PROVE  /\ CopyLists(C) \subseteq List /\ ItemsFree(CopyLists(C))
           /\ \A l \in CopyLists(C), uid \in Uids, own \in BOOLEAN :
                 /\ [l EXCEPT !.listOwner = uid, !.mine = own] \in CopyLists(C)
                 /\ [l EXCEPT !.mine = own] \in CopyLists(C)
           /\ \A uid : DecodedLists(uid) \subseteq CopyLists(C)
           /\ << >> \in Seq(CopyLists(C))
<1>1. CopyLists(C) \subseteq List
  BY DEF CopyLists
<1>2. ItemsFree(CopyLists(C))
  BY DEF CopyLists, ItemsFree, List
<1>3. ASSUME NEW l \in CopyLists(C), NEW uid \in Uids, NEW own \in BOOLEAN
      PROVE  /\ [l EXCEPT !.listOwner = uid, !.mine = own] \in CopyLists(C)
             /\ [l EXCEPT !.mine = own] \in CopyLists(C)
  BY DEF CopyLists, List
<1>4. \A uid : DecodedLists(uid) \subseteq CopyLists(C)
  BY DEF DecodedLists, OwnedLists, CopyLists
<1>5. << >> \in Seq(CopyLists(C))
  OBVIOUS
<1> QED BY <1>1, <1>2, <1>3, <1>4, <1>5

\* compare:and: makes lists of lists, with other items.
LEMMA CompareItemsFree ==
    ASSUME NEW S, ItemsFree(S), NEW listA \in Seq(S), NEW listB \in Seq(S), NEW later
    PROVE  compare(listA, listB, later) \in Seq(S)
<1> DEFINE resA == Residual(listA, listB)
           resB == Residual(listB, listA)
           kA == Kept(listA, Unique(listA, listB))
           kB == Kept(listB, Unique(listB, listA))
           M == MergedLists(listA, listB, later)
           lt(k) == {t[2] : t \in {u \in later : u[1] = k}}
           mi(k) == MergedItems(resA[k].listItems, CounterPart(resA[k], resB).listItems, lt(k))
           tw(k) == resA[k].twins \cup CounterPart(resA[k], resB).twins
                      \cup Doubled(resA[k].listItems, CounterPart(resA[k], resB).listItems, lt(k))
<1>1. listA \in Seq(List) /\ listB \in Seq(List)
  BY ListsArray DEF ItemsFree
<1>2. kA \in Seq(S) /\ kB \in Seq(S) /\ resA \in Seq(S)
  <2>1. /\ kA \in Seq(S \cap Unique(listA, listB)) /\ kB \in Seq(S \cap Unique(listB, listA))
        /\ resA \in Seq(S \cap (Elements(listA) \ Unique(listA, listB)))
    BY KeptType DEF Residual
  <2> HIDE DEF kA, kB, resA
  <2> QED BY <2>1
<1>3. resA \in Seq(List) /\ DOMAIN resA = 1..Len(resA) /\ Len(resA) \in Nat
  BY <1>1, <1>2, ResidualFacts
<1>4. M = [k \in 1..Len(resA) |->
             [resA[k] EXCEPT !.listItems = mi(k), !.twins = tw(k)]]
  BY <1>3 DEF MergedLists
<1>5. ASSUME NEW k \in 1..Len(resA)
      PROVE  resA[k] \in S /\ mi(k) \in Seq(Item) /\ tw(k) \subseteq ItemNames
  <2>1. resA[k] \in List /\ resA[k] \in Elements(resA)
    BY <1>3, ElementAt
  <2>2. CounterPart(resA[k], resB) \in List
    BY <1>1, <2>1, CounterPartFacts
  <2>3. resA[k].listItems \in Seq(Item) /\ CounterPart(resA[k], resB).listItems \in Seq(Item)
    BY <2>1, <2>2 DEF List
  <2>4. resA[k] \in S
    <3> HIDE DEF resA
    <3> QED BY <1>2
  <2>5. resA[k].twins \subseteq ItemNames /\ CounterPart(resA[k], resB).twins \subseteq ItemNames
    BY <2>1, <2>2 DEF List
  <2>6. Doubled(resA[k].listItems, CounterPart(resA[k], resB).listItems, lt(k)) \subseteq ItemNames
    BY <2>3, DoubledNames
  <2>7. tw(k) \subseteq ItemNames
    BY <2>5, <2>6, Zenon
  <2> QED BY <2>3, <2>4, <2>7, MergedItemsFacts
<1> HIDE DEF mi, tw, resA, M, kA, kB
<1>6. \A k \in 1..Len(resA) : [resA[k] EXCEPT !.listItems = mi(k), !.twins = tw(k)] \in S
  BY <1>5 DEF ItemsFree
<1>7. M \in [1..Len(resA) -> S]
  BY <1>4, <1>6
<1>8. M \in Seq(S)
  BY <1>3, <1>7
<1>9. kA \o kB \in Seq(S)
  BY <1>2, ConcatFacts
<1>10. (kA \o kB) \o M \in Seq(S)
  BY <1>8, <1>9, ConcatFacts
<1> QED BY <1>10 DEF compare, kA, kB, M

LEMMA CopiesMerged ==
    ASSUME NEW C, 0 \in C, onlineLST \in Seq(CopyLists(C)),
           Rows(offlineLST) \in Seq(CopyLists(C)), curUser \in Uids, NEW later
    PROVE  MergeResult(later) \in Seq(CopyLists(C))
<1> DEFINE all == compare(onlineLST, Rows(offlineLST), later)
           change(l) == [l EXCEPT !.listOwner = curUser, !.mine = TRUE]
<1>1. all \in Seq(CopyLists(C))
  BY CopyListsFacts, CompareItemsFree
<1>2. MergeResult(later) = [i \in DOMAIN all |-> change(all[i])]
  BY DEF MergeResult
<1>3. \A l \in CopyLists(C) : change(l) \in CopyLists(C)
  BY CopyListsFacts
<1> HIDE DEF all, change
<1>4. DOMAIN all = 1..Len(all) /\ Len(all) \in Nat /\ \A i \in 1..Len(all) : all[i] \in CopyLists(C)
  BY <1>1
<1>5. MergeResult(later) \in [1..Len(all) -> CopyLists(C)]
  BY <1>2, <1>3, <1>4
<1> QED BY <1>4, <1>5

LEMMA CopiesSetTheUser ==
    ASSUME NEW C, 0 \in C, NEW lst \in Seq(CopyLists(C)), NEW uid \in Uids
    PROVE  SetTheUser(lst, uid) \in Seq(CopyLists(C))
<1> DEFINE new == SetTheUser(lst, uid)
           change(l) == IF SameUid(l, curUser)
                        THEN [l EXCEPT !.listOwner = uid, !.mine = TRUE]
                        ELSE [l EXCEPT !.mine = FALSE]
<1>1. DOMAIN lst = 1..Len(lst) /\ Len(lst) \in Nat /\ \A i \in 1..Len(lst) : lst[i] \in CopyLists(C)
  OBVIOUS
<1>2. new = [i \in 1..Len(lst) |-> change(lst[i])]
  BY <1>1 DEF SetTheUser
<1>3. \A l \in CopyLists(C) : change(l) \in CopyLists(C)
  BY CopyListsFacts
<1> HIDE DEF change, new
<1>4. new \in [1..Len(lst) -> CopyLists(C)]
  BY <1>1, <1>2, <1>3
<1>5. new \in Seq(CopyLists(C))
  BY <1>1, <1>4
<1> QED BY <1>5 DEF new

\* Nothing that comes from the cloud or the disk is a copy.
LEMMA CopiesRead ==
    ASSUME NEW C, 0 \in C, NEW lists \in [ListNames -> ListNode \cup {Nil}],
           NEW lst \in ReadDataFromCloud(lists)
    PROVE  lst \in Seq(CopyLists(C))
<1> DEFINE names == Present(lists)
<1>1. names \subseteq ListNames /\ \A n \in names : lists[n] \in ListNode
  BY DEF Present
<1>2. PICK order, items :
        /\ order \in SetToSeqs(names)
        /\ \A n \in names : items[n] \in SetToSeqs(Present(lists[n].listItems))
        /\ lst = [i \in DOMAIN order |->
                    ReadList(order[i], lists[order[i]], items[order[i]])]
  BY DEF ReadDataFromCloud
<1> HIDE DEF names
<1>3. order \in Seq(names)
  BY <1>1, <1>2, KeysAssumption, OrdersOf
<1>4. ASSUME NEW i \in 1..Len(order)
      PROVE  ReadList(order[i], lists[order[i]], items[order[i]]) \in CopyLists(C)
  <2>1. order[i] \in names
    BY <1>3
  <2>2. /\ order[i] \in ListNames /\ lists[order[i]] \in ListNode
        /\ items[order[i]] \in SetToSeqs(Present(lists[order[i]].listItems))
    BY <1>1, <1>2, <2>1
  <2> QED BY <2>2, ReadListType DEF CopyLists
<1>5. lst \in [1..Len(order) -> CopyLists(C)]
  BY <1>2, <1>3, <1>4
<1>6. Len(order) \in Nat
  BY <1>3
<1> QED BY <1>5, <1>6

LEMMA CopiesOnDisk ==
    ASSUME StoreInv, NEW C, 0 \in C
    PROVE  /\ ReadData = dataPlist /\ Rows(dataPlist) \in Seq(CopyLists(C))
           /\ Rows(ReadData) \in Seq(CopyLists(C))
<1>1. CASE dataPlist = Nil
  BY <1>1, ReadDataIs, CopyListsFacts DEF Rows
<1>2. CASE dataPlist # Nil
  <2>1. PICK uid \in Uids : dataPlist \in Seq(DecodedLists(uid))
    BY <1>2 DEF StoreInv
  <2>2. DecodedLists(uid) \subseteq CopyLists(C)
    BY CopyListsFacts
  <2> QED BY <1>2, <2>1, <2>2, ReadDataIs DEF Rows
<1> QED BY <1>1, <1>2

\* An array, nil or not.
LEMMA CopiesRows ==
    ASSUME NEW C, NEW lst \in Seq(CopyLists(C))
    PROVE  Rows(lst) = lst /\ lst # Nil
BY ListsArray DEF CopyLists

LEMMA CopiesWritten ==
    ASSUME NEW C, NEW lst, Rows(lst) \in Seq(CopyLists(C)), NEW uid
    PROVE  Rows(OwnLists(lst, uid)) \in Seq(CopyLists(C))
<1> DEFINE own == OwnLists(lst, uid)
           K == {l \in Elements(Rows(lst)) : SameUid(l, uid)}
<1>1. own \in Seq(CopyLists(C) \cap K)
  BY KeptType DEF OwnLists
<1> HIDE DEF K, own
<1>2. own \in Seq(CopyLists(C))
  BY <1>1
<1> QED BY <1>2, CopiesRows DEF own

-----------------------------------------------------------------------------
(* The copies on the screen, handler by handler.                           *)

LocalCopies(C) ==
    Rows(curLST) \in Seq(CopyLists(C)) /\ Rows(offlineLST) \in Seq(CopyLists(C))

LEMMA CopiesForgotten ==
    ASSUME NEW C, 0 \in C, Forgotten
    PROVE  LocalCopies(C)'
<1>1. offlineLST' = Nil /\ curLST' = << >>
  BY DEF Forgotten
<1>2. Rows(offlineLST') = << >> /\ Rows(curLST') = << >>
  BY <1>1 DEF Rows
<1> QED BY <1>2, CopyListsFacts DEF LocalCopies

LEMMA CopiesWriteAndGoOn ==
    ASSUME NEW C, NEW uid, NEW lst, Rows(lst) \in Seq(CopyLists(C)),
           WriteData(lst, uid), curLST' = lst
    PROVE  LocalCopies(C)'
BY CopiesWritten DEF WriteData, LocalCopies

LEMMA CopiesReadBack ==
    ASSUME StoreInv, NEW C, 0 \in C, curLST' = ReadData, offlineLST' = ReadData
    PROVE  LocalCopies(C)'
BY CopiesOnDisk DEF LocalCopies

\* Launches and kills.
LEMMA CopiesLaunch ==
    ASSUME StoreInv, NEW C, 0 \in C, LocalCopies(C),
           FirstRun \/ FirstRunKilled \/ Relaunch \/ Kill
    PROVE  LocalCopies(C)'
<1>1. CASE FirstRun
  <2> DEFINE l == SampleList(defUid)
             lst == <<l>>
  <2>1. l \in CopyLists(C)
    BY SampleListOwned DEF CopyLists, OwnedLists, SampleList, NewList
  <2>2. curLST' = lst /\ WriteData(lst, defUid)
    BY <1>1 DEF FirstRun
  <2> HIDE DEF l
  <2>3. lst \in Seq(CopyLists(C))
    BY <2>1
  <2> HIDE DEF lst
  <2> QED BY <2>2, <2>3, CopiesRows, CopiesWriteAndGoOn
<1>2. CASE FirstRunKilled
  BY <1>2 DEF FirstRunKilled, memory, LocalCopies
<1>3. CASE Relaunch
  BY <1>3, CopiesReadBack DEF Relaunch, ReadFromDisk
<1>4. CASE Kill
  BY <1>4, CopiesForgotten DEF Kill
<1> QED BY <1>1, <1>2, <1>3, <1>4

\* The table of lists.
LEMMA CopiesAddNewList ==
    ASSUME StoreInv, NEW C, 0 \in C, LocalCopies(C), NEW n \in ListNames, AddNewList(n)
    PROVE  LocalCopies(C)'
<1> DEFINE new == NewList(n, curUser, << >>)
           lst == IF curLST = Nil THEN Nil ELSE Append(curLST, new)
<1>1. proc = "running" /\ curLST' = lst /\ WriteData(lst, curUser)
  BY DEF AddNewList, OnListScreen
<1>2. curUser \in Uids
  BY <1>1, StoreRunning
<1>3. new \in CopyLists(C)
  <2>1. << >> \in Seq(Item)
    OBVIOUS
  <2>2. new \in OwnedLists(curUser)
    BY <1>2, <2>1, NewListOwned
  <2>3. new.copy = 0
    BY DEF NewList
  <2> HIDE DEF new
  <2> QED BY <2>2, <2>3 DEF CopyLists, OwnedLists
<1> HIDE DEF new
<1>4. Rows(lst) \in Seq(CopyLists(C))
  <2>1. CASE curLST = Nil
    BY <2>1, CopyListsFacts DEF Rows
  <2>2. CASE curLST # Nil
    <3>1. curLST \in Seq(CopyLists(C)) /\ lst = Append(curLST, new)
      BY <2>2 DEF LocalCopies, Rows
    <3>2. Append(curLST, new) \in Seq(CopyLists(C))
      BY <1>3, <3>1
    <3> HIDE DEF lst
    <3> QED BY <3>1, <3>2, CopiesRows
  <2> QED BY <2>1, <2>2
<1> HIDE DEF lst
<1> QED BY <1>1, <1>4, CopiesWriteAndGoOn

LEMMA CopiesDeleteList ==
    ASSUME StoreInv, NEW C, 0 \in C, LocalCopies(C), NEW i, NEW refused, DeleteList(i, refused)
    PROVE  LocalCopies(C)'
<1>1. proc = "running" /\ i \in 1..rows
  BY DEF DeleteList, OnListScreen
<1>2. curUser \in Uids /\ rows \in Nat /\ curLST # Nil /\ curLST \in Seq(UserLists(curUser))
  BY <1>1, StoreRunning
<1>3. CASE i > Len(curLST)
  BY <1>3, CopiesForgotten DEF DeleteList, Raise
<1>4. CASE ~ (i > Len(curLST))
  <2> DEFINE left == RemoveObject(curLST, i)
  <2>1. i \in 1..Len(curLST)
    BY <1>1, <1>2, <1>4
  <2>2. curLST \in Seq(CopyLists(C))
    BY <1>2 DEF LocalCopies, Rows
  <2>3. left \in Seq(CopyLists(C))
    BY <2>1, <2>2, RemoveObjectType
  <2>4. \/ WriteData(left, curUser) /\ curLST' = left
        \/ UNCHANGED <<offlineLST, dataPlist>> /\ curLST' = left
        \/ Forgotten
    BY <1>4 DEF DeleteList, WriteDataThenRaise, Raise
  <2> HIDE DEF left
  <2>5. Rows(left) = left
    BY <2>3, CopiesRows
  <2> QED BY <2>3, <2>4, <2>5, CopiesWriteAndGoOn, CopiesForgotten DEF LocalCopies
<1> QED BY <1>3, <1>4

LEMMA CopiesOpenOrBack ==
    ASSUME NEW C, 0 \in C, LocalCopies(C), Back \/ \E i : OpenList(i)
    PROVE  LocalCopies(C)'
<1>1. Forgotten \/ UNCHANGED <<curLST, offlineLST>>
  BY DEF Back, OpenList, Raise, memory
<1> QED BY <1>1, CopiesForgotten DEF LocalCopies

\* The table of items.
LEMMA CopiesItems ==
    ASSUME StoreInv, NEW C, 0 \in C, LocalCopies(C), proc = "running", screen # Nil,
           screen.row \in DOMAIN curLST, NEW items \in Seq(Item),
           LET lst == WithItems(curLST, screen.row, items)
           IN  (curLST' = lst /\ WriteData(lst, curUser)) \/ WriteDataThenRaise(lst)
    PROVE  LocalCopies(C)'
<1> DEFINE lst == WithItems(curLST, screen.row, items)
<1>1. curLST # Nil
  BY OpenedItems
<1>2. curLST \in Seq(CopyLists(C))
  BY <1>1 DEF LocalCopies, Rows
<1>3. screen.row \in 1..Len(curLST)
  BY <1>2
<1>4. lst \in Seq(CopyLists(C))
  BY <1>2, <1>3, CopyListsFacts, WithItemsType
<1>5. (curLST' = lst /\ WriteData(lst, curUser)) \/ Forgotten
  BY DEF WriteDataThenRaise
<1> HIDE DEF lst
<1>6. Rows(lst) = lst
  BY <1>4, CopiesRows
<1> QED BY <1>4, <1>5, <1>6, CopiesWriteAndGoOn, CopiesForgotten

\* The taps on the item screen change the items of the opened list, or raise.
LEMMA ItemHandlerIs ==
    ASSUME StoreInv, NEW r, NEW refused,
           \/ r \in ItemNames /\ AddItem(r, refused)
           \/ ToggleItem(r, refused) \/ \E alone : DeleteItem(r, alone, refused)
    PROVE  /\ proc = "running" /\ screen # Nil
           /\ \/ Raise
              \/ \E items \in Seq(Item) :
                    LET lst == WithItems(curLST, screen.row, items)
                    IN  /\ screen.row \in DOMAIN curLST
                        /\ \/ /\ curLST' = lst /\ WriteData(lst, curUser)
                              /\ UNCHANGED <<proc, curUser>>
                           \/ WriteDataThenRaise(lst)
<1> DEFINE Done(items) ==
             LET lst == WithItems(curLST, screen.row, items)
             IN  /\ screen.row \in DOMAIN curLST
                 /\ \/ /\ curLST' = lst /\ WriteData(lst, curUser)
                       /\ UNCHANGED <<proc, curUser>>
                    \/ WriteDataThenRaise(lst)
<1>1. proc = "running" /\ screen # Nil
  BY DEF AddItem, ToggleItem, DeleteItem, OnItemScreen
<1>2. \A i \in DOMAIN curLST : curLST[i].listItems \in Seq(Item)
  BY <1>1, OpenedItems
<1>3. CASE r \in ItemNames /\ AddItem(r, refused)
  <2>1. CASE screen.row \in DOMAIN curLST
    <3> DEFINE items == Append(curLST[screen.row].listItems, NewItem(r))
    <3>1. NewItem(r) \in Item
      BY <1>3 DEF NewItem, Item
    <3>2. items \in Seq(Item)
      BY <1>2, <2>1, <3>1
    <3>3. Done(items)
      BY <1>3, <2>1 DEF AddItem, WriteItems
    <3> QED BY <1>1, <3>2, <3>3
  <2>2. CASE screen.row \notin DOMAIN curLST
    BY <1>1, <1>3, <2>2 DEF AddItem
  <2> QED BY <2>1, <2>2
<1>4. CASE ToggleItem(r, refused)
  <2>1. CASE ItemAt(r)
    <3>0. PICK ks : WriteItems(Toggled(curLST[screen.row].listItems, ks), refused)
      BY <1>4, <2>1 DEF ToggleItem
    <3> DEFINE items == Toggled(curLST[screen.row].listItems, ks)
    <3>1. screen.row \in DOMAIN curLST
      BY <2>1 DEF ItemAt
    <3>2. items \in Seq(Item)
      BY <1>2, <3>1, ToggledItemsType
    <3> HIDE DEF items
    <3>3. Done(items)
      BY <3>0, <3>1 DEF WriteItems, items
    <3> QED BY <1>1, <3>2, <3>3
  <2>2. CASE ~ ItemAt(r)
    BY <1>1, <1>4, <2>2 DEF ToggleItem
  <2> QED BY <2>1, <2>2
<1>5. ASSUME NEW alone, DeleteItem(r, alone, refused)
      PROVE  Raise \/ \E items \in Seq(Item) : Done(items)
  <2>1. CASE ItemAt(r) /\ alone /\ Len(curLST[screen.row].listItems) = screen.shown
    <3> DEFINE items == Without(curLST[screen.row].listItems, r)
    <3>1. screen.row \in DOMAIN curLST /\ r \in DOMAIN curLST[screen.row].listItems
      BY <2>1 DEF ItemAt
    <3>2. r \in 1..Len(curLST[screen.row].listItems)
      BY <1>2, <3>1
    <3>3. items \in Seq(Item)
      BY <1>2, <3>1, <3>2, WithoutType
    <3>4. Done(items)
      BY <1>5, <2>1, <3>1 DEF DeleteItem
    <3> QED BY <1>1, <3>3, <3>4
  <2>2. CASE ~ (ItemAt(r) /\ alone /\ Len(curLST[screen.row].listItems) = screen.shown)
    BY <1>1, <1>5, <2>2 DEF DeleteItem
  <2> QED BY <2>1, <2>2
<1> QED BY <1>1, <1>3, <1>4, <1>5

\* All arrays in memory, and a step that keeps them.
KnownCopies(C) == LocalCopies(C) /\ onlineLST \in Seq(CopyLists(C))

KeepsCopies == \A C : 0 \in C /\ KnownCopies(C) => KnownCopies(C)'

\* The process ends: nothing is left in memory.
Ended == proc' # "running" /\ Forgotten /\ Lost

LEMMA CopiesEnded ==
    ASSUME Ended
    PROVE  KnownCopies({0})' /\ KeepsCopies
<1>1. ASSUME NEW C, 0 \in C PROVE KnownCopies(C)'
  <2>1. LocalCopies(C)'
    BY <1>1, CopiesForgotten DEF Ended
  <2>2. onlineLST' \in Seq(CopyLists(C))
    BY <1>1, CopyListsFacts DEF Ended, Lost
  <2> QED BY <2>1, <2>2 DEF KnownCopies
<1>2. 0 \in {0}
  OBVIOUS
<1> QED BY <1>1, <1>2 DEF KeepsCopies

\* A handler that makes writes does not touch the lists read from the cloud.
LEMMA CopiesIssue ==
    ASSUME NEW ws, Issue(ws), proc' # "running" => Forgotten
    PROVE  Ended \/ (proc' = "running" /\ onlineLST' = onlineLST)
BY DEF Issue, Ended

\* The taps: the user stays who he was.
LEMMA TapCopies ==
    ASSUME SessionInv,
           \/ \E n \in ListNames : NewListTap(n)
           \/ \E n \in ItemNames : AddItemTap(n)
           \/ \E i : DeleteListTap(i) \/ OpenListTap(i) \/ ToggleItemTap(i) \/ DeleteItemTap(i)
           \/ BackTap \/ LogoutTap \/ \E uid : RegisterTap(uid)
    PROVE  /\ KeepsCopies
           /\ Ended \/ (proc' = "running" /\ proc = "running" /\ curUser' = curUser)
<1>1. StoreInv
  BY DEF SessionInv
<1>2. ASSUME NEW ws, Issue(ws), proc' # "running" => Forgotten,
             \A C : 0 \in C /\ LocalCopies(C) => LocalCopies(C)'
      PROVE  KeepsCopies /\ (Ended \/ (proc' = "running" /\ onlineLST' = onlineLST))
  <2>1. Ended \/ (proc' = "running" /\ onlineLST' = onlineLST)
    BY <1>2, CopiesIssue
  <2>2. onlineLST' = onlineLST => KeepsCopies
    BY <1>2 DEF KeepsCopies, KnownCopies
  <2> QED BY <2>1, <2>2, CopiesEnded
<1>3. ASSUME NEW n \in ListNames, NewListTap(n)
      PROVE  KeepsCopies /\ (Ended \/ (proc' = "running" /\ proc = "running" /\ curUser' = curUser))
  <2>1. AddNewList(n) /\ Issue(<<SaveListOnCloud(curUser, NewList(n, curUser, << >>))>>)
    BY <1>3 DEF NewListTap
  <2>2. proc = "running" /\ UNCHANGED <<proc, curUser>>
    BY <2>1 DEF AddNewList, OnListScreen
  <2>3. \A C : 0 \in C /\ LocalCopies(C) => LocalCopies(C)'
    BY <1>1, <2>1, CopiesAddNewList
  <2> QED BY <1>2, <2>1, <2>2, <2>3
<1>4. ASSUME NEW i, DeleteListTap(i)
      PROVE  KeepsCopies /\ (Ended \/ (proc' = "running" /\ proc = "running" /\ curUser' = curUser))
  <2>1. PICK refused, ws : DeleteList(i, refused) /\ Issue(ws)
    BY <1>4, Zenon DEF DeleteListTap
  <2>2. /\ proc = "running"
        /\ \/ UNCHANGED <<proc, curUser>>
           \/ proc' = "raised" /\ Forgotten
    BY <2>1 DEF DeleteList, OnListScreen, Raise, WriteDataThenRaise
  <2>3. \A C : 0 \in C /\ LocalCopies(C) => LocalCopies(C)'
    BY <1>1, <2>1, CopiesDeleteList
  <2>4. proc' # "running" => Forgotten
    BY <2>2
  <2>5. KeepsCopies /\ (Ended \/ (proc' = "running" /\ onlineLST' = onlineLST))
    BY <1>2, <2>1, <2>3, <2>4
  <2> QED BY <2>2, <2>5
<1>5. ASSUME NEW i, OpenListTap(i)
      PROVE  KeepsCopies /\ (Ended \/ (proc' = "running" /\ proc = "running" /\ curUser' = curUser))
  <2>1. OpenList(i) /\ Issue(<< >>)
    BY <1>5 DEF OpenListTap
  <2>2. /\ proc = "running"
        /\ \/ UNCHANGED <<proc, curUser>>
           \/ proc' = "raised" /\ Forgotten
    BY <2>1 DEF OpenList, OnListScreen, Raise, memory
  <2>3. \A C : 0 \in C /\ LocalCopies(C) => LocalCopies(C)'
    BY <2>1, CopiesOpenOrBack
  <2>4. proc' # "running" => Forgotten
    BY <2>2
  <2>5. KeepsCopies /\ (Ended \/ (proc' = "running" /\ onlineLST' = onlineLST))
    BY <1>2, <2>1, <2>3, <2>4
  <2> QED BY <2>2, <2>5
<1>6. ASSUME NEW r, (r \in ItemNames /\ AddItemTap(r)) \/ ToggleItemTap(r) \/ DeleteItemTap(r)
      PROVE  KeepsCopies /\ (Ended \/ (proc' = "running" /\ proc = "running" /\ curUser' = curUser))
  <2>1. PICK refused, ws :
          /\ \/ r \in ItemNames /\ AddItem(r, refused)
             \/ ToggleItem(r, refused) \/ \E alone : DeleteItem(r, alone, refused)
          /\ Issue(ws)
    BY <1>6, Zenon DEF AddItemTap, ToggleItemTap, DeleteItemTap
  <2>2. /\ proc = "running" /\ screen # Nil
        /\ \/ Raise
           \/ \E items \in Seq(Item) :
                 LET lst == WithItems(curLST, screen.row, items)
                 IN  /\ screen.row \in DOMAIN curLST
                     /\ \/ /\ curLST' = lst /\ WriteData(lst, curUser)
                           /\ UNCHANGED <<proc, curUser>>
                        \/ WriteDataThenRaise(lst)
    BY <1>1, <2>1, ItemHandlerIs
  <2>3. UNCHANGED <<proc, curUser>> \/ (proc' = "raised" /\ Forgotten)
    BY <2>2 DEF Raise, WriteDataThenRaise
  <2>4. ASSUME NEW C, 0 \in C, LocalCopies(C) PROVE LocalCopies(C)'
    <3>1. CASE Raise
      BY <2>4, <3>1, CopiesForgotten DEF Raise
    <3>2. CASE ~ Raise
      <4>1. PICK items \in Seq(Item) :
              LET lst == WithItems(curLST, screen.row, items)
              IN  /\ screen.row \in DOMAIN curLST
                  /\ (curLST' = lst /\ WriteData(lst, curUser)) \/ WriteDataThenRaise(lst)
        BY <2>2, <3>2
      <4> QED BY <1>1, <2>2, <2>4, <4>1, CopiesItems
    <3> QED BY <3>1, <3>2
  <2>5. proc' # "running" => Forgotten
    BY <2>2, <2>3
  <2>6. KeepsCopies /\ (Ended \/ (proc' = "running" /\ onlineLST' = onlineLST))
    BY <1>2, <2>1, <2>4, <2>5
  <2> QED BY <2>2, <2>3, <2>6
<1>7. CASE BackTap \/ LogoutTap \/ \E uid : RegisterTap(uid)
  <2>1. /\ UNCHANGED <<curLST, offlineLST, onlineLST, proc, curUser>>
        /\ proc = "running"
    BY <1>7 DEF BackTap, Back, OnItemScreen, LogoutTap, RegisterTap, MayRequest, OnListScreen,
                localVars, memory, sessionVars, inFlight
  <2> QED BY <2>1 DEF KeepsCopies, KnownCopies, LocalCopies
<1> QED BY <1>3, <1>4, <1>5, <1>6, <1>7

\* Launches and ends of the process.
LEMMA LaunchCopies ==
    ASSUME SessionInv, LaunchFirst \/ Launch \/ Killed \/ Reinstall
    PROVE  KeepsCopies /\ (Ended \/ proc # "running")
<1>1. StoreInv
  BY DEF SessionInv
<1>2. CASE LaunchFirst \/ Launch
  <2>1. FirstRun \/ FirstRunKilled \/ Relaunch
    BY <1>2 DEF LaunchFirst, Launch
  <2>2. onlineLST' = onlineLST
    BY <1>2 DEF LaunchFirst, Launch
  <2>3. proc # "running"
    BY <2>1 DEF FirstRun, FirstRunKilled, Relaunch
  <2> QED BY <1>1, <2>1, <2>2, <2>3, CopiesLaunch DEF KeepsCopies, KnownCopies
<1>3. CASE Killed \/ Reinstall
  <2>1. Ended
    BY <1>3 DEF Killed, Kill, Reinstall, Ended
  <2> QED BY <2>1, CopiesEnded
<1> QED BY <1>2, <1>3

\* What reads the lists back from the disk.
LEMMA ReadBackCopies ==
    ASSUME SessionInv, (\E uid : LoginTap(uid)) \/ \E k \in DOMAIN timers : SignedInTimer(k)
    PROVE  KeepsCopies /\ proc = "running" /\ proc' = "running"
<1>1. StoreInv
  BY DEF SessionInv
<1>2. /\ curLST' = ReadData /\ offlineLST' = ReadData /\ onlineLST' = onlineLST
      /\ proc = "running" /\ proc' = "running"
  BY DEF LoginTap, MayRequest, OnListScreen, ReadFromDisk, SignedInTimer, Fires
<1> QED BY <1>1, <1>2, CopiesReadBack DEF KeepsCopies, KnownCopies

LEMMA RegisteredCopies ==
    ASSUME SessionInv, NEW k \in DOMAIN timers, RegisteredTimer(k)
    PROVE  KeepsCopies /\ (Ended \/ (proc = "running" /\ proc' = "running"))
<1> DEFINE uid == timers[k].uid
           lst == IF curLST = Nil THEN Nil ELSE SetTheUser(curLST, uid)
<1>1. CloudTypeOK /\ uid \in Uids
  BY BlockFacts DEF SessionInv
<1>2. /\ proc = "running"
      /\ \/ /\ curLST' = lst /\ UNCHANGED <<proc, offlineLST, onlineLST>>
         \/ proc' = "raised" /\ Forgotten /\ Issue(Saves(Rows(lst), uid))
  BY DEF RegisteredTimer, Fires
<1>3. ASSUME NEW C, 0 \in C, LocalCopies(C) PROVE Rows(lst) \in Seq(CopyLists(C))
  <2>1. CASE curLST = Nil
    BY <1>3, <2>1, CopyListsFacts DEF Rows
  <2>2. CASE curLST # Nil
    <3>1. curLST \in Seq(CopyLists(C))
      BY <1>3, <2>2 DEF LocalCopies, Rows
    <3>2. SetTheUser(curLST, uid) \in Seq(CopyLists(C))
      BY <1>1, <1>3, <3>1, CopiesSetTheUser
    <3>3. Rows(SetTheUser(curLST, uid)) = SetTheUser(curLST, uid)
      BY <3>2, CopiesRows
    <3> QED BY <2>2, <3>2, <3>3
  <2> QED BY <2>1, <2>2
<1> HIDE DEF lst, uid
<1>4. CASE curLST' = lst /\ UNCHANGED <<proc, offlineLST, onlineLST>>
  BY <1>2, <1>3, <1>4 DEF KeepsCopies, KnownCopies, LocalCopies
<1>5. CASE proc' = "raised" /\ Forgotten /\ Issue(Saves(Rows(lst), uid))
  <2>1. Ended
    BY <1>5, CopiesIssue DEF Ended
  <2> QED BY <2>1, CopiesEnded
<1> QED BY <1>2, <1>4, <1>5

LEMMA MergeCopies ==
    ASSUME SessionInv, NEW k \in DOMAIN timers, MergeTimer(k)
    PROVE  /\ KeepsCopies
           /\ \/ Ended
              \/ proc = "running" /\ proc' = "running" /\ curUser' = curUser /\ auth # Nil
<1>1. PICK later :
        LET lst == MergeResult(later)
        IN  \/ WriteDataThenRaise(lst) /\ Issue(<< >>)
            \/ Raise /\ Issue(Saves(lst, curUser))
            \/ /\ curLST' = lst /\ WriteData(lst, curUser) /\ auth # Nil
               /\ onlineLST' = Residual(onlineLST, Rows(offlineLST))
               /\ UNCHANGED <<proc, curUser>>
  BY DEF MergeTimer
<1>2. proc = "running" /\ StoreInv
  BY DEF MergeTimer, Fires, SessionInv
<1>3. curUser \in Uids
  BY <1>2, StoreRunning
<1> DEFINE lst == MergeResult(later)
<1>4. CASE (WriteDataThenRaise(lst) /\ Issue(<< >>)) \/ (Raise /\ Issue(Saves(lst, curUser)))
  <2>1. proc' = "raised" /\ Forgotten
    BY <1>4 DEF WriteDataThenRaise, Raise
  <2>2. Ended
    BY <1>4, <2>1, CopiesIssue DEF Ended
  <2> QED BY <2>2, CopiesEnded
<1>5. CASE /\ curLST' = lst /\ WriteData(lst, curUser) /\ auth # Nil
           /\ onlineLST' = Residual(onlineLST, Rows(offlineLST))
           /\ UNCHANGED <<proc, curUser>>
  <2>1. ASSUME NEW C, 0 \in C, KnownCopies(C) PROVE KnownCopies(C)'
    <3>1. lst \in Seq(CopyLists(C))
      BY <1>3, <2>1, CopiesMerged DEF KnownCopies, LocalCopies
    <3> HIDE DEF lst
    <3>2. LocalCopies(C)'
      BY <1>5, <3>1, CopiesRows, CopiesWriteAndGoOn
    <3> DEFINE K == Elements(onlineLST) \ Unique(onlineLST, Rows(offlineLST))
    <3>3. onlineLST' \in Seq(CopyLists(C) \cap K)
      BY <1>5, <2>1, KeptType DEF KnownCopies, Residual
    <3> HIDE DEF K
    <3>4. onlineLST' \in Seq(CopyLists(C))
      BY <3>3
    <3> QED BY <3>2, <3>4 DEF KnownCopies
  <2> QED BY <1>2, <1>5, <2>1 DEF KeepsCopies
<1> QED BY <1>1, <1>4, <1>5

LEMMA InviteCopies ==
    ASSUME NEW k \in DOMAIN timers, NEW invitationLST, InviteTimer(k, invitationLST),
           NEW C, 0 \in C, KnownCopies(C), invitationLST \in Seq(CopyLists(C))
    PROVE  /\ KnownCopies(C)'
           /\ proc = "running" /\ proc' = "running" /\ curUser' = curUser
<1>1. /\ curLST' = IF curLST = Nil THEN Nil ELSE curLST \o invitationLST
      /\ proc = "running" /\ UNCHANGED <<proc, curUser, offlineLST, onlineLST>>
  BY DEF InviteTimer, Fires
<1>2. Rows(curLST') \in Seq(CopyLists(C))
  <2>1. CASE curLST = Nil
    BY <1>1, <2>1, CopyListsFacts DEF Rows
  <2>2. CASE curLST # Nil
    <3>1. curLST \in Seq(CopyLists(C))
      BY <2>2 DEF KnownCopies, LocalCopies, Rows
    <3>2. curLST' \in Seq(CopyLists(C))
      BY <1>1, <2>2, <3>1, ConcatFacts
    <3> QED BY <3>2, CopiesRows
  <2> QED BY <2>1, <2>2
<1> QED BY <1>1, <1>2 DEF KnownCopies, LocalCopies

\* The answer of the cloud.
LEMMA ReadAnswerCopies ==
    ASSUME SessionInv, ReadAnswer
    PROVE  KeepsCopies
<1> DEFINE lists == ApplyAll(server, pending)[Head(reads)]
<1>1. /\ reads # << >>
      /\ onlineLST' \in IF Present(lists) = {} THEN {onlineLST} ELSE ReadDataFromCloud(lists)
      /\ UNCHANGED <<curLST, offlineLST>>
  BY DEF ReadAnswer, localVars, memory
<1>2. reads \in Seq(Accounts) /\ server \in DataNode /\ pending \in Seq(Write)
  BY DEF CloudTypeOK, SessionInv
<1>3. Head(reads) \in Accounts
  BY <1>1, <1>2
<1>4. ApplyAll(server, pending) \in DataNode
  BY <1>2, ApplyAllType
<1>5. lists \in [ListNames -> ListNode \cup {Nil}]
  BY <1>3, <1>4 DEF DataNode, Uids
<1> HIDE DEF lists
<1>6. ASSUME NEW C, 0 \in C, KnownCopies(C) PROVE KnownCopies(C)'
  <2>1. onlineLST' \in Seq(CopyLists(C))
    BY <1>1, <1>5, <1>6, CopiesRead DEF KnownCopies
  <2> QED BY <1>1, <1>6, <2>1 DEF KnownCopies, LocalCopies
<1> QED BY <1>6 DEF KeepsCopies

\* Everything else leaves the lists in memory alone.
LEMMA SameCopies ==
    ASSUME UNCHANGED <<curLST, offlineLST, onlineLST>>
    PROVE  KeepsCopies
BY DEF KeepsCopies, KnownCopies, LocalCopies

-----------------------------------------------------------------------------
(* The default user loses nothing.                                         *)

\* All that an array of lists has, by the names, another one has as well.
Covers(new, old) ==
    \A n \in Names(old) :
        n \in Names(new) /\ ItemNamesUnder(n, old) \subseteq ItemNamesUnder(n, new)

LEMMA CoversItself == \A s : Covers(s, s)
BY DEF Covers

LEMMA CoversTransitive ==
    ASSUME NEW r, NEW s, NEW t, Covers(r, s), Covers(s, t)
    PROVE  Covers(r, t)
BY DEF Covers

\* An array in which each list is where it was, with at least its items.
LEMMA GrownCovers ==
    ASSUME NEW s \in Seq(List), NEW t \in Seq(List), Len(s) <= Len(t),
           \A i \in 1..Len(s) :
              /\ t[i].listName = s[i].listName
              /\ \A x \in Elements(s[i].listItems) :
                    \E y \in Elements(t[i].listItems) : y.itemName = x.itemName
    PROVE  Covers(t, s)
<1> SUFFICES ASSUME NEW n \in Names(s)
             PROVE  n \in Names(t) /\ ItemNamesUnder(n, s) \subseteq ItemNamesUnder(n, t)
  BY DEF Covers
<1>1. \A i \in 1..Len(s) : i \in 1..Len(t)
  OBVIOUS
<1>2. n \in Names(t)
  <2>1. PICK i \in 1..Len(s) : s[i].listName = n
    BY DEF Names
  <2>2. i \in 1..Len(t) /\ t[i].listName = n
    BY <1>1, <2>1
  <2> QED BY <2>2 DEF Names
<1>3. ASSUME NEW m \in ItemNamesUnder(n, s) PROVE m \in ItemNamesUnder(n, t)
  <2>1. PICK x \in ItemsUnder(n, s) : m = x.itemName
    BY <1>3 DEF ItemNamesUnder
  <2>2. PICK l \in Elements(s) : l.listName = n /\ x \in Elements(l.listItems)
    BY <2>1, UnderName
  <2>3. PICK i \in 1..Len(s) : l = s[i]
    BY <2>2, ElementAt
  <2>4. PICK y \in Elements(t[i].listItems) : y.itemName = m
    BY <2>1, <2>2, <2>3
  <2>5. t[i] \in Elements(t) /\ t[i].listName = n
    BY <1>1, <2>2, <2>3, ElementAt
  <2>6. y \in ItemsUnder(n, t)
    BY <2>4, <2>5, UnderName
  <2> QED BY <2>4, <2>6 DEF ItemNamesUnder
<1> QED BY <1>2, <1>3

\* Two arrays with the same contents.
LEMMA SameContentsCover ==
    ASSUME NEW s \in Seq(List) \cup {Nil}, NEW t \in Seq(List) \cup {Nil},
           Contents(s) = Contents(t)
    PROVE  Covers(Rows(t), Rows(s))
<1> DEFINE a == Rows(s)
           b == Rows(t)
<1>1. a \in Seq(List) /\ b \in Seq(List)
  BY RowsType
<1>2. [i \in DOMAIN a |-> Content(a[i])] = [i \in DOMAIN b |-> Content(b[i])]
  BY DEF Contents
<1> HIDE DEF a, b
<1>3. DOMAIN a = DOMAIN b /\ \A i \in DOMAIN a : Content(a[i]) = Content(b[i])
  BY <1>2
<1>4. DOMAIN a = 1..Len(a) /\ DOMAIN b = 1..Len(b) /\ Len(a) \in Nat /\ Len(b) \in Nat
  BY <1>1
<1>5. Len(a) = Len(b) /\ Len(a) <= Len(b)
  <2>1. 1..Len(a) = DOMAIN b
    BY <1>3, <1>4
  <2>2. b \in Seq(List) /\ Len(a) \in Nat /\ DOMAIN b = 1..Len(a)
    BY <1>1, <1>4, <2>1
  <2>3. Len(b) = Len(a)
    BY <2>2
  <2> QED BY <1>4, <2>3
<1>6. ASSUME NEW i \in 1..Len(a)
      PROVE  /\ b[i].listName = a[i].listName
             /\ \A x \in Elements(a[i].listItems) :
                   \E y \in Elements(b[i].listItems) : y.itemName = x.itemName
  <2>1. Content(a[i]) = Content(b[i])
    BY <1>3, <1>4
  <2>2. b[i].listName = a[i].listName /\ b[i].listItems = a[i].listItems
    BY <2>1 DEF Content
  <2> QED BY <2>2
<1>7. Covers(b, a)
  BY <1>1, <1>5, <1>6, GrownCovers
<1> QED BY <1>7 DEF a, b

LEMMA AppendCovers ==
    ASSUME NEW s \in Seq(List), NEW l \in List
    PROVE  Covers(Append(s, l), s)
<1> DEFINE t == Append(s, l)
<1>1. /\ t \in Seq(List) /\ Len(s) <= Len(t)
      /\ \A i \in 1..Len(s) : t[i] = s[i]
  OBVIOUS
<1> HIDE DEF t
<1>2. Covers(t, s)
  BY <1>1, GrownCovers
<1> QED BY <1>2 DEF t

\* One list, which is no copy, has other items, none of them missing.
LEMMA WithItemsCovers ==
    ASSUME NEW lst \in Seq(CopyLists({0})), NEW i \in 1..Len(lst), NEW items \in Seq(Item),
           \A x \in Elements(lst[i].listItems) :
              \E y \in Elements(items) : y.itemName = x.itemName
    PROVE  Covers(WithItems(lst, i, items), lst)
<1> DEFINE new == WithItems(lst, i, items)
<1>1. DOMAIN lst = 1..Len(lst) /\ Len(lst) \in Nat /\ lst \in Seq(List)
  BY ListsArray DEF CopyLists
<1>2. lst[i].copy = 0
  <2>1. lst[i] \in CopyLists({0})
    OBVIOUS
  <2> QED BY <2>1 DEF CopyLists
<1>3. new = [j \in 1..Len(lst) |->
                IF j = i THEN [lst[j] EXCEPT !.listItems = items] ELSE lst[j]]
  BY <1>1, <1>2 DEF WithItems
<1>4. new \in Seq(List)
  <2>1. ItemsFree(List)
    BY DEF ItemsFree, List
  <2> QED BY <1>1, <2>1, WithItemsType
<1>5. ASSUME NEW j \in 1..Len(lst)
      PROVE  /\ new[j].listName = lst[j].listName
             /\ \A x \in Elements(lst[j].listItems) :
                   \E y \in Elements(new[j].listItems) : y.itemName = x.itemName
  <2>1. lst[j] \in List
    BY <1>1
  <2>2. CASE j = i
    <3>1. new[j] = [lst[j] EXCEPT !.listItems = items]
      BY <1>3, <2>2
    <3>2. new[j].listName = lst[j].listName /\ new[j].listItems = items
      <4> HIDE DEF new
      <4> QED BY <2>1, <3>1 DEF List
    <3> HIDE DEF new
    <3> QED BY <2>2, <3>2
  <2>3. CASE j # i
    <3>1. new[j] = lst[j]
      BY <1>3, <2>3
    <3> HIDE DEF new
    <3> QED BY <3>1
  <2> QED BY <2>2, <2>3
<1>6. Len(new) = Len(lst)
  <2>1. DOMAIN new = 1..Len(lst)
    BY <1>3
  <2> HIDE DEF new
  <2> QED BY <1>1, <1>4, <2>1
<1> HIDE DEF new
<1>7. Len(lst) <= Len(new)
  BY <1>1, <1>6
<1>8. Covers(new, lst)
  BY <1>1, <1>4, <1>5, <1>7, GrownCovers
<1> QED BY <1>8 DEF new

\* The merge keeps what the phone had, if its lists differ in name.
LEMMA MergeCovers ==
    ASSUME onlineLST \in Seq(List), offlineLST \in Seq(List) \cup {Nil}, curUser \in Uids,
           NamesDiffer(Rows(offlineLST)), NEW later
    PROVE  Covers(MergeResult(later), Rows(offlineLST))
<1> DEFINE all == compare(onlineLST, Rows(offlineLST), later)
           change(l) == [l EXCEPT !.listOwner = curUser, !.mine = TRUE]
           new == MergeResult(later)
           off == Rows(offlineLST)
<1>1. off \in Seq(List)
  BY RowsType
<1>2. all \in Seq(List)
  BY <1>1, CompareElements
<1>3. Names(all) = Names(onlineLST) \cup Names(off)
  BY <1>1, CompareNames
<1>4. ListsDiffer(off)
  BY <1>1, NamesAre
<1>5. \A n : ItemNamesUnder(n, off) \subseteq ItemNamesUnder(n, all)
  BY <1>1, <1>4, CompareItemsOfB
<1>6. new = [i \in DOMAIN all |-> change(all[i])]
  BY DEF MergeResult
<1>7. \A l \in List : change(l).listName = l.listName /\ change(l).listItems = l.listItems
  BY DEF List
<1>8. new \in Seq(List)
  BY MergeResultType
<1> HIDE DEF all, change, new, off
<1>9. Covers(all, off)
  BY <1>3, <1>5 DEF Covers
<1>10. DOMAIN all = 1..Len(all) /\ Len(all) \in Nat /\ \A i \in 1..Len(all) : all[i] \in List
  BY <1>2
<1>11. /\ \A i \in 1..Len(all) :
             new[i].listName = all[i].listName /\ new[i].listItems = all[i].listItems
       /\ DOMAIN new = 1..Len(all)
  BY <1>6, <1>7, <1>10
<1>12. Len(new) = Len(all)
  BY <1>8, <1>10, <1>11
<1>13. Covers(new, all)
  <2>1. Len(all) <= Len(new)
    BY <1>10, <1>12
  <2>2. \A i \in 1..Len(all) :
          /\ new[i].listName = all[i].listName
          /\ \A x \in Elements(all[i].listItems) :
                \E y \in Elements(new[i].listItems) : y.itemName = x.itemName
    BY <1>11
  <2> QED BY <1>2, <1>8, <2>1, <2>2, GrownCovers
<1>14. Covers(new, off)
  BY <1>9, <1>13, CoversTransitive
<1> QED BY <1>14 DEF new, off

\* What WriteData leaves in data.plist is what it leaves in offlineLST.
LEMMA WrittenTwice ==
    ASSUME NEW uid \in Uids, NEW lst \in Seq(UserLists(uid)) \cup {Nil}, WriteData(lst, uid)
    PROVE  /\ Contents(offlineLST') = Contents(dataPlist')
           /\ lst = Nil => dataPlist' = << >>
<1> DEFINE own == OwnLists(lst, uid)
<1>1. offlineLST' = own /\ dataPlist' = Archive(own)
  BY DEF WriteData
<1>2. own \in Seq(OwnedLists(uid))
  BY OwnListsType
<1>3. lst = Nil => own = << >>
  <2>1. ASSUME lst = Nil PROVE Kept(<< >>, {l \in Elements(<< >>) : SameUid(l, uid)}) = << >>
    <3> DEFINE K == {l \in Elements(<< >>) : SameUid(l, uid)}
    <3>1. << >> \in Seq(List) /\ Elements(<< >>) \subseteq K
      BY DEF Elements
    <3> HIDE DEF K
    <3> QED BY <3>1, KeptAll DEF K
  <2> QED BY <2>1 DEF OwnLists, Rows
<1> HIDE DEF own
<1>4. Contents(Archive(own)) = Contents(own)
  BY <1>2, ArchiveOwned
<1>5. own = << >> => Archive(own) = << >>
  BY DEF Archive
<1> QED BY <1>1, <1>3, <1>4, <1>5

\* The ways in which a handler keeps KeepInv.
LEMMA KeepWrites ==
    ASSUME NEW uid \in Uids, NEW lst \in Seq(UserLists(uid)) \cup {Nil},
           WriteData(lst, uid), curLST' = lst
    PROVE  KeepInv'
BY WrittenTwice DEF KeepInv

LEMMA KeepReadBack ==
    ASSUME StoreInv, dataPlist' = dataPlist, curLST' = ReadData, offlineLST' = ReadData
    PROVE  KeepInv'
BY ReadDataIs DEF KeepInv

LEMMA KeepSame ==
    ASSUME KeepInv, UNCHANGED <<proc, dataPlist, offlineLST>>, curLST' = Nil => curLST = Nil
    PROVE  KeepInv'
BY DEF KeepInv

LEMMA KeepEnded ==
    ASSUME proc' # "running"
    PROVE  KeepInv'
BY DEF KeepInv

\* What is written with the default user's lists covers what was there.
LEMMA WrittenCovers ==
    ASSUME StoreInv, DefaultInv, proc = "running", curUser = defUid, curLST # Nil,
           NEW lst \in Seq(OwnedLists(defUid)), Covers(lst, curLST),
           dataPlist' = Archive(OwnLists(lst, defUid))
    PROVE  Covers(Rows(dataPlist'), Rows(dataPlist))
<1>1. curLST \in Seq(OwnedLists(defUid)) /\ Contents(dataPlist) = Contents(curLST)
  BY DefaultRunning
<1>2. Contents(dataPlist') = Contents(lst)
  BY DefaultWritten
<1>3. /\ curLST \in Seq(List) /\ Rows(curLST) = curLST
      /\ lst \in Seq(List) /\ Rows(lst) = lst
  BY <1>1, OwnerSets, ListsArray
<1>4. dataPlist \in Seq(List) \cup {Nil}
  BY DEF StoreInv, LocalTypeOK
<1>5. dataPlist' \in Seq(List)
  <2>1. defUid \in Uids
    BY DEF Uids
  <2>2. OwnedLists(defUid) \subseteq UserLists(defUid)
    BY <2>1, OwnerSets
  <2>3. lst \in Seq(UserLists(defUid))
    BY <2>2
  <2>4. dataPlist' \in Seq(DecodedLists(defUid))
    BY <2>1, <2>3, WrittenType
  <2> QED BY <2>4, OwnerSets, ListsArray
<1>6. Covers(curLST, Rows(dataPlist))
  BY <1>1, <1>3, <1>4, SameContentsCover
<1>7. Covers(Rows(dataPlist'), lst)
  BY <1>2, <1>3, <1>5, SameContentsCover
<1> QED BY <1>6, <1>7, CoversTransitive

\* Nothing was on the disk.
LEMMA NothingToCover ==
    ASSUME dataPlist \in {Nil, << >>}, NEW new
    PROVE  Covers(new, Rows(dataPlist))
<1>1. Rows(dataPlist) = << >>
  BY DEF Rows
<1> QED BY <1>1 DEF Covers, Names

\* The new list, in the array that AddNewList writes.
LEMMA AddedLists ==
    ASSUME StoreInv, NEW n \in ListNames, AddNewList(n)
    PROVE  /\ proc = "running"
           /\ LET lst == IF curLST = Nil THEN Nil
                         ELSE Append(curLST, NewList(n, curUser, << >>))
              IN  /\ lst \in Seq(UserLists(curUser)) \cup {Nil}
                  /\ WriteData(lst, curUser) /\ curLST' = lst
           /\ NewList(n, curUser, << >>) \in OwnedLists(curUser)
           /\ curUser \in Uids
<1> DEFINE new == NewList(n, curUser, << >>)
           lst == IF curLST = Nil THEN Nil ELSE Append(curLST, new)
<1>1. proc = "running" /\ curLST' = lst /\ WriteData(lst, curUser)
  BY DEF AddNewList, OnListScreen
<1>2. curUser \in Uids /\ (curLST # Nil => curLST \in Seq(UserLists(curUser)))
  BY <1>1, StoreRunning
<1>3. new \in OwnedLists(curUser) /\ new \in UserLists(curUser)
  <2>1. << >> \in Seq(Item)
    OBVIOUS
  <2> QED BY <1>2, <2>1, NewListOwned, OwnerSets
<1> HIDE DEF new
<1>4. lst \in Seq(UserLists(curUser)) \cup {Nil}
  BY <1>2, <1>3
<1> QED BY <1>1, <1>2, <1>3, <1>4 DEF new

\* The taps.
LEMMA KeepTap ==
    ASSUME SessionInv, KeepInv, Tap
    PROVE  KeepInv'
<1>1. StoreInv
  BY DEF SessionInv
<1>2. ASSUME NEW n \in ListNames, NewListTap(n) PROVE KeepInv'
  <2>1. AddNewList(n)
    BY <1>2 DEF NewListTap
  <2> QED BY <1>1, <2>1, AddedLists, KeepWrites
<1>3. ASSUME NEW i, DeleteListTap(i) PROVE KeepInv'
  <2>1. PICK refused : DeleteList(i, refused)
    BY <1>3, Zenon DEF DeleteListTap
  <2>2. proc = "running" /\ i \in 1..rows
    BY <2>1 DEF DeleteList, OnListScreen
  <2>3. curUser \in Uids /\ rows \in Nat /\ curLST # Nil /\ curLST \in Seq(UserLists(curUser))
    BY <1>1, <2>2, StoreRunning
  <2>4. CASE i > Len(curLST)
    BY <2>1, <2>4, KeepEnded DEF DeleteList, Raise
  <2>5. CASE ~ (i > Len(curLST))
    <3> DEFINE left == RemoveObject(curLST, i)
    <3>1. i \in 1..Len(curLST)
      BY <2>2, <2>3, <2>5
    <3>2. left \in Seq(UserLists(curUser))
      BY <2>3, <3>1, RemoveObjectType
    <3>3. \/ WriteData(left, curUser) /\ curLST' = left
          \/ UNCHANGED <<proc, offlineLST, dataPlist>> /\ curLST' = left
          \/ proc' = "raised"
      BY <2>1, <2>5 DEF DeleteList, WriteDataThenRaise, Raise
    <3> HIDE DEF left
    <3>4. left # Nil
      BY <3>2, OwnerSets, ListsArray
    <3> QED BY <2>3, <3>2, <3>3, <3>4, KeepWrites, KeepSame, KeepEnded
  <2> QED BY <2>4, <2>5
<1>4. ASSUME NEW i, OpenListTap(i) PROVE KeepInv'
  <2>1. proc' = "raised" \/ UNCHANGED <<proc, dataPlist, offlineLST, curLST>>
    BY <1>4 DEF OpenListTap, OpenList, Raise, disk, memory
  <2> QED BY <2>1, KeepSame, KeepEnded
<1>5. CASE BackTap \/ LogoutTap \/ \E uid \in Here : RegisterTap(uid)
  <2>1. UNCHANGED <<proc, dataPlist, offlineLST, curLST>>
    BY <1>5 DEF BackTap, Back, LogoutTap, RegisterTap, localVars, disk, memory
  <2> QED BY <2>1, KeepSame
<1>6. ASSUME NEW r, (r \in ItemNames /\ AddItemTap(r)) \/ ToggleItemTap(r) \/ DeleteItemTap(r)
      PROVE  KeepInv'
  <2>1. PICK refused :
          \/ r \in ItemNames /\ AddItem(r, refused)
          \/ ToggleItem(r, refused) \/ \E alone : DeleteItem(r, alone, refused)
    BY <1>6, Zenon DEF AddItemTap, ToggleItemTap, DeleteItemTap
  <2>2. /\ proc = "running" /\ screen # Nil
        /\ \/ Raise
           \/ \E items \in Seq(Item) :
                 LET lst == WithItems(curLST, screen.row, items)
                 IN  /\ screen.row \in DOMAIN curLST
                     /\ \/ /\ curLST' = lst /\ WriteData(lst, curUser)
                           /\ UNCHANGED <<proc, curUser>>
                        \/ WriteDataThenRaise(lst)
    BY <1>1, <2>1, ItemHandlerIs
  <2>3. CASE proc' = "raised"
    BY <2>3, KeepEnded
  <2>4. CASE proc' # "raised"
    <3>1. PICK items \in Seq(Item) :
            /\ screen.row \in DOMAIN curLST
            /\ curLST' = WithItems(curLST, screen.row, items)
            /\ WriteData(WithItems(curLST, screen.row, items), curUser)
      BY <2>2, <2>4 DEF Raise, WriteDataThenRaise
    <3>2. curUser \in Uids /\ curLST \in Seq(UserLists(curUser))
      BY <1>1, <2>2, <3>1, OpenedItems, StoreRunning
    <3>3. screen.row \in 1..Len(curLST)
      BY <3>1, <3>2
    <3>4. WithItems(curLST, screen.row, items) \in Seq(UserLists(curUser))
      BY <3>2, <3>3, OwnersItemsFree, WithItemsType
    <3> QED BY <3>1, <3>2, <3>4, KeepWrites
  <2> QED BY <2>3, <2>4
<1>7. ASSUME NEW uid \in Here, LoginTap(uid) PROVE KeepInv'
  BY <1>1, <1>7, KeepReadBack DEF LoginTap, ReadFromDisk, disk
<1> QED BY <1>2, <1>3, <1>4, <1>5, <1>6, <1>7 DEF Tap

\* The timers.
LEMMA KeepTimer ==
    ASSUME SessionInv, KeepInv, NEW k \in DOMAIN timers,
           SignedInTimer(k) \/ RegisteredTimer(k) \/ MergeTimer(k) \/ InviteTimer(k, << >>)
    PROVE  KeepInv'
<1>1. StoreInv /\ CloudTypeOK
  BY DEF SessionInv
<1>2. proc = "running"
  BY DEF SignedInTimer, RegisteredTimer, MergeTimer, InviteTimer, Fires
<1>3. /\ curUser \in Uids /\ (curLST # Nil => curLST \in Seq(UserLists(curUser)))
      /\ timers[k].uid \in Uids
  BY <1>1, <1>2, StoreRunning, BlockFacts
<1>4. CASE SignedInTimer(k)
  BY <1>1, <1>4, KeepReadBack DEF SignedInTimer
<1>5. CASE RegisteredTimer(k)
  <2> DEFINE lst == SetTheUser(curLST, timers[k].uid)
  <2>1. \/ /\ curLST' = IF curLST = Nil THEN Nil ELSE lst
           /\ UNCHANGED <<proc, dataPlist, offlineLST>>
        \/ proc' = "raised"
    BY <1>5 DEF RegisteredTimer
  <2>2. curLST # Nil => lst # Nil
    BY <1>3, SetTheUserType, OwnerSets, ListsArray
  <2> HIDE DEF lst
  <2> QED BY <2>1, <2>2, KeepSame, KeepEnded
<1>6. CASE MergeTimer(k)
  <2>1. PICK later : \/ proc' = "raised"
                     \/ /\ curLST' = MergeResult(later)
                        /\ WriteData(MergeResult(later), curUser)
    BY <1>6 DEF MergeTimer, WriteDataThenRaise, Raise
  <2>2. onlineLST \in Seq(List) /\ offlineLST \in Seq(List) \cup {Nil}
    BY <1>1 DEF CloudTypeOK, StoreInv, LocalTypeOK
  <2>3. MergeResult(later) \in Seq(UserLists(curUser))
    BY <1>3, <2>2, MergeResultType
  <2> QED BY <1>3, <2>1, <2>3, KeepWrites, KeepEnded
<1>7. CASE InviteTimer(k, << >>)
  <2>1. /\ curLST' = IF curLST = Nil THEN Nil ELSE curLST \o << >>
        /\ UNCHANGED <<proc, dataPlist, offlineLST>>
    BY <1>7 DEF InviteTimer, disk
  <2>2. curLST' = curLST
    <3>1. CASE curLST = Nil
      BY <2>1, <3>1
    <3>2. CASE curLST # Nil
      BY <1>3, <2>1, <3>2
    <3> QED BY <3>1, <3>2
  <2> QED BY <2>1, <2>2, KeepSame
<1> QED BY <1>4, <1>5, <1>6, <1>7

\* Every step.
LEMMA KeepStep ==
    ASSUME SessionInv, KeepInv, [Next]_vars
    PROVE  KeepInv'
<1>1. StoreInv
  BY DEF SessionInv
<1>2. CASE LaunchFirst \/ Launch
  <2>1. CASE FirstRun
    <3> DEFINE lst == <<SampleList(defUid)>>
    <3>1. lst \in Seq(OwnedLists(defUid)) /\ defUid \in Uids
      BY SampleListOwned DEF Uids
    <3>2. curLST' = lst /\ WriteData(lst, defUid)
      BY <2>1 DEF FirstRun
    <3> HIDE DEF lst
    <3>3. OwnedLists(defUid) \subseteq UserLists(defUid)
      BY <3>1, OwnerSets
    <3>4. lst \in Seq(UserLists(defUid))
      BY <3>1, <3>3
    <3> QED BY <3>1, <3>2, <3>4, KeepWrites
  <2>2. CASE FirstRunKilled
    BY <2>2, KeepEnded DEF FirstRunKilled
  <2>3. CASE Relaunch
    BY <1>1, <2>3, KeepReadBack DEF Relaunch, ReadFromDisk, disk
  <2> QED BY <1>2, <2>1, <2>2, <2>3 DEF LaunchFirst, Launch
<1>3. CASE Killed \/ Reinstall
  BY <1>3, KeepEnded DEF Killed, Kill, Reinstall
<1>4. CASE Tap
  BY <1>4, KeepTap
<1>5. CASE Timer
  BY <1>5, KeepTimer DEF Timer
<1>6. CASE \/ AuthAnswer \/ ReadAnswer \/ WriteArrives
           \/ \E uid \in Accounts, n \in ListNames : OtherDevice(uid, n)
           \/ UNCHANGED vars
  <2>1. UNCHANGED <<proc, dataPlist, offlineLST, curLST>>
    BY <1>6 DEF AuthAnswer, SignInDone, CreateDone, ProfileDone, AuthFails, ReadAnswer,
                WriteArrives, OtherDevice, vars, localVars, disk, memory
  <2> QED BY <2>1, KeepSame
<1> QED BY <1>2, <1>3, <1>4, <1>5, <1>6 DEF Next

\* As long as nobody shares lists, no list in memory is a copy.
LEMMA NoCopiesStep ==
    ASSUME SessionInv, KnownCopies({0}), [Next]_vars
    PROVE  KnownCopies({0})'
<1>1. ASSUME KeepsCopies PROVE KnownCopies({0})'
  <2>1. 0 \in {0}
    OBVIOUS
  <2> QED BY <1>1, <2>1 DEF KeepsCopies
<1>2. CASE LaunchFirst \/ Launch \/ Killed \/ Reinstall
  BY <1>1, <1>2, LaunchCopies
<1>3. CASE Tap
  <2>1. CASE \E uid : LoginTap(uid)
    BY <1>1, <2>1, ReadBackCopies
  <2>2. CASE ~ \E uid : LoginTap(uid)
    <3>1. \/ \E n \in ListNames : NewListTap(n)
          \/ \E n \in ItemNames : AddItemTap(n)
          \/ \E i : DeleteListTap(i) \/ OpenListTap(i) \/ ToggleItemTap(i) \/ DeleteItemTap(i)
          \/ BackTap \/ LogoutTap \/ \E uid : RegisterTap(uid)
      BY <1>3, <2>2, Zenon DEF Tap
    <3> QED BY <1>1, <3>1, TapCopies
  <2> QED BY <2>1, <2>2
<1>4. ASSUME NEW k \in DOMAIN timers,
             SignedInTimer(k) \/ RegisteredTimer(k) \/ MergeTimer(k) \/ InviteTimer(k, << >>)
      PROVE  KnownCopies({0})'
  <2>1. CASE SignedInTimer(k)
    BY <1>1, <2>1, ReadBackCopies
  <2>2. CASE RegisteredTimer(k)
    BY <1>1, <2>2, RegisteredCopies
  <2>3. CASE MergeTimer(k)
    BY <1>1, <2>3, MergeCopies
  <2>4. CASE InviteTimer(k, << >>)
    <3>1. 0 \in {0} /\ << >> \in Seq(CopyLists({0}))
      OBVIOUS
    <3> QED BY <2>4, <3>1, InviteCopies
  <2> QED BY <1>4, <2>1, <2>2, <2>3, <2>4
<1>5. CASE ReadAnswer
  BY <1>1, <1>5, ReadAnswerCopies
<1>6. CASE \/ AuthAnswer \/ WriteArrives \/ UNCHANGED vars
           \/ \E uid \in Accounts, n \in ListNames : OtherDevice(uid, n)
  <2>1. UNCHANGED <<curLST, offlineLST, onlineLST>>
    BY <1>6 DEF AuthAnswer, SignInDone, CreateDone, ProfileDone, AuthFails, WriteArrives,
                OtherDevice, vars, sessionVars, localVars, memory, inFlight
  <2> QED BY <1>1, <2>1, SameCopies
<1> QED BY <1>2, <1>3, <1>4, <1>5, <1>6 DEF Next, Timer

\* The items a tap other than a deletion leaves in the opened list.
LEMMA ItemsGrow ==
    ASSUME NEW items \in Seq(Item)
    PROVE  /\ \A it \in Item, x \in Elements(items) :
                 \E y \in Elements(Append(items, it)) : y.itemName = x.itemName
           /\ \A ks : \A x \in Elements(items) :
                 \E y \in Elements(Toggled(items, ks)) : y.itemName = x.itemName
<1>1. ASSUME NEW it \in Item, NEW x \in Elements(items)
      PROVE  \E y \in Elements(Append(items, it)) : y.itemName = x.itemName
  <2>1. PICK i \in 1..Len(items) : x = items[i]
    BY ElementAt
  <2>2. i \in DOMAIN Append(items, it) /\ Append(items, it)[i] = x
    BY <2>1
  <2> QED BY <2>2 DEF Elements
<1>2. ASSUME NEW ks, NEW x \in Elements(items)
      PROVE  \E y \in Elements(Toggled(items, ks)) : y.itemName = x.itemName
  <2>1. PICK i \in DOMAIN items : x = items[i]
    BY DEF Elements
  <2>2. x \in Item
    BY ElementAt
  <2>3. /\ i \in DOMAIN Toggled(items, ks)
        /\ Toggled(items, ks)[i] = IF i \in ks THEN [x EXCEPT !.itemPuchased = ~ @] ELSE x
    BY <2>1 DEF Toggled
  <2>4. Toggled(items, ks)[i].itemName = x.itemName
    BY <2>2, <2>3 DEF Item
  <2> QED BY <2>3, <2>4 DEF Elements
<1> QED BY <1>1, <1>2

\* The opened list has these items now, and all lists are written.
LEMMA ItemsCover ==
    ASSUME StoreInv, DefaultInv, KnownCopies({0}), proc = "running", screen # Nil,
           curUser = defUid, screen.row \in DOMAIN curLST, NEW items \in Seq(Item),
           \A x \in Elements(curLST[screen.row].listItems) :
              \E y \in Elements(items) : y.itemName = x.itemName,
           dataPlist' = Archive(OwnLists(WithItems(curLST, screen.row, items), defUid))
    PROVE  Covers(Rows(dataPlist'), Rows(dataPlist))
<1> DEFINE lst == WithItems(curLST, screen.row, items)
<1>1. curLST # Nil
  BY OpenedItems
<1>2. curLST \in Seq(OwnedLists(defUid))
  BY <1>1, DefaultRunning
<1>3. screen.row \in 1..Len(curLST)
  BY <1>2
<1>4. curLST \in Seq(CopyLists({0}))
  BY <1>1 DEF KnownCopies, LocalCopies, Rows
<1>5. Covers(lst, curLST)
  BY <1>3, <1>4, WithItemsCovers
<1>6. lst \in Seq(OwnedLists(defUid))
  BY <1>2, <1>3, OwnersItemsFree, WithItemsType
<1> QED BY <1>1, <1>5, <1>6, WrittenCovers

\* The taps that delete nothing.
LEMMA TapLosesNothing ==
    ASSUME StoreInv, DefaultInv, KnownCopies({0}), KeepInv, userPlist = defUid, Tap,
           ~ Deletion
    PROVE  Covers(Rows(dataPlist'), Rows(dataPlist))
<1>1. ASSUME NEW n \in ListNames, NewListTap(n)
      PROVE  Covers(Rows(dataPlist'), Rows(dataPlist))
  <2> DEFINE new == NewList(n, curUser, << >>)
  <2>1. AddNewList(n)
    BY <1>1 DEF NewListTap
  <2>2. /\ proc = "running" /\ new \in OwnedLists(curUser)
        /\ WriteData(IF curLST = Nil THEN Nil ELSE Append(curLST, new), curUser)
    BY <2>1, AddedLists
  <2>3. curUser = defUid
    BY <2>2, StoreRunning
  <2> HIDE DEF new
  <2>4. CASE curLST = Nil
    BY <2>2, <2>4, NothingToCover DEF KeepInv
  <2>5. CASE curLST # Nil
    <3>1. curLST \in Seq(OwnedLists(defUid))
      BY <2>2, <2>3, <2>5, DefaultRunning
    <3>2. Append(curLST, new) \in Seq(OwnedLists(defUid))
      BY <2>2, <2>3, <3>1
    <3>3. curLST \in Seq(List) /\ new \in List
      BY <2>2, <3>1, OwnerSets, ListsArray
    <3>4. Covers(Append(curLST, new), curLST)
      BY <3>3, AppendCovers
    <3>5. dataPlist' = Archive(OwnLists(Append(curLST, new), defUid))
      BY <2>2, <2>3, <2>5 DEF WriteData
    <3> QED BY <2>2, <2>3, <2>5, <3>2, <3>4, <3>5, WrittenCovers
  <2> QED BY <2>4, <2>5
<1>2. ASSUME NEW n \in ItemNames, AddItemTap(n)
      PROVE  Covers(Rows(dataPlist'), Rows(dataPlist))
  <2>1. PICK refused : AddItem(n, refused)
    BY <1>2 DEF AddItemTap
  <2>2. proc = "running" /\ screen # Nil
    BY <2>1 DEF AddItem, OnItemScreen
  <2>3. curUser = defUid
    BY <2>2, StoreRunning
  <2>4. CASE screen.row \in DOMAIN curLST
    <3> DEFINE old == curLST[screen.row].listItems
               items == Append(old, NewItem(n))
    <3>1. old \in Seq(Item) /\ NewItem(n) \in Item
      BY <2>2, <2>4, OpenedItems DEF NewItem, Item
    <3>2. items \in Seq(Item)
      BY <3>1
    <3>3. \A x \in Elements(old) : \E y \in Elements(items) : y.itemName = x.itemName
      BY <3>1, ItemsGrow
    <3>4. dataPlist' = Archive(OwnLists(WithItems(curLST, screen.row, items), defUid))
      BY <2>1, <2>3, <2>4 DEF AddItem, WriteItems, WriteData, WriteDataThenRaise
    <3> HIDE DEF items
    <3> QED BY <2>2, <2>3, <2>4, <3>2, <3>3, <3>4, ItemsCover
  <2>5. CASE screen.row \notin DOMAIN curLST
    <3>1. dataPlist' = dataPlist
      BY <2>1, <2>5 DEF AddItem, Raise, disk
    <3> QED BY <3>1, CoversItself
  <2> QED BY <2>4, <2>5
<1>3. ASSUME NEW r, ToggleItemTap(r)
      PROVE  Covers(Rows(dataPlist'), Rows(dataPlist))
  <2>1. PICK refused : ToggleItem(r, refused)
    BY <1>3 DEF ToggleItemTap
  <2>2. proc = "running" /\ screen # Nil
    BY <2>1 DEF ToggleItem, OnItemScreen
  <2>3. curUser = defUid
    BY <2>2, StoreRunning
  <2>4. CASE ItemAt(r)
    <3> DEFINE old == curLST[screen.row].listItems
    <3>1. PICK ks : WriteItems(Toggled(old, ks), refused)
      BY <2>1, <2>4 DEF ToggleItem
    <3> DEFINE items == Toggled(old, ks)
    <3>2. screen.row \in DOMAIN curLST
      BY <2>4 DEF ItemAt
    <3>3. old \in Seq(Item)
      BY <2>2, <3>2, OpenedItems
    <3>4. items \in Seq(Item)
      BY <3>3, ToggledItemsType
    <3>5. \A x \in Elements(old) : \E y \in Elements(items) : y.itemName = x.itemName
      BY <3>3, ItemsGrow
    <3>6. dataPlist' = Archive(OwnLists(WithItems(curLST, screen.row, items), defUid))
      BY <2>3, <3>1 DEF WriteItems, WriteData, WriteDataThenRaise
    <3> HIDE DEF items
    <3> QED BY <2>2, <2>3, <3>2, <3>4, <3>5, <3>6, ItemsCover
  <2>5. CASE ~ ItemAt(r)
    <3>1. dataPlist' = dataPlist
      BY <2>1, <2>5 DEF ToggleItem, Raise, disk
    <3> QED BY <3>1, CoversItself
  <2> QED BY <2>4, <2>5
<1>4. CASE \/ BackTap \/ LogoutTap \/ \E i : OpenListTap(i)
           \/ \E uid : LoginTap(uid) \/ RegisterTap(uid)
  <2>1. dataPlist' = dataPlist
    BY <1>4 DEF BackTap, Back, LogoutTap, OpenListTap, OpenList, LoginTap, RegisterTap,
                Raise, localVars, disk
  <2> QED BY <2>1, CoversItself
<1> QED BY <1>1, <1>2, <1>3, <1>4 DEF Tap, Deletion

\* The merge.
LEMMA MergeLosesNothing ==
    ASSUME SessionInv, NamesInv, KeepInv, NEW k \in DOMAIN timers, MergeTimer(k)
    PROVE  Covers(Rows(dataPlist'), Rows(dataPlist))
<1>1. StoreInv /\ CloudTypeOK /\ proc = "running"
  BY DEF SessionInv, MergeTimer, Fires
<1>2. /\ curUser \in Uids /\ onlineLST \in Seq(List)
      /\ offlineLST \in Seq(List) \cup {Nil} /\ dataPlist \in Seq(List) \cup {Nil}
  BY <1>1, StoreRunning DEF CloudTypeOK, StoreInv, LocalTypeOK
<1>3. PICK later : \/ dataPlist' = dataPlist
                   \/ dataPlist' = Archive(OwnLists(MergeResult(later), curUser))
  BY DEF MergeTimer, WriteDataThenRaise, WriteData, Raise, disk
<1> DEFINE lst == MergeResult(later)
<1>4. /\ lst \in Seq(OwnedLists(curUser)) /\ lst \in Seq(UserLists(curUser))
      /\ lst \in Seq(List) /\ \A i \in DOMAIN lst : lst[i].mine
  BY <1>2, MergeResultType, MergeResultMine
<1>5. Covers(lst, Rows(offlineLST))
  BY <1>2, MergeCovers DEF NamesInv
<1>6. Covers(Rows(offlineLST), Rows(dataPlist))
  BY <1>1, <1>2, SameContentsCover DEF KeepInv
<1>7. CASE dataPlist' = dataPlist
  BY <1>7, CoversItself
<1>8. CASE dataPlist' = Archive(OwnLists(lst, curUser))
  <2> HIDE DEF lst
  <2>1. Contents(dataPlist') = Contents(lst)
    BY <1>2, <1>4, <1>8, MineWritten
  <2>2. dataPlist' \in Seq(List)
    <3>1. dataPlist' \in Seq(DecodedLists(curUser))
      BY <1>2, <1>4, <1>8, WrittenType
    <3> QED BY <3>1, OwnerSets, ListsArray
  <2>3. Rows(lst) = lst
    BY <1>4, OwnerSets, ListsArray
  <2>4. Covers(Rows(dataPlist'), lst)
    BY <1>4, <2>1, <2>2, <2>3, SameContentsCover
  <2> QED BY <1>5, <1>6, <2>4, CoversTransitive
<1> QED BY <1>3, <1>7, <1>8

\* Every step of a default user who deletes nothing.
LEMMA NothingLost ==
    ASSUME SessionInv, DefaultInv, NamesInv, KnownCopies({0}), KeepInv, [Next]_vars,
           userPlist = defUid, userPlist' = defUid, ~ Deletion
    PROVE  Covers(Rows(dataPlist'), Rows(dataPlist))
<1>1. StoreInv
  BY DEF SessionInv
<1>2. CASE LaunchFirst \/ Launch \/ Killed \/ Reinstall
  <2>1. dataPlist' = dataPlist
    BY <1>2, NilAssumption DEF LaunchFirst, FirstRun, FirstRunKilled, Launch, Relaunch,
                               Killed, Kill, Reinstall, disk
  <2> QED BY <2>1, CoversItself
<1>3. CASE Tap
  BY <1>1, <1>3, TapLosesNothing
<1>4. ASSUME NEW k \in DOMAIN timers,
             SignedInTimer(k) \/ RegisteredTimer(k) \/ MergeTimer(k) \/ InviteTimer(k, << >>)
      PROVE  Covers(Rows(dataPlist'), Rows(dataPlist))
  <2>1. CASE MergeTimer(k)
    BY <2>1, MergeLosesNothing
  <2>2. CASE SignedInTimer(k) \/ RegisteredTimer(k) \/ InviteTimer(k, << >>)
    <3>1. dataPlist' = dataPlist
      BY <2>2 DEF SignedInTimer, RegisteredTimer, InviteTimer, disk
    <3> QED BY <3>1, CoversItself
  <2> QED BY <1>4, <2>1, <2>2
<1>5. CASE \/ AuthAnswer \/ ReadAnswer \/ WriteArrives \/ UNCHANGED vars
           \/ \E uid \in Accounts, n \in ListNames : OtherDevice(uid, n)
  <2>1. dataPlist' = dataPlist
    BY <1>5 DEF AuthAnswer, SignInDone, CreateDone, ProfileDone, AuthFails, ReadAnswer,
                WriteArrives, OtherDevice, vars, localVars, disk
  <2> QED BY <2>1, CoversItself
<1> QED BY <1>2, <1>3, <1>4, <1>5 DEF Next, Timer

\* At the beginning there is nothing to lose.
LEMMA KeepInit == Init => KeepInv /\ KnownCopies({0})
<1> SUFFICES ASSUME Init PROVE KeepInv /\ KnownCopies({0})
  OBVIOUS
<1>1. proc = "off" /\ offlineLST = Nil /\ curLST = << >> /\ onlineLST = << >>
  BY DEF Init, LocalInit
<1>2. Rows(offlineLST) = << >> /\ Rows(curLST) = << >> /\ << >> \in Seq(CopyLists({0}))
  BY <1>1 DEF Rows
<1> QED BY <1>1, <1>2 DEF KeepInv, KnownCopies, LocalCopies

(***************************************************************************)
(* When the user gives no two lists the same name, no list and no item     *)
(* disappears from the default user's data.plist unless he deletes it:     *)
(* not by the merge of readData, whatever the cloud had answered by then   *)
(* and for whom, nor by a write of curLST from whatever state the timers,  *)
(* answers, exceptions and kills before it have left.                      *)
(***************************************************************************)
THEOREM DefaultUserKeepsEverything ==
    ASSUME DuplicateNames = FALSE
    PROVE  Spec => DefaultUserLosesNothing
<1> DEFINE Inv == SessionInv /\ DefaultInv /\ NamesInv /\ KeepInv /\ KnownCopies({0})
           NoLoss == userPlist = defUid /\ userPlist' = defUid /\ ~ Deletion =>
                       \A n \in Names(Rows(dataPlist)) :
                          /\ n \in Names(Rows(dataPlist'))
                          /\ ItemNamesUnder(n, Rows(dataPlist))
                                \subseteq ItemNamesUnder(n, Rows(dataPlist'))
<1>1. Init => Inv
  BY SessionInit, NamesInit, KeepInit
<1>2. Inv /\ [Next]_vars => Inv'
  BY SessionStep, NamesStep, KeepStep, NoCopiesStep DEF KeepsDefault
<1>3. Inv /\ [Next]_vars => [NoLoss]_vars
  BY NothingLost DEF Covers
<1> QED BY <1>1, <1>2, <1>3, PTL DEF Spec, DefaultUserLosesNothing

=============================================================================

--------------------------- MODULE SharingProofs ----------------------------
(***************************************************************************)
(* Shared lists, for every set of names and accounts and every bound:      *)
(* SharingInv is an invariant, and with it the type invariant,             *)
(* OnlySharedListsShown, and OneOwnerOnDisk with invited lists on the      *)
(* screen; no step breaks InvitationsStay or SharedEditsReachOwner.        *)
(*                                                                         *)
(* The handlers of AppSession keep SessionInv as AppSessionProofs shows.   *)
(* What is added here: an account's entry below Users is written once, and *)
(* only where there is none; the history variables have recorded every     *)
(* invitation and every user of the phone; and a list on the screen that   *)
(* is a copy is one FetchInvitationList has made from an invitation read   *)
(* for one of these users.                                                 *)
(***************************************************************************)
EXTENDS Sharing, AppSessionProofs, FunctionTheorems

-----------------------------------------------------------------------------
(* The Users node.                                                         *)

\* One write.
LEMMA ApplyUserIs ==
    ASSUME NEW us \in UsersNode, NEW w \in UserWrite
    PROVE  /\ ApplyUser(us, w) \in UsersNode
           /\ w.uid \in Uids
           /\ \A u \in Uids : u # w.uid => ApplyUser(us, w)[u] = us[u]
           /\ w.kind = "entry" => w = PutEntry(w.uid)
           /\ w.kind # "entry" /\ us[w.uid] = Nil => ApplyUser(us, w)[w.uid] = Nil
           /\ w.kind # "entry" /\ us[w.uid] # Nil =>
                /\ ApplyUser(us, w)[w.uid] # Nil
                /\ us[w.uid] \ (IF w.kind = "remove" THEN {w.inv} ELSE {})
                     \subseteq ApplyUser(us, w)[w.uid]
<1> DEFINE old == us[w.uid]
           new == CASE w.kind = "entry"  -> {}
                    [] w.kind = "put"    -> IF old = Nil THEN Nil ELSE old \cup {w.inv}
                    [] w.kind = "remove" -> IF old = Nil THEN Nil ELSE old \ {w.inv}
<1>1. /\ w.uid \in Uids /\ w.kind \in {"entry", "put", "remove"}
      /\ w.kind = "entry" => w.inv = Nil
      /\ w.kind \in {"put", "remove"} => w.inv \in Invitation
  BY DEF UserWrite
<1>2. us \in [Uids -> (SUBSET Invitation) \cup {Nil}]
  BY DEF UsersNode
<1>3. ApplyUser(us, w) = [us EXCEPT ![w.uid] = new]
  BY DEF ApplyUser
<1>4. old \in (SUBSET Invitation) \cup {Nil}
  BY <1>1, <1>2
<1>5. /\ w.kind = "entry" => new = {}
      /\ w.kind # "entry" /\ old = Nil => new = Nil
      /\ w.kind = "put" /\ old # Nil => new = old \cup {w.inv}
      /\ w.kind = "remove" /\ old # Nil => new = old \ {w.inv}
  BY <1>1
<1> HIDE DEF new
<1>6. new = Nil \/ new \in SUBSET Invitation
  BY <1>1, <1>4, <1>5
<1>7. w.kind # "entry" /\ old # Nil =>
        /\ new # Nil
        /\ old \ (IF w.kind = "remove" THEN {w.inv} ELSE {}) \subseteq new
  <2>1. w.kind # "entry" /\ old # Nil => new \in SUBSET Invitation
    BY <1>1, <1>4, <1>5
  <2> QED BY <1>1, <1>5, <2>1, UsersAssumption
<1> HIDE DEF old
<1>8. /\ ApplyUser(us, w) \in [Uids -> (SUBSET Invitation) \cup {Nil}]
      /\ ApplyUser(us, w)[w.uid] = new
      /\ \A u \in Uids : u # w.uid => ApplyUser(us, w)[u] = us[u]
  BY <1>1, <1>2, <1>3, <1>6
<1>9. ApplyUser(us, w) \in UsersNode
  BY <1>8 DEF UsersNode
<1>10. w.kind = "entry" => w = PutEntry(w.uid)
  BY <1>1 DEF UserWrite, PutEntry
<1> QED BY <1>1, <1>5, <1>7, <1>8, <1>9, <1>10 DEF old

\* The body of ApplyUsers' recursion, with the function as a parameter.
UsersAfter(us, ws, F, i) == IF i = 0 THEN us ELSE ApplyUser(F[i - 1], ws[i])

\* The recursion of ApplyUsers has a solution over every initial segment.
LEMMA UsersExist ==
    ASSUME NEW us, NEW ws
    PROVE  \A n \in Nat : \E F : F = [i \in 0..n |-> UsersAfter(us, ws, F, i)]
<1> DEFINE T == {n \in Nat : \E F : F = [i \in 0..n |-> UsersAfter(us, ws, F, i)]}
<1>1. 0 \in T
  <2> DEFINE G == [i \in 0..0 |-> us]
  <2>1. G = [i \in 0..0 |-> UsersAfter(us, ws, G, i)]
    BY DEF UsersAfter
  <2> QED BY <2>1
<1>2. \A n \in T : n + 1 \in T
  <2> SUFFICES ASSUME NEW n \in Nat, NEW F,
                      F = [i \in 0..n |-> UsersAfter(us, ws, F, i)]
               PROVE  \E G : G = [i \in 0..(n + 1) |-> UsersAfter(us, ws, G, i)]
    OBVIOUS
  <2> DEFINE G == [i \in 0..(n + 1) |->
                     IF i = n + 1 THEN UsersAfter(us, ws, F, i) ELSE F[i]]
  <2>1. ASSUME NEW i \in 0..(n + 1) PROVE G[i] = UsersAfter(us, ws, G, i)
    <3>1. CASE i = 0
      BY <3>1 DEF UsersAfter
    <3>2. CASE i \in 1..n
      <4>1. G[i - 1] = F[i - 1] /\ G[i] = F[i]
        BY <3>2
      <4>2. F[i] = UsersAfter(us, ws, F, i)
        BY <3>2
      <4> QED BY <4>1, <4>2, <3>2 DEF UsersAfter
    <3>3. CASE i = n + 1
      <4>1. G[i - 1] = F[i - 1]
        BY <3>3
      <4> QED BY <4>1, <3>3 DEF UsersAfter
    <3> QED BY <3>1, <3>2, <3>3
  <2>2. G = [i \in 0..(n + 1) |-> UsersAfter(us, ws, G, i)]
    BY <2>1
  <2> QED BY <2>2
<1> HIDE DEF T
<1>3. T = Nat
  BY <1>1, <1>2, NatSet DEF T
<1> QED BY <1>3 DEF T

\* F makes one more of the writes at each step.
UsersRun(us, ws, F) ==
    /\ F[0] = us
    /\ \A n \in Nat : n + 1 <= Len(ws) => F[n + 1] = ApplyUser(F[n], ws[n + 1])

LEMMA UsersUnfold ==
    ASSUME NEW us, NEW ws \in Seq(UserWrite)
    PROVE  \E F : UsersRun(us, ws, F) /\ ApplyUsers(us, ws) = F[Len(ws)]
<1> DEFINE F == CHOOSE G : G = [i \in 0..Len(ws) |-> UsersAfter(us, ws, G, i)]
<1>1. F = [i \in 0..Len(ws) |-> UsersAfter(us, ws, F, i)]
  BY UsersExist
<1>2. ApplyUsers(us, ws) = F[Len(ws)]
  BY DEF ApplyUsers, UsersAfter
<1> HIDE DEF F
<1>3. \A i \in 0..Len(ws) : F[i] = UsersAfter(us, ws, F, i)
  BY <1>1
<1>4. F[0] = us
  BY <1>3 DEF UsersAfter
<1>5. ASSUME NEW n \in Nat, n + 1 <= Len(ws)
      PROVE  F[n + 1] = ApplyUser(F[n], ws[n + 1])
  <2>1. n + 1 \in 0..Len(ws) /\ n + 1 # 0 /\ n + 1 - 1 = n
    BY <1>5
  <2>2. F[n + 1] = UsersAfter(us, ws, F, n + 1)
    BY <1>3, <2>1
  <2> QED BY <2>1, <2>2 DEF UsersAfter
<1> QED BY <1>2, <1>4, <1>5 DEF UsersRun

\* Whatever makes one write at each step computes ApplyUsers.
LEMMA UsersRunIs ==
    ASSUME NEW us, NEW ws \in Seq(UserWrite), NEW G, UsersRun(us, ws, G)
    PROVE  ApplyUsers(us, ws) = G[Len(ws)]
<1>1. PICK F : UsersRun(us, ws, F) /\ ApplyUsers(us, ws) = F[Len(ws)]
  BY UsersUnfold
<1> DEFINE T == {n \in Nat : n <= Len(ws) => F[n] = G[n]}
<1>2. 0 \in T
  BY <1>1 DEF UsersRun
<1>3. \A n \in T : n + 1 \in T
  <2> SUFFICES ASSUME NEW n \in Nat, n + 1 <= Len(ws), F[n] = G[n]
               PROVE  F[n + 1] = G[n + 1]
    OBVIOUS
  <2> QED BY <1>1 DEF UsersRun
<1> HIDE DEF T
<1>4. T = Nat
  BY <1>2, <1>3, NatSet DEF T
<1> QED BY <1>1, <1>4 DEF T

\* Any number of writes.
LEMMA ApplyUsersType ==
    ASSUME NEW us \in UsersNode, NEW ws \in Seq(UserWrite)
    PROVE  ApplyUsers(us, ws) \in UsersNode
<1>1. PICK F : UsersRun(us, ws, F) /\ ApplyUsers(us, ws) = F[Len(ws)]
  BY UsersUnfold
<1> DEFINE T == {n \in Nat : n <= Len(ws) => F[n] \in UsersNode}
<1>2. 0 \in T
  BY <1>1 DEF UsersRun
<1>3. \A n \in T : n + 1 \in T
  <2> SUFFICES ASSUME NEW n \in Nat, n + 1 <= Len(ws), F[n] \in UsersNode
               PROVE  F[n + 1] \in UsersNode
    OBVIOUS
  <2>1. F[n + 1] = ApplyUser(F[n], ws[n + 1]) /\ ws[n + 1] \in UserWrite
    BY <1>1 DEF UsersRun
  <2> QED BY <2>1, ApplyUserIs
<1> HIDE DEF T
<1>4. T = Nat
  BY <1>2, <1>3, NatSet DEF T
<1> QED BY <1>1, <1>4 DEF T

\* Without a write of his entry an unregistered user stays one.
LEMMA UnregisteredStays ==
    ASSUME NEW us \in UsersNode, NEW ws \in Seq(UserWrite), NEW uid \in Uids,
           us[uid] = Nil, \A k \in 1..Len(ws) : ws[k] # PutEntry(uid)
    PROVE  ApplyUsers(us, ws)[uid] = Nil
<1>1. PICK F : UsersRun(us, ws, F) /\ ApplyUsers(us, ws) = F[Len(ws)]
  BY UsersUnfold
<1> DEFINE T == {n \in Nat : n <= Len(ws) => F[n] \in UsersNode /\ F[n][uid] = Nil}
<1>2. 0 \in T
  BY <1>1 DEF UsersRun
<1>3. \A n \in T : n + 1 \in T
  <2> SUFFICES ASSUME NEW n \in Nat, n + 1 <= Len(ws), F[n] \in UsersNode, F[n][uid] = Nil
               PROVE  F[n + 1] \in UsersNode /\ F[n + 1][uid] = Nil
    OBVIOUS
  <2> DEFINE w == ws[n + 1]
  <2>1. F[n + 1] = ApplyUser(F[n], w) /\ w \in UserWrite /\ w # PutEntry(uid)
    BY <1>1 DEF UsersRun
  <2> DEFINE f == F[n]
  <2> HIDE DEF w, f
  <2>2. /\ ApplyUser(f, w) \in UsersNode
        /\ w.uid # uid => ApplyUser(f, w)[uid] = f[uid]
        /\ w.kind = "entry" => w = PutEntry(w.uid)
        /\ w.kind # "entry" /\ f[w.uid] = Nil => ApplyUser(f, w)[w.uid] = Nil
    <3>1. f \in UsersNode /\ w \in UserWrite
      BY <2>1 DEF f
    <3> QED BY <3>1, ApplyUserIs
  <2>3. CASE w.uid # uid
    BY <2>1, <2>3, <2>2 DEF f
  <2>4. CASE w.uid = uid
    BY <2>1, <2>4, <2>2 DEF f
  <2> QED BY <2>3, <2>4
<1> HIDE DEF T
<1>4. T = Nat
  BY <1>2, <1>3, NatSet DEF T
<1> QED BY <1>1, <1>4 DEF T

\* One more write.
LEMMA ApplyUsersAppend ==
    ASSUME NEW us, NEW ws \in Seq(UserWrite), NEW w \in UserWrite
    PROVE  ApplyUsers(us, Append(ws, w)) = ApplyUser(ApplyUsers(us, ws), w)
<1> DEFINE all == Append(ws, w)
<1>1. /\ all \in Seq(UserWrite) /\ Len(all) = Len(ws) + 1 /\ Len(ws) \in Nat
      /\ all[Len(ws) + 1] = w /\ \A i \in 1..Len(ws) : all[i] = ws[i]
  OBVIOUS
<1> HIDE DEF all
<1>2. PICK F : UsersRun(us, all, F) /\ ApplyUsers(us, all) = F[Len(all)]
  BY <1>1, UsersUnfold
<1>3. UsersRun(us, ws, F)
  BY <1>1, <1>2 DEF UsersRun
<1>4. ApplyUsers(us, ws) = F[Len(ws)]
  BY <1>3, UsersRunIs
<1>5. F[Len(ws) + 1] = ApplyUser(F[Len(ws)], w)
  BY <1>1, <1>2 DEF UsersRun
<1> QED BY <1>1, <1>2, <1>4, <1>5 DEF all

\* The oldest write reaches the server: the process sees no difference.
LEMMA ApplyUsersHead ==
    ASSUME NEW us, NEW ws \in Seq(UserWrite), ws # << >>
    PROVE  ApplyUsers(ApplyUser(us, Head(ws)), Tail(ws)) = ApplyUsers(us, ws)
<1> DEFINE t == Tail(ws)
           first == ApplyUser(us, Head(ws))
<1>1. /\ t \in Seq(UserWrite) /\ Len(ws) = Len(t) + 1 /\ Len(t) \in Nat
      /\ Head(ws) = ws[1] /\ \A i \in 1..Len(t) : t[i] = ws[i + 1]
  OBVIOUS
<1>2. PICK F : UsersRun(us, ws, F) /\ ApplyUsers(us, ws) = F[Len(ws)]
  BY UsersUnfold
<1> DEFINE G == [n \in Nat |-> F[n + 1]]
<1>3. G[0] = first
  <2>1. F[0 + 1] = ApplyUser(F[0], ws[0 + 1]) /\ F[0] = us
    BY <1>1, <1>2 DEF UsersRun
  <2> QED BY <1>1, <2>1
<1>4. ASSUME NEW n \in Nat, n + 1 <= Len(t) PROVE G[n + 1] = ApplyUser(G[n], t[n + 1])
  <2>1. n + 1 \in Nat /\ (n + 1) + 1 <= Len(ws) /\ t[n + 1] = ws[(n + 1) + 1]
    BY <1>1, <1>4
  <2>2. F[(n + 1) + 1] = ApplyUser(F[n + 1], ws[(n + 1) + 1])
    BY <1>2, <2>1 DEF UsersRun
  <2> HIDE DEF t
  <2> QED BY <2>1, <2>2
<1>5. G[Len(t)] = F[Len(ws)]
  BY <1>1
<1> HIDE DEF t, first, G
<1>6. UsersRun(first, t, G)
  BY <1>3, <1>4 DEF UsersRun
<1>7. ApplyUsers(first, t) = G[Len(t)]
  BY <1>1, <1>6, UsersRunIs
<1> QED BY <1>2, <1>5, <1>7 DEF t, first

-----------------------------------------------------------------------------
(* Invitations stay.                                                       *)

\* The write that RemoveInvitation makes, or would make for this user.
Removal(u, inv) == [kind |-> "remove", uid |-> u, inv |-> inv]

\* Any write but that one and one of the user's entry.
LEMMA OneWriteStays ==
    ASSUME NEW f \in UsersNode, NEW w \in UserWrite, NEW u \in Uids, NEW inv,
           f[u] # Nil, inv \in f[u], w # PutEntry(u), w # Removal(u, inv)
    PROVE  /\ ApplyUser(f, w) \in UsersNode
           /\ ApplyUser(f, w)[u] # Nil /\ inv \in ApplyUser(f, w)[u]
<1>1. /\ ApplyUser(f, w) \in UsersNode /\ w.uid \in Uids
      /\ w.uid # u => ApplyUser(f, w)[u] = f[u]
      /\ w.kind = "entry" => w = PutEntry(w.uid)
      /\ w.kind # "entry" /\ f[w.uid] # Nil =>
           /\ ApplyUser(f, w)[w.uid] # Nil
           /\ f[w.uid] \ (IF w.kind = "remove" THEN {w.inv} ELSE {})
                \subseteq ApplyUser(f, w)[w.uid]
  BY ApplyUserIs
<1>2. CASE w.uid # u
  BY <1>1, <1>2
<1>3. CASE w.uid = u
  <2>1. w.kind # "entry"
    BY <1>1, <1>3
  <2>2. w.kind = "remove" => w.inv # inv
    <3>1. w.kind = "remove" => w = [kind |-> "remove", uid |-> w.uid, inv |-> w.inv]
      BY DEF UserWrite
    <3> QED BY <1>3, <3>1 DEF Removal
  <2> QED BY <1>1, <1>3, <2>1, <2>2
<1> QED BY <1>2, <1>3

\* Any number of such writes.
LEMMA InvitationStays ==
    ASSUME NEW us \in UsersNode, NEW ws \in Seq(UserWrite), NEW u \in Uids, NEW inv,
           us[u] # Nil, inv \in us[u],
           \A k \in 1..Len(ws) : ws[k] # PutEntry(u) /\ ws[k] # Removal(u, inv)
    PROVE  ApplyUsers(us, ws)[u] # Nil /\ inv \in ApplyUsers(us, ws)[u]
<1>1. PICK F : UsersRun(us, ws, F) /\ ApplyUsers(us, ws) = F[Len(ws)]
  BY UsersUnfold
<1> DEFINE P(n) == F[n] \in UsersNode /\ F[n][u] # Nil /\ inv \in F[n][u]
           T == {n \in Nat : n <= Len(ws) => P(n)}
<1>2. 0 \in T
  BY <1>1 DEF UsersRun
<1>3. \A n \in T : n + 1 \in T
  <2> HIDE DEF P
  <2> SUFFICES ASSUME NEW n \in Nat, n + 1 <= Len(ws), P(n)
               PROVE  P(n + 1)
    <3>1. Len(ws) \in Nat
      OBVIOUS
    <3> QED BY <3>1
  <2> USE DEF P
  <2> DEFINE w == ws[n + 1]
             f == F[n]
  <2>1. /\ F[n + 1] = ApplyUser(f, w) /\ w \in UserWrite
        /\ w # PutEntry(u) /\ w # Removal(u, inv)
    BY <1>1 DEF UsersRun
  <2>2. f \in UsersNode /\ f[u] # Nil /\ inv \in f[u]
    OBVIOUS
  <2> HIDE DEF w, f
  <2> QED BY <2>1, <2>2, OneWriteStays
<1> HIDE DEF T
<1>4. T = Nat
  BY <1>2, <1>3, NatSet DEF T
<1> QED BY <1>1, <1>4 DEF T

\* What was shared stays shared.
LEMMA SharedStays ==
    ASSUME Recorded, NEW inv, Shared(inv)
    PROVE  Shared(inv)'
BY DEF Shared, Recorded

-----------------------------------------------------------------------------
(* What a sequence holds at most once.                                     *)

LEMMA OnceAppend ==
    ASSUME NEW S, NEW s \in Seq(S), NEW e \in S
    PROVE  /\ Elements(Append(s, e)) = Elements(s) \cup {e}
           /\ \A x : Once(s, x) /\ (e # x \/ x \notin Elements(s)) => Once(Append(s, e), x)
<1> DEFINE new == Append(s, e)
<1>1. /\ DOMAIN new = 1..(Len(s) + 1) /\ Len(s) \in Nat
      /\ DOMAIN s = 1..Len(s) /\ new[Len(s) + 1] = e
      /\ \A k \in 1..Len(s) : new[k] = s[k]
  OBVIOUS
<1> HIDE DEF new
<1>2. Elements(new) = Elements(s) \cup {e}
  BY <1>1 DEF Elements
<1>3. ASSUME NEW x, Once(s, x), e # x \/ x \notin Elements(s),
             NEW j \in DOMAIN new, NEW k \in DOMAIN new, new[j] = x, new[k] = x
      PROVE  j = k
  <2>1. x \notin Elements(s) => j \notin DOMAIN s /\ k \notin DOMAIN s
    BY <1>1, <1>3 DEF Elements
  <2>2. e # x => j \in DOMAIN s /\ k \in DOMAIN s
    BY <1>1, <1>3
  <2>3. j \in DOMAIN s /\ k \in DOMAIN s => j = k
    BY <1>1, <1>3 DEF Once
  <2> QED BY <1>1, <1>3, <2>1, <2>2, <2>3
<1>4. \A x : Once(s, x) /\ (e # x \/ x \notin Elements(s)) => Once(new, x)
  BY <1>3 DEF Once
<1> QED BY <1>2, <1>4 DEF new

LEMMA OnceWithout ==
    ASSUME NEW S, NEW s \in Seq(S), NEW k \in DOMAIN s
    PROVE  /\ Elements(Without(s, k)) \subseteq Elements(s)
           /\ \A x : Once(s, x) => Once(Without(s, k), x)
           /\ Once(s, s[k]) => s[k] \notin Elements(Without(s, k))
<1> DEFINE new == Without(s, k)
           at(j) == IF j < k THEN j ELSE j + 1
<1>1. DOMAIN s = 1..Len(s) /\ Len(s) \in Nat /\ k \in 1..Len(s)
  OBVIOUS
<1>2. new = [j \in 1..(Len(s) - 1) |-> IF j < k THEN s[j] ELSE s[j + 1]]
  BY DEF Without
<1>3. /\ DOMAIN new = 1..(Len(s) - 1)
      /\ \A j \in DOMAIN new : new[j] = s[at(j)]
  BY <1>2
<1>4. /\ \A j \in 1..(Len(s) - 1) : at(j) \in 1..Len(s) /\ at(j) # k
      /\ \A i, j \in 1..(Len(s) - 1) : at(i) = at(j) => i = j
  BY <1>1
<1> HIDE DEF new, at
<1>5. \A j \in DOMAIN new : at(j) \in DOMAIN s /\ at(j) # k /\ new[j] = s[at(j)]
  BY <1>1, <1>3, <1>4
<1>6. Elements(new) \subseteq Elements(s)
  BY <1>5 DEF Elements
<1>7. ASSUME NEW x, Once(s, x) PROVE Once(new, x)
  <2> SUFFICES ASSUME NEW i \in DOMAIN new, NEW j \in DOMAIN new, new[i] = x, new[j] = x
               PROVE  i = j
    BY DEF Once
  <2>1. at(i) = at(j)
    BY <1>5, <1>7 DEF Once
  <2> QED BY <1>3, <1>4, <2>1
<1>8. ASSUME Once(s, s[k]), s[k] \in Elements(new) PROVE FALSE
  <2>1. PICK j \in DOMAIN new : new[j] = s[k]
    BY <1>8 DEF Elements
  <2> QED BY <1>5, <1>8, <2>1 DEF Once
<1> QED BY <1>6, <1>7, <1>8 DEF new

LEMMA OnceTail ==
    ASSUME NEW S, NEW s \in Seq(S), s # << >>
    PROVE  /\ Elements(Tail(s)) \subseteq Elements(s)
           /\ \A x : Once(s, x) => Once(Tail(s), x)
           /\ Once(s, Head(s)) => Head(s) \notin Elements(Tail(s))
<1> DEFINE t == Tail(s)
<1>1. /\ Len(s) \in Nat /\ Len(s) > 0 /\ DOMAIN s = 1..Len(s) /\ Head(s) = s[1]
      /\ DOMAIN t = 1..(Len(s) - 1) /\ \A i \in DOMAIN t : t[i] = s[i + 1]
  OBVIOUS
<1> HIDE DEF t
<1>2. Elements(t) \subseteq Elements(s)
  BY <1>1 DEF Elements
<1>3. ASSUME NEW x, Once(s, x), NEW i \in DOMAIN t, NEW j \in DOMAIN t, t[i] = x, t[j] = x
      PROVE  i = j
  <2>1. i + 1 \in DOMAIN s /\ j + 1 \in DOMAIN s /\ s[i + 1] = x /\ s[j + 1] = x
    BY <1>1, <1>3
  <2>2. i + 1 = j + 1
    BY <1>3, <2>1 DEF Once
  <2> QED BY <1>1, <2>2
<1>4. ASSUME Once(s, s[1]), s[1] \in Elements(t) PROVE FALSE
  <2>1. PICK j \in DOMAIN t : t[j] = s[1]
    BY <1>4 DEF Elements
  <2>2. j + 1 \in DOMAIN s /\ s[j + 1] = s[1] /\ 1 \in DOMAIN s
    BY <1>1, <2>1
  <2>3. j + 1 = 1
    BY <1>4, <2>2 DEF Once
  <2> QED BY <1>1, <2>3
<1> QED BY <1>1, <1>2, <1>3, <1>4 DEF t, Once

-----------------------------------------------------------------------------
(* What a step does to the Users node and the writes to it.                *)

UsersTypeOK == users \in UsersNode /\ usersPending \in Seq(UserWrite)

\* An entry is on its way once, and only to a server that has none.
EntryOnce(uid) ==
    /\ Once(usersPending, PutEntry(uid))
    /\ PutEntry(uid) \in Elements(usersPending) => users[uid] = Nil

\* The entries that a step may bring about: none but that of uid.
KeepsEntries ==
    \A uid \in Uids : (NoEntry(uid) => NoEntry(uid)') /\ (EntryOnce(uid) => EntryOnce(uid)')

LEMMA NoEntryIs ==
    ASSUME NEW uid, NoEntry(uid)
    PROVE  PutEntry(uid) \notin Elements(usersPending) /\ EntryOnce(uid)
BY DEF NoEntry, EntryOnce, Elements, Once

\* The first of some writes.
LEMMA FirstWrites ==
    ASSUME NEW ws \in Seq(UserWrite), NEW k \in 0..Len(ws)
    PROVE  /\ SubSeq(ws, 1, k) \in Seq(UserWrite) /\ Len(SubSeq(ws, 1, k)) = k
           /\ \A i \in 1..k : i \in 1..Len(ws) /\ SubSeq(ws, 1, k)[i] = ws[i]
OBVIOUS

\* A handler that makes no writes, or one, and goes on or ends.
LEMMA IssueUsersIs ==
    ASSUME UsersTypeOK, NEW ws, IssueUsers(ws),
           ws = << >> \/ \E w \in UserWrite : ws = <<w>>
    PROVE  \E all \in Seq(UserWrite) :
             /\ \/ ws = << >> /\ all = usersPending
                \/ \E w \in UserWrite : ws = <<w>> /\ all = Append(usersPending, w)
             /\ proc' = "running" => usersPending' = all /\ users' = users
             /\ proc' # "running" =>
                  /\ usersPending' = << >>
                  /\ \E k \in 0..Len(all) : users' = ApplyUsers(users, SubSeq(all, 1, k))
<1> DEFINE all == usersPending \o ws
<1>1. ws \in Seq(UserWrite)
  <2>1. ASSUME NEW w \in UserWrite PROVE <<w>> \in Seq(UserWrite)
    OBVIOUS
  <2>2. << >> \in Seq(UserWrite)
    OBVIOUS
  <2> QED BY <2>1, <2>2
<1>2. all \in Seq(UserWrite)
  BY <1>1, ConcatFacts DEF UsersTypeOK
<1>3. \/ ws = << >> /\ all = usersPending
      \/ \E w \in UserWrite : ws = <<w>> /\ all = Append(usersPending, w)
  <2>1. CASE ws = << >>
    BY <2>1 DEF UsersTypeOK
  <2>2. ASSUME NEW w \in UserWrite, ws = <<w>> PROVE all = Append(usersPending, w)
    BY <2>2 DEF UsersTypeOK
  <2> QED BY <2>1, <2>2
<1>4. /\ proc' = "running" => usersPending' = all /\ users' = users
      /\ proc' # "running" =>
           usersPending' = << >> /\ \E k \in 0..Len(all) : users' = ApplyUsers(users, SubSeq(all, 1, k))
  BY DEF IssueUsers
<1> HIDE DEF all
<1> QED BY <1>2, <1>3, <1>4

LEMMA IssueUsersStep ==
    ASSUME UsersTypeOK, NEW ws, IssueUsers(ws),
           ws = << >> \/ \E w \in UserWrite : ws = <<w>>
    PROVE  /\ UsersTypeOK'
           /\ \A uid \in Uids :
                 /\ NoEntry(uid) /\ ws # <<PutEntry(uid)>> => NoEntry(uid)'
                 /\ EntryOnce(uid) /\ (ws = <<PutEntry(uid)>> => NoEntry(uid)) => EntryOnce(uid)'
<1>1. PICK all \in Seq(UserWrite) :
        /\ \/ ws = << >> /\ all = usersPending
           \/ \E w \in UserWrite : ws = <<w>> /\ all = Append(usersPending, w)
        /\ proc' = "running" => usersPending' = all /\ users' = users
        /\ proc' # "running" =>
             /\ usersPending' = << >>
             /\ \E k \in 0..Len(all) : users' = ApplyUsers(users, SubSeq(all, 1, k))
  BY IssueUsersIs
<1>5. UsersTypeOK'
  <2>1. CASE proc' = "running"
    BY <1>1, <2>1 DEF UsersTypeOK
  <2>2. CASE proc' # "running"
    <3>1. PICK k \in 0..Len(all) : users' = ApplyUsers(users, SubSeq(all, 1, k))
      BY <1>1, <2>2
    <3>2. SubSeq(all, 1, k) \in Seq(UserWrite)
      BY FirstWrites
    <3>3. users' \in UsersNode
      BY <3>1, <3>2, ApplyUsersType DEF UsersTypeOK
    <3> QED BY <1>1, <2>2, <3>3 DEF UsersTypeOK
  <2> QED BY <2>1, <2>2
<1>6. ASSUME NEW uid \in Uids, NoEntry(uid), ws # <<PutEntry(uid)>>
      PROVE  NoEntry(uid)'
  <2>1. \A k \in 1..Len(all) : all[k] # PutEntry(uid)
    <3>1. CASE ws = << >> /\ all = usersPending
      BY <1>6, <3>1 DEF NoEntry, UsersTypeOK
    <3>2. ASSUME NEW w \in UserWrite, ws = <<w>>, all = Append(usersPending, w)
          PROVE  \A k \in 1..Len(all) : all[k] # PutEntry(uid)
      <4>1. w # PutEntry(uid)
        BY <1>6, <3>2
      <4>2. /\ DOMAIN usersPending = 1..Len(usersPending) /\ Len(usersPending) \in Nat
            /\ Len(all) = Len(usersPending) + 1 /\ all[Len(usersPending) + 1] = w
            /\ \A k \in 1..Len(usersPending) : all[k] = usersPending[k]
        BY <3>2 DEF UsersTypeOK
      <4> QED BY <1>6, <4>1, <4>2 DEF NoEntry
    <3> QED BY <1>1, <3>1, <3>2
  <2>2. CASE proc' = "running"
    <3>1. DOMAIN all = 1..Len(all)
      OBVIOUS
    <3> QED BY <1>1, <1>6, <2>1, <2>2, <3>1 DEF NoEntry
  <2>3. CASE proc' # "running"
    <3>1. PICK k \in 0..Len(all) : users' = ApplyUsers(users, SubSeq(all, 1, k))
      BY <1>1, <2>3
    <3> DEFINE sub == SubSeq(all, 1, k)
    <3>2. sub \in Seq(UserWrite) /\ \A i \in 1..Len(sub) : sub[i] # PutEntry(uid)
      BY <2>1, FirstWrites
    <3> HIDE DEF sub
    <3>3. ApplyUsers(users, sub)[uid] = Nil
      BY <1>6, <3>2, UnregisteredStays DEF NoEntry, UsersTypeOK
    <3>4. usersPending' = << >>
      BY <1>1, <2>3
    <3> QED BY <3>1, <3>3, <3>4 DEF NoEntry, sub
  <2> QED BY <2>2, <2>3
<1>7. ASSUME NEW uid \in Uids, EntryOnce(uid), ws = <<PutEntry(uid)>> => NoEntry(uid)
      PROVE  EntryOnce(uid)'
  <2>1. CASE proc' # "running"
    <3>1. usersPending' = << >>
      BY <1>1, <2>1
    <3> QED BY <3>1 DEF EntryOnce, Once, Elements
  <2>2. CASE proc' = "running" /\ ws = << >>
    BY <1>1, <1>7, <2>2 DEF EntryOnce
  <2>3. ASSUME proc' = "running", NEW w \in UserWrite, ws = <<w>>, all = Append(usersPending, w)
        PROVE  EntryOnce(uid)'
    <3>1. usersPending' = Append(usersPending, w) /\ users' = users
      BY <1>1, <2>3
    <3>2. /\ Elements(Append(usersPending, w)) = Elements(usersPending) \cup {w}
          /\ \A x : Once(usersPending, x) /\ (w # x \/ x \notin Elements(usersPending))
                      => Once(Append(usersPending, w), x)
      BY OnceAppend DEF UsersTypeOK
    <3>3. w = PutEntry(uid) => PutEntry(uid) \notin Elements(usersPending) /\ users[uid] = Nil
      BY <1>7, <2>3, NoEntryIs DEF NoEntry
    <3> QED BY <1>7, <3>1, <3>2, <3>3 DEF EntryOnce
  <2> QED BY <1>1, <2>1, <2>2, <2>3
<1> QED BY <1>5, <1>6, <1>7

\* The oldest write reaches the server.
LEMMA UsersWriteArrivesStep ==
    ASSUME UsersTypeOK, UsersWriteArrives
    PROVE  UsersTypeOK' /\ KeepsEntries
<1>1. /\ usersPending # << >> /\ users' = ApplyUser(users, Head(usersPending))
      /\ usersPending' = Tail(usersPending)
  BY DEF UsersWriteArrives
<1>2. users \in UsersNode /\ usersPending \in Seq(UserWrite)
  BY DEF UsersTypeOK
<1> DEFINE w == Head(usersPending)
<1>3. /\ w \in UserWrite /\ w = usersPending[1] /\ 1 \in DOMAIN usersPending
      /\ usersPending' \in Seq(UserWrite)
      /\ \A k \in DOMAIN usersPending' :
            k + 1 \in DOMAIN usersPending /\ usersPending'[k] = usersPending[k + 1]
  BY <1>1, <1>2
<1>4. users' \in UsersNode
  BY <1>1, <1>2, <1>3, ApplyUserIs
<1>5. /\ Elements(Tail(usersPending)) \subseteq Elements(usersPending)
      /\ \A x : Once(usersPending, x) => Once(Tail(usersPending), x)
      /\ Once(usersPending, w) => w \notin Elements(Tail(usersPending))
  BY <1>1, <1>2, OnceTail
<1> HIDE DEF w
<1>6. ASSUME NEW uid \in Uids, users[uid] = Nil, w # PutEntry(uid) PROVE users'[uid] = Nil
  <2>1. CASE w.uid # uid
    BY <1>1, <1>2, <1>3, <1>6, <2>1, ApplyUserIs DEF w
  <2>2. CASE w.uid = uid
    <3>1. w.kind # "entry"
      BY <1>2, <1>3, <1>6, <2>2, ApplyUserIs
    <3> QED BY <1>1, <1>2, <1>3, <1>6, <2>2, <3>1, ApplyUserIs DEF w
  <2> QED BY <2>1, <2>2
<1>7. ASSUME NEW uid \in Uids, NoEntry(uid) PROVE NoEntry(uid)'
  <2>1. w # PutEntry(uid) /\ users[uid] = Nil
    BY <1>3, <1>7 DEF NoEntry
  <2>2. users'[uid] = Nil
    BY <1>6, <2>1
  <2>3. \A k \in DOMAIN usersPending' : usersPending'[k] # PutEntry(uid)
    BY <1>3, <1>7 DEF NoEntry
  <2> QED BY <2>2, <2>3 DEF NoEntry
<1>8. ASSUME NEW uid \in Uids, EntryOnce(uid) PROVE EntryOnce(uid)'
  <2>1. Once(usersPending', PutEntry(uid))
    BY <1>1, <1>5, <1>8 DEF EntryOnce
  <2>2. ASSUME PutEntry(uid) \in Elements(usersPending') PROVE users'[uid] = Nil
    <3>1. w # PutEntry(uid) /\ users[uid] = Nil
      BY <1>1, <1>5, <1>8, <2>2 DEF EntryOnce
    <3> QED BY <1>6, <3>1
  <2> QED BY <2>1, <2>2 DEF EntryOnce
<1> QED BY <1>3, <1>4, <1>7, <1>8 DEF UsersTypeOK, KeepsEntries

\* Another user invites somebody.
LEMMA OtherInvitesStep ==
    ASSUME UsersTypeOK, NEW owner \in Accounts, NEW n \in ListNames, NEW t \in Accounts,
           OtherInvites(owner, n, t)
    PROVE  UsersTypeOK' /\ KeepsEntries
<1> DEFINE w == PutInvitation(t, <<owner, n>>)
<1>1. /\ users[t] # Nil /\ users' = ApplyUser(users, w)
      /\ usersPending' = usersPending
  BY DEF OtherInvites
<1>2. users \in UsersNode /\ usersPending \in Seq(UserWrite)
  BY DEF UsersTypeOK
<1>3. w \in UserWrite /\ w.uid = t
  BY <1>1 DEF PutInvitation, UserWrite, Invitation, Uids
<1> HIDE DEF w
<1>4. users' \in UsersNode
  BY <1>1, <1>2, <1>3, ApplyUserIs
<1>5. ASSUME NEW uid \in Uids, users[uid] = Nil PROVE users'[uid] = Nil
  <2>1. uid # t
    BY <1>1, <1>5
  <2> QED BY <1>1, <1>2, <1>3, <1>5, <2>1, ApplyUserIs
<1> QED BY <1>1, <1>2, <1>4, <1>5 DEF UsersTypeOK, KeepsEntries, NoEntry, EntryOnce

-----------------------------------------------------------------------------
(* registerUserWithName is under way at most once for an account.          *)

\* t holds nothing of X that s does not hold, and nothing of it more often.
Fewer(s, t, X) ==
    \A x \in X : (x \in Elements(t) => x \in Elements(s)) /\ (Once(s, x) => Once(t, x))

Profiles == {Profile(uid) : uid \in Accounts}
Registrations == {Registered(uid) : uid \in Accounts}

LEMMA FewerFacts ==
    ASSUME NEW X
    PROVE  /\ \A s : Fewer(s, s, X) /\ Fewer(s, << >>, X)
           /\ \A s, t, u : Fewer(s, t, X) /\ Fewer(t, u, X) => Fewer(s, u, X)
<1>1. \A x : Once(<< >>, x) /\ x \notin Elements(<< >>)
  BY DEF Once, Elements
<1> QED BY <1>1 DEF Fewer

LEMMA FewerAppend ==
    ASSUME NEW S, NEW s \in Seq(S), NEW e \in S, NEW X, e \notin X
    PROVE  Fewer(s, Append(s, e), X)
<1>1. /\ Elements(Append(s, e)) = Elements(s) \cup {e}
      /\ \A x : Once(s, x) /\ (e # x \/ x \notin Elements(s)) => Once(Append(s, e), x)
  BY OnceAppend
<1> QED BY <1>1 DEF Fewer

LEMMA FewerWithout ==
    ASSUME NEW S, NEW s \in Seq(S), NEW k \in DOMAIN s, NEW X
    PROVE  Fewer(s, Without(s, k), X)
<1>1. /\ Elements(Without(s, k)) \subseteq Elements(s)
      /\ \A x : Once(s, x) => Once(Without(s, k), x)
  BY OnceWithout
<1> QED BY <1>1 DEF Fewer

\* What of a request, and of a block, is a registration.
LEMMA RegistrationIs ==
    /\ \A c \in AuthRequest : c.kind # "profile" => c \notin Profiles
    /\ \A b \in Block : b.kind # "registered" => b \notin Registrations
    /\ \A c \in AuthRequest : c.kind = "profile" => c = Profile(c.uid)
    /\ \A b \in Block : b.kind = "registered" => b = Registered(b.uid)
<1>1. \A uid : Profile(uid).kind = "profile" /\ Registered(uid).kind = "registered"
  BY DEF Profile, Registered
<1>2. /\ \A c \in AuthRequest : c.kind = "profile" => c = Profile(c.uid)
      /\ \A b \in Block : b.kind = "registered" => b = Registered(b.uid)
  BY DEF Profile, Registered, AuthRequest, Block
<1> QED BY <1>1, <1>2 DEF Profiles, Registrations

\* A step that starts no registration.
KeepsRegistering ==
    Fewer(authCalls, authCalls', Profiles) /\ Fewer(timers, timers', Registrations)

LEMMA SameRegistering ==
    ASSUME UNCHANGED <<authCalls, timers>>
    PROVE  KeepsRegistering
BY FewerFacts DEF KeepsRegistering

LEMMA LostRegistering ==
    ASSUME Lost
    PROVE  KeepsRegistering
BY FewerFacts DEF Lost, KeepsRegistering

LEMMA IssueRegistering ==
    ASSUME NEW ws, Issue(ws)
    PROVE  KeepsRegistering
<1>1. Lost \/ UNCHANGED <<authCalls, timers>>
  BY DEF Issue
<1> QED BY <1>1, LostRegistering, SameRegistering

\* A block of another kind is started, another one having run or not.
LEMMA BlockRegistering ==
    ASSUME CloudTypeOK, NEW rest \in Seq(Block),
           rest = timers \/ \E k \in DOMAIN timers : rest = Without(timers, k),
           timers' = rest \/ \E b \in Block : b.kind # "registered" /\ timers' = Append(rest, b)
    PROVE  Fewer(timers, timers', Registrations)
<1>1. timers \in Seq(Block)
  BY DEF CloudTypeOK
<1>2. Fewer(timers, rest, Registrations)
  BY <1>1, FewerFacts, FewerWithout
<1>3. Fewer(rest, timers', Registrations)
  <2>1. ASSUME NEW b \in Block, b.kind # "registered", timers' = Append(rest, b)
        PROVE  Fewer(rest, timers', Registrations)
    BY <2>1, RegistrationIs, FewerAppend
  <2> QED BY <2>1, FewerFacts
<1> QED BY <1>2, <1>3, FewerFacts

\* The end of readData.
LEMMA StartSyncRegistering ==
    ASSUME CloudTypeOK, StartSync(auth)
    PROVE  Fewer(timers, timers', Registrations)
<1>1. timers \in Seq(Block) /\ auth \in Accounts \cup {Nil}
  BY DEF CloudTypeOK
<1>2. timers' = timers \/ \E b \in Block : b.kind # "registered" /\ timers' = Append(timers, b)
  <2>1. CASE auth = Nil
    BY <2>1 DEF StartSync
  <2>2. CASE auth # Nil
    <3>1. [kind |-> "merge", uid |-> auth] \in Block
      BY <1>1, <2>2 DEF Block
    <3> QED BY <2>2, <3>1 DEF StartSync
  <2> QED BY <2>1, <2>2
<1> QED BY <1>1, <1>2, BlockRegistering

\* A request of the sheet.
LEMMA RequestRegistering ==
    ASSUME CloudTypeOK, NEW uid \in Accounts, NEW kind \in {"signIn", "create"},
           Request(kind, uid)
    PROVE  Fewer(authCalls, authCalls', Profiles)
<1> DEFINE c == [kind |-> kind, uid |-> uid]
<1>1. authCalls \in Seq(AuthRequest) /\ authCalls' = Append(authCalls, c)
  BY DEF CloudTypeOK, Request
<1>2. c \in AuthRequest /\ c.kind # "profile"
  BY DEF AuthRequest
<1> HIDE DEF c
<1> QED BY <1>1, <1>2, RegistrationIs, FewerAppend

\* What every step but the answers of Firebase Auth does about registering.
LEMMA HandlerRegistering ==
    ASSUME CloudTypeOK,
           \/ LaunchFirst \/ Launch \/ Killed \/ Reinstall \/ BackTap \/ LogoutTap
           \/ \E n : NewListTap(n) \/ AddItemTap(n)
           \/ \E i : DeleteListTap(i) \/ OpenListTap(i) \/ ToggleItemTap(i) \/ DeleteItemTap(i)
           \/ \E uid \in Accounts : LoginTap(uid) \/ RegisterTap(uid)
    PROVE  KeepsRegistering /\ accounts' = accounts
<1>1. CASE LaunchFirst
  <2>1. authCalls' = authCalls /\ accounts' = accounts
        /\ (StartSync(auth) \/ UNCHANGED <<reads, timers>>)
    BY <1>1 DEF LaunchFirst
  <2> QED BY <2>1, StartSyncRegistering, FewerFacts DEF KeepsRegistering
<1>2. CASE Launch
  <2>1. authCalls' = authCalls /\ accounts' = accounts /\ StartSync(auth)
    BY <1>2 DEF Launch
  <2> QED BY <2>1, StartSyncRegistering, FewerFacts DEF KeepsRegistering
<1>3. CASE Killed \/ Reinstall
  <2>1. Lost /\ accounts' = accounts
    BY <1>3 DEF Killed, Reinstall
  <2> QED BY <2>1, LostRegistering
<1>4. CASE BackTap \/ LogoutTap
  <2>1. UNCHANGED <<authCalls, timers>> /\ accounts' = accounts
    BY <1>4 DEF BackTap, LogoutTap, sessionVars, inFlight
  <2> QED BY <2>1, SameRegistering
<1>5. CASE \/ \E n : NewListTap(n) \/ AddItemTap(n)
           \/ \E i : DeleteListTap(i) \/ OpenListTap(i) \/ ToggleItemTap(i) \/ DeleteItemTap(i)
  <2>1. (\E ws : Issue(ws)) /\ accounts' = accounts
    BY <1>5 DEF NewListTap, AddItemTap, DeleteListTap, OpenListTap, ToggleItemTap, DeleteItemTap
  <2> QED BY <2>1, IssueRegistering
<1>6. ASSUME NEW uid \in Accounts, LoginTap(uid) PROVE KeepsRegistering /\ accounts' = accounts
  <2>1. StartSync(auth) /\ Request("signIn", uid) /\ accounts' = accounts
    BY <1>6 DEF LoginTap
  <2> QED BY <2>1, StartSyncRegistering, RequestRegistering DEF KeepsRegistering
<1>7. ASSUME NEW uid \in Accounts, RegisterTap(uid) PROVE KeepsRegistering /\ accounts' = accounts
  <2>1. timers' = timers /\ Request("create", uid) /\ accounts' = accounts
    BY <1>7 DEF RegisterTap
  <2> QED BY <2>1, FewerFacts, RequestRegistering DEF KeepsRegistering
<1> QED BY <1>1, <1>2, <1>3, <1>4, <1>5, <1>6, <1>7

\* The timers: after the block of registerUserWithName, that is over.
LEMMA TimerRegistering ==
    ASSUME CloudTypeOK, NEW k \in DOMAIN timers,
           \/ SignedInTimer(k) \/ RegisteredTimer(k) \/ MergeTimer(k)
           \/ \E lst : InviteTimer(k, lst)
    PROVE  /\ KeepsRegistering /\ accounts' = accounts
           /\ RegisteredTimer(k) /\ RegisteringOnce(authCalls, timers) =>
                ~ Registering(authCalls', timers', timers[k].uid)
<1> DEFINE rest == Without(timers, k)
<1>1. /\ timers \in Seq(Block) /\ rest \in Seq(Block) /\ auth \in Accounts \cup {Nil}
      /\ timers[k].uid \in Accounts
  BY BlockFacts DEF CloudTypeOK
<1>2. accounts' = accounts
  BY DEF SignedInTimer, RegisteredTimer, MergeTimer, InviteTimer
<1>3. ASSUME authCalls' = authCalls,
             timers' = rest \/ \E b \in Block : b.kind # "registered" /\ timers' = Append(rest, b)
      PROVE  KeepsRegistering
  <2> HIDE DEF rest
  <2>1. \E j \in DOMAIN timers : rest = Without(timers, j)
    BY DEF rest
  <2> QED BY <1>1, <1>3, <2>1, BlockRegistering, FewerFacts DEF KeepsRegistering
<1>4. auth # Nil => \A kind \in {"merge", "invite"} :
         [kind |-> kind, uid |-> auth] \in Block /\ [kind |-> kind, uid |-> auth].kind # "registered"
  BY <1>1 DEF Block
<1>5. CASE SignedInTimer(k)
  <2>1. /\ authCalls' = authCalls
        /\ IF auth = Nil THEN timers' = rest
           ELSE timers' = Append(rest, [kind |-> "merge", uid |-> auth])
    BY <1>5 DEF SignedInTimer
  <2>2. KeepsRegistering
    <3> HIDE DEF rest
    <3> QED BY <1>3, <1>4, <2>1
  <2>3. ~ RegisteredTimer(k)
    BY <1>5 DEF SignedInTimer, RegisteredTimer, Fires
  <2> QED BY <1>2, <2>2, <2>3
<1>6. CASE RegisteredTimer(k)
  <2>1. \/ UNCHANGED authCalls /\ timers' = rest
        \/ \E ws : proc' = "raised" /\ Issue(ws)
    BY <1>6 DEF RegisteredTimer
  <2>2. timers[k] = Registered(timers[k].uid)
    <3>1. timers[k].kind = "registered" /\ timers[k] \in Block
      BY <1>1, <1>6 DEF RegisteredTimer, Fires
    <3> QED BY <3>1, RegistrationIs
  <2>3. CASE UNCHANGED authCalls /\ timers' = rest
    <3>1. RegisteringOnce(authCalls, timers) => ~ Registering(authCalls, rest, timers[k].uid)
      <4> SUFFICES ASSUME RegisteringOnce(authCalls, timers)
                   PROVE  ~ Registering(authCalls, rest, timers[k].uid)
        OBVIOUS
      <4>1. Registered(timers[k].uid) \in Elements(timers)
        BY <2>2 DEF Elements
      <4>2. /\ Once(timers, timers[k])
            /\ Profile(timers[k].uid) \notin Elements(authCalls)
        BY <1>1, <2>2, <4>1 DEF RegisteringOnce
      <4>3. timers[k] \notin Elements(rest)
        BY <1>1, <4>2, OnceWithout
      <4> QED BY <2>2, <4>2, <4>3 DEF Registering
    <3> HIDE DEF rest
    <3> QED BY <1>2, <1>3, <2>3, <3>1
  <2>4. ASSUME NEW ws, proc' = "raised", Issue(ws)
        PROVE  KeepsRegistering /\ ~ Registering(authCalls', timers', timers[k].uid)
    <3>1. Lost
      BY <2>4 DEF Issue
    <3>2. authCalls' = << >> /\ timers' = << >>
      BY <3>1 DEF Lost
    <3> QED BY <3>1, <3>2, LostRegistering DEF Registering, Elements
  <2> QED BY <1>2, <2>1, <2>3, <2>4
<1>7. CASE MergeTimer(k)
  <2>1. \/ \E ws : Issue(ws)
        \/ /\ auth # Nil /\ authCalls' = authCalls
           /\ timers' = Append(rest, [kind |-> "invite", uid |-> auth])
    BY <1>7 DEF MergeTimer
  <2>2. KeepsRegistering
    <3> HIDE DEF rest
    <3> QED BY <1>3, <1>4, <2>1, IssueRegistering
  <2>3. ~ RegisteredTimer(k)
    BY <1>7 DEF MergeTimer, RegisteredTimer, Fires
  <2> QED BY <1>2, <2>2, <2>3
<1>8. ASSUME NEW lst, InviteTimer(k, lst)
      PROVE  KeepsRegistering /\ ~ RegisteredTimer(k)
  <2>1. authCalls' = authCalls /\ timers' = rest
    BY <1>8 DEF InviteTimer
  <2>2. ~ RegisteredTimer(k)
    BY <1>8 DEF InviteTimer, RegisteredTimer, Fires
  <2> HIDE DEF rest
  <2> QED BY <1>3, <2>1, <2>2
<1> QED BY <1>2, <1>5, <1>6, <1>7, <1>8

-----------------------------------------------------------------------------
(* An account has no entry before its block of registerUserWithName.       *)

\* A step that starts no registration, and writes no entry but of a user
\* whose registration is over with it.
LEMMA EntriesKept ==
    ASSUME EntriesInv, KeepsRegistering, accounts' = accounts,
           \A uid \in Uids : EntryOnce(uid) => EntryOnce(uid)',
           \A uid \in Accounts :
              NoEntry(uid) => \/ NoEntry(uid)'
                              \/ uid \in accounts /\ ~ Registering(authCalls', timers', uid)
    PROVE  EntriesInv'
<1>1. ASSUME NEW uid \in Accounts
      PROVE  /\ Profile(uid) \in Elements(authCalls') => Profile(uid) \in Elements(authCalls)
             /\ Once(authCalls, Profile(uid)) => Once(authCalls', Profile(uid))
             /\ Registered(uid) \in Elements(timers') => Registered(uid) \in Elements(timers)
             /\ Once(timers, Registered(uid)) => Once(timers', Registered(uid))
  BY DEF KeepsRegistering, Fewer, Profiles, Registrations
<1>2. RegisteringOnce(authCalls', timers')
  BY <1>1 DEF EntriesInv, RegisteringOnce
<1>3. \A uid \in Accounts :
         Registering(authCalls', timers', uid) => Registering(authCalls, timers, uid)
  BY <1>1 DEF Registering
<1>4. \A uid \in Accounts : Registering(authCalls', timers', uid) => uid \in accounts'
  BY <1>3 DEF EntriesInv
<1>5. ASSUME NEW uid \in Accounts, uid \notin accounts' \/ Registering(authCalls', timers', uid)
      PROVE  NoEntry(uid)'
  <2>1. NoEntry(uid)
    BY <1>3, <1>5 DEF EntriesInv
  <2> QED BY <1>5, <2>1
<1>6. \A uid \in Uids : EntryOnce(uid)'
  BY DEF EntriesInv, EntryOnce
<1> QED BY <1>2, <1>4, <1>5, <1>6 DEF EntriesInv, EntryOnce

\* A handler that writes no entry.
LEMMA EntriesIssue ==
    ASSUME UsersTypeOK, EntriesInv, KeepsRegistering, accounts' = accounts,
           NEW ws, IssueUsers(ws),
           ws = << >> \/ \E w \in UserWrite : w.kind # "entry" /\ ws = <<w>>
    PROVE  UsersTypeOK' /\ EntriesInv'
<1>1. ASSUME NEW uid \in Uids PROVE ws # <<PutEntry(uid)>>
  BY DEF PutEntry
<1>2. /\ UsersTypeOK'
      /\ \A uid \in Uids :
            /\ NoEntry(uid) /\ ws # <<PutEntry(uid)>> => NoEntry(uid)'
            /\ EntryOnce(uid) /\ (ws = <<PutEntry(uid)>> => NoEntry(uid)) => EntryOnce(uid)'
  BY IssueUsersStep
<1>3. /\ \A uid \in Accounts : NoEntry(uid) => NoEntry(uid)'
      /\ \A uid \in Uids : EntryOnce(uid) => EntryOnce(uid)'
  BY <1>1, <1>2 DEF Uids
<1>4. EntriesInv'
  BY <1>3, EntriesKept
<1> QED BY <1>2, <1>4

\* The Users node is left alone.
LEMMA EntriesSame ==
    ASSUME UsersTypeOK, EntriesInv, KeepsRegistering, accounts' = accounts,
           UNCHANGED <<users, usersPending>>
    PROVE  UsersTypeOK' /\ EntriesInv'
<1>1. /\ \A uid \in Accounts : NoEntry(uid) => NoEntry(uid)'
      /\ \A uid \in Uids : EntryOnce(uid) => EntryOnce(uid)'
  BY DEF NoEntry, EntryOnce
<1>2. EntriesInv'
  BY <1>1, EntriesKept
<1> QED BY <1>2 DEF UsersTypeOK

\* The block of registerUserWithName writes the entry of an account without one.
LEMMA EntriesWritten ==
    ASSUME UsersTypeOK, CloudTypeOK, EntriesInv, NEW k \in DOMAIN timers, RegisteredTimer(k),
           IssueUsers(<<PutEntry(timers[k].uid)>>)
    PROVE  /\ UsersTypeOK' /\ EntriesInv'
           /\ PutEntry(timers[k].uid) \in UserWrite /\ NoEntry(timers[k].uid)
<1> DEFINE new == timers[k].uid
           w == PutEntry(new)
<1>1. new \in Accounts /\ new \in Uids
  BY BlockFacts
<1>2. w \in UserWrite /\ \A uid : PutEntry(uid) = w => uid = new
  BY <1>1 DEF PutEntry, UserWrite
<1>3. Registering(authCalls, timers, new)
  <2>1. timers[k] \in Block /\ timers[k].kind = "registered"
    BY DEF CloudTypeOK, RegisteredTimer, Fires
  <2>2. timers[k] = Registered(new)
    BY <2>1, RegistrationIs
  <2> QED BY <2>2 DEF Registering, Elements
<1>4. new \in accounts /\ NoEntry(new) /\ RegisteringOnce(authCalls, timers)
  BY <1>1, <1>3 DEF EntriesInv
<1>5. KeepsRegistering /\ accounts' = accounts /\ ~ Registering(authCalls', timers', new)
  BY <1>4, TimerRegistering
<1>6. IssueUsers(<<w>>)
  OBVIOUS
<1> HIDE DEF new, w
<1>7. \A uid \in Uids : <<w>> = <<PutEntry(uid)>> => uid = new
  BY <1>2
<1>8. /\ UsersTypeOK'
      /\ \A uid \in Uids :
            /\ NoEntry(uid) /\ <<w>> # <<PutEntry(uid)>> => NoEntry(uid)'
            /\ EntryOnce(uid) /\ (<<w>> = <<PutEntry(uid)>> => NoEntry(uid)) => EntryOnce(uid)'
  <2>1. <<w>> = << >> \/ \E x \in UserWrite : <<w>> = <<x>>
    BY <1>2
  <2> QED BY <1>6, <2>1, IssueUsersStep
<1>9. /\ \A uid \in Accounts :
            NoEntry(uid) => \/ NoEntry(uid)'
                            \/ uid \in accounts /\ ~ Registering(authCalls', timers', uid)
      /\ \A uid \in Uids : EntryOnce(uid) => EntryOnce(uid)'
  BY <1>4, <1>5, <1>7, <1>8 DEF Uids
<1>10. EntriesInv'
  BY <1>5, <1>9, EntriesKept
<1> QED BY <1>2, <1>4, <1>8, <1>10 DEF new, w

\* The answers of Firebase Auth.
LEMMA EntriesAnswered ==
    ASSUME UsersTypeOK, CloudTypeOK, EntriesInv, AuthAnswer, UNCHANGED <<users, usersPending>>
    PROVE  UsersTypeOK' /\ EntriesInv'
<1>1. /\ timers \in Seq(Block) /\ authCalls \in Seq(AuthRequest)
      /\ RegisteringOnce(authCalls, timers)
  BY DEF CloudTypeOK, EntriesInv
<1>2. /\ \A uid : NoEntry(uid)' <=> NoEntry(uid)
      /\ \A uid : EntryOnce(uid)' <=> EntryOnce(uid)
  BY DEF NoEntry, EntryOnce
<1>3. UsersTypeOK' /\ \A uid \in Uids : EntryOnce(uid)'
  BY <1>2 DEF UsersTypeOK, EntriesInv, EntryOnce
<1>4. PICK c \in DOMAIN authCalls : SignInDone(c) \/ CreateDone(c) \/ ProfileDone(c) \/ AuthFails(c)
  BY DEF AuthAnswer
<1> DEFINE new == authCalls[c].uid
           left == Without(authCalls, c)
<1>5. /\ authCalls[c] \in AuthRequest /\ new \in Accounts
      /\ c \in 1..Len(authCalls) /\ left \in Seq(AuthRequest)
  <2>1. authCalls[c] \in AuthRequest /\ c \in 1..Len(authCalls)
    BY <1>1
  <2>2. left \in Seq(AuthRequest)
    BY <1>1, <2>1, WithoutType
  <2> QED BY <2>1, <2>2 DEF AuthRequest
<1>6. Fewer(authCalls, left, Profiles)
  BY <1>1, FewerWithout
<1>7. CASE SignInDone(c) \/ AuthFails(c)
  <2>1. /\ authCalls' = left /\ accounts' = accounts
        /\ timers' = timers \/ timers' = Append(timers, [kind |-> "signedIn", uid |-> new])
    BY <1>7 DEF SignInDone, AuthFails
  <2>2. [kind |-> "signedIn", uid |-> new] \in Block
    BY <1>5 DEF Block
  <2>3. timers' = timers \/ \E b \in Block : b.kind # "registered" /\ timers' = Append(timers, b)
    BY <2>1, <2>2
  <2>4. KeepsRegistering
    <3> HIDE DEF left
    <3> QED BY <1>1, <1>6, <2>1, <2>3, BlockRegistering DEF KeepsRegistering
  <2> QED BY <2>1, <2>4, EntriesSame
<1>8. CASE CreateDone(c)
  <2> DEFINE p == Profile(new)
             calls == Append(left, p)
  <2>1. /\ new \notin accounts /\ accounts' = accounts \cup {new} /\ timers' = timers
        /\ authCalls' = calls
    BY <1>8 DEF CreateDone, Profile
  <2>2. p \in AuthRequest
    BY <1>5 DEF AuthRequest, Profile
  <2>3. NoEntry(new) /\ ~ Registering(authCalls, timers, new)
    BY <1>5, <2>1 DEF EntriesInv
  <2> HIDE DEF new, left
  <2>4. \A uid : Profile(uid) = p => uid = new
    BY DEF Profile
  <2>5. p \notin Elements(left) /\ p \in Profiles
    BY <1>5, <1>6, <2>3 DEF Fewer, Registering, Profiles
  <2> HIDE DEF p
  <2>6. /\ Elements(calls) = Elements(left) \cup {p}
        /\ \A x : Once(left, x) /\ (p # x \/ x \notin Elements(left)) => Once(calls, x)
    BY <1>5, <2>2, OnceAppend
  <2> HIDE DEF calls
  <2>7. ASSUME NEW uid \in Accounts
        PROVE  /\ Once(calls, Profile(uid))
               /\ Profile(uid) \in Elements(calls) =>
                    uid = new \/ Profile(uid) \in Elements(authCalls)
    BY <1>1, <1>6, <2>4, <2>5, <2>6 DEF RegisteringOnce, Fewer, Profiles
  <2>8. RegisteringOnce(calls, timers)
    BY <1>1, <2>3, <2>7 DEF RegisteringOnce, Registering
  <2>9. \A uid \in Accounts :
           Registering(calls, timers, uid) => uid = new \/ Registering(authCalls, timers, uid)
    BY <2>7 DEF Registering
  <2>10. \A uid \in Accounts : Registering(calls, timers, uid) => uid \in accounts'
    BY <2>1, <2>9 DEF EntriesInv
  <2>11. \A uid \in Accounts :
           uid \notin accounts' \/ Registering(calls, timers, uid) => NoEntry(uid)'
    BY <1>2, <2>1, <2>3, <2>9 DEF EntriesInv
  <2> QED BY <1>3, <2>1, <2>8, <2>10, <2>11 DEF EntriesInv, EntryOnce
<1>9. CASE ProfileDone(c)
  <2> DEFINE b == Registered(new)
             blocks == Append(timers, b)
  <2>1. /\ authCalls[c] = Profile(new) /\ accounts' = accounts
        /\ timers' = blocks /\ authCalls' = left
    BY <1>5, <1>9, RegistrationIs DEF ProfileDone, Registered
  <2>2. b \in Block
    BY <1>5 DEF Block, Registered
  <2>3. Profile(new) \in Elements(authCalls)
    BY <2>1 DEF Elements
  <2> HIDE DEF new, left
  <2>4. /\ Profile(new) \notin Elements(left) /\ b \notin Elements(timers)
        /\ Registering(authCalls, timers, new)
    <3>1. Once(authCalls, authCalls[c])
      BY <1>1, <1>5, <2>1 DEF RegisteringOnce
    <3>2. authCalls[c] \notin Elements(left)
      BY <1>1, <3>1, OnceWithout DEF left
    <3> QED BY <1>1, <1>5, <2>1, <2>3, <3>2 DEF RegisteringOnce, Registering
  <2>5. \A uid : Registered(uid) = b => uid = new
    BY DEF Registered
  <2> HIDE DEF b
  <2>6. /\ Elements(blocks) = Elements(timers) \cup {b}
        /\ \A x : Once(timers, x) /\ (b # x \/ x \notin Elements(timers)) => Once(blocks, x)
    BY <1>1, <2>2, OnceAppend
  <2> HIDE DEF blocks
  <2>7. ASSUME NEW uid \in Accounts
        PROVE  /\ Once(blocks, Registered(uid)) /\ Once(left, Profile(uid))
               /\ Profile(uid) \in Elements(left) => Profile(uid) \in Elements(authCalls)
               /\ Registered(uid) \in Elements(blocks) =>
                    uid = new \/ Registered(uid) \in Elements(timers)
    BY <1>1, <1>6, <2>4, <2>5, <2>6 DEF RegisteringOnce, Fewer, Profiles
  <2>8. RegisteringOnce(left, blocks)
    BY <1>1, <2>4, <2>7 DEF RegisteringOnce
  <2>9. \A uid \in Accounts :
           Registering(left, blocks, uid) => Registering(authCalls, timers, uid)
    BY <2>4, <2>7 DEF Registering
  <2>10. \A uid \in Accounts : Registering(left, blocks, uid) => uid \in accounts'
    BY <2>1, <2>9 DEF EntriesInv
  <2>11. \A uid \in Accounts :
           uid \notin accounts' \/ Registering(left, blocks, uid) => NoEntry(uid)'
    BY <1>2, <2>1, <2>9 DEF EntriesInv
  <2> QED BY <1>3, <2>1, <2>8, <2>10, <2>11 DEF EntriesInv, EntryOnce
<1> QED BY <1>4, <1>7, <1>8, <1>9

-----------------------------------------------------------------------------
(* SharingInv in parts: the Users node, the observers, the fetched lists.  *)

HistoryFull ==
    /\ everInvited \subseteq Uids \X Invitation /\ everSignedIn \subseteq Accounts
    /\ Invitees \subseteq everInvited /\ (auth # Nil => auth \in everSignedIn)

ObserversInv ==
    /\ coords = Nil \/ (coords # {} /\ coords \subseteq Invitation)
    /\ coordReads \in Seq(Accounts) /\ coordReads \in Seq(everSignedIn)
    /\ fetchers \subseteq Observer /\ IsFiniteSet(fetchers)
    /\ inviters \subseteq Inviter
    /\ coords # Nil => \A inv \in coords : Shared(inv)
    /\ \A f \in fetchers : Shared(<<f.owner, f.list>>)

CopiesInv ==
    /\ fetched \in Seq(Fetched) /\ invited \in Nat
    /\ proc # "running" => fetched = << >> /\ fetchers = {} /\ inviters = {}
    /\ \A c \in DOMAIN fetched :
          /\ fetched[c].list \in UserLists(curUser)
          /\ fetched[c].list.copy \in {0} \cup DOMAIN fetched
          /\ Shared(fetched[c].node)
    /\ invited # 0 => \E c \in DOMAIN fetched : fetched[c].call = invited
    /\ KnownCopies({0} \cup DOMAIN fetched)

\* invitationLST holds lists that were fetched, at least one by its call.
LEMMA InvitationIs ==
    ASSUME fetched \in Seq(Fetched), NEW S, \A c \in DOMAIN fetched : fetched[c].list \in S
    PROVE  /\ InvitationLST \in Seq(S)
           /\ (\E c \in DOMAIN fetched : fetched[c].call = invited) => InvitationLST # << >>
<1> DEFINE K == {f \in Elements(fetched) : f.call = invited}
           made == Kept(fetched, K)
<1>1. /\ InvitationLST = [i \in DOMAIN made |-> made[i].list]
  BY DEF InvitationLST
<1>2. made \in Seq(Fetched \cap K) /\ Elements(made) = Elements(fetched) \cap K
  BY KeptType, KeptElements
<1>3. \A f \in K : f.list \in S
  BY DEF Elements
<1>4. ASSUME NEW c \in DOMAIN fetched, fetched[c].call = invited PROVE Elements(made) # {}
  BY <1>2, <1>4 DEF Elements
<1> HIDE DEF made, K
<1>5. DOMAIN made = 1..Len(made) /\ Len(made) \in Nat /\ \A i \in 1..Len(made) : made[i] \in K
  BY <1>2
<1>6. InvitationLST \in [1..Len(made) -> S]
  BY <1>1, <1>3, <1>5
<1>7. InvitationLST \in Seq(S)
  BY <1>5, <1>6
<1>8. Elements(made) # {} => InvitationLST # << >>
  <2> SUFFICES ASSUME Elements(made) # {}, InvitationLST = << >> PROVE FALSE
    OBVIOUS
  <2>1. PICK i \in 1..Len(made) : TRUE
    BY <1>5 DEF Elements
  <2>2. DOMAIN InvitationLST = 1..Len(made)
    BY <1>6
  <2> QED BY <2>1, <2>2
<1> QED BY <1>4, <1>7, <1>8

\* The copies of an array.
LEMMA CopiesAre ==
    ASSUME NEW lst \in Seq(List), NEW C
    PROVE  Copies(lst) \subseteq C <=> lst \in Seq(CopyLists(C))
<1>1. DOMAIN lst = 1..Len(lst) /\ Len(lst) \in Nat /\ \A i \in 1..Len(lst) : lst[i] \in List
  OBVIOUS
<1>2. ASSUME Copies(lst) \subseteq C PROVE lst \in Seq(CopyLists(C))
  <2>1. \A i \in 1..Len(lst) : lst[i] \in CopyLists(C)
    BY <1>1, <1>2 DEF Copies, CopyLists
  <2>2. lst \in [1..Len(lst) -> CopyLists(C)]
    BY <1>1, <2>1
  <2> QED BY <1>1, <2>2
<1>3. ASSUME lst \in Seq(CopyLists(C)) PROVE Copies(lst) \subseteq C
  <2>1. \A i \in 1..Len(lst) : lst[i] \in CopyLists(C)
    BY <1>3
  <2> QED BY <1>1, <2>1 DEF Copies, CopyLists
<1> QED BY <1>2, <1>3

LEMMA SharingParts ==
    SharingInv <=> /\ SessionInv /\ UsersTypeOK /\ EntriesInv /\ HistoryFull
                   /\ ObserversInv /\ CopiesInv
<1>1. ASSUME SessionInv
      PROVE  (Copies(Rows(curLST)) \cup Copies(Rows(offlineLST)) \cup Copies(onlineLST)
                \subseteq {0} \cup DOMAIN fetched)
             <=> KnownCopies({0} \cup DOMAIN fetched)
  <2>1. Rows(curLST) \in Seq(List) /\ Rows(offlineLST) \in Seq(List) /\ onlineLST \in Seq(List)
    BY <1>1, RowsType DEF SessionInv, StoreInv, LocalTypeOK, CloudTypeOK
  <2> DEFINE C == {0} \cup DOMAIN fetched
  <2> HIDE DEF C
  <2>2. /\ Copies(Rows(curLST)) \subseteq C <=> Rows(curLST) \in Seq(CopyLists(C))
        /\ Copies(Rows(offlineLST)) \subseteq C <=> Rows(offlineLST) \in Seq(CopyLists(C))
        /\ Copies(onlineLST) \subseteq C <=> onlineLST \in Seq(CopyLists(C))
    BY <2>1, CopiesAre
  <2>3. (Copies(Rows(curLST)) \cup Copies(Rows(offlineLST)) \cup Copies(onlineLST) \subseteq C)
          <=> KnownCopies(C)
    BY <2>2 DEF KnownCopies, LocalCopies
  <2> QED BY <2>3 DEF C
<1>2. ASSUME SharingInv
      PROVE  /\ SessionInv /\ UsersTypeOK /\ EntriesInv /\ HistoryFull
             /\ ObserversInv /\ CopiesInv
  <2>1. /\ SessionInv /\ SharingTypeOK /\ FetchedInv /\ EntriesInv /\ HistoryInv
        /\ SharedInv
    BY <1>2 DEF SharingInv
  <2>2. UsersTypeOK
    BY <2>1 DEF SharingTypeOK, UsersTypeOK
  <2>3. ObserversInv
    BY <2>1 DEF SharingTypeOK, FetchedInv, HistoryInv, SharedInv, ObserversInv
  <2>0. HistoryFull
    BY <2>1 DEF SharingTypeOK, HistoryInv, HistoryFull
  <2>4. KnownCopies({0} \cup DOMAIN fetched)
    <3>1. Copies(Rows(curLST)) \cup Copies(Rows(offlineLST)) \cup Copies(onlineLST)
             \subseteq {0} \cup DOMAIN fetched
      BY <2>1 DEF SharedInv
    <3> QED BY <1>1, <2>1, <3>1
  <2>5. \A c \in DOMAIN fetched :
           /\ fetched[c].list.copy \in {0} \cup DOMAIN fetched
           /\ Shared(fetched[c].node)
    BY <2>1 DEF SharedInv
  <2>6. CopiesInv
    BY <2>1, <2>4, <2>5 DEF SharingTypeOK, FetchedInv, CopiesInv
  <2> QED BY <2>0, <2>1, <2>2, <2>3, <2>6
<1>3. ASSUME SessionInv, UsersTypeOK, EntriesInv, HistoryFull, ObserversInv, CopiesInv
      PROVE  SharingInv
  <2>1. TypeOK
    BY <1>3 DEF SessionInv, StoreInv, TypeOK
  <2>2. invited # 0 => InvitationLST # << >>
    <3>1. \A c \in DOMAIN fetched : fetched[c].list \in List
      BY <1>3, OwnerSets DEF CopiesInv
    <3> QED BY <1>3, <3>1, InvitationIs DEF CopiesInv
  <2>3. SharingTypeOK
    BY <1>3, <2>1, <2>2 DEF SharingTypeOK, UsersTypeOK, HistoryFull, ObserversInv, CopiesInv
  <2>4. FetchedInv
    BY <1>3 DEF FetchedInv, ObserversInv, CopiesInv
  <2>5. Copies(Rows(curLST)) \cup Copies(Rows(offlineLST)) \cup Copies(onlineLST)
           \subseteq {0} \cup DOMAIN fetched
    BY <1>1, <1>3 DEF CopiesInv
  <2>6. {fetched[c].list.copy : c \in DOMAIN fetched} \subseteq {0} \cup DOMAIN fetched
    BY <1>3 DEF CopiesInv
  <2>7. SharedInv
    BY <1>3, <2>5, <2>6 DEF SharedInv, ObserversInv, CopiesInv
  <2>8. HistoryInv
    BY <1>3 DEF HistoryInv, HistoryFull, ObserversInv
  <2> QED BY <1>3, <2>3, <2>4, <2>7, <2>8 DEF SharingInv
<1> QED BY <1>2, <1>3

\* The history variables record what there is after the step.
LEMMA HistoryNext ==
    ASSUME HistoryFull, Recorded, CloudTypeOK'
    PROVE  HistoryFull'
<1>1. Invitees' \subseteq Uids \X Invitation
  BY DEF Invitees
<1>2. auth' \in Accounts \cup {Nil}
  BY DEF CloudTypeOK
<1>3. /\ everInvited' = everInvited \cup Invitees'
      /\ everSignedIn' = everSignedIn \cup ({auth'} \ {Nil})
  BY DEF Recorded
<1> QED BY <1>1, <1>2, <1>3 DEF HistoryFull

LEMMA SharingPartsPrimed ==
    SharingInv' <=> /\ SessionInv' /\ UsersTypeOK' /\ EntriesInv' /\ HistoryFull'
                    /\ ObserversInv' /\ CopiesInv'
BY SharingParts, PTL

LEMMA SharingPartsNext ==
    ASSUME SharingInv, Recorded, SessionInv', UsersTypeOK', EntriesInv', ObserversInv', CopiesInv'
    PROVE  SharingInv'
<1>1. HistoryFull
  BY SharingParts
<1>2. CloudTypeOK'
  BY DEF SessionInv
<1>3. HistoryFull'
  BY <1>1, <1>2, HistoryNext
<1> QED BY <1>3, SharingPartsPrimed

LEMMA MoreElements ==
    ASSUME NEW S, NEW T, S \subseteq T, NEW s \in Seq(S)
    PROVE  s \in Seq(T)
<1>1. Len(s) \in Nat /\ s \in [1..Len(s) -> S]
  OBVIOUS
<1>2. s \in [1..Len(s) -> T]
  BY <1>1
<1> QED BY <1>1, <1>2

LEMMA SignedInStays ==
    ASSUME Recorded
    PROVE  everSignedIn \subseteq everSignedIn'
BY DEF Recorded

\* The observers, when they are left alone and when the process ends.
LEMMA ObserversSame ==
    ASSUME ObserversInv, Recorded,
           UNCHANGED <<coords, coordReads, fetchers, inviters>>
    PROVE  ObserversInv'
<1>1. \A inv : Shared(inv) => Shared(inv)'
  BY SharedStays
<1>2. coordReads' \in Seq(everSignedIn')
  BY SignedInStays, MoreElements DEF ObserversInv
<1> QED BY <1>1, <1>2 DEF ObserversInv

LEMMA WatchingEnds ==
    ASSUME Unwatched, proc' # "running", KnownCopies({0})'
    PROVE  ObserversInv' /\ CopiesInv'
<1>1. /\ coords' = Nil /\ coordReads' = << >> /\ fetched' = << >> /\ invited' = 0
      /\ fetchers' = {} /\ inviters' = {}
  BY DEF Unwatched
<1>2. /\ << >> \in Seq(Accounts) /\ << >> \in Seq(everSignedIn') /\ << >> \in Seq(Fetched)
      /\ IsFiniteSet({})
  BY FS_EmptySet
<1>3. ObserversInv'
  BY <1>1, <1>2 DEF ObserversInv
<1>4. DOMAIN fetched' = {}
  BY <1>1
<1>5. {0} \cup DOMAIN fetched' = {0}
  BY <1>4
<1>6. KnownCopies({0} \cup DOMAIN fetched)'
  BY <1>5 DEF KnownCopies, LocalCopies, CopyLists
<1> QED BY <1>1, <1>2, <1>3, <1>4, <1>6 DEF CopiesInv

\* The same lists were fetched, changed perhaps: they are in U and copies of C.
Refetched(fs, gs, U, C) ==
    /\ gs \in Seq(Fetched) /\ DOMAIN gs = DOMAIN fs
    /\ \A c \in DOMAIN fs :
          /\ gs[c].call = fs[c].call /\ gs[c].node = fs[c].node
          /\ gs[c].list \in U /\ gs[c].list.copy \in C

LEMMA CopiesGoOn ==
    ASSUME CopiesInv, proc' = "running", invited' = invited, KeepsCopies,
           Recorded,
           Refetched(fetched, fetched', UserLists(curUser'), {0} \cup DOMAIN fetched)
    PROVE  CopiesInv'
<1>1. PICK C : C = {0} \cup DOMAIN fetched
  OBVIOUS
<1>2. KnownCopies(C)'
  BY <1>1 DEF CopiesInv, KeepsCopies
<1>3. /\ fetched' \in Seq(Fetched) /\ DOMAIN fetched' = DOMAIN fetched
      /\ \A c \in DOMAIN fetched :
            /\ fetched'[c].call = fetched[c].call /\ fetched'[c].node = fetched[c].node
            /\ fetched'[c].list \in UserLists(curUser') /\ fetched'[c].list.copy \in C
  BY <1>1 DEF Refetched
<1>4. KnownCopies({0} \cup DOMAIN fetched)'
  BY <1>1, <1>2, <1>3 DEF KnownCopies, LocalCopies, CopyLists
<1>5. \A inv : Shared(inv) => Shared(inv)'
  BY SharedStays
<1>6. \A c \in DOMAIN fetched' : Shared(fetched[c].node)'
  BY <1>3, <1>5 DEF CopiesInv
<1> QED BY <1>1, <1>3, <1>4, <1>6 DEF CopiesInv

LEMMA RefetchedSame ==
    ASSUME NEW fs \in Seq(Fetched), NEW U, NEW C,
           \A c \in DOMAIN fs : fs[c].list \in U /\ fs[c].list.copy \in C
    PROVE  Refetched(fs, fs, U, C)
BY DEF Refetched

\* The objects of an array replace those that were fetched.
LEMMA RefetchedChanged ==
    ASSUME NEW fs \in Seq(Fetched), NEW U, U \subseteq List, NEW C, NEW lst,
           \A c \in DOMAIN fs : fs[c].list \in U /\ fs[c].list.copy \in C,
           Rows(lst) \in Seq(U), Rows(lst) \in Seq(CopyLists(C)), lst \in Seq(List) \cup {Nil}
    PROVE  Refetched(fs, ChangedIn(fs, lst), U, C)
<1> DEFINE rowsOf(c) == {i \in DOMAIN Rows(lst) : lst[i].copy = c}
           change(c) == IF rowsOf(c) = {} THEN fs[c]
                        ELSE [fs[c] EXCEPT !.list = lst[CHOOSE i \in rowsOf(c) : TRUE]]
           gs == ChangedIn(fs, lst)
<1>1. DOMAIN fs = 1..Len(fs) /\ Len(fs) \in Nat /\ \A c \in 1..Len(fs) : fs[c] \in Fetched
  OBVIOUS
<1>2. gs = [c \in 1..Len(fs) |-> change(c)]
  BY <1>1 DEF ChangedIn
<1>3. ASSUME NEW i \in DOMAIN Rows(lst) PROVE lst[i] \in U /\ lst[i].copy \in C
  <2>1. Rows(lst) = lst
    BY <1>3 DEF Rows
  <2>2. Rows(lst)[i] \in U /\ Rows(lst)[i] \in CopyLists(C)
    BY <1>3
  <2> QED BY <2>1, <2>2 DEF CopyLists
<1>4. ASSUME NEW c \in 1..Len(fs)
      PROVE  /\ change(c) \in Fetched
             /\ change(c).call = fs[c].call /\ change(c).node = fs[c].node
             /\ change(c).list \in U /\ change(c).list.copy \in C
  <2>1. fs[c] \in Fetched /\ fs[c].list \in U /\ fs[c].list.copy \in C
    BY <1>1
  <2>2. CASE rowsOf(c) = {}
    BY <2>1, <2>2
  <2>3. CASE rowsOf(c) # {}
    <3> DEFINE i == CHOOSE i \in rowsOf(c) : TRUE
               l == lst[i]
    <3>1. i \in DOMAIN Rows(lst)
      BY <2>3
    <3> HIDE DEF i
    <3>2. l \in U /\ l.copy \in C /\ l \in List
      BY <1>3, <3>1
    <3>3. change(c) = [fs[c] EXCEPT !.list = l]
      BY <2>3 DEF i
    <3> HIDE DEF l, change
    <3>4. /\ [fs[c] EXCEPT !.list = l] \in Fetched /\ [fs[c] EXCEPT !.list = l].list = l
          /\ [fs[c] EXCEPT !.list = l].call = fs[c].call
          /\ [fs[c] EXCEPT !.list = l].node = fs[c].node
      BY <2>1, <3>2 DEF Fetched
    <3> QED BY <3>2, <3>3, <3>4
  <2> QED BY <2>2, <2>3
<1> HIDE DEF change, gs
<1>5. gs \in [1..Len(fs) -> Fetched]
  BY <1>2, <1>4
<1>6. gs \in Seq(Fetched) /\ DOMAIN gs = DOMAIN fs
  BY <1>1, <1>5
<1>7. \A c \in DOMAIN fs : gs[c] = change(c)
  BY <1>1, <1>2
<1>8. Refetched(fs, gs, U, C)
  BY <1>1, <1>4, <1>6, <1>7 DEF Refetched
<1> QED BY <1>8 DEF gs

\* Lists without the uid object of the current user may be anybody's.
LEMMA RefetchedDisowned ==
    ASSUME NEW fs \in Seq(Fetched), NEW u, NEW v, NEW C,
           \A c \in DOMAIN fs : fs[c].list \in UserLists(u) /\ fs[c].list.copy \in C
    PROVE  Refetched(fs, Disowned(fs), UserLists(v), C)
<1> DEFINE change(c) == [fs[c] EXCEPT !.list.mine = FALSE]
           gs == Disowned(fs)
<1>1. DOMAIN fs = 1..Len(fs) /\ Len(fs) \in Nat /\ \A c \in 1..Len(fs) : fs[c] \in Fetched
  OBVIOUS
<1>2. gs = [c \in 1..Len(fs) |-> change(c)]
  BY <1>1 DEF Disowned
<1>3. ASSUME NEW c \in 1..Len(fs)
      PROVE  /\ change(c) \in Fetched
             /\ change(c).call = fs[c].call /\ change(c).node = fs[c].node
             /\ change(c).list \in UserLists(v) /\ change(c).list.copy \in C
  <2>1. fs[c] \in Fetched /\ fs[c].list \in UserLists(u) /\ fs[c].list.copy \in C
    BY <1>1
  <2> DEFINE l == [fs[c].list EXCEPT !.mine = FALSE]
  <2>2. l \in List /\ l \in UserLists(v) /\ l.copy = fs[c].list.copy
    BY <2>1 DEF UserLists, List
  <2>3. change(c) = [fs[c] EXCEPT !.list = l]
    BY <2>1 DEF Fetched
  <2> HIDE DEF l, change
  <2>4. /\ [fs[c] EXCEPT !.list = l] \in Fetched /\ [fs[c] EXCEPT !.list = l].list = l
        /\ [fs[c] EXCEPT !.list = l].call = fs[c].call
        /\ [fs[c] EXCEPT !.list = l].node = fs[c].node
    BY <2>1, <2>2 DEF Fetched
  <2> QED BY <2>1, <2>2, <2>3, <2>4
<1> HIDE DEF change, gs
<1>4. gs \in [1..Len(fs) -> Fetched]
  BY <1>2, <1>3
<1>5. gs \in Seq(Fetched) /\ DOMAIN gs = DOMAIN fs
  BY <1>1, <1>4
<1>6. \A c \in DOMAIN fs : gs[c] = change(c)
  BY <1>1, <1>2
<1>7. Refetched(fs, gs, UserLists(v), C)
  BY <1>1, <1>3, <1>5, <1>6 DEF Refetched
<1> QED BY <1>7 DEF gs

LEMMA RefetchedTwice ==
    ASSUME NEW fs, NEW gs, NEW hs, NEW U, NEW V, NEW C,
           Refetched(fs, gs, U, C), Refetched(gs, hs, V, C)
    PROVE  Refetched(fs, hs, V, C)
BY DEF Refetched

-----------------------------------------------------------------------------
(* Every step.                                                             *)

\* What a step needs besides SessionInv and the Users node.
LEMMA EndStep ==
    ASSUME SharingInv, Recorded, SessionInv', UsersTypeOK', EntriesInv', Ended, Unwatched
    PROVE  SharingInv'
<1>1. ObserversInv' /\ CopiesInv'
  BY CopiesEnded, WatchingEnds DEF Ended
<1> QED BY <1>1, SharingPartsNext

LEMMA RunStep ==
    ASSUME SharingInv, SessionInv', UsersTypeOK', EntriesInv', Recorded,
           proc' = "running", KeepsCopies,
           Refetched(fetched, fetched', UserLists(curUser'), {0} \cup DOMAIN fetched),
           UNCHANGED <<coords, coordReads, invited, fetchers, inviters>>
    PROVE  SharingInv'
<1>1. ObserversInv /\ CopiesInv
  BY SharingParts
<1>2. ObserversInv'
  BY <1>1, ObserversSame
<1>3. CopiesInv'
  BY <1>1, CopiesGoOn
<1> QED BY <1>2, <1>3, SharingPartsNext

\* The lists in memory after a step, as ChangedIn takes them.
LEMMA ScreenAfter ==
    ASSUME SharingInv, SessionInv', proc' = "running", KeepsCopies
    PROVE  /\ curLST' \in Seq(List) \cup {Nil}
           /\ Rows(curLST') \in Seq(UserLists(curUser'))
           /\ Rows(curLST') \in Seq(CopyLists({0} \cup DOMAIN fetched))
<1>1. curLST' \in Seq(UserLists(curUser')) \cup {Nil}
  BY DEF SessionInv, StoreInv
<1>2. << >> \in Seq(UserLists(curUser'))
  OBVIOUS
<1>3. curLST' \in Seq(List) \cup {Nil} /\ Rows(curLST') \in Seq(UserLists(curUser'))
  BY <1>1, <1>2, OwnerSets, ListsArray DEF Rows
<1>4. PICK C : C = {0} \cup DOMAIN fetched
  OBVIOUS
<1>5. KnownCopies(C)
  BY <1>4, SharingParts DEF CopiesInv
<1>6. KnownCopies(C)'
  BY <1>4, <1>5 DEF KeepsCopies
<1>7. Rows(curLST') \in Seq(CopyLists(C))
  BY <1>6 DEF KnownCopies, LocalCopies
<1> QED BY <1>3, <1>4, <1>7

\* The fetched lists before a step.
LEMMA FetchedBefore ==
    ASSUME SharingInv
    PROVE  /\ SessionInv /\ StoreInv /\ CloudTypeOK /\ UsersTypeOK /\ EntriesInv
           /\ RegisteringOnce(authCalls, timers) /\ fetched \in Seq(Fetched)
           /\ proc # "running" => fetched = << >>
           /\ \A c \in DOMAIN fetched :
                 /\ fetched[c].list \in UserLists(curUser)
                 /\ fetched[c].list.copy \in {0} \cup DOMAIN fetched
<1>1. SessionInv /\ UsersTypeOK /\ EntriesInv /\ CopiesInv
  BY SharingParts
<1> QED BY <1>1 DEF SessionInv, EntriesInv, CopiesInv

\* Launches, kills and the handlers that know nothing of shared lists.
LEMMA UnsharedStepInv ==
    ASSUME SharingInv, Recorded, UnsharedStep
    PROVE  SharingInv'
<1>1. /\ SessionInv /\ UsersTypeOK /\ EntriesInv /\ CloudTypeOK
      /\ RegisteringOnce(authCalls, timers) /\ fetched \in Seq(Fetched)
      /\ proc # "running" => fetched = << >>
      /\ \A c \in DOMAIN fetched :
            /\ fetched[c].list \in UserLists(curUser)
            /\ fetched[c].list.copy \in {0} \cup DOMAIN fetched
  BY FetchedBefore
<1>2. Watching /\ IssueUsers(<< >>)
  BY DEF UnsharedStep
<1>3. \/ LaunchFirst \/ Launch \/ Killed \/ Reinstall \/ BackTap \/ LogoutTap
      \/ \E n \in ListNames : NewListTap(n)
      \/ \E i : OpenListTap(i)
      \/ \E uid \in Accounts : RegisterTap(uid)
  BY SessionAssumption DEF UnsharedStep
<1>4. SessionInv'
  BY <1>1, <1>3, LaunchFirstInv, LaunchInv, KilledInv, ReinstallInv, BackTapInv, AccountInv,
     NewListTapInv, OpenListTapInv
<1>5. KeepsRegistering /\ accounts' = accounts
  <2>1. \/ LaunchFirst \/ Launch \/ Killed \/ Reinstall \/ BackTap \/ LogoutTap
        \/ \E n : NewListTap(n) \/ AddItemTap(n)
        \/ \E i : DeleteListTap(i) \/ OpenListTap(i) \/ ToggleItemTap(i) \/ DeleteItemTap(i)
        \/ \E uid \in Accounts : LoginTap(uid) \/ RegisterTap(uid)
    BY <1>3
  <2> QED BY <1>1, <2>1, HandlerRegistering
<1>6. UsersTypeOK' /\ EntriesInv'
  BY <1>1, <1>2, <1>5, EntriesIssue
<1>7. CASE LaunchFirst \/ Launch \/ Killed \/ Reinstall
  <2>1. KeepsCopies /\ (Ended \/ proc # "running")
    BY <1>1, <1>7, LaunchCopies
  <2>2. CASE Ended
    <3>1. Unwatched
      BY <1>2, <2>2 DEF Watching, Ended
    <3> QED BY <1>4, <1>6, <2>2, <3>1, EndStep
  <2>3. CASE proc # "running" /\ proc' = "running"
    <3>1. UNCHANGED watching
      BY <1>2, <2>3 DEF Watching
    <3>2. UNCHANGED <<fetched, coords, coordReads, invited, fetchers, inviters>>
      BY <3>1 DEF watching
    <3>3. Refetched(fetched, fetched', UserLists(curUser'), {0} \cup DOMAIN fetched)
      BY <1>1, <2>3, <3>2 DEF Refetched
    <3> QED BY <1>4, <1>6, <2>1, <2>3, <3>2, <3>3, RunStep
  <2>4. CASE proc # "running" /\ proc' # "running"
    <3>1. Unwatched
      BY <1>2, <2>4 DEF Watching
    <3>2. PICK C : C = {0} \cup DOMAIN fetched
      OBVIOUS
    <3>3. C = {0}
      BY <1>1, <2>4, <3>2
    <3>4. KnownCopies(C)
      BY <3>2, SharingParts DEF CopiesInv
    <3>5. KnownCopies({0})'
      BY <2>1, <3>3, <3>4 DEF KeepsCopies
    <3> QED BY <1>4, <1>6, <2>4, <3>1, <3>5, WatchingEnds, SharingPartsNext
  <2> QED BY <2>1, <2>2, <2>3, <2>4
<1>8. CASE \/ BackTap \/ LogoutTap \/ \E n \in ListNames : NewListTap(n)
           \/ \E i : OpenListTap(i) \/ \E uid \in Accounts : RegisterTap(uid)
  <2>1. KeepsCopies /\ (Ended \/ (proc' = "running" /\ proc = "running" /\ curUser' = curUser))
    BY <1>1, <1>8, TapCopies
  <2>2. CASE Ended
    <3>1. Unwatched
      BY <1>2, <2>2 DEF Watching, Ended
    <3> QED BY <1>4, <1>6, <2>2, <3>1, EndStep
  <2>3. CASE proc' = "running" /\ proc = "running" /\ curUser' = curUser
    <3>1. UNCHANGED watching
      BY <1>2, <2>3 DEF Watching
    <3>2. UNCHANGED <<fetched, coords, coordReads, invited, fetchers, inviters>>
      BY <3>1 DEF watching
    <3>3. Refetched(fetched, fetched', UserLists(curUser'), {0} \cup DOMAIN fetched)
      BY <1>1, <2>3, <3>2, RefetchedSame
    <3> QED BY <1>4, <1>6, <2>1, <2>3, <3>2, <3>3, RunStep
  <2> QED BY <2>1, <2>2, <2>3
<1> QED BY <1>3, <1>7, <1>8

\* loginWithEmail.
LEMMA LoginStepInv ==
    ASSUME SharingInv, Recorded, LoginStep
    PROVE  SharingInv'
<1>1. /\ SessionInv /\ UsersTypeOK /\ EntriesInv /\ CloudTypeOK
      /\ RegisteringOnce(authCalls, timers) /\ fetched \in Seq(Fetched)
      /\ \A c \in DOMAIN fetched :
            /\ fetched[c].list \in UserLists(curUser)
            /\ fetched[c].list.copy \in {0} \cup DOMAIN fetched
  BY FetchedBefore
<1>2. PICK uid \in Accounts : LoginTap(uid)
  BY SessionAssumption DEF LoginStep
<1>3. ChangingFetched(Disowned(fetched)) /\ IssueUsers(<< >>)
  BY DEF LoginStep
<1>4. SessionInv'
  BY <1>1, <1>2, LoginTapInv
<1>5. KeepsRegistering /\ accounts' = accounts
  BY <1>1, <1>2, HandlerRegistering
<1>6. UsersTypeOK' /\ EntriesInv'
  BY <1>1, <1>3, <1>5, EntriesIssue
<1>7. KeepsCopies /\ proc' = "running"
  BY <1>1, <1>2, ReadBackCopies
<1>8. /\ fetched' = Disowned(fetched)
      /\ UNCHANGED <<coords, coordReads, invited, fetchers, inviters>>
  BY <1>3, <1>7 DEF ChangingFetched
<1>9. Refetched(fetched, fetched', UserLists(curUser'), {0} \cup DOMAIN fetched)
  BY <1>1, <1>8, RefetchedDisowned
<1> QED BY <1>4, <1>6, <1>7, <1>8, <1>9, RunStep

\* The taps on the item screen.
LEMMA ItemTapInv ==
    ASSUME SharingInv, Recorded, ItemTap
    PROVE  SharingInv'
<1>1. /\ SessionInv /\ UsersTypeOK /\ EntriesInv /\ CloudTypeOK
      /\ RegisteringOnce(authCalls, timers) /\ fetched \in Seq(Fetched)
      /\ \A c \in DOMAIN fetched :
            /\ fetched[c].list \in UserLists(curUser)
            /\ fetched[c].list.copy \in {0} \cup DOMAIN fetched
  BY FetchedBefore
<1>2. (\E n \in ItemNames : AddItemTap(n)) \/ \E r : ToggleItemTap(r) \/ DeleteItemTap(r)
  BY DEF ItemTap
<1>3. ChangingFetched(ChangedIn(fetched, curLST')) /\ IssueUsers(<< >>)
  BY DEF ItemTap
<1>4. SessionInv'
  BY <1>1, <1>2, AddItemTapInv, ToggleItemTapInv, DeleteItemTapInv
<1>5. KeepsRegistering /\ accounts' = accounts
  BY <1>1, <1>2, HandlerRegistering
<1>6. UsersTypeOK' /\ EntriesInv'
  BY <1>1, <1>3, <1>5, EntriesIssue
<1>7. KeepsCopies /\ (Ended \/ (proc' = "running" /\ proc = "running" /\ curUser' = curUser))
  BY <1>1, <1>2, TapCopies
<1>8. CASE Ended
  <2>1. Unwatched
    BY <1>3, <1>8 DEF ChangingFetched, Ended
  <2> QED BY <1>4, <1>6, <1>8, <2>1, EndStep
<1>9. CASE proc' = "running" /\ proc = "running" /\ curUser' = curUser
  <2>1. /\ fetched' = ChangedIn(fetched, curLST')
        /\ UNCHANGED <<coords, coordReads, invited, fetchers, inviters>>
    BY <1>3, <1>9 DEF ChangingFetched
  <2>2. /\ curLST' \in Seq(List) \cup {Nil}
        /\ Rows(curLST') \in Seq(UserLists(curUser'))
        /\ Rows(curLST') \in Seq(CopyLists({0} \cup DOMAIN fetched))
    BY <1>4, <1>7, <1>9, ScreenAfter
  <2>3. UserLists(curUser') \subseteq List
    BY OwnerSets
  <2>4. Refetched(fetched, fetched', UserLists(curUser'), {0} \cup DOMAIN fetched)
    BY <1>1, <1>9, <2>1, <2>2, <2>3, RefetchedChanged
  <2> QED BY <1>4, <1>6, <1>7, <1>9, <2>1, <2>4, RunStep
<1> QED BY <1>7, <1>8, <1>9

\* commitEditingStyle of the list screen.
LEMMA RejectTapInv ==
    ASSUME SharingInv, Recorded, NEW i, RejectTap(i)
    PROVE  SharingInv'
<1>1. /\ SessionInv /\ StoreInv /\ UsersTypeOK /\ EntriesInv /\ CloudTypeOK
      /\ RegisteringOnce(authCalls, timers) /\ fetched \in Seq(Fetched)
      /\ \A c \in DOMAIN fetched :
            /\ fetched[c].list \in UserLists(curUser)
            /\ fetched[c].list.copy \in {0} \cup DOMAIN fetched
  BY FetchedBefore
<1>2. DeleteListTap(i) /\ Watching
  BY DEF RejectTap
<1>3. PICK ws : /\ IssueUsers(ws)
                /\ ws = << >> \/ \E w \in UserWrite : w.kind # "entry" /\ ws = <<w>>
  <2> DEFINE rejected == /\ i \in DOMAIN curLST /\ auth # Nil
                         /\ curLST[i].listOwner # curUser /\ curLST[i].listName # Nil
             w == RemoveInvitation(curLST[i])
  <2>1. IssueUsers(IF rejected THEN <<w>> ELSE << >>)
    BY DEF RejectTap
  <2>2. CASE rejected
    <3>1. proc = "running" /\ i \in 1..rows
      BY <1>2, <2>2 DEF DeleteListTap, DeleteList, OnListScreen
    <3>2. curLST \in Seq(UserLists(curUser))
      BY <1>1, <3>1, StoreRunning
    <3>3. curLST[i] \in UserLists(curUser)
      BY <2>2, <3>2
    <3>4. curLST[i].listOwner \in Uids /\ curLST[i].listName \in ListNames
      BY <2>2, <3>3 DEF UserLists, List
    <3>5. w \in UserWrite /\ w.kind # "entry"
      BY <3>4 DEF RemoveInvitation, UserWrite, Invitation
    <3> HIDE DEF w, rejected
    <3> QED BY <2>1, <2>2, <3>5
  <2>3. CASE ~ rejected
    BY <2>1, <2>3
  <2> QED BY <2>2, <2>3
<1>4. SessionInv'
  BY <1>1, <1>2, DeleteListTapInv
<1>5. KeepsRegistering /\ accounts' = accounts
  BY <1>1, <1>2, HandlerRegistering
<1>6. UsersTypeOK' /\ EntriesInv'
  BY <1>1, <1>3, <1>5, EntriesIssue
<1>7. KeepsCopies /\ (Ended \/ (proc' = "running" /\ proc = "running" /\ curUser' = curUser))
  BY <1>1, <1>2, TapCopies
<1>8. CASE Ended
  <2>1. Unwatched
    BY <1>2, <1>8 DEF Watching, Ended
  <2> QED BY <1>4, <1>6, <1>8, <2>1, EndStep
<1>9. CASE proc' = "running" /\ proc = "running" /\ curUser' = curUser
  <2>1. UNCHANGED <<fetched, coords, coordReads, invited, fetchers, inviters>>
    BY <1>2, <1>9 DEF Watching, watching
  <2>2. Refetched(fetched, fetched', UserLists(curUser'), {0} \cup DOMAIN fetched)
    BY <1>1, <1>9, <2>1, RefetchedSame
  <2> QED BY <1>4, <1>6, <1>7, <1>9, <2>1, <2>2, RunStep
<1> QED BY <1>7, <1>8, <1>9

\* The block of registerUserWithName.
LEMMA EntryTimerInv ==
    ASSUME SharingInv, Recorded, NEW k \in DOMAIN timers, EntryTimer(k)
    PROVE  SharingInv'
<1>1. /\ SessionInv /\ UsersTypeOK /\ EntriesInv /\ CloudTypeOK
      /\ RegisteringOnce(authCalls, timers) /\ fetched \in Seq(Fetched)
      /\ \A c \in DOMAIN fetched :
            /\ fetched[c].list \in UserLists(curUser)
            /\ fetched[c].list.copy \in {0} \cup DOMAIN fetched
  BY FetchedBefore
<1>2. /\ RegisteredTimer(k) /\ ChangingFetched(ChangedIn(Disowned(fetched), curLST'))
      /\ IssueUsers(<<PutEntry(timers[k].uid)>>)
  BY DEF EntryTimer
<1>3. SessionInv'
  BY <1>1, <1>2, RegisteredTimerInv
<1>4. UsersTypeOK' /\ EntriesInv'
  BY <1>1, <1>2, EntriesWritten
<1>5. KeepsCopies /\ (Ended \/ (proc = "running" /\ proc' = "running"))
  BY <1>1, <1>2, RegisteredCopies
<1>6. CASE Ended
  <2>1. Unwatched
    BY <1>2, <1>6 DEF ChangingFetched, Ended
  <2> QED BY <1>3, <1>4, <1>6, <2>1, EndStep
<1>7. CASE proc = "running" /\ proc' = "running"
  <2>1. /\ fetched' = ChangedIn(Disowned(fetched), curLST')
        /\ UNCHANGED <<coords, coordReads, invited, fetchers, inviters>>
    BY <1>2, <1>7 DEF ChangingFetched
  <2>2. /\ curLST' \in Seq(List) \cup {Nil}
        /\ Rows(curLST') \in Seq(UserLists(curUser'))
        /\ Rows(curLST') \in Seq(CopyLists({0} \cup DOMAIN fetched))
    BY <1>3, <1>5, <1>7, ScreenAfter
  <2>3. UserLists(curUser') \subseteq List
    BY OwnerSets
  <2> DEFINE gs == Disowned(fetched)
             C == {0} \cup DOMAIN fetched
  <2>4. Refetched(fetched, gs, UserLists(curUser'), C)
    BY <1>1, RefetchedDisowned
  <2> HIDE DEF gs, C
  <2>5. /\ gs \in Seq(Fetched)
        /\ \A c \in DOMAIN gs : gs[c].list \in UserLists(curUser') /\ gs[c].list.copy \in C
    BY <2>4 DEF Refetched
  <2>6. Rows(curLST') \in Seq(CopyLists(C))
    BY <2>2 DEF C
  <2>7. Refetched(gs, ChangedIn(gs, curLST'), UserLists(curUser'), C)
    BY <2>2, <2>3, <2>5, <2>6, RefetchedChanged
  <2>8. Refetched(fetched, fetched', UserLists(curUser'), C)
    BY <2>1, <2>4, <2>7, RefetchedTwice DEF gs
  <2>9. Refetched(fetched, fetched', UserLists(curUser'), {0} \cup DOMAIN fetched)
    BY <2>8 DEF C
  <2> QED BY <1>3, <1>4, <1>5, <1>7, <2>1, <2>9, RunStep
<1> QED BY <1>5, <1>6, <1>7

\* The block of loginWithEmail.
LEMMA EnterTimerInv ==
    ASSUME SharingInv, Recorded, NEW k \in DOMAIN timers, EnterTimer(k)
    PROVE  SharingInv'
<1>1. /\ SessionInv /\ StoreInv /\ UsersTypeOK /\ EntriesInv /\ CloudTypeOK
      /\ RegisteringOnce(authCalls, timers) /\ fetched \in Seq(Fetched)
      /\ \A c \in DOMAIN fetched :
            /\ fetched[c].list \in UserLists(curUser)
            /\ fetched[c].list.copy \in {0} \cup DOMAIN fetched
  BY FetchedBefore
<1> DEFINE uid == timers[k].uid
           lst == SetTheUser(Rows(curLST), uid)
           gs == ChangedIn(Disowned(fetched), lst)
           C == {0} \cup DOMAIN fetched
<1>2. /\ SignedInTimer(k) /\ IssueUsers(<< >>)
      /\ ChangingFetched(Disowned(ChangedIn(fetched, lst)))
  BY DEF EnterTimer
<1>3. SessionInv'
  BY <1>1, <1>2, SignedInTimerInv
<1>4. KeepsRegistering /\ accounts' = accounts
  BY <1>1, <1>2, TimerRegistering
<1>5. UsersTypeOK' /\ EntriesInv'
  BY <1>1, <1>2, <1>4, EntriesIssue
<1>6. KeepsCopies /\ proc' = "running" /\ proc = "running"
  BY <1>1, <1>2, ReadBackCopies
<1>7. /\ fetched' = Disowned(ChangedIn(fetched, lst))
      /\ UNCHANGED <<coords, coordReads, invited, fetchers, inviters>>
  BY <1>2, <1>6 DEF ChangingFetched
<1>8. uid \in Uids
  BY <1>1, BlockFacts
<1>9. Rows(curLST) \in Seq(UserLists(curUser)) /\ Rows(curLST) \in Seq(CopyLists(C))
  <2>1. << >> \in Seq(UserLists(curUser))
    OBVIOUS
  <2>2. Rows(curLST) \in Seq(UserLists(curUser))
    BY <1>1, <1>6, <2>1, StoreRunning DEF Rows
  <2>3. KnownCopies(C)
    BY SharingParts DEF CopiesInv
  <2> QED BY <2>2, <2>3 DEF KnownCopies, LocalCopies
<1>10. 0 \in C
  OBVIOUS
<1> HIDE DEF C, uid
<1>11. lst \in Seq(UserLists(uid)) /\ lst \in Seq(CopyLists(C))
  BY <1>8, <1>9, <1>10, SetTheUserType, CopiesSetTheUser
<1> HIDE DEF lst
<1>12. Rows(lst) = lst /\ lst \in Seq(List)
  BY <1>11, OwnerSets, ListsArray
\* Each list that was fetched is the old user's, or one of lst the new user's.
<1> DEFINE U == UserLists(curUser) \cup UserLists(uid)
           hs == ChangedIn(fetched, lst)
<1>13. U \subseteq List /\ lst \in Seq(U)
  BY <1>11, OwnerSets
<1>14. \A c \in DOMAIN fetched : fetched[c].list \in U /\ fetched[c].list.copy \in C
  BY <1>1 DEF C
<1> HIDE DEF U
<1>15. Refetched(fetched, hs, U, C)
  BY <1>1, <1>11, <1>12, <1>13, <1>14, RefetchedChanged
<1> HIDE DEF hs
<1>16. Refetched(hs, Disowned(hs), UserLists(curUser'), C)
  <2> DEFINE Disown(f) == [f EXCEPT !.list.mine = FALSE]
  <2>1. /\ hs \in Seq(Fetched) /\ DOMAIN hs = 1..Len(hs) /\ Len(hs) \in Nat
        /\ \A c \in 1..Len(hs) : hs[c] \in Fetched /\ hs[c].list \in U /\ hs[c].list.copy \in C
    BY <1>15 DEF Refetched
  <2>2. Disowned(hs) = [c \in 1..Len(hs) |-> Disown(hs[c])]
    BY <2>1 DEF Disowned
  <2>3. ASSUME NEW c \in 1..Len(hs)
        PROVE  /\ Disown(hs[c]) \in Fetched
               /\ Disown(hs[c]).call = hs[c].call /\ Disown(hs[c]).node = hs[c].node
               /\ Disown(hs[c]).list \in UserLists(curUser') /\ Disown(hs[c]).list.copy \in C
    <3>1. PICK u : hs[c].list \in UserLists(u)
      BY <2>1 DEF U
    <3> DEFINE l == [hs[c].list EXCEPT !.mine = FALSE]
    <3>2. l \in List /\ l \in UserLists(curUser') /\ l.copy = hs[c].list.copy
      BY <3>1 DEF UserLists, List
    <3>3. hs[c] \in Fetched /\ hs[c].list.copy \in C
      BY <2>1
    <3>4. Disown(hs[c]) = [hs[c] EXCEPT !.list = l]
      BY <3>3 DEF Fetched
    <3> HIDE DEF l, Disown
    <3>5. /\ [hs[c] EXCEPT !.list = l] \in Fetched /\ [hs[c] EXCEPT !.list = l].list = l
          /\ [hs[c] EXCEPT !.list = l].call = hs[c].call
          /\ [hs[c] EXCEPT !.list = l].node = hs[c].node
      BY <3>2, <3>3 DEF Fetched
    <3> QED BY <3>2, <3>3, <3>4, <3>5
  <2> HIDE DEF Disown
  <2>4. Disowned(hs) \in [1..Len(hs) -> Fetched]
    BY <2>2, <2>3
  <2>5. Disowned(hs) \in Seq(Fetched) /\ DOMAIN Disowned(hs) = DOMAIN hs
    BY <2>1, <2>4
  <2>6. \A c \in DOMAIN hs : Disowned(hs)[c] = Disown(hs[c])
    BY <2>1, <2>2
  <2> QED BY <2>1, <2>3, <2>5, <2>6 DEF Refetched
<1>17. Refetched(fetched, fetched', UserLists(curUser'), {0} \cup DOMAIN fetched)
  BY <1>7, <1>15, <1>16, RefetchedTwice DEF hs, C
<1> QED BY <1>3, <1>5, <1>6, <1>7, <1>17, RunStep

-----------------------------------------------------------------------------
(* The blocks that attach observers and show what they fetched.            *)

LEMMA FiniteImage ==
    ASSUME NEW S, IsFiniteSet(S), NEW T, NEW f \in Surjection(S, T)
    PROVE  IsFiniteSet(T)
<1>1. PICK n \in Nat : ExistsSurjection(1..n, S)
  BY FS_NatSurjection
<1>2. ExistsSurjection(S, T)
  BY DEF ExistsSurjection
<1>3. ExistsSurjection(1..n, T)
  BY <1>1, <1>2, Fun_ExistsSurjTransitive
<1> QED BY <1>3, FS_NatSurjection

\* A call of FetchInvitationList attaches an observer for each invitation.
NewFetchers(invs, call) ==
    {[call |-> call, owner |-> c[1], list |-> c[2], seen |-> Nil] : c \in invs}

LEMMA NewFetchersAre ==
    ASSUME NEW invs \in SUBSET Invitation, NEW call \in Nat
    PROVE  /\ NewFetchers(invs, call) \subseteq Observer /\ IsFiniteSet(NewFetchers(invs, call))
           /\ \A f \in NewFetchers(invs, call) : <<f.owner, f.list>> \in invs
<1> DEFINE new(c) == [call |-> call, owner |-> c[1], list |-> c[2], seen |-> Nil]
<1>1. NewFetchers(invs, call) = {new(c) : c \in invs}
  BY DEF NewFetchers
<1>2. ASSUME NEW c \in invs
      PROVE  new(c) \in Observer /\ <<new(c).owner, new(c).list>> \in invs
  <2>1. c = <<c[1], c[2]>> /\ c[1] \in Uids /\ c[2] \in ListNames
    BY DEF Invitation
  <2>2. new(c) \in Observer
    BY <2>1 DEF Observer
  <2>3. <<new(c).owner, new(c).list>> = <<c[1], c[2]>>
    OBVIOUS
  <2> QED BY <2>1, <2>2, <2>3
<1>3. IsFiniteSet(invs)
  <2>1. IsFiniteSet(Accounts \cup {defUid}) /\ IsFiniteSet(ListNames)
    BY UsersAssumption, KeysAssumption, FS_AddElement
  <2>2. IsFiniteSet(Uids)
    BY <2>1 DEF Uids
  <2>3. IsFiniteSet(Invitation)
    BY <2>1, <2>2, FS_Product DEF Invitation
  <2> QED BY <2>3, FS_Subset
<1>4. [c \in invs |-> new(c)] \in Surjection(invs, NewFetchers(invs, call))
  BY <1>1 DEF Surjection
<1>5. IsFiniteSet(NewFetchers(invs, call))
  BY <1>3, <1>4, FiniteImage
<1> HIDE DEF new
<1> QED BY <1>1, <1>2, <1>5

LEMMA CallsCounted ==
    ASSUME ObserversInv
    PROVE  1 + Cardinality({f.call : f \in fetchers}) \in Nat
<1> DEFINE calls == {f.call : f \in fetchers}
<1>1. IsFiniteSet(fetchers)
  BY DEF ObserversInv
<1>2. [f \in fetchers |-> f.call] \in Surjection(fetchers, calls)
  BY DEF Surjection
<1> HIDE DEF calls
<1>3. IsFiniteSet(calls)
  BY <1>1, <1>2, FiniteImage
<1>4. Cardinality(calls) \in Nat
  BY <1>3, FS_CardinalityType
<1> QED BY <1>4 DEF calls

\* The block of readData.
LEMMA FetchTimerInv ==
    ASSUME SharingInv, Recorded, NEW k \in DOMAIN timers, FetchTimer(k)
    PROVE  SharingInv'
<1>1. /\ SessionInv /\ UsersTypeOK /\ EntriesInv /\ CloudTypeOK
      /\ RegisteringOnce(authCalls, timers) /\ fetched \in Seq(Fetched)
      /\ \A c \in DOMAIN fetched :
            /\ fetched[c].list \in UserLists(curUser)
            /\ fetched[c].list.copy \in {0} \cup DOMAIN fetched
  BY FetchedBefore
<1>2. MergeTimer(k) /\ IssueUsers(<< >>)
  BY DEF FetchTimer
<1>3. SessionInv'
  BY <1>1, <1>2, MergeTimerInv
<1>4. KeepsRegistering /\ accounts' = accounts
  BY <1>1, <1>2, TimerRegistering
<1>5. UsersTypeOK' /\ EntriesInv'
  BY <1>1, <1>2, <1>4, EntriesIssue
<1>6. /\ KeepsCopies
      /\ \/ Ended
         \/ proc = "running" /\ proc' = "running" /\ curUser' = curUser /\ auth # Nil
  BY <1>1, <1>2, MergeCopies
<1>7. CASE Ended
  <2>1. Unwatched
    BY <1>7 DEF FetchTimer, Ended
  <2> QED BY <1>3, <1>5, <1>7, <2>1, EndStep
<1>8. CASE proc = "running" /\ proc' = "running" /\ curUser' = curUser /\ auth # Nil
  <2>1. ObserversInv /\ CopiesInv
    BY SharingParts
  <2> DEFINE call == 1 + Cardinality({f.call : f \in fetchers})
             invs == IF coords = Nil THEN {} ELSE coords
             new == NewFetchers(invs, call)
  <2>2. /\ coordReads' = Append(coordReads, auth) /\ fetchers' = fetchers \cup new
        /\ fetched' = ChangedIn(fetched, curLST')
        /\ UNCHANGED <<coords, invited, inviters>>
    BY <1>8 DEF FetchTimer, NewFetchers
  <2>3. invs \in SUBSET Invitation /\ \A inv \in invs : Shared(inv)
    BY <2>1 DEF ObserversInv
  <2>4. call \in Nat
    BY <2>1, CallsCounted
  <2> HIDE DEF call, invs
  <2>5. /\ new \subseteq Observer /\ IsFiniteSet(new)
        /\ \A f \in new : <<f.owner, f.list>> \in invs
    BY <2>3, <2>4, NewFetchersAre
  <2> HIDE DEF new
  <2>6. fetchers' \subseteq Observer /\ IsFiniteSet(fetchers')
    BY <2>1, <2>2, <2>5, FS_Union DEF ObserversInv
  <2>7. coordReads' \in Seq(Accounts) /\ coordReads' \in Seq(everSignedIn')
    <3>1. auth \in Accounts /\ auth \in everSignedIn
      BY <1>1, <1>8, SharingParts DEF CloudTypeOK, HistoryFull
    <3>2. coordReads \in Seq(everSignedIn')
      BY <2>1, SignedInStays, MoreElements DEF ObserversInv
    <3>3. auth \in everSignedIn'
      BY <3>1, SignedInStays
    <3> QED BY <2>1, <2>2, <3>1, <3>2, <3>3 DEF ObserversInv
  <2>8. \A inv : Shared(inv) => Shared(inv)'
    BY <1>5, <1>8, SharedStays
  <2>9. \A f \in fetchers' : Shared(<<f.owner, f.list>>)'
    <3> SUFFICES ASSUME NEW f \in fetchers' PROVE Shared(<<f.owner, f.list>>)'
      OBVIOUS
    <3>1. Shared(<<f.owner, f.list>>)
      BY <2>1, <2>2, <2>3, <2>5 DEF ObserversInv
    <3> QED BY <2>8, <3>1
  <2>10. ObserversInv'
    BY <2>1, <2>2, <2>6, <2>7, <2>8, <2>9 DEF ObserversInv
  <2>11. /\ curLST' \in Seq(List) \cup {Nil}
         /\ Rows(curLST') \in Seq(UserLists(curUser'))
         /\ Rows(curLST') \in Seq(CopyLists({0} \cup DOMAIN fetched))
    BY <1>3, <1>6, <1>8, ScreenAfter
  <2>12. UserLists(curUser') \subseteq List
    BY OwnerSets
  <2>13. Refetched(fetched, fetched', UserLists(curUser'), {0} \cup DOMAIN fetched)
    BY <1>1, <1>8, <2>2, <2>11, <2>12, RefetchedChanged
  <2>14. CopiesInv'
    BY <1>5, <1>6, <1>8, <2>1, <2>2, <2>13, CopiesGoOn
  <2> QED BY <1>3, <1>5, <2>10, <2>14, SharingPartsNext
<1> QED BY <1>6, <1>7, <1>8

\* The inner block of readData.
LEMMA ShowTimerInv ==
    ASSUME SharingInv, Recorded, NEW k \in DOMAIN timers, ShowTimer(k)
    PROVE  SharingInv'
<1>1. /\ SessionInv /\ UsersTypeOK /\ EntriesInv /\ CloudTypeOK
      /\ RegisteringOnce(authCalls, timers) /\ fetched \in Seq(Fetched)
      /\ \A c \in DOMAIN fetched :
            /\ fetched[c].list \in UserLists(curUser)
            /\ fetched[c].list.copy \in {0} \cup DOMAIN fetched
  BY FetchedBefore
<1>2. InviteTimer(k, InvitationLST) /\ Watching /\ IssueUsers(<< >>)
  BY DEF ShowTimer
<1>3. PICK C : C = {0} \cup DOMAIN fetched
  OBVIOUS
<1>4. \A c \in DOMAIN fetched : fetched[c].list \in CopyLists(C)
  <2>1. UserLists(curUser) \subseteq List
    BY OwnerSets
  <2> QED BY <1>1, <1>3, <2>1 DEF CopyLists
<1>5. InvitationLST \in Seq(UserLists(curUser)) /\ InvitationLST \in Seq(CopyLists(C))
  BY <1>1, <1>4, InvitationIs
<1>6. SessionInv'
  BY <1>1, <1>2, <1>5, InviteTimerInv
<1>7. KeepsRegistering /\ accounts' = accounts
  BY <1>1, <1>2, TimerRegistering
<1>8. UsersTypeOK' /\ EntriesInv'
  BY <1>1, <1>2, <1>7, EntriesIssue
<1>9. CopiesInv /\ ObserversInv
  BY SharingParts
<1>10. KnownCopies(C) /\ 0 \in C
  BY <1>3, <1>9 DEF CopiesInv
<1>11. KnownCopies(C)' /\ proc = "running" /\ proc' = "running" /\ curUser' = curUser
  BY <1>2, <1>5, <1>10, InviteCopies
<1>12. UNCHANGED <<fetched, coords, coordReads, invited, fetchers, inviters>>
  BY <1>2, <1>11 DEF Watching, watching
<1>13. ObserversInv'
  BY <1>8, <1>9, <1>11, <1>12, ObserversSame
<1>14. KnownCopies({0} \cup DOMAIN fetched)'
  BY <1>3, <1>11, <1>12 DEF KnownCopies, LocalCopies, CopyLists
<1>15. \A inv : Shared(inv) => Shared(inv)'
  BY <1>8, <1>11, SharedStays
<1>16. \A c \in DOMAIN fetched' : Shared(fetched[c].node)'
  BY <1>9, <1>12, <1>15 DEF CopiesInv
<1>17. CopiesInv'
  BY <1>9, <1>11, <1>12, <1>14, <1>16 DEF CopiesInv
<1> QED BY <1>6, <1>8, <1>13, <1>17, SharingPartsNext

-----------------------------------------------------------------------------
(* Inviting, and being invited.                                            *)

\* The fetched lists, when a step leaves them, the process and the user alone.
LEMMA CopiesSame ==
    ASSUME CopiesInv, UNCHANGED <<proc, curUser, fetched, invited>>, KeepsCopies,
           Recorded,
           proc # "running" => fetchers' = {} /\ inviters' = {}
    PROVE  CopiesInv'
<1>1. PICK C : C = {0} \cup DOMAIN fetched
  OBVIOUS
<1>2. KnownCopies(C)'
  BY <1>1 DEF CopiesInv, KeepsCopies
<1>3. KnownCopies({0} \cup DOMAIN fetched)'
  BY <1>1, <1>2 DEF KnownCopies, LocalCopies, CopyLists
<1>4. \A inv : Shared(inv) => Shared(inv)'
  BY SharedStays
<1>5. \A c \in DOMAIN fetched' : Shared(fetched[c].node)'
  BY <1>4 DEF CopiesInv
<1> QED BY <1>3, <1>5 DEF CopiesInv

\* Steps of the network and of others, which leave the observers alone.
LEMMA OutsideStep ==
    ASSUME SharingInv, SessionInv', UsersTypeOK', EntriesInv', Recorded,
           KeepsCopies, UNCHANGED <<proc, curUser>>,
           UNCHANGED <<fetched, coords, coordReads, invited, fetchers, inviters>>
    PROVE  SharingInv'
<1>1. ObserversInv /\ CopiesInv
  BY SharingParts
<1>2. ObserversInv'
  BY <1>1, ObserversSame
<1>3. proc # "running" => fetchers' = {} /\ inviters' = {}
  BY <1>1 DEF CopiesInv
<1>4. CopiesInv'
  BY <1>1, <1>3, CopiesSame
<1> QED BY <1>2, <1>4, SharingPartsNext

\* The app as AppSession has it, when only events are counted.
LEMMA SessionSame ==
    ASSUME SessionInv, UNCHANGED <<localVars, sessionVars>>, events' \in 0..MaxEvents
    PROVE  /\ SessionInv' /\ KeepsCopies /\ accounts' = accounts
           /\ UNCHANGED <<proc, curUser>>
           /\ KeepsRegistering
<1>1. UNCHANGED <<auth, accounts, server, pending, onlineLST, reads, timers, authCalls>>
  BY DEF sessionVars, inFlight
<1>2. UNCHANGED <<proc, curUser, curLST, offlineLST>>
  BY DEF localVars, memory
<1>3. CloudTypeOK'
  BY <1>1 DEF SessionInv, CloudTypeOK
<1>4. SessionInv'
  BY <1>3, LocalUnchanged DEF SessionInv
<1> QED BY <1>1, <1>2, <1>4, SameCopies, SameRegistering

\* A handler of sharing raises.
LEMMA RaiseStep ==
    ASSUME SharingInv, Recorded, proc = "running", Raise, Issue(<< >>), IssueUsers(<< >>), Unwatched,
           UNCHANGED <<auth, accounts>>, Event \/ UNCHANGED events
    PROVE  SharingInv'
<1>1. /\ SessionInv /\ StoreInv /\ UsersTypeOK /\ EntriesInv /\ CloudTypeOK
      /\ RegisteringOnce(authCalls, timers)
  BY FetchedBefore
<1>2. proc' # "running" /\ Forgotten
  BY DEF Raise
<1>3. SessionInv'
  BY <1>1, NoWrites, RaiseEnds, TapType DEF SessionInv
<1>4. KeepsRegistering
  BY <1>1, IssueRegistering
<1>5. UsersTypeOK' /\ EntriesInv'
  BY <1>1, <1>4, EntriesIssue
<1>6. Ended
  BY <1>2, CopiesIssue
<1> QED BY <1>3, <1>5, <1>6, EndStep

\* shareBtnAction and inviteUserWithEmail.
LEMMA InviteTapInv ==
    ASSUME SharingInv, Recorded, NEW t \in Accounts, InviteTap(t)
    PROVE  SharingInv'
<1>1. /\ SessionInv /\ StoreInv /\ UsersTypeOK /\ EntriesInv /\ CloudTypeOK
      /\ RegisteringOnce(authCalls, timers)
  BY FetchedBefore
<1>2. proc = "running" /\ Event
  BY DEF InviteTap, OnItemScreen
<1>3. CASE screen.row \in DOMAIN Rows(curLST)
  <2> DEFINE l == curLST[screen.row]
             v == [target |-> t, owner |-> l.listOwner, list |-> l.listName, seen |-> Nil]
  <2>1. /\ inviters' = inviters \cup {v}
        /\ UNCHANGED <<localVars, sessionVars, users, usersPending, coords, coordReads,
                       fetched, invited, fetchers>>
    BY <1>3 DEF InviteTap
  <2>2. Rows(curLST) = curLST /\ curLST \in Seq(UserLists(curUser))
    <3>1. curLST # Nil
      BY <1>3 DEF Rows
    <3> QED BY <1>1, <1>2, <3>1, StoreRunning DEF Rows
  <2>3. l \in UserLists(curUser)
    BY <1>3, <2>2
  <2>4. v \in Inviter
    BY <2>1, <2>3 DEF Inviter, UserLists, List
  <2> HIDE DEF v
  <2>5. events' \in 0..MaxEvents
    BY <1>1, <1>2, EventType
  <2>6. /\ SessionInv' /\ KeepsCopies /\ accounts' = accounts /\ UNCHANGED <<proc, curUser>>
        /\ KeepsRegistering
    BY <1>1, <2>1, <2>5, SessionSame
  <2>7. UsersTypeOK' /\ EntriesInv'
    BY <1>1, <2>1, <2>6, EntriesSame
  <2>8. ObserversInv /\ CopiesInv
    BY SharingParts
  <2>9. \A inv : Shared(inv) => Shared(inv)'
    BY <2>7, SharedStays
  <2>12. coordReads' \in Seq(everSignedIn')
    BY <2>1, <2>8, SignedInStays, MoreElements DEF ObserversInv
  <2>10. ObserversInv'
    BY <2>1, <2>4, <2>8, <2>9, <2>12 DEF ObserversInv
  <2>11. CopiesInv'
    BY <1>2, <2>1, <2>6, <2>7, <2>8, CopiesSame
  <2> QED BY <2>6, <2>7, <2>10, <2>11, SharingPartsNext
<1>4. CASE screen.row \notin DOMAIN Rows(curLST)
  <2>1. /\ Raise /\ Issue(<< >>) /\ IssueUsers(<< >>) /\ Unwatched
        /\ UNCHANGED <<auth, accounts>>
    BY <1>4 DEF InviteTap
  <2> QED BY <1>2, <2>1, RaiseStep
<1> QED BY <1>3, <1>4

\* An observer of inviteUserWithEmail hears of Users.
LEMMA InviterEventInv ==
    ASSUME SharingInv, Recorded, NEW v \in inviters, InviterEvent(v)
    PROVE  SharingInv'
<1>1. /\ SessionInv /\ StoreInv /\ UsersTypeOK /\ EntriesInv /\ CloudTypeOK
      /\ RegisteringOnce(authCalls, timers)
  BY FetchedBefore
<1>2. ObserversInv /\ CopiesInv
  BY SharingParts
<1>3. proc = "running"
  BY <1>2 DEF CopiesInv
<1>4. UNCHANGED <<auth, accounts, events>>
  BY DEF InviterEvent
<1>5. CASE \A u \in Uids : UsersView[u] = Nil
  <2>1. Raise /\ Issue(<< >>) /\ IssueUsers(<< >>) /\ Unwatched
    BY <1>5 DEF InviterEvent
  <2> QED BY <1>3, <1>4, <2>1, RaiseStep
<1>6. CASE ~ \A u \in Uids : UsersView[u] = Nil
  <2> DEFINE put == ~ (UsersView[v.target] = Nil \/ v.list = Nil)
             w == PutInvitation(v.target, <<v.owner, v.list>>)
             ws == IF put THEN <<w>> ELSE << >>
             seen == [v EXCEPT !.seen = UsersView]
  <2>1. /\ inviters' = (inviters \ {v}) \cup {seen}
        /\ usersPending' = usersPending \o ws
        /\ UNCHANGED <<localVars, server, inFlight, users, coords, coordReads, fetched,
                       invited, fetchers>>
    BY <1>6 DEF InviterEvent, InviterSeen
  <2>2. UsersView \in UsersNode
    BY <1>1, ApplyUsersType DEF UsersTypeOK, UsersView
  <2>3. v \in Inviter
    BY <1>2 DEF ObserversInv
  <2>4. seen \in Inviter
    BY <2>2, <2>3 DEF Inviter
  <2>5. put => w \in UserWrite /\ w.kind # "entry"
    <3>1. v.target \in Uids /\ v.owner \in Uids /\ v.list \in ListNames \cup {Nil}
      BY <2>3 DEF Inviter, Uids
    <3> SUFFICES ASSUME put PROVE w \in UserWrite /\ w.kind # "entry"
      OBVIOUS
    <3>2. <<v.owner, v.list>> \in Invitation
      BY <3>1 DEF Invitation
    <3>3. w \in [kind : {"put", "remove"}, uid : Uids, inv : Invitation]
      BY <3>1, <3>2 DEF PutInvitation
    <3>4. w.kind = "put"
      BY DEF PutInvitation
    <3> HIDE DEF w
    <3> QED BY <3>3, <3>4 DEF UserWrite
  <2> HIDE DEF seen, put, w
  <2>6. ws = << >> \/ \E x \in UserWrite : x.kind # "entry" /\ ws = <<x>>
    BY <2>5
  <2> HIDE DEF ws
  <2>7. UNCHANGED <<localVars, sessionVars>> /\ events' \in 0..MaxEvents
    BY <1>1, <1>4, <2>1 DEF sessionVars, CloudTypeOK
  <2>8. /\ SessionInv' /\ KeepsCopies /\ accounts' = accounts /\ UNCHANGED <<proc, curUser>>
        /\ KeepsRegistering
    BY <1>1, <2>7, SessionSame
  <2>9. IssueUsers(ws)
    BY <1>3, <2>1, <2>8 DEF IssueUsers
  <2>10. UsersTypeOK' /\ EntriesInv'
    BY <1>1, <2>6, <2>8, <2>9, EntriesIssue
  <2>11. \A inv : Shared(inv) => Shared(inv)'
    BY <2>10, SharedStays
  <2>14. coordReads' \in Seq(everSignedIn')
    BY <1>2, <2>1, SignedInStays, MoreElements DEF ObserversInv
  <2>12. ObserversInv'
    BY <1>2, <2>1, <2>4, <2>11, <2>14 DEF ObserversInv
  <2>13. CopiesInv'
    BY <1>2, <1>3, <2>1, <2>8, <2>10, CopiesSame
  <2> QED BY <2>8, <2>10, <2>12, <2>13, SharingPartsNext
<1> QED BY <1>5, <1>6

\* The answer to readCoordinates.
LEMMA CoordAnswerInv ==
    ASSUME SharingInv, Recorded, CoordAnswer
    PROVE  SharingInv'
<1>1. /\ SessionInv /\ UsersTypeOK /\ EntriesInv /\ CloudTypeOK
      /\ RegisteringOnce(authCalls, timers)
  BY FetchedBefore
<1>2. ObserversInv /\ CopiesInv
  BY SharingParts
<1> DEFINE uid == Head(coordReads)
           invs == UsersView[uid]
<1>3. /\ coordReads # << >> /\ coords' = IF invs \in {Nil, {}} THEN coords ELSE invs
      /\ coordReads' = Tail(coordReads)
      /\ UNCHANGED <<vars, users, usersPending, fetched, invited, fetchers, inviters>>
  BY DEF CoordAnswer
<1>4. /\ coordReads \in Seq(Accounts) /\ coordReads \in Seq(everSignedIn)
      /\ Invitees \subseteq everInvited
  BY <1>2, SharingParts DEF ObserversInv, HistoryFull
<1>5. uid \in Uids /\ uid \in everSignedIn /\ coordReads' \in Seq(Accounts)
  BY <1>3, <1>4 DEF Uids
<1>17. coordReads' \in Seq(everSignedIn')
  <2>1. Tail(coordReads) \in Seq(everSignedIn)
    BY <1>3, <1>4
  <2> QED BY <1>3, <2>1, SignedInStays, MoreElements
<1>6. UsersView \in UsersNode
  BY <1>1, ApplyUsersType DEF UsersTypeOK, UsersView
<1> HIDE DEF uid
<1>7. invs \in (SUBSET Invitation) \cup {Nil}
  BY <1>5, <1>6 DEF UsersNode
<1>8. invs # Nil => \A inv \in invs : Shared(inv)
  <2> SUFFICES ASSUME invs # Nil, NEW inv \in invs PROVE Shared(inv)
    OBVIOUS
  <2> DEFINE p == <<uid, inv>>
  <2>1. p \in Uids \X Invitation /\ p[1] = uid /\ p[2] = inv
    BY <1>5, <1>7
  <2> HIDE DEF p
  <2>2. p \in Invitees
    BY <2>1 DEF Invitees
  <2> QED BY <1>4, <1>5, <2>2 DEF Shared, p
<1> HIDE DEF invs
<1>9. UNCHANGED <<localVars, sessionVars>> /\ events' \in 0..MaxEvents
  BY <1>1, <1>3 DEF vars, CloudTypeOK
<1>10. /\ SessionInv' /\ KeepsCopies /\ accounts' = accounts /\ UNCHANGED <<proc, curUser>>
       /\ KeepsRegistering
  BY <1>1, <1>9, SessionSame
<1>11. UsersTypeOK' /\ EntriesInv'
  BY <1>1, <1>3, <1>10, EntriesSame
<1>12. \A inv : Shared(inv) => Shared(inv)'
  BY <1>11, SharedStays
<1>13. /\ coords' = Nil \/ (coords' # {} /\ coords' \subseteq Invitation)
       /\ coords' # Nil => \A inv \in coords' : Shared(inv)
  <2>1. CASE invs \in {Nil, {}}
    BY <1>2, <1>3, <2>1 DEF ObserversInv
  <2>2. CASE invs \notin {Nil, {}}
    BY <1>3, <1>7, <1>8, <2>2
  <2> QED BY <2>1, <2>2
<1>14. ObserversInv'
  BY <1>2, <1>3, <1>5, <1>12, <1>13, <1>17 DEF ObserversInv
<1>15. proc # "running" => fetchers' = {} /\ inviters' = {}
  BY <1>2, <1>3 DEF CopiesInv
<1>16. CopiesInv'
  BY <1>2, <1>3, <1>10, <1>11, <1>15, CopiesSame
<1> QED BY <1>10, <1>11, <1>14, <1>16, SharingPartsNext

\* Copies of some fetched lists are copies of more of them.
LEMMA MoreCopies ==
    ASSUME NEW C, NEW D, C \subseteq D, KnownCopies(C)
    PROVE  KnownCopies(D)
<1>1. CopyLists(C) \subseteq CopyLists(D)
  BY DEF CopyLists
<1>2. ASSUME NEW lst \in Seq(CopyLists(C)) PROVE lst \in Seq(CopyLists(D))
  <2>1. /\ Len(lst) \in Nat /\ DOMAIN lst = 1..Len(lst) /\ lst = [i \in 1..Len(lst) |-> lst[i]]
        /\ \A i \in 1..Len(lst) : lst[i] \in CopyLists(C)
    OBVIOUS
  <2>2. lst \in [1..Len(lst) -> CopyLists(D)]
    BY <1>1, <2>1
  <2> QED BY <2>1, <2>2
<1> QED BY <1>2 DEF KnownCopies, LocalCopies

\* What is fetched: another copy, of a list that is not the current user's.
LEMMA FetchedListIs ==
    ASSUME fetched \in Seq(Fetched), NEW f \in Observer, NEW n \in ListNames,
           NEW node \in ListNode, NEW order \in SetToSeqs(Present(node.listItems)), NEW uid
    PROVE  /\ FetchedList(f, n, node, order) \in List
           /\ FetchedList(f, n, node, order) \in UserLists(uid)
           /\ FetchedList(f, n, node, order).copy = Len(fetched) + 1
<1> DEFINE l == ReadList(n, node, order)
<1>1. l \in List /\ ~ l.mine
  BY ReadListType
<1>2. Len(fetched) + 1 \in Nat /\ f.owner \in Uids
  BY DEF Observer
<1>3. FetchedList(f, n, node, order) =
        [l EXCEPT !.listOwner = f.owner, !.copy = Len(fetched) + 1]
  BY DEF FetchedList
<1> HIDE DEF l
<1> DEFINE m == [l EXCEPT !.listOwner = f.owner, !.copy = Len(fetched) + 1]
<1>4. /\ m \in List /\ m.listOwner = f.owner /\ m.mine = l.mine
      /\ m.copy = Len(fetched) + 1
  BY <1>1, <1>2 DEF List
<1> HIDE DEF m
<1>5. m \in UserLists(uid)
  BY <1>1, <1>2, <1>4 DEF UserLists
<1> QED BY <1>3, <1>4, <1>5 DEF m

\* An observer of FetchInvitationList hears of the owner's lists.
LEMMA FetcherEventInv ==
    ASSUME SharingInv, Recorded, NEW f \in fetchers, FetcherEvent(f)
    PROVE  SharingInv'
<1>1. /\ SessionInv /\ UsersTypeOK /\ EntriesInv /\ CloudTypeOK
      /\ RegisteringOnce(authCalls, timers) /\ fetched \in Seq(Fetched)
  BY FetchedBefore
<1>2. ObserversInv /\ CopiesInv
  BY SharingParts
<1>3. proc = "running" /\ f \in Observer /\ Shared(<<f.owner, f.list>>)
  BY <1>2 DEF CopiesInv, ObserversInv
<1> DEFINE lists == View[f.owner]
           seen == [f EXCEPT !.seen = lists]
<1>4. /\ fetchers' = (fetchers \ {f}) \cup {seen} /\ invited' = InvitedCall(f, lists)
      /\ UNCHANGED <<vars, users, usersPending, coords, coordReads, inviters>>
  BY DEF FetcherEvent
<1>5. UNCHANGED <<localVars, sessionVars>> /\ events' \in 0..MaxEvents
  BY <1>1, <1>4 DEF vars, CloudTypeOK
<1>6. /\ SessionInv' /\ KeepsCopies /\ accounts' = accounts /\ UNCHANGED <<proc, curUser>>
      /\ KeepsRegistering
  BY <1>1, <1>5, SessionSame
<1>7. UsersTypeOK' /\ EntriesInv'
  BY <1>1, <1>4, <1>6, EntriesSame
<1>8. \A inv : Shared(inv) => Shared(inv)'
  BY <1>7, SharedStays
<1>9. lists \in [ListNames -> ListNode \cup {Nil}]
  <2>1. View \in DataNode
    BY <1>1, ApplyAllType DEF CloudTypeOK, View
  <2>2. f.owner \in Uids
    BY <1>3 DEF Observer
  <2> QED BY <2>1, <2>2 DEF DataNode
<1> HIDE DEF lists
<1>10. ObserversInv'
  <2>1. seen \in Observer /\ seen.owner = f.owner /\ seen.list = f.list
    BY <1>3, <1>9 DEF Observer
  <2> HIDE DEF seen
  <2>2. IsFiniteSet(fetchers')
    BY <1>2, <1>4, FS_RemoveElement, FS_AddElement DEF ObserversInv
  <2>3. \A g \in fetchers' : Shared(<<g.owner, g.list>>)
    BY <1>2, <1>3, <1>4, <2>1 DEF ObserversInv
  <2>4. coordReads' \in Seq(everSignedIn')
    BY <1>2, <1>4, SignedInStays, MoreElements DEF ObserversInv
  <2> QED BY <1>2, <1>4, <1>8, <2>1, <2>2, <2>3, <2>4 DEF ObserversInv
<1>11. CopiesInv'
  <2>1. CASE InvitedList(f, lists) = {}
    <3>1. UNCHANGED <<fetched, invited>>
      BY <1>4, <2>1 DEF FetcherEvent, InvitedCall, lists
    <3> QED BY <1>2, <1>3, <1>6, <1>7, <3>1, CopiesSame
  <2>2. CASE InvitedList(f, lists) # {}
    <3>0. PICK n \in InvitedList(f, lists) :
            \E order \in SetToSeqs(Present(lists[n].listItems)) :
             fetched' = Append(fetched, [call |-> f.call, node |-> <<f.owner, n>>,
                                         list |-> FetchedList(f, n, lists[n], order)])
      BY <2>2 DEF FetcherEvent, lists
    <3>1. PICK order \in SetToSeqs(Present(lists[n].listItems)) :
             fetched' = Append(fetched, [call |-> f.call, node |-> <<f.owner, n>>,
                                         list |-> FetchedList(f, n, lists[n], order)])
      BY <3>0
    <3>2. n \in ListNames /\ lists[n] \in ListNode /\ n = f.list
      BY <1>9, <3>0 DEF InvitedList, Present
    <3> DEFINE l == FetchedList(f, n, lists[n], order)
               new == [call |-> f.call, node |-> <<f.owner, n>>, list |-> l]
    <3>3. l \in List /\ l \in UserLists(curUser) /\ l.copy = Len(fetched) + 1
      BY <1>1, <1>3, <3>1, <3>2, FetchedListIs
    <3> HIDE DEF l
    <3>4. new \in Fetched /\ new.call = f.call /\ new.node = <<f.owner, f.list>> /\ new.list = l
      BY <1>3, <3>2, <3>3 DEF Fetched, Observer, Invitation
    <3>5. fetched' = Append(fetched, new)
      BY <3>1 DEF l
    <3> HIDE DEF new
    <3> DEFINE last == Len(fetched) + 1
    <3>6. /\ fetched' \in Seq(Fetched) /\ DOMAIN fetched' = DOMAIN fetched \cup {last}
          /\ \A c \in DOMAIN fetched : fetched'[c] = fetched[c]
          /\ fetched'[last] = new /\ DOMAIN fetched = 1..Len(fetched) /\ Len(fetched) \in Nat
      <4>1. Len(fetched) \in Nat /\ DOMAIN fetched = 1..Len(fetched)
        BY <1>1
      <4>2. fetched' \in Seq(Fetched) /\ DOMAIN fetched' = 1..(Len(fetched) + 1)
        BY <1>1, <3>4, <3>5
      <4>3. \A c \in 1..Len(fetched) : fetched'[c] = fetched[c]
        BY <1>1, <3>4, <3>5
      <4>4. fetched'[last] = new
        BY <1>1, <3>4, <3>5
      <4> QED BY <4>1, <4>2, <4>3, <4>4
    <3>7. invited' = f.call /\ f.call \in Nat
      BY <1>3, <1>4, <2>2 DEF InvitedCall, Observer
    <3>8. \A c \in DOMAIN fetched' :
             /\ fetched'[c].list \in UserLists(curUser')
             /\ fetched'[c].list.copy \in {0} \cup DOMAIN fetched'
             /\ Shared(fetched'[c].node)
      <4> SUFFICES ASSUME NEW c \in DOMAIN fetched'
                   PROVE  /\ fetched'[c].list \in UserLists(curUser')
                          /\ fetched'[c].list.copy \in {0} \cup DOMAIN fetched'
                          /\ Shared(fetched'[c].node)
        OBVIOUS
      <4> HIDE DEF last
      <4>1. CASE c \in DOMAIN fetched
        BY <1>2, <1>6, <3>6, <4>1 DEF CopiesInv
      <4>2. CASE c = last
        BY <1>3, <1>6, <3>3, <3>4, <3>6, <4>2 DEF last
      <4> QED BY <3>6, <4>1, <4>2
    <3>9. KnownCopies({0} \cup DOMAIN fetched)'
      <4>1. PICK D : D = {0} \cup DOMAIN fetched'
        OBVIOUS
      <4>2. KnownCopies({0} \cup DOMAIN fetched)
        BY <1>2 DEF CopiesInv
      <4>3. {0} \cup DOMAIN fetched \subseteq D
        BY <3>6, <4>1
      <4>4. KnownCopies(D)
        BY <4>2, <4>3, MoreCopies
      <4>5. 0 \in D
        BY <4>1
      <4>6. KnownCopies(D)'
        BY <1>6, <4>4, <4>5 DEF KeepsCopies
      <4> QED BY <4>1, <4>6 DEF KnownCopies, LocalCopies, CopyLists
    <3>10. \A c \in DOMAIN fetched' : Shared(fetched[c].node)'
      BY <1>8, <3>8
    <3>11. \E c \in DOMAIN fetched' : fetched'[c].call = invited'
      BY <3>4, <3>6, <3>7
    <3> QED BY <1>3, <1>6, <3>6, <3>7, <3>8, <3>9, <3>10, <3>11 DEF CopiesInv
  <2> QED BY <2>1, <2>2
<1> QED BY <1>6, <1>7, <1>10, <1>11, SharingPartsNext

-----------------------------------------------------------------------------
(* The network and the other users.                                        *)

LEMMA UsersWriteArrivesInv ==
    ASSUME SharingInv, Recorded, UsersWriteArrives
    PROVE  SharingInv'
<1>1. /\ SessionInv /\ UsersTypeOK /\ EntriesInv /\ CloudTypeOK
      /\ RegisteringOnce(authCalls, timers)
  BY FetchedBefore
<1>2. UNCHANGED <<vars, watching>>
  BY DEF UsersWriteArrives
<1>3. UNCHANGED <<localVars, sessionVars>> /\ events' \in 0..MaxEvents
  BY <1>1, <1>2 DEF vars, CloudTypeOK
<1>4. /\ SessionInv' /\ KeepsCopies /\ accounts' = accounts /\ UNCHANGED <<proc, curUser>>
      /\ KeepsRegistering
  BY <1>1, <1>3, SessionSame
<1>5. UsersTypeOK' /\ KeepsEntries
  BY <1>1, UsersWriteArrivesStep
<1>6. EntriesInv'
  <2>1. \A uid \in Accounts : uid \in Uids
    BY DEF Uids
  <2> QED BY <1>1, <1>4, <1>5, <2>1, EntriesKept DEF KeepsEntries
<1>8. UNCHANGED <<fetched, coords, coordReads, invited, fetchers, inviters>>
  BY <1>2 DEF watching
<1> QED BY <1>4, <1>5, <1>6, <1>8, OutsideStep

LEMMA OtherInvitesInv ==
    ASSUME SharingInv, Recorded, NEW owner \in Accounts, NEW n \in ListNames, NEW t \in Accounts,
           OtherInvites(owner, n, t)
    PROVE  SharingInv'
<1>1. /\ SessionInv /\ UsersTypeOK /\ EntriesInv /\ CloudTypeOK
      /\ RegisteringOnce(authCalls, timers)
  BY FetchedBefore
<1>2. Event /\ UNCHANGED <<localVars, sessionVars, usersPending, watching>>
  BY DEF OtherInvites
<1>3. events' \in 0..MaxEvents
  BY <1>1, <1>2, EventType
<1>4. /\ SessionInv' /\ KeepsCopies /\ accounts' = accounts /\ UNCHANGED <<proc, curUser>>
      /\ KeepsRegistering
  BY <1>1, <1>2, <1>3, SessionSame
<1>5. UsersTypeOK' /\ KeepsEntries
  BY <1>1, OtherInvitesStep
<1>6. EntriesInv'
  <2>1. \A uid \in Accounts : uid \in Uids
    BY DEF Uids
  <2> QED BY <1>1, <1>4, <1>5, <2>1, EntriesKept DEF KeepsEntries
<1>7. UNCHANGED <<fetched, coords, coordReads, invited, fetchers, inviters>>
  BY <1>2 DEF watching
<1> QED BY <1>4, <1>5, <1>6, <1>7, OutsideStep

\* The answers and writes of AppSession, the other devices, and stuttering.
LEMMA NetworkInv ==
    ASSUME SharingInv, Recorded, UNCHANGED sharingVars,
           \/ AuthAnswer \/ ReadAnswer \/ WriteArrives \/ UNCHANGED vars
           \/ \E uid \in Accounts, n \in ListNames : OtherDevice(uid, n)
    PROVE  SharingInv'
<1>1. /\ SessionInv /\ UsersTypeOK /\ EntriesInv /\ CloudTypeOK
      /\ RegisteringOnce(authCalls, timers)
  BY FetchedBefore
<1>2. /\ UNCHANGED <<users, usersPending>>
      /\ UNCHANGED <<fetched, coords, coordReads, invited, fetchers, inviters>>
  BY DEF sharingVars, watching
<1>3. SessionInv'
  BY <1>1, AccountInv, ReadAnswerInv, WriteArrivesInv, OtherDeviceInv, SessionStutter
<1>4. UNCHANGED localVars
  BY DEF AuthAnswer, SignInDone, CreateDone, ProfileDone, AuthFails, ReadAnswer, WriteArrives,
         OtherDevice, vars
<1>5. UNCHANGED <<proc, curUser, curLST, offlineLST>>
  BY <1>4 DEF localVars, memory
<1>6. CASE AuthAnswer
  <2>1. onlineLST' = onlineLST
    BY <1>6 DEF AuthAnswer, SignInDone, CreateDone, ProfileDone, AuthFails
  <2>2. KeepsCopies
    BY <1>5, <2>1, SameCopies
  <2>3. UsersTypeOK' /\ EntriesInv'
    BY <1>1, <1>2, <1>6, EntriesAnswered
  <2> QED BY <1>2, <1>3, <1>5, <2>2, <2>3, OutsideStep
<1>7. CASE \/ ReadAnswer \/ WriteArrives \/ UNCHANGED vars
           \/ \E uid \in Accounts, n \in ListNames : OtherDevice(uid, n)
  <2>1. UNCHANGED <<authCalls, timers, accounts>>
    BY <1>7 DEF ReadAnswer, WriteArrives, OtherDevice, inFlight, vars, sessionVars
  <2>2. UsersTypeOK' /\ EntriesInv'
    BY <1>1, <1>2, <2>1, SameRegistering, EntriesSame
  <2>3. KeepsCopies
    <3>1. CASE ReadAnswer
      BY <1>1, <3>1, ReadAnswerCopies
    <3>2. CASE \/ WriteArrives \/ UNCHANGED vars
               \/ \E uid \in Accounts, n \in ListNames : OtherDevice(uid, n)
      <4>1. onlineLST' = onlineLST
        BY <3>2 DEF WriteArrives, OtherDevice, inFlight, vars, sessionVars
      <4> QED BY <1>5, <4>1, SameCopies
    <3> QED BY <1>7, <3>1, <3>2
  <2> QED BY <1>2, <1>3, <1>5, <2>2, <2>3, OutsideStep
<1> QED BY <1>6, <1>7

-----------------------------------------------------------------------------
LEMMA UsersNone ==
    ASSUME NEW us \in UsersNode
    PROVE  ApplyUsers(us, << >>) = us
<1>1. << >> \in Seq(UserWrite) /\ Len(<< >>) = 0
  OBVIOUS
<1>2. PICK F : UsersRun(us, << >>, F) /\ ApplyUsers(us, << >>) = F[Len(<< >>)]
  BY <1>1, UsersUnfold
<1> QED BY <1>1, <1>2 DEF UsersRun

LEMMA SharingInitInv == SharingInit => SharingInv
<1> SUFFICES ASSUME SharingInit PROVE SharingInv
  OBVIOUS
<1>1. Init /\ usersPending = << >> /\ users \in [Uids -> {Nil, {}}]
      /\ {u \in Uids : users[u] # Nil} \subseteq Existing
      /\ coords = Nil /\ coordReads = << >> /\ fetched = << >> /\ invited = 0
      /\ fetchers = {} /\ inviters = {} /\ everInvited = {} /\ everSignedIn = {}
  BY DEF SharingInit
<1>2. SessionInv
  BY <1>1, SessionInit
<1>3. /\ curLST = << >> /\ offlineLST = Nil /\ onlineLST = << >> /\ accounts = Existing
      /\ timers = << >> /\ authCalls = << >> /\ auth = Nil
  BY <1>1 DEF Init, LocalInit
<1>4. /\ << >> \in Seq(Accounts) /\ << >> \in Seq(Fetched) /\ IsFiniteSet({})
      /\ << >> \in Seq(UserWrite) /\ << >> \in Seq(everSignedIn)
  BY FS_EmptySet
<1>5. UsersTypeOK
  <2>1. users \in UsersNode
    BY <1>1 DEF UsersNode
  <2> QED BY <1>1, <1>4, <2>1 DEF UsersTypeOK
<1>6. EntriesInv
  <2>1. RegisteringOnce(authCalls, timers)
        /\ \A uid \in Accounts : ~ Registering(authCalls, timers, uid)
    BY <1>3 DEF RegisteringOnce, Registering, Once, Elements
  <2>2. \A uid \in Accounts : uid \notin accounts => NoEntry(uid)
    BY <1>1, <1>3 DEF NoEntry, Uids
  <2>3. \A uid \in Uids : EntryOnce(uid)
    BY <1>1 DEF EntryOnce, Once, Elements
  <2> QED BY <2>1, <2>2, <2>3 DEF EntriesInv, EntryOnce
<1>10. HistoryFull
  <2>1. UsersView = users
    BY <1>1, <1>5, UsersNone DEF UsersView, UsersTypeOK
  <2>2. Invitees = {}
    BY <1>1, <2>1 DEF Invitees
  <2> QED BY <1>1, <1>3, <2>2 DEF HistoryFull
<1>7. ObserversInv
  BY <1>1, <1>4 DEF ObserversInv
<1>8. KnownCopies({0} \cup DOMAIN fetched)
  <2> DEFINE C == {0} \cup DOMAIN fetched
  <2>1. << >> \in Seq(CopyLists(C))
    OBVIOUS
  <2>2. Rows(curLST) = << >> /\ Rows(offlineLST) = << >>
    BY <1>3 DEF Rows
  <2> HIDE DEF C
  <2>3. KnownCopies(C)
    BY <1>3, <2>1, <2>2 DEF KnownCopies, LocalCopies
  <2> QED BY <2>3 DEF C
<1>9. CopiesInv
  BY <1>1, <1>4, <1>8 DEF CopiesInv
<1> QED BY <1>2, <1>5, <1>6, <1>7, <1>9, <1>10, SharingParts

\* Every step.
LEMMA SharingStepInv ==
    ASSUME SharingInv, [SharingNext]_allVars
    PROVE  SharingInv'
<1>1. CASE UNCHANGED allVars
  <2>1. UNCHANGED vars /\ UNCHANGED sharingVars /\ UNCHANGED history
    BY <1>1 DEF allVars
  <2>2. Recorded
    <3>1. HistoryFull
      BY SharingParts
    <3>2. Invitees' = Invitees /\ auth' = auth
      BY <2>1 DEF Invitees, UsersView, sharingVars, vars, sessionVars
    <3> QED BY <2>1, <3>1, <3>2 DEF Recorded, HistoryFull, history
  <2> QED BY <2>1, <2>2, NetworkInv
<1>2. CASE SharingNext
  <2>0. Recorded /\ SharingStep
    BY <1>2 DEF SharingNext
  <2>1. CASE UnsharedStep \/ LoginStep \/ ItemTap \/ \E i \in 1..rows : RejectTap(i)
    BY <2>0, <2>1, UnsharedStepInv, LoginStepInv, ItemTapInv, RejectTapInv
  <2>2. CASE \E t \in Accounts : InviteTap(t)
    BY <2>0, <2>2, InviteTapInv
  <2>3. CASE SharingTimer
    <3>1. PICK k \in DOMAIN timers :
             EntryTimer(k) \/ FetchTimer(k) \/ ShowTimer(k) \/ EnterTimer(k)
      BY <2>0, <2>3 DEF SharingTimer
    <3> QED BY <2>0, <3>1, EntryTimerInv, FetchTimerInv, ShowTimerInv, EnterTimerInv
  <2>4. CASE Observed
    BY <2>0, <2>4, InviterEventInv, FetcherEventInv DEF Observed
  <2>5. CASE CoordAnswer \/ UsersWriteArrives
    BY <2>0, <2>5, CoordAnswerInv, UsersWriteArrivesInv
  <2>6. CASE \/ Answer \/ DataWriteArrives
             \/ \E uid \in Accounts, n \in ListNames :
                   OtherDevice(uid, n) /\ UNCHANGED sharingVars
    BY <2>0, <2>6, NetworkInv DEF Answer, DataWriteArrives
  <2>7. CASE \E uid, t \in Accounts, n \in ListNames : OtherInvites(uid, n, t)
    BY <2>0, <2>7, OtherInvitesInv
  <2> QED BY <2>0, <2>1, <2>2, <2>3, <2>4, <2>5, <2>6, <2>7 DEF SharingStep
<1> QED BY <1>1, <1>2

(***************************************************************************)
(* The inductive invariant of the app with shared lists: what SessionInv   *)
(* says of the disk, the screen and the cloud still holds, an account's    *)
(* entry below Users is written once, and each list that came from         *)
(* FetchInvitationList has been shared with an account that was signed in  *)
(* on this phone.                                                          *)
(***************************************************************************)
THEOREM SharingInvariant == SharingSpec => []SharingInv
<1>1. SharingInit => SharingInv
  BY SharingInitInv
<1>2. SharingInv /\ [SharingNext]_allVars => SharingInv'
  BY SharingStepInv
<1> QED BY <1>1, <1>2, PTL DEF SharingSpec

(***************************************************************************)
(* The types with shared lists; invitationLST, once it is set, is not      *)
(* empty, so that logging invitationLST[0] after a merge does not raise,   *)
(* in whatever order the observers are told.                               *)
(***************************************************************************)
THEOREM SharingTypeCorrect == SharingSpec => []SharingTypeOK
<1>1. SharingInv => SharingTypeOK
  BY DEF SharingInv
<1> QED BY <1>1, SharingInvariant, PTL

\* With invited lists on the screen too, data.plist holds the lists of one
\* user, and AppData.curUser is the user of user.plist.  (A list is a user's
\* if its owner has his uid: one that was fetched from the default user's
\* node is the default user's.)
THEOREM SharingDiskHasOneOwner == SharingSpec => []OneOwnerOnDisk
<1>1. SharingInv => OneOwnerOnDisk
  <2> SUFFICES ASSUME SharingInv PROVE OneOwnerOnDisk
    OBVIOUS
  <2>1. StoreInv
    BY FetchedBefore
  <2> QED BY <2>1, OneOwner
<1> QED BY <1>1, SharingInvariant, PTL

(***************************************************************************)
(* Nobody else's list is shown unless an account that has been signed in   *)
(* on this phone was invited to it: the observers of FetchInvitationList   *)
(* get all lists of the inviting user, and only the one that was shared    *)
(* comes to the screen, whoever signs in or up meanwhile, rejects it, or   *)
(* deletes it.                                                             *)
(***************************************************************************)
THEOREM ShownListsAreShared == SharingSpec => []OnlySharedListsShown
<1>1. SharingInv => OnlySharedListsShown
  <2> SUFFICES ASSUME SharingInv, NEW i \in DOMAIN Rows(curLST), curLST[i].copy # 0
               PROVE  Shared(fetched[curLST[i].copy].node)
    BY DEF OnlySharedListsShown
  <2>1. CopiesInv
    BY SharingParts
  <2> DEFINE C == {0} \cup DOMAIN fetched
  <2>2. Rows(curLST) \in Seq(CopyLists(C))
    BY <2>1 DEF CopiesInv, KnownCopies, LocalCopies
  <2>3. Rows(curLST)[i] \in CopyLists(C)
    BY <2>2
  <2>4. Rows(curLST) = curLST
    BY DEF Rows
  <2>5. curLST[i].copy \in DOMAIN fetched
    BY <2>3, <2>4 DEF CopyLists
  <2> QED BY <2>1, <2>5 DEF CopiesInv
<1> QED BY <1>1, SharingInvariant, PTL

-----------------------------------------------------------------------------
(* What leaves the Users node.                                             *)

\* A handler that writes neither the user's entry nor the removal.
LEMMA IssueStays ==
    ASSUME UsersTypeOK, NEW u \in Uids, NEW inv, IsInvited(u, inv),
           \A x \in Elements(usersPending) : x # PutEntry(u) /\ x # Removal(u, inv),
           NEW ws, IssueUsers(ws),
           \/ ws = << >>
           \/ \E w \in UserWrite : ws = <<w>> /\ w # PutEntry(u) /\ w # Removal(u, inv)
    PROVE  IsInvited(u, inv)'
<1>1. PICK all \in Seq(UserWrite) :
        /\ \/ ws = << >> /\ all = usersPending
           \/ \E w \in UserWrite : ws = <<w>> /\ all = Append(usersPending, w)
        /\ proc' = "running" => usersPending' = all /\ users' = users
        /\ proc' # "running" =>
             /\ usersPending' = << >>
             /\ \E k \in 0..Len(all) : users' = ApplyUsers(users, SubSeq(all, 1, k))
  BY IssueUsersIs
<1>2. CASE proc' = "running"
  BY <1>1, <1>2 DEF IsInvited
<1>3. CASE proc' # "running"
  <2>1. \A k \in 1..Len(all) : all[k] # PutEntry(u) /\ all[k] # Removal(u, inv)
    <3>1. CASE ws = << >> /\ all = usersPending
      BY <3>1 DEF Elements, UsersTypeOK
    <3>2. ASSUME NEW w \in UserWrite, ws = <<w>>, all = Append(usersPending, w)
          PROVE  \A k \in 1..Len(all) : all[k] # PutEntry(u) /\ all[k] # Removal(u, inv)
      <4>1. w # PutEntry(u) /\ w # Removal(u, inv)
        BY <3>2
      <4>2. /\ DOMAIN usersPending = 1..Len(usersPending) /\ Len(usersPending) \in Nat
            /\ Len(all) = Len(usersPending) + 1 /\ all[Len(usersPending) + 1] = w
            /\ \A k \in 1..Len(usersPending) : all[k] = usersPending[k]
        BY <3>2 DEF UsersTypeOK
      <4> QED BY <4>1, <4>2 DEF Elements
    <3> QED BY <1>1, <3>1, <3>2
  <2>2. PICK k \in 0..Len(all) : users' = ApplyUsers(users, SubSeq(all, 1, k))
    BY <1>1, <1>3
  <2> DEFINE sub == SubSeq(all, 1, k)
  <2>3. /\ sub \in Seq(UserWrite)
        /\ \A i \in 1..Len(sub) : sub[i] # PutEntry(u) /\ sub[i] # Removal(u, inv)
    BY <2>1, FirstWrites
  <2> HIDE DEF sub
  <2>4. ApplyUsers(users, sub)[u] # Nil /\ inv \in ApplyUsers(users, sub)[u]
    BY <2>3, InvitationStays DEF UsersTypeOK, IsInvited
  <2> QED BY <2>2, <2>4 DEF IsInvited, sub
<1> QED BY <1>2, <1>3

\* The steps that do not touch what the server has.
LEMMA UsersUntouched ==
    ASSUME \/ CoordAnswer \/ Answer \/ DataWriteArrives
           \/ \E f \in fetchers : FetcherEvent(f)
           \/ \E uid \in Accounts, n \in ListNames : OtherDevice(uid, n) /\ UNCHANGED sharingVars
    PROVE  users' = users
BY DEF CoordAnswer, Answer, DataWriteArrives, FetcherEvent, sharingVars

LEMMA StayStep ==
    ASSUME SharingInv, SharingStep, NEW u \in Uids, NEW inv \in Invitation,
           IsInvited(u, inv), ~ Rejected(u, inv)
    PROVE  IsInvited(u, inv)'
<1>1. /\ SessionInv /\ CloudTypeOK /\ UsersTypeOK /\ EntriesInv
  BY FetchedBefore
<1>2. \A x \in Elements(usersPending) : x # PutEntry(u) /\ x # Removal(u, inv)
  <2>1. Removal(u, inv) \notin Elements(usersPending)
    BY DEF Rejected, Removal
  <2>2. PutEntry(u) \notin Elements(usersPending)
    BY <1>1 DEF EntriesInv, IsInvited
  <2> QED BY <2>1, <2>2
<1>3. ASSUME IssueUsers(<< >>) PROVE IsInvited(u, inv)'
  BY <1>1, <1>2, <1>3, IssueStays
<1>4. ASSUME users' = users PROVE IsInvited(u, inv)'
  BY <1>4 DEF IsInvited
<1>5. CASE UnsharedStep \/ LoginStep \/ ItemTap
  BY <1>3, <1>5 DEF UnsharedStep, LoginStep, ItemTap
<1>6. CASE \E i \in 1..rows : RejectTap(i)
  BY <1>6 DEF Rejected
<1>7. ASSUME NEW t \in Accounts, InviteTap(t) PROVE IsInvited(u, inv)'
  BY <1>3, <1>4, <1>7 DEF InviteTap
<1>8. CASE SharingTimer
  <2>1. PICK k \in DOMAIN timers : EntryTimer(k) \/ FetchTimer(k) \/ ShowTimer(k) \/ EnterTimer(k)
    BY <1>8 DEF SharingTimer
  <2>2. CASE FetchTimer(k) \/ ShowTimer(k) \/ EnterTimer(k)
    BY <1>3, <2>2 DEF FetchTimer, ShowTimer, EnterTimer
  <2>3. CASE EntryTimer(k)
    <3> DEFINE w == PutEntry(timers[k].uid)
    <3>1. RegisteredTimer(k) /\ IssueUsers(<<w>>)
      BY <2>3 DEF EntryTimer
    <3>2. w \in UserWrite /\ NoEntry(timers[k].uid)
      BY <1>1, <3>1, EntriesWritten
    <3>3. timers[k].uid # u
      BY <3>2 DEF NoEntry, IsInvited
    <3>4. w # PutEntry(u) /\ w # Removal(u, inv)
      BY <3>3 DEF PutEntry, Removal
    <3> HIDE DEF w
    <3> QED BY <1>1, <1>2, <3>1, <3>2, <3>4, IssueStays
  <2> QED BY <2>1, <2>2, <2>3
<1>9. CASE Observed
  <2>1. ASSUME NEW v \in inviters, InviterEvent(v) PROVE IsInvited(u, inv)'
    BY <1>3, <1>4, <2>1 DEF InviterEvent
  <2>2. ASSUME NEW f \in fetchers, FetcherEvent(f) PROVE IsInvited(u, inv)'
    BY <1>4, <2>2, UsersUntouched
  <2> QED BY <1>9, <2>1, <2>2 DEF Observed
<1>10. CASE \/ CoordAnswer \/ Answer \/ DataWriteArrives
            \/ \E uid \in Accounts, n \in ListNames : OtherDevice(uid, n) /\ UNCHANGED sharingVars
  BY <1>4, <1>10, UsersUntouched
<1>11. CASE UsersWriteArrives
  <2> DEFINE w == Head(usersPending)
  <2>1. usersPending # << >> /\ users' = ApplyUser(users, w)
    BY <1>11 DEF UsersWriteArrives
  <2>2. w \in UserWrite /\ w \in Elements(usersPending)
    BY <1>1, <2>1 DEF UsersTypeOK, Elements
  <2> HIDE DEF w
  <2> QED BY <1>1, <1>2, <2>1, <2>2, OneWriteStays DEF UsersTypeOK, IsInvited
<1>12. ASSUME NEW owner \in Accounts, NEW n \in ListNames, NEW t \in Accounts,
              OtherInvites(owner, n, t)
       PROVE  IsInvited(u, inv)'
  <2> DEFINE w == PutInvitation(t, <<owner, n>>)
  <2>1. users' = ApplyUser(users, w)
    BY <1>12 DEF OtherInvites
  <2>2. w \in UserWrite /\ w # PutEntry(u) /\ w # Removal(u, inv)
    BY DEF PutInvitation, PutEntry, Removal, UserWrite, Invitation, Uids
  <2> HIDE DEF w
  <2> QED BY <1>1, <2>1, <2>2, OneWriteStays DEF UsersTypeOK, IsInvited
<1> QED BY <1>5, <1>6, <1>7, <1>8, <1>9, <1>10, <1>11, <1>12 DEF SharingStep

(***************************************************************************)
(* An invitation leaves the server only if somebody has rejected a list:   *)
(* setValue: of a user's entry, which replaces what is below it, is made   *)
(* once for an account and arrives before anybody can be found and invited *)
(* there, in whatever order sign-ups, invitations, answers and kills come. *)
(***************************************************************************)
THEOREM OnlyRejectedInvitationsLeave == SharingSpec => InvitationsStay
<1> DEFINE Stays == \A u \in Uids, inv \in Invitation :
                       IsInvited(u, inv) => IsInvited(u, inv)' \/ Rejected(u, inv)
<1>1. SharingInv /\ [SharingNext]_allVars => [Stays]_allVars
  <2> SUFFICES ASSUME SharingInv, SharingNext PROVE Stays
    OBVIOUS
  <2> QED BY StayStep DEF SharingNext
<1> QED BY <1>1, SharingInvariant, PTL DEF SharingSpec, InvitationsStay

-----------------------------------------------------------------------------
(* What a tap on an item writes to the cloud.                              *)

\* One more write is made after the others.
LEMMA ApplyAllAppend ==
    ASSUME NEW data \in DataNode, NEW ws \in Seq(Write), NEW w \in Write
    PROVE  ApplyAll(data, Append(ws, w)) = Apply(ApplyAll(data, ws), w)
<1> DEFINE all == Append(ws, w)
<1>1. /\ all \in Seq(Write) /\ Len(all) = Len(ws) + 1 /\ Len(ws) \in Nat
      /\ all[Len(ws) + 1] = w /\ \A i \in 1..Len(ws) : all[i] = ws[i]
  <2> HIDE DEF Write
  <2> QED OBVIOUS
<1> HIDE DEF all
<1>2. PICK F :
        /\ F[0] = data
        /\ \A n \in Nat : n + 1 <= Len(all) => F[n + 1] = Apply(F[n], all[n + 1])
        /\ ApplyAll(data, all) = F[Len(all)]
  <2>1. all \in Seq(Write)
    BY <1>1
  <2> QED BY <2>1, ApplyUnfolds
<1>3. PICK G :
        /\ G[0] = data
        /\ \A n \in Nat : n + 1 <= Len(ws) => G[n + 1] = Apply(G[n], ws[n + 1])
        /\ ApplyAll(data, ws) = G[Len(ws)]
  BY ApplyUnfolds
<1> DEFINE T == {n \in Nat : n <= Len(ws) => F[n] = G[n]}
<1>4. 0 \in T
  BY <1>2, <1>3
<1>5. \A n \in T : n + 1 \in T
  <2> SUFFICES ASSUME NEW n \in Nat, n + 1 <= Len(ws), F[n] = G[n]
               PROVE  F[n + 1] = G[n + 1]
    BY <1>1
  <2>1. n + 1 <= Len(all) /\ all[n + 1] = ws[n + 1]
    BY <1>1
  <2> QED BY <1>2, <1>3, <2>1
<1> HIDE DEF T
<1>6. T = Nat
  BY <1>4, <1>5, NatSet DEF T
<1>7. F[Len(ws)] = G[Len(ws)]
  BY <1>1, <1>6 DEF T
<1>8. F[Len(ws) + 1] = Apply(F[Len(ws)], w)
  BY <1>1, <1>2
<1> QED BY <1>1, <1>2, <1>3, <1>7, <1>8 DEF all

\* SaveItemToCloud: the item is below the list, and other users' lists stay.
LEMMA ItemWritten ==
    ASSUME NEW data \in DataNode, NEW it \in Item, NEW l \in List, it.itemName # Nil,
           l.listName # Nil, l.listOwner \in Uids
    PROVE  LET after == Apply(data, SaveItemToCloud(it, l))
           IN  /\ after[l.listOwner][l.listName].listItems[it.itemName].purchased
                    = it.itemPuchased
               /\ \A u \in Uids : u # l.listOwner => after[u] = data[u]
<1> DEFINE o == l.listOwner
           n == l.listName
           i == it.itemName
           node == [itemNameKey |-> FALSE, purchased |-> it.itemPuchased]
           base == ListNodeOrEmpty(data[o][n])
           items == [base.listItems EXCEPT ![i] = node]
           new == [base EXCEPT !.listItems = items]
           after == Apply(data, SaveItemToCloud(it, l))
<1>1. o \in Uids /\ n \in ListNames /\ i \in ItemNames /\ i # Nil
  BY DEF List, Item
<1>2. node \in ItemNode /\ node.purchased = it.itemPuchased
  <2>1. it.itemPuchased \in BOOLEAN
    BY DEF Item
  <2> QED BY <2>1 DEF ItemNode
<1> HIDE DEF node
<1>3. /\ data \in [Uids -> [ListNames -> ListNode \cup {Nil}]]
      /\ data[o] \in [ListNames -> ListNode \cup {Nil}]
      /\ data[o][n] \in ListNode \cup {Nil}
  BY <1>1 DEF DataNode
<1>4. base \in ListNode
  BY <1>3 DEF ListNodeOrEmpty, ListNode, NoItems
<1>5. after = [data EXCEPT ![o] = [data[o] EXCEPT ![n] =
                   Pruned([base EXCEPT !.listItems[i] = node])]]
  BY <1>1, <1>3 DEF Apply, SaveItemToCloud, node
<1> HIDE DEF base
<1>6. [base EXCEPT !.listItems[i] = node] = new
  OBVIOUS
<1>7. items \in [ItemNames -> ItemNode \cup {Nil}] /\ items[i] = node
  BY <1>1, <1>2, <1>4 DEF ListNode
<1>8. items # NoItems
  <2>1. NoItems[i] = Nil
    BY <1>1 DEF NoItems
  <2>2. node # Nil
    BY <1>2, NilIsNoNode
  <2> QED BY <1>7, <2>1, <2>2
<1> HIDE DEF items
<1>9. new.listItems = items
  BY <1>4 DEF ListNode
<1> HIDE DEF new
<1>10. Pruned(new) = new
  BY <1>8, <1>9 DEF Pruned
<1>11. after = [data EXCEPT ![o] = [data[o] EXCEPT ![n] = new]]
  BY <1>5, <1>6, <1>10
<1> HIDE DEF after, o, n, i, DataNode
<1>12. after[o][n] = new /\ \A u \in Uids : u # o => after[u] = data[u]
  BY <1>1, <1>3, <1>11
<1>13. after[o][n].listItems[i].purchased = it.itemPuchased
  BY <1>2, <1>7, <1>9, <1>12
<1> QED BY <1>12, <1>13 DEF after, o, n, i

\* A handler of the item screen that does not raise has saved its item.
LEMMA ItemSaved ==
    ASSUME SessionInv, proc = "running", screen # Nil, auth # Nil, proc' = "running",
           screen.row \in DOMAIN curLST, NEW it \in Item, NEW items, items = <<it>>,
           ~ RefusedItems(items), Issue(SavedItems(items))
    PROVE  LET l == curLST[screen.row]
           IN  /\ View'[l.listOwner][l.listName].listItems[it.itemName].purchased
                    = it.itemPuchased
               /\ \A u \in Uids : u # l.listOwner => View'[u] = View[u]
<1> DEFINE l == curLST[screen.row]
           w == SaveItemToCloud(it, l)
<1>1. StoreInv /\ server \in DataNode /\ pending \in Seq(Write)
  BY DEF SessionInv, CloudTypeOK
<1>2. l \in List /\ l.listOwner \in Uids
  BY <1>1, OpenedItems
<1>3. DOMAIN items = {1} /\ items[1] = it
  OBVIOUS
<1>4. l.listName # Nil /\ it.itemName # Nil
  BY <1>3 DEF RefusedItems, Refused
<1>5. SavedItems(items) = [k \in DOMAIN items |-> SaveItemToCloud(items[k], l)]
  BY DEF SavedItems
<1> HIDE DEF l
<1>6. w \in Write
  BY <1>2, <1>4, NodeWriteTypes
<1>7. SavedItems(items) = <<w>>
  <2> DEFINE ws == [k \in {1} |-> SaveItemToCloud(items[k], l)]
  <2>1. SavedItems(items) = ws
    BY <1>3, <1>5
  <2>2. ws = [k \in {1} |-> w]
    BY <1>3
  <2> HIDE DEF w
  <2>3. [k \in {1} |-> w] = <<w>>
    <3>1. {1} = 1..1
      OBVIOUS
    <3> QED BY <3>1
  <2> QED BY <2>1, <2>2, <2>3
<1> HIDE DEF w
<1>8. pending' = Append(pending, w) /\ server' = server
  <2>1. pending' = pending \o <<w>> /\ server' = server
    BY <1>7 DEF Issue, SignedIn
  <2>2. pending \o <<w>> = Append(pending, w)
    <3> HIDE DEF Write
    <3> QED BY <1>1, <1>6
  <2> QED BY <2>1, <2>2
<1>9. View' = Apply(View, w)
  BY <1>1, <1>6, <1>8, ApplyAllAppend DEF View
<1>10. View \in DataNode
  BY <1>1, ApplyAllType DEF View
<1> QED BY <1>2, <1>4, <1>9, <1>10, ItemWritten DEF w, l

\* The items of the opened list after a change.
LEMMA OpenedAfter ==
    ASSUME StoreInv, proc = "running", screen # Nil, screen.row \in DOMAIN curLST,
           NEW items \in Seq(Item), curLST' = WithItems(curLST, screen.row, items)
    PROVE  curLST'[screen.row].listItems = items
<1> DEFINE i == screen.row
<1>1. curLST[i] \in List
  BY OpenedItems
<1>2. curLST'[i] = [curLST[i] EXCEPT !.listItems = items]
  BY DEF WithItems
<1> HIDE DEF i
<1>3. [curLST[i] EXCEPT !.listItems = items].listItems = items
  BY <1>1 DEF List
<1> QED BY <1>2, <1>3 DEF i

\* What ItemTap does to the opened list, and below the list's owner.
EditReaches ==
    LET l == curLST[screen.row]
        new == Elements(curLST'[screen.row].listItems) \ Elements(l.listItems)
    IN  l.listOwner # curUser =>
          /\ \A it \in new :
                LET node == View'[l.listOwner][l.listName]
                IN  node.listItems[it.itemName].purchased = it.itemPuchased
          /\ new # {} => View'[curUser] = View[curUser]

\* The item that was saved is the only new one.
LEMMA OneEdit ==
    ASSUME StoreInv, proc = "running", NEW it,
           LET l == curLST[screen.row]
           IN  /\ Elements(curLST'[screen.row].listItems)
                    \subseteq Elements(l.listItems) \cup {it}
               /\ View'[l.listOwner][l.listName].listItems[it.itemName].purchased
                    = it.itemPuchased
               /\ \A u \in Uids : u # l.listOwner => View'[u] = View[u]
    PROVE  EditReaches
<1>1. curUser \in Uids
  BY StoreRunning
<1> QED BY <1>1 DEF EditReaches

LEMMA AddReaches ==
    ASSUME SessionInv, NEW n \in ItemNames, AddItemTap(n), auth # Nil, proc' = "running"
    PROVE  EditReaches
<1> DEFINE it == NewItem(n)
           tapped == <<it>>
<1>1. /\ proc = "running" /\ screen # Nil /\ AddItem(n, RefusedItems(tapped))
      /\ Issue(SavedItems(tapped)) /\ StoreInv
  BY DEF AddItemTap, OnItemScreen, SessionInv
<1>2. it \in Item
  BY DEF NewItem, Item
<1>3. screen.row \in DOMAIN curLST
  BY <1>1 DEF AddItem, Raise
<1> DEFINE old == curLST[screen.row].listItems
           items == Append(old, it)
<1>4. WriteItems(items, RefusedItems(tapped))
  BY <1>1, <1>3 DEF AddItem
<1>5. old \in Seq(Item)
  BY <1>1, <1>3, OpenedItems
<1> HIDE DEF it, tapped, old
<1>6. items \in Seq(Item) /\ Elements(items) \subseteq Elements(old) \cup {it}
  <2>1. /\ items \in Seq(Item) /\ DOMAIN items = 1..(Len(old) + 1) /\ Len(old) \in Nat
        /\ \A i \in 1..Len(old) : items[i] = old[i]
        /\ items[Len(old) + 1] = it /\ DOMAIN old = 1..Len(old)
    BY <1>2, <1>5
  <2> HIDE DEF items
  <2> QED BY <2>1 DEF Elements
<1> HIDE DEF items
<1>7. ~ RefusedItems(tapped) /\ curLST' = WithItems(curLST, screen.row, items)
  BY <1>4 DEF WriteItems, WriteDataThenRaise
<1>8. curLST'[screen.row].listItems = items
  BY <1>1, <1>3, <1>6, <1>7, OpenedAfter
<1>9. LET l == curLST[screen.row]
      IN  /\ View'[l.listOwner][l.listName].listItems[it.itemName].purchased
               = it.itemPuchased
          /\ \A u \in Uids : u # l.listOwner => View'[u] = View[u]
  BY <1>1, <1>2, <1>3, <1>7, ItemSaved DEF tapped
<1> QED BY <1>1, <1>6, <1>8, <1>9, OneEdit DEF old

LEMMA ToggleReaches ==
    ASSUME SessionInv, NEW r, ToggleItemTap(r), auth # Nil, proc' = "running"
    PROVE  EditReaches
<1> DEFINE tapped == [k \in DOMAIN Tapped(r) |-> [Tapped(r)[k] EXCEPT !.itemPuchased = ~ @]]
<1>1. /\ proc = "running" /\ screen # Nil /\ ToggleItem(r, RefusedItems(tapped))
      /\ Issue(SavedItems(tapped)) /\ StoreInv
  BY DEF ToggleItemTap, OnItemScreen, SessionInv
<1>2. ItemAt(r)
  BY <1>1 DEF ToggleItem, Raise
<1>3. screen.row \in DOMAIN curLST /\ r \in DOMAIN curLST[screen.row].listItems
  BY <1>2 DEF ItemAt
<1> DEFINE old == curLST[screen.row].listItems
           it == [old[r] EXCEPT !.itemPuchased = ~ @]
<1>12. PICK ks : /\ ks \subseteq ItemRows(curLST[screen.row], r)
                 /\ WriteItems(Toggled(old, ks), RefusedItems(tapped))
  BY <1>1, <1>2 DEF ToggleItem
<1> DEFINE items == Toggled(old, ks)
<1>4. WriteItems(items, RefusedItems(tapped))
  BY <1>12
<1>5. old \in Seq(Item)
  BY <1>1, <1>3, OpenedItems
<1>6. tapped = <<it>>
  <2> DEFINE t == <<old[r]>>
  <2>1. Tapped(r) = t
    BY <1>2 DEF Tapped
  <2>2. DOMAIN t = {1} /\ t[1] = old[r]
    OBVIOUS
  <2> HIDE DEF t
  <2>3. tapped = [k \in {1} |-> [t[k] EXCEPT !.itemPuchased = ~ @]]
    BY <2>1, <2>2
  <2>4. tapped = [k \in {1} |-> it]
    BY <2>2, <2>3
  <2> HIDE DEF it, tapped
  <2>5. {1} = 1..1
    OBVIOUS
  <2>6. [k \in {1} |-> it] = <<it>>
    BY <2>5
  <2> QED BY <2>4, <2>6
<1> HIDE DEF tapped
<1>7. it \in Item /\ items \in Seq(Item)
  <2> HIDE DEF old
  <2> QED BY <1>3, <1>5, ToggledType, ToggledItemsType DEF old
<1>8. Elements(items) \subseteq Elements(old) \cup {it}
  <2>1. \A k \in ks : old[k] = old[r]
    BY <1>12 DEF ItemRows
  <2> HIDE DEF old
  <2>2. \A k \in DOMAIN old : items[k] \in {old[k], it}
    BY <2>1 DEF Toggled
  <2>3. DOMAIN items = DOMAIN old
    BY DEF Toggled
  <2> HIDE DEF items, it
  <2> QED BY <2>2, <2>3 DEF Elements
<1> HIDE DEF items, it, old
<1>9. ~ RefusedItems(tapped) /\ curLST' = WithItems(curLST, screen.row, items)
  BY <1>4 DEF WriteItems, WriteDataThenRaise
<1>10. curLST'[screen.row].listItems = items
  BY <1>1, <1>3, <1>7, <1>9, OpenedAfter
<1>11. LET l == curLST[screen.row]
       IN  /\ View'[l.listOwner][l.listName].listItems[it.itemName].purchased
                = it.itemPuchased
           /\ \A u \in Uids : u # l.listOwner => View'[u] = View[u]
  BY <1>1, <1>3, <1>6, <1>7, <1>9, ItemSaved
<1> QED BY <1>1, <1>8, <1>10, <1>11, OneEdit DEF old

\* Nothing is new in a list that an item was deleted from.
LEMMA DeleteReaches ==
    ASSUME SessionInv, NEW r, DeleteItemTap(r), proc' = "running"
    PROVE  EditReaches
<1>1. StoreInv /\ proc = "running" /\ screen # Nil /\ \E alone, refused : DeleteItem(r, alone, refused)
  BY DEF DeleteItemTap, OnItemScreen, SessionInv
<1> DEFINE old == curLST[screen.row].listItems
           items == Without(old, r)
<1>2. /\ ItemAt(r) /\ curLST' = WithItems(curLST, screen.row, items)
  BY <1>1 DEF DeleteItem, Raise, WriteDataThenRaise
<1>3. screen.row \in DOMAIN curLST /\ r \in DOMAIN old
  BY <1>2 DEF ItemAt
<1>4. old \in Seq(Item)
  BY <1>1, <1>3, OpenedItems
<1> HIDE DEF old
<1>5. r \in 1..Len(old)
  BY <1>3, <1>4
<1>6. items \in Seq(Item) /\ Elements(items) \subseteq Elements(old)
  BY <1>4, <1>5, WithoutType
<1>7. curLST'[screen.row].listItems = items
  BY <1>1, <1>2, <1>3, <1>6, OpenedAfter DEF old
<1>8. Elements(curLST'[screen.row].listItems) \ Elements(curLST[screen.row].listItems) = {}
  BY <1>6, <1>7 DEF old
<1> QED BY <1>8 DEF EditReaches

(***************************************************************************)
(* What a signed-in user adds or toggles in somebody else's list is        *)
(* written below that list's owner, with its state, and the user's own     *)
(* lists in the cloud stay as they are: for any row, any number of copies  *)
(* of the list, and lists of equal names.                                  *)
(***************************************************************************)
THEOREM EditsGoToTheOwner == SharingSpec => SharedEditsReachOwner
<1> DEFINE Reaches == ItemTap /\ auth # Nil /\ proc' = "running" =>
             LET l == curLST[screen.row]
                 new == Elements(curLST'[screen.row].listItems) \ Elements(l.listItems)
             IN  l.listOwner # curUser =>
                   /\ \A it \in new :
                         LET node == View'[l.listOwner][l.listName]
                         IN  node.listItems[it.itemName].purchased = it.itemPuchased
                   /\ new # {} => View'[curUser] = View[curUser]
<1>1. SharingInv /\ [SharingNext]_allVars => [Reaches]_allVars
  <2> SUFFICES ASSUME SharingInv, ItemTap, auth # Nil, proc' = "running"
               PROVE  EditReaches
    BY DEF EditReaches
  <2>1. SessionInv
    BY FetchedBefore
  <2>2. (\E n \in ItemNames : AddItemTap(n)) \/ \E r : ToggleItemTap(r) \/ DeleteItemTap(r)
    BY DEF ItemTap
  <2> QED BY <2>1, <2>2, AddReaches, ToggleReaches, DeleteReaches
<1> QED BY <1>1, SharingInvariant, PTL DEF SharingSpec, SharedEditsReachOwner

=============================================================================

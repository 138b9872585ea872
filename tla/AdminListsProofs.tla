-------------------------- MODULE AdminListsProofs --------------------------
(***************************************************************************)
(* What holds of AdminLists for any finite set of users, any number of     *)
(* policies and any limit: its type, that no user is listed twice, and     *)
(* that the page of policies is complete up to the limit.                  *)
(***************************************************************************)
EXTENDS AdminLists, FiniteSetTheorems, SequenceTheorems, TLAPS

NoDup(us) == \A i, j \in DOMAIN us : us[i] = us[j] => i = j

\* Every list there is, in the store or on its way, names a user once; only the
\* page of the users waits for one.
ListsNoDup ==
    /\ NoDup(store)
    /\ \A a \in lists : NoDup(a.users) /\ (a.mine => page = "users")

\* What the list was not answered is newer than the list or beyond the limit.
Explained ==
    \A p \in live : p \in shelf.of \/ p > shelf.upto \/ p + Limit <= shelf.upto

\* The page has what it was answered, but for what was deleted; a deletion that was
\* answered well was one.
RowsCover ==
    /\ At("policies") =>
           shelf.stage = "no" /\ Explained /\ live \cap shelf.of \subseteq rows
    /\ shelf.stage = "done" => Explained
    /\ shelf.upto <= created /\ shelf.of \subseteq 1..shelf.upto
    /\ rows \subseteq 1..created
    /\ \A c \in deletes : c.of <= created /\ (c.done => c.of \notin live)

IInv == TypeOK /\ ListsNoDup /\ RowsCover

\* The server lists each of its users once.
LEMMA ListingOnce ==
    ASSUME IsFiniteSet(Users), NEW us \in SUBSET Users
    PROVE  Listing(us) \in Seq(Users) /\ NoDup(Listing(us))
<1> DEFINE n == Cardinality(us)
           Good(l) == \A i, j \in DOMAIN l : l[i] = l[j] => i = j
<1>1. IsFiniteSet(us)
  BY FS_Subset
<1>2. n \in Nat /\ ExistsBijection(1..n, us)
  BY <1>1, FS_CardinalityType
<1>3. PICK f \in Bijection(1..n, us) : TRUE
  BY <1>2 DEF ExistsBijection
<1>4. f \in [1..n -> us] /\ Good(f)
  BY <1>3 DEF Bijection, Injection, IsInjective
<1>5. Listing(us) \in [1..n -> us] /\ Good(Listing(us))
  BY <1>4 DEF Listing
<1>6. Listing(us) \in Seq(us)
  BY <1>2, <1>5
<1>7. Listing(us) \in Seq(Users)
  BY <1>2, <1>5
<1>8. QED
  BY <1>5, <1>7 DEF NoDup

\* A user who is not in the list is put before it.
LEMMA AddedOnce ==
    ASSUME NEW us \in Seq(Users), NoDup(us), NEW u \in Users
    PROVE  AddUser(us, u) \in Seq(Users) /\ NoDup(AddUser(us, u))
<1>1. CASE \E i \in DOMAIN us : us[i] = u
  BY <1>1 DEF AddUser
<1>2. CASE ~ \E i \in DOMAIN us : us[i] = u
  <2> DEFINE new == <<u>> \o us
  <2>1. AddUser(us, u) = new
    BY <1>2 DEF AddUser
  <2>2. /\ new \in Seq(Users) /\ Len(new) = 1 + Len(us)
        /\ \A i \in 1..(1 + Len(us)) : new[i] = IF i <= 1 THEN u ELSE us[i - 1]
    <3>1. <<u>> \in Seq(Users) /\ Len(<<u>>) = 1 /\ <<u>>[1] = u
      OBVIOUS
    <3>2. QED
      BY <3>1, ConcatProperties
  <2> HIDE DEF new
  <2>3. DOMAIN new = 1..(1 + Len(us)) /\ DOMAIN us = 1..Len(us) /\ Len(us) \in Nat
    BY <2>2
  <2>4. ASSUME NEW i \in DOMAIN new, NEW j \in DOMAIN new, new[i] = new[j]
        PROVE  i = j
    <3>1. CASE i = 1 /\ j # 1
      BY <1>2, <2>2, <2>3, <2>4, <3>1
    <3>2. CASE i # 1 /\ j = 1
      BY <1>2, <2>2, <2>3, <2>4, <3>2
    <3>3. CASE i # 1 /\ j # 1
      <4>1. i - 1 \in DOMAIN us /\ j - 1 \in DOMAIN us /\ us[i - 1] = us[j - 1]
        BY <2>2, <2>3, <2>4, <3>3
      <4>2. i - 1 = j - 1
        BY <4>1 DEF NoDup
      <4>3. QED
        BY <2>3, <4>2
    <3>4. QED
      BY <3>1, <3>2, <3>3
  <2>5. QED
    BY <2>1, <2>2, <2>4 DEF NoDup
<1>3. QED
  BY <1>1, <1>2

\* What is not among the newest Limit has as many newer ones.
LEMMA NewestUpTo ==
    ASSUME AdminListsAssumption, NEW n \in Nat, NEW ps \in SUBSET (1..n)
    PROVE  /\ Newest(ps) \subseteq ps
           /\ \A p \in ps \ Newest(ps) : p + Limit <= n
<1>1. ASSUME NEW p \in ps \ Newest(ps)
      PROVE  p + Limit <= n
  <2> DEFINE above == {q \in ps : q > p}
  <2>1. p \in 1..n /\ Limit \in Nat
    BY DEF AdminListsAssumption
  <2>2. above \subseteq (p + 1)..n
    <3>1. ASSUME NEW q \in ps, q > p
          PROVE  q \in (p + 1)..n
      <4>1. q \in 1..n
        OBVIOUS
      <4>2. QED
        BY <2>1, <3>1, <4>1
    <3>2. QED
      BY <3>1
  <2>3. IsFiniteSet((p + 1)..n)
        /\ Cardinality((p + 1)..n) = IF p + 1 > n THEN 0 ELSE n - (p + 1) + 1
    BY <2>1, FS_Interval
  <2>4. IsFiniteSet(above) /\ Cardinality(above) <= Cardinality((p + 1)..n)
    BY <2>2, <2>3, FS_Subset
  <2>5. Cardinality(above) \in Nat
    BY <2>4, FS_CardinalityType
  <2>6. ~(Cardinality(above) < Limit)
    BY DEF Newest
  <2>7. Limit # 0
    BY DEF AdminListsAssumption
  <2> HIDE DEF above
  <2>8. QED
    BY <2>1, <2>3, <2>4, <2>5, <2>6, <2>7
<1>2. QED
  BY <1>1 DEF Newest

\* The invariant holds at first.
LEMMA InitInv ==
    ASSUME AdminListsAssumption, Init
    PROVE  IInv
<1>1. created \in 0..MaxPolicies /\ live = 1..created /\ MaxPolicies \in Nat
  BY DEF Init, AdminListsAssumption
<1>2. TypeOK
  <2>1. creating \in [Users -> Call] /\ clicks \in 0..MaxClicks
    BY DEF AdminListsAssumption, Init, Call
  <2>2. store \in Seq(Users) /\ lists \subseteq ListCall
    BY DEF Init
  <2>3. assigned \in [Users -> 0..MaxPolicies] /\ allUsers \in [Users -> 0..MaxPolicies]
    BY <1>1 DEF Init
  <2>4. exists \subseteq Users /\ page \in {"users", "policies", "other"}
    BY DEF Init
  <2>5. loading \in BOOLEAN /\ error \in BOOLEAN /\ drafting \in BOOLEAN
    BY DEF Init
  <2>6. /\ shelf \in [stage : {"no", "sent", "done"}, of : SUBSET Policies,
                      upto : 0..MaxPolicies]
        /\ rows \subseteq Policies /\ deletingId \in 0..MaxPolicies
    BY <1>1 DEF Init
  <2>7. deletes \subseteq DeleteCall /\ drafts \subseteq DraftCall
    BY DEF Init
  <2>8. QED
    BY <1>1, <2>1, <2>2, <2>3, <2>4, <2>5, <2>6, <2>7 DEF TypeOK
<1>3. ListsNoDup
  BY DEF Init, ListsNoDup, NoDup
<1>4. RowsCover
  BY <1>1 DEF Init, RowsCover, At
<1>5. QED
  BY <1>2, <1>3, <1>4 DEF IInv

\* The clicks stay within their bound, and a click has a place in it.
LEMMA Clicks ==
    ASSUME AdminListsAssumption, IInv
    PROVE  /\ clicks' = clicks => clicks' \in 0..MaxClicks
           /\ Click => clicks' \in 1..MaxClicks /\ clicks' \in 0..MaxClicks
BY DEF AdminListsAssumption, IInv, TypeOK, Click

\* Calls that are abandoned stay calls, and nothing else about them changes.
LEMMA AbandonedCalls ==
    ASSUME IInv
    PROVE  /\ Abandoned(deletes) \subseteq DeleteCall
           /\ \A c \in Abandoned(deletes) : c.of <= created /\ (c.done => c.of \notin live)
           /\ Abandoned(drafts) \subseteq DraftCall
           /\ \A a \in Abandoned(lists) : a \in ListCall /\ NoDup(a.users) /\ ~a.mine
<1>1. ASSUME NEW c \in Abandoned(deletes)
      PROVE  c \in DeleteCall /\ c.of <= created /\ (c.done => c.of \notin live)
  <2>1. PICK d \in deletes : c = [d EXCEPT !.mine = FALSE]
    BY DEF Abandoned
  <2>2. d \in DeleteCall /\ d.of <= created /\ (d.done => d.of \notin live)
    BY DEF IInv, TypeOK, RowsCover
  <2>3. QED
    BY <2>1, <2>2 DEF DeleteCall
<1>2. ASSUME NEW c \in Abandoned(drafts)
      PROVE  c \in DraftCall
  <2>1. PICK d \in drafts : c = [d EXCEPT !.mine = FALSE]
    BY DEF Abandoned
  <2>2. d \in DraftCall
    BY DEF IInv, TypeOK
  <2>3. QED
    BY <2>1, <2>2 DEF DraftCall
<1>3. ASSUME NEW a \in Abandoned(lists)
      PROVE  a \in ListCall /\ NoDup(a.users) /\ ~a.mine
  <2>1. PICK b \in lists : a = [b EXCEPT !.mine = FALSE]
    BY DEF Abandoned
  <2>2. b \in ListCall /\ NoDup(b.users)
    BY DEF IInv, TypeOK, ListsNoDup
  <2>3. QED
    BY <2>1, <2>2 DEF ListCall
<1>4. QED
  BY <1>1, <1>2, <1>3

\* A page is shown: nothing of what it waits for is wrong.
LEMMA ShowInv ==
    ASSUME AdminListsAssumption, IInv, NEW p \in {"users", "policies", "other"}, Show(p),
           p = "users" => clicks' \in 1..MaxClicks, clicks' \in 0..MaxClicks,
           drafts' \subseteq DraftCall
    PROVE  IInv'
<1>1. UNCHANGED <<exists, assigned, created, live, store, creating, allUsers>>
  BY DEF Show, server
<1>2. /\ page' = p /\ loading' = (p # "other") /\ error' = FALSE
      /\ rows' = {} /\ deletingId' = 0 /\ drafting' = FALSE
      /\ deletes' = Abandoned(deletes)
  BY DEF Show
<1>3. /\ shelf' \in [stage : {"no", "sent", "done"}, of : SUBSET Policies,
                     upto : 0..MaxPolicies]
      /\ shelf'.stage # "done" /\ shelf'.of = {} /\ shelf'.upto = 0
  BY DEF Show, AdminListsAssumption
<1>4. ASSUME NEW b \in lists'
      PROVE  b \in ListCall /\ NoDup(b.users) /\ (b.mine => page' = "users")
  <2> DEFINE new == [at |-> clicks', mine |-> TRUE, done |-> FALSE, users |-> <<>>]
  <2>1. b \in Abandoned(lists) \/ (p = "users" /\ b = new)
    BY <1>4 DEF Show
  <2>2. CASE b \in Abandoned(lists)
    BY <2>2, AbandonedCalls
  <2>3. CASE p = "users" /\ b = new
    <3>1. <<>> \in Seq(Users) /\ NoDup(<<>>)
      BY DEF NoDup
    <3>2. QED
      BY <1>2, <2>3, <3>1 DEF ListCall
  <2>4. QED
    BY <2>1, <2>2, <2>3
<1>5. TypeOK'
  <2>1. lists' \subseteq ListCall /\ deletes' \subseteq DeleteCall
    BY <1>2, <1>4, AbandonedCalls
  <2>2. page' \in {"users", "policies", "other"} /\ rows' \subseteq Policies
    BY <1>2
  <2>3. loading' \in BOOLEAN /\ error' \in BOOLEAN /\ drafting' \in BOOLEAN
    BY <1>2
  <2>4. deletingId' \in 0..MaxPolicies
    BY <1>2 DEF AdminListsAssumption
  <2>5. QED
    BY <1>1, <1>3, <2>1, <2>2, <2>3, <2>4 DEF IInv, TypeOK, Policies, ListCall,
       DeleteCall, DraftCall
<1>6. ListsNoDup'
  BY <1>1, <1>4 DEF IInv, ListsNoDup
<1>7. RowsCover'
  <2>1. ~At("policies")'
    BY <1>2 DEF At
  <2>2. shelf'.upto <= created' /\ shelf'.of \subseteq 1..shelf'.upto
    BY <1>1, <1>3 DEF IInv, TypeOK, AdminListsAssumption
  <2>3. \A c \in deletes' : c.of <= created' /\ (c.done => c.of \notin live')
    BY <1>1, <1>2, AbandonedCalls
  <2>4. QED
    BY <1>2, <1>3, <2>1, <2>2, <2>3 DEF RowsCover
<1>8. QED
  BY <1>5, <1>6, <1>7 DEF IInv

\* What no step of the users' page touches.
shop == <<created, live, rows, shelf, deletes, deletingId, drafts, drafting>>

LEMMA ShopKept ==
    ASSUME IInv, UNCHANGED shop, At("policies")' => At("policies")
    PROVE  RowsCover'
<1>1. Explained' = Explained
  BY DEF Explained, shop
<1>2. QED
  BY <1>1 DEF IInv, RowsCover, shop

\* The steps of the users' page and of the users on the server.
LEMMA ListInv ==
    ASSUME AdminListsAssumption, IInv, NEW a \in lists,
           ServerLists(a) \/ \E ok \in BOOLEAN : ListArrives(a, ok)
    PROVE  IInv'
<1>1. a \in ListCall /\ NoDup(a.users) /\ (a.mine => page = "users")
  BY DEF IInv, TypeOK, ListsNoDup
<1>2. UNCHANGED <<shop, exists, assigned, page, creating, allUsers, clicks>>
  BY DEF ServerLists, ListArrives, server, mounted, policies, shop
<1>3. CASE ServerLists(a)
  <2> DEFINE b == [a EXCEPT !.done = TRUE, !.users = Listing(exists)]
  <2>1. lists' = (lists \ {a}) \cup {b} /\ UNCHANGED <<loading, error, store>>
    BY <1>3 DEF ServerLists, mounted
  <2>2. IsFiniteSet(Users) /\ exists \in SUBSET Users
    BY DEF AdminListsAssumption, IInv, TypeOK
  <2>3. Listing(exists) \in Seq(Users) /\ NoDup(Listing(exists))
    BY <2>2, ListingOnce
  <2>4. b \in ListCall /\ NoDup(b.users) /\ b.mine = a.mine
    BY <1>1, <2>3 DEF ListCall
  <2> HIDE DEF b
  <2>5. TypeOK'
    <3>1. lists' \subseteq ListCall
      BY <2>1, <2>4 DEF IInv, TypeOK
    <3>2. QED
      BY <1>2, <2>1, <3>1 DEF shop, IInv, TypeOK, ListCall, DeleteCall, DraftCall, Policies
  <2>6. ListsNoDup'
    BY <1>1, <1>2, <2>1, <2>4 DEF IInv, ListsNoDup
  <2>7. RowsCover'
    BY <1>2, <2>1, ShopKept DEF At
  <2>8. QED
    BY <2>5, <2>6, <2>7 DEF IInv
<1>4. ASSUME NEW ok \in BOOLEAN, ListArrives(a, ok)
      PROVE  IInv'
  <2>1. /\ lists' \subseteq lists
        /\ store' = store \/ store' = a.users
        /\ loading' = (loading /\ ~a.mine)
        /\ error' = (error \/ (a.mine /\ ~ok))
    BY <1>4 DEF ListArrives
  <2>2. loading' \in BOOLEAN /\ error' \in BOOLEAN
    BY <2>1
  <2>3. store' \in Seq(Users) /\ NoDup(store')
    BY <1>1, <2>1 DEF IInv, TypeOK, ListsNoDup, ListCall
  <2>4. TypeOK'
    BY <1>2, <2>1, <2>2, <2>3 DEF shop, IInv, TypeOK, ListCall, DeleteCall, DraftCall,
       Policies
  <2>5. ListsNoDup'
    BY <1>2, <2>1, <2>3 DEF IInv, ListsNoDup
  <2>6. At("policies")' => At("policies")
    BY <1>1, <1>2, <2>1 DEF At
  <2>7. RowsCover'
    BY <1>2, <2>6, ShopKept
  <2>8. QED
    BY <2>4, <2>5, <2>7 DEF IInv
<1>5. QED
  BY <1>3, <1>4

LEMMA UserInv ==
    ASSUME AdminListsAssumption, IInv, NEW u \in Users, UserSteps(u)
    PROVE  IInv'
<1>1. UNCHANGED <<shop, page, loading, error, lists, allUsers>>
  BY DEF UserSteps, CreateUser, ServerCreates, CreateArrives, UserDeleted, UserEdited,
     server, mounted, users, policies, shop
<1>2. RowsCover'
  BY <1>1, ShopKept DEF At
<1>3. exists' \in SUBSET Users /\ creating' \in [Users -> Call]
  BY DEF UserSteps, CreateUser, ServerCreates, CreateArrives, UserDeleted, UserEdited,
     server, users, IInv, TypeOK, Call
<1>4. assigned' \in [Users -> 0..MaxPolicies]
  BY DEF UserSteps, CreateUser, ServerCreates, CreateArrives, UserDeleted, UserEdited,
     server, IInv, TypeOK, AdminListsAssumption
<1>5. clicks' \in 0..MaxClicks
  <2>1. clicks' = clicks \/ Click
    BY DEF UserSteps, CreateUser, ServerCreates, CreateArrives, UserDeleted, UserEdited
  <2>2. QED
    BY <2>1, Clicks
<1>6. store' \in Seq(Users) /\ NoDup(store')
  <2>1. store' = store \/ store' = AddUser(store, u)
    BY DEF UserSteps, CreateUser, ServerCreates, CreateArrives, UserDeleted, UserEdited,
       users
  <2>2. store \in Seq(Users) /\ NoDup(store)
    BY DEF IInv, TypeOK, ListsNoDup
  <2>3. QED
    BY <2>1, <2>2, AddedOnce
<1>7. TypeOK'
  BY <1>1, <1>3, <1>4, <1>5, <1>6 DEF shop, IInv, TypeOK, ListCall, DeleteCall, DraftCall,
     Policies
<1>8. ListsNoDup'
  BY <1>1, <1>6 DEF IInv, ListsNoDup
<1>9. QED
  BY <1>2, <1>7, <1>8 DEF IInv

\* What no step of the policies' page touches but its own loading does.
staff == <<exists, assigned, store, lists, creating, allUsers, page>>

LEMMA StaffKept ==
    ASSUME IInv, UNCHANGED staff
    PROVE  ListsNoDup'
BY DEF IInv, ListsNoDup, staff

\* The list of policies is served and arrives.
LEMMA ShelfInv ==
    ASSUME AdminListsAssumption, IInv,
           ServerGivesPolicies \/ \E ok \in BOOLEAN : ShelfArrives(ok)
    PROVE  IInv'
<1>1. /\ UNCHANGED staff
      /\ UNCHANGED <<created, live, deletes, deletingId, drafts, drafting, clicks>>
  BY DEF ServerGivesPolicies, ShelfArrives, server, users, mounted, staff
<1>2. ListsNoDup'
  BY <1>1, StaffKept
<1>3. /\ created \in 0..MaxPolicies /\ live \in SUBSET (1..created)
      /\ shelf \in [stage : {"no", "sent", "done"}, of : SUBSET Policies,
                    upto : 0..MaxPolicies]
      /\ MaxPolicies \in Nat
  BY DEF IInv, TypeOK, AdminListsAssumption
<1>4. CASE ServerGivesPolicies
  <2>1. /\ shelf' = [stage |-> "done", of |-> Newest(live), upto |-> created]
        /\ UNCHANGED <<loading, error, rows>> /\ shelf.stage = "sent"
    BY <1>4 DEF ServerGivesPolicies, mounted
  <2>2. /\ Newest(live) \subseteq live
        /\ \A p \in live \ Newest(live) : p + Limit <= created
    BY <1>3, NewestUpTo
  <2>3. TypeOK'
    <3>1. shelf' \in [stage : {"no", "sent", "done"}, of : SUBSET Policies,
                      upto : 0..MaxPolicies]
      <4>1. Newest(live) \subseteq Policies
        <5>1. 1..created \subseteq 1..MaxPolicies
          BY <1>3
        <5>2. QED
          BY <1>3, <2>2, <5>1 DEF Policies
      <4>2. QED
        BY <1>3, <2>1, <4>1
    <3>2. QED
      BY <1>1, <2>1, <3>1 DEF staff, IInv, TypeOK, ListCall, DeleteCall, DraftCall,
         Policies
  <2>4. Explained'
    BY <1>1, <2>1, <2>2 DEF Explained
  <2>5. ~At("policies")'
    <3>1. ~At("policies")
      BY <2>1 DEF IInv, RowsCover
    <3>2. QED
      BY <1>1, <2>1, <3>1 DEF At, staff
  <2>6. shelf'.upto <= created' /\ shelf'.of \subseteq 1..shelf'.upto
    <3>1. shelf'.upto = created /\ shelf'.of = Newest(live) /\ created' = created
      BY <1>1, <2>1
    <3>2. created <= created
      BY <1>3
    <3>3. Newest(live) \subseteq 1..created
      BY <1>3, <2>2
    <3>4. QED
      BY <3>1, <3>2, <3>3
  <2>7. rows' \subseteq 1..created'
    BY <1>1, <2>1 DEF IInv, RowsCover
  <2>8. \A c \in deletes' : c.of <= created' /\ (c.done => c.of \notin live')
    BY <1>1 DEF IInv, RowsCover
  <2>9. RowsCover'
    BY <2>4, <2>5, <2>6, <2>7, <2>8 DEF RowsCover
  <2>10. QED
    BY <1>2, <2>3, <2>9 DEF IInv
<1>5. ASSUME NEW ok \in BOOLEAN, ShelfArrives(ok)
      PROVE  IInv'
  <2>1. /\ shelf' = [shelf EXCEPT !.stage = "no"]
        /\ loading' = FALSE
        /\ \/ rows' = shelf.of /\ error' = error /\ shelf.stage = "done"
           \/ rows' = rows /\ error' = TRUE
    BY <1>5 DEF ShelfArrives
  <2>2. shelf'.of = shelf.of /\ shelf'.upto = shelf.upto /\ shelf'.stage = "no"
    BY <1>3, <2>1
  <2>3. TypeOK'
    <3>1. shelf' \in [stage : {"no", "sent", "done"}, of : SUBSET Policies,
                      upto : 0..MaxPolicies]
      BY <1>3, <2>1
    <3>2. rows' \subseteq Policies /\ error' \in BOOLEAN /\ loading' \in BOOLEAN
      BY <1>3, <2>1 DEF IInv, TypeOK
    <3>3. QED
      BY <1>1, <3>1, <3>2 DEF staff, IInv, TypeOK, ListCall, DeleteCall, DraftCall,
         Policies
  <2>4. Explained' = Explained
    BY <1>1, <2>2 DEF Explained
  <2>5. At("policies")' =>
           shelf'.stage = "no" /\ Explained' /\ live' \cap shelf'.of \subseteq rows'
    BY <1>1, <2>1, <2>2, <2>4 DEF At, IInv, RowsCover
  <2>6. rows' \subseteq 1..created'
    BY <1>1, <1>3, <2>1 DEF IInv, RowsCover
  <2>7. QED
    BY <1>1, <1>2, <2>2, <2>3, <2>5, <2>6 DEF IInv, RowsCover
<1>6. QED
  BY <1>4, <1>5

\* A row is deleted, here or elsewhere.
LEMMA DeleteInv ==
    ASSUME AdminListsAssumption, IInv,
           \/ \E p \in Policies : DeletePolicy(p) \/ ElsewhereDeleted(p)
           \/ \E c \in deletes : ServerDeletes(c)
           \/ \E c \in deletes, ok \in BOOLEAN : DeleteArrives(c, ok)
    PROVE  IInv'
<1>1. /\ UNCHANGED staff
      /\ UNCHANGED <<created, loading, error, shelf, drafts, drafting>>
  BY DEF DeletePolicy, ElsewhereDeleted, ServerDeletes, DeleteArrives, server, users,
     mounted, policies, staff
<1>2. ListsNoDup'
  BY <1>1, StaffKept
<1>3. clicks' \in 0..MaxClicks
  <2>1. clicks' = clicks \/ Click
    BY DEF DeletePolicy, ElsewhereDeleted, ServerDeletes, DeleteArrives
  <2>2. QED
    BY <2>1, Clicks
<1>4. live' \subseteq live
  BY DEF DeletePolicy, ElsewhereDeleted, ServerDeletes, DeleteArrives, server
<1>5. Explained => Explained'
  BY <1>1, <1>4 DEF Explained
<1>6. At("policies")' = At("policies")
  BY <1>1 DEF At, staff
<1>7. SUFFICES ASSUME /\ deletes' \subseteq DeleteCall
                      /\ deletingId' \in 0..MaxPolicies
                      /\ rows' \subseteq rows
                      /\ \A c \in deletes' :
                             c.of <= created /\ (c.done => c.of \notin live')
                      /\ live' \cap rows \subseteq rows'
               PROVE  IInv'
  <2>1. MaxPolicies \in Nat /\ deletes \subseteq DeleteCall /\ rows \subseteq Policies
        /\ deletingId \in 0..MaxPolicies
        /\ rows \subseteq 1..created
        /\ \A c \in deletes : c.of <= created /\ (c.done => c.of \notin live)
    BY DEF AdminListsAssumption, IInv, TypeOK, RowsCover
  <2>2. ASSUME NEW p \in Policies, DeletePolicy(p)
        PROVE  IInv'
    <3> DEFINE new == [at |-> clicks', mine |-> TRUE, done |-> FALSE, of |-> p]
    <3>1. /\ deletes' = deletes \cup {new} /\ deletingId' = p
          /\ UNCHANGED <<live, rows>> /\ Click /\ p \in rows
      BY <2>2 DEF DeletePolicy, server
    <3>2. new \in DeleteCall /\ ~new.done /\ new.of <= created
      BY <2>1, <3>1, Clicks DEF DeleteCall
    <3> HIDE DEF new
    <3>3. deletingId' \in 0..MaxPolicies
      BY <2>1, <3>1 DEF Policies
    <3>4. QED
      BY <1>7, <2>1, <3>1, <3>2, <3>3
  <2>3. ASSUME NEW p \in Policies, ElsewhereDeleted(p)
        PROVE  IInv'
    <3>1. UNCHANGED <<deletes, deletingId, rows>>
      BY <2>3 DEF ElsewhereDeleted, policies
    <3>2. QED
      BY <1>4, <1>7, <2>1, <3>1
  <2>4. ASSUME NEW c \in deletes, ServerDeletes(c)
        PROVE  IInv'
    <3> DEFINE d == [c EXCEPT !.done = TRUE]
    <3>1. /\ deletes' = (deletes \ {c}) \cup {d} /\ live' = live \ {c.of}
          /\ UNCHANGED <<deletingId, rows>>
      BY <2>4 DEF ServerDeletes
    <3>2. d \in DeleteCall /\ d.of = c.of
      BY <2>1 DEF DeleteCall
    <3> HIDE DEF d
    <3>3. QED
      BY <1>7, <2>1, <3>1, <3>2
  <2>5. ASSUME NEW c \in deletes, NEW ok \in BOOLEAN, DeleteArrives(c, ok)
        PROVE  IInv'
    <3>1. /\ deletes' \subseteq deletes /\ live' = live
          /\ deletingId' \in {0, deletingId}
          /\ rows' = rows \/ (c.done /\ rows' = rows \ {c.of})
      BY <2>5 DEF DeleteArrives, server
    <3>2. QED
      BY <1>7, <2>1, <3>1
  <2>6. QED
    BY <2>2, <2>3, <2>4, <2>5
<1>8. TypeOK'
  BY <1>1, <1>3, <1>4, <1>7 DEF staff, IInv, TypeOK, ListCall, DeleteCall, DraftCall,
     Policies
<1>9. RowsCover'
  BY <1>1, <1>4, <1>5, <1>6, <1>7 DEF IInv, RowsCover
<1>10. QED
  BY <1>2, <1>8, <1>9 DEF IInv

\* A policy is created: it is newer than any list.
LEMMA CreatedInv ==
    ASSUME AdminListsAssumption, IInv, CreatePolicy,
           UNCHANGED <<page, loading, error, store, lists, creating, allUsers, rows,
                       shelf, deletes, deletingId, drafting>>,
           drafts' \subseteq DraftCall, clicks' \in 0..MaxClicks
    PROVE  IInv'
<1>1. UNCHANGED staff /\ At("policies")' = At("policies")
  BY DEF CreatePolicy, staff, At
<1>2. /\ created' = created + 1 /\ live' = live \cup {created + 1}
      /\ created \in 0..MaxPolicies /\ MaxPolicies \in Nat /\ created < MaxPolicies
      /\ live \subseteq 1..created
      /\ shelf.upto \in 0..MaxPolicies /\ shelf.upto <= created
      /\ shelf.of \subseteq 1..shelf.upto
  BY DEF CreatePolicy, IInv, TypeOK, RowsCover, AdminListsAssumption
<1>3. created' \in 0..MaxPolicies /\ live' \subseteq 1..created'
  <2>1. created' \in 0..MaxPolicies
    BY <1>2
  <2>2. ASSUME NEW p \in live'
        PROVE  p \in 1..created'
    <3>1. p \in 1..created \/ p = created + 1
      BY <1>2, <2>2
    <3>2. QED
      BY <1>2, <3>1
  <2>3. QED
    BY <2>1, <2>2
<1>4. TypeOK'
  BY <1>1, <1>3 DEF staff, IInv, TypeOK, ListCall, DeleteCall, DraftCall, Policies
<1>5. Explained => Explained'
  BY <1>2 DEF Explained
<1>6. live' \cap shelf.of = live \cap shelf.of
  BY <1>2
<1>7. \A c \in deletes : c.of <= created' /\ (c.done => c.of \notin live')
  <2>1. ASSUME NEW c \in deletes
        PROVE  c.of <= created' /\ (c.done => c.of \notin live')
    <3>1. c.of \in Nat /\ c.of <= created /\ (c.done => c.of \notin live)
      BY DEF IInv, TypeOK, RowsCover, DeleteCall, Policies
    <3>2. QED
      BY <1>2, <3>1
  <2>2. QED
    BY <2>1
<1>8. RowsCover'
  <2>1. rows' \subseteq 1..created'
    BY <1>2 DEF IInv, RowsCover
  <2>2. shelf'.upto <= created' /\ shelf'.of \subseteq 1..shelf'.upto
    BY <1>2
  <2>3. At("policies") =>
            shelf.stage = "no" /\ Explained /\ live \cap shelf.of \subseteq rows
    BY DEF IInv, RowsCover
  <2>4. shelf.stage = "done" => Explained
    BY DEF IInv, RowsCover
  <2>5. QED
    BY <1>1, <1>5, <1>6, <1>7, <2>1, <2>2, <2>3, <2>4 DEF RowsCover
<1>9. QED
  BY <1>1, <1>4, <1>8, StaffKept DEF IInv

\* A new draft is asked for, made, and opens its page.
LEMMA DraftInv ==
    ASSUME AdminListsAssumption, IInv,
           \/ NewDraft \/ ElsewhereCreated
           \/ \E c \in drafts : ServerDrafts(c)
           \/ \E c \in drafts, ok \in BOOLEAN : DraftArrives(c, ok)
    PROVE  IInv'
<1>1. drafts \subseteq DraftCall
  BY DEF IInv, TypeOK
<1>2. ASSUME NEW c \in drafts, NEW ok \in BOOLEAN, DraftArrives(c, ok), ok
      PROVE  IInv'
  <2>1. Show("other") /\ drafts' = Abandoned(drafts \ {c}) /\ clicks' = clicks
    BY <1>2 DEF DraftArrives
  <2>2. drafts' \subseteq Abandoned(drafts)
    BY <2>1 DEF Abandoned
  <2>3. drafts' \subseteq DraftCall
    BY <2>2, AbandonedCalls
  <2>4. QED
    BY <2>1, <2>3, Clicks, ShowInv
<1>3. ASSUME UNCHANGED staff,
             UNCHANGED <<created, live, loading, error, rows, shelf, deletes, deletingId>>,
             drafts' \subseteq DraftCall, drafting' \in BOOLEAN, clicks' \in 0..MaxClicks
      PROVE  IInv'
  <2>1. TypeOK'
    BY <1>3 DEF staff, IInv, TypeOK, ListCall, DeleteCall, DraftCall, Policies
  <2>2. RowsCover'
    <3>1. Explained' = Explained /\ At("policies")' = At("policies")
      BY <1>3 DEF Explained, At, staff
    <3>2. QED
      BY <1>3, <3>1 DEF IInv, RowsCover
  <2>3. QED
    BY <1>3, <2>1, <2>2, StaffKept DEF IInv
<1>4. ASSUME NEW c \in drafts, NEW ok \in BOOLEAN, DraftArrives(c, ok), ~ok
      PROVE  IInv'
  <2>1. /\ drafts' = drafts \ {c} /\ drafting' = (drafting /\ ~c.mine)
        /\ UNCHANGED <<server, mounted, users, allUsers, rows, shelf, deletes, deletingId>>
        /\ clicks' = clicks
    BY <1>4 DEF DraftArrives
  <2>2. drafting' \in BOOLEAN
    BY <2>1
  <2>3. QED
    BY <1>1, <1>3, <2>1, <2>2, Clicks DEF staff, server, mounted, users
<1>5. CASE NewDraft
  <2> DEFINE new == [at |-> clicks', mine |-> TRUE, done |-> FALSE]
  <2>1. /\ drafts' = drafts \cup {new} /\ drafting' = TRUE /\ Click
        /\ UNCHANGED <<server, mounted, users, allUsers, rows, shelf, deletes, deletingId>>
    BY <1>5 DEF NewDraft
  <2>2. new \in DraftCall
    BY <2>1, Clicks DEF DraftCall
  <2> HIDE DEF new
  <2>3. QED
    BY <1>1, <1>3, <2>1, <2>2, Clicks DEF staff, server, mounted, users
<1>6. CASE ElsewhereCreated
  <2>1. Click /\ CreatePolicy /\ UNCHANGED <<mounted, users, allUsers, policies>>
    BY <1>6 DEF ElsewhereCreated
  <2>2. QED
    BY <1>1, <2>1, Clicks, CreatedInv DEF mounted, users, policies
<1>7. ASSUME NEW c \in drafts, ServerDrafts(c)
      PROVE  IInv'
  <2> DEFINE d == [c EXCEPT !.done = TRUE]
  <2>1. /\ CreatePolicy /\ drafts' = (drafts \ {c}) \cup {d}
        /\ UNCHANGED <<mounted, users, allUsers, rows, shelf, deletes, deletingId,
                       drafting, clicks>>
    BY <1>7 DEF ServerDrafts
  <2>2. d \in DraftCall
    BY <1>1 DEF DraftCall
  <2> HIDE DEF d
  <2>3. QED
    BY <1>1, <2>1, <2>2, Clicks, CreatedInv DEF mounted, users
<1>8. QED
  BY <1>2, <1>4, <1>5, <1>6, <1>7

\* The invariant is inductive.
LEMMA NextInv ==
    ASSUME AdminListsAssumption, IInv, [Next]_vars
    PROVE  IInv'
<1>1. ASSUME NEW p \in {"users", "policies", "other"}, Navigate(p)
      PROVE  IInv'
  <2>1. Show(p) /\ drafts' = Abandoned(drafts) /\ Click
    BY <1>1 DEF Navigate
  <2>2. QED
    BY <2>1, Clicks, AbandonedCalls, ShowInv
<1>2. CASE UNCHANGED vars
  <2>1. TypeOK'
    BY <1>2 DEF vars, IInv, TypeOK, ListCall, DeleteCall, DraftCall, Policies
  <2>2. ListsNoDup'
    BY <1>2 DEF vars, IInv, ListsNoDup
  <2>3. RowsCover'
    BY <1>2, ShopKept DEF vars, shop, At
  <2>4. QED
    BY <2>1, <2>2, <2>3 DEF IInv
<1>3. CASE Next
  BY <1>1, <1>3, ListInv, UserInv, ShelfInv, DeleteInv, DraftInv DEF Next
<1>4. QED
  BY <1>2, <1>3

\* The lists on their way, the store and the rows keep to the invariant above.
THEOREM Invariance == Spec => []IInv
<1>1. Init => IInv
  BY AdminListsAssumption, InitInv
<1>2. IInv /\ [Next]_vars => IInv'
  BY AdminListsAssumption, NextInv
<1>3. QED
  BY <1>1, <1>2, PTL DEF Spec

\* Every variable of the two lists keeps to its type (userStore.ts:15-29,
\* PoliciesPanel.tsx:44-94).
THEOREM TypeCorrect == Spec => []TypeOK
<1>1. IInv => TypeOK
  BY DEF IInv
<1>2. QED
  BY <1>1, Invariance, PTL

\* No user is listed twice, whichever of the answers of getUsers and of the calls
\* that create users comes last (userStore.ts:20-23, useUsers.ts:16-52).
THEOREM NoUserTwiceHolds == Spec => []NoUserTwice
<1>1. IInv => NoUserTwice
  BY DEF IInv, ListsNoDup, NoDup, NoUserTwice
<1>2. QED
  BY <1>1, Invariance, PTL

\* Of the policies that are not deleted, the page lacks only those that are newer
\* than its list or beyond its limit, whatever deletions are refused, lost or
\* answered late (PoliciesPanel.tsx:44-54, 83-94, llmpolicy/pg_store.go:93-99).
THEOREM RowsCompleteHolds == Spec => []RowsComplete
<1>1. IInv => RowsComplete
  BY DEF IInv, RowsCover, Explained, RowsComplete
<1>2. QED
  BY <1>1, Invariance, PTL

=============================================================================

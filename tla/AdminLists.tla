---------------------------- MODULE AdminLists ----------------------------
(***************************************************************************)
(* The lists of users and of policies in the web UI, and what is created   *)
(* and deleted from them: UsersPanel.tsx with its hook useUsers.ts and the *)
(* store userStore.ts, which outlives the page, and PoliciesPanel.tsx,     *)
(* which knows the users as they were when the administrator signed in.    *)
(*                                                                         *)
(* A call is sent in one step, served in another and answered in a third;  *)
(* calls and answers overtake each other, and the administrator may be on  *)
(* another page by then.  Of a user only his policy is kept.  Policies are *)
(* named by their place in the order of their creation.                    *)
(***************************************************************************)
EXTENDS Naturals, Sequences, FiniteSets

CONSTANTS
    Users,
    MaxPolicies,  \* policies that are ever created
    Limit,        \* how many of them getPolicies is given
    MaxClicks     \* what administrators do

ASSUME AdminListsAssumption ==
    /\ IsFiniteSet(Users)
    /\ MaxPolicies \in Nat /\ MaxClicks \in Nat
    /\ Limit \in Nat \ {0}

VARIABLES
    exists,    \* users on the server
    assigned,  \* assigned[u]: users.llm_policy_id, or 0
    created,   \* how many policies have been created
    live,      \* those of them that are not deleted
    page,      \* "users", "policies" or "other"
    loading,   \* the spinner of the page
    error,     \* what the page says instead of its list
    store,     \* the users of userStore.ts
    lists,     \* the calls of getUsers under way
    creating,  \* creating[u]: the create form's call
    allUsers,  \* AuthContext.allUsers, as the policies assigned at sign-in
    rows,      \* the policies PoliciesPanel shows
    shelf,     \* its call of getPolicies; what it was answered, and how many
               \* policies there were then, is kept for RowsComplete only
    deletes,   \* the calls of the rows' "Delete" under way
    deletingId,
    drafts,    \* the calls of "New Policy" under way
    drafting,  \* creating of PoliciesPanel
    clicks

vars == <<exists, assigned, created, live, page, loading, error, store, lists, creating,
          allUsers, rows, shelf, deletes, deletingId, drafts, drafting, clicks>>

server == <<exists, assigned, created, live>>
users == <<store, lists, creating>>
policies == <<rows, shelf, deletes, deletingId, drafts, drafting>>
mounted == <<page, loading, error>>

Policies == 1..MaxPolicies

Call == {"no", "sent", "done", "refused"}

Click == clicks < MaxClicks /\ clicks' = clicks + 1

At(p) == page = p /\ ~loading /\ ~error

-----------------------------------------------------------------------------
\* userStore.ts

\* A mutation: addUser does not look for the user.
AddUserAnyway(us, u) == <<u>> \o us

AddUser(us, u) == IF \E i \in DOMAIN us : us[i] = u THEN us ELSE <<u>> \o us

\* ListUsers, in an order of its own.
Listing(us) == CHOOSE l \in [1..Cardinality(us) -> us] :
                   \A i, j \in DOMAIN l : l[i] = l[j] => i = j

\* List of the store, as the API asks it to.
Newest(ps) == {p \in ps : Cardinality({q \in ps : q > p}) < Limit}

-----------------------------------------------------------------------------
\* A call is told from others by the click it was made at; mine if the page that
\* made it is still there.
Abandoned(calls) == {[c EXCEPT !.mine = FALSE] : c \in calls}

\* A page is shown and loads its list.
Show(p) ==
    /\ page' = p
    /\ loading' = (p # "other") /\ error' = FALSE
    /\ lists' = Abandoned(lists) \cup
                    IF p = "users"
                    THEN {[at |-> clicks', mine |-> TRUE, done |-> FALSE, users |-> <<>>]}
                    ELSE {}
    /\ shelf' = [stage |-> IF p = "policies" THEN "sent" ELSE "no", of |-> {}, upto |-> 0]
    /\ rows' = {} /\ deletingId' = 0 /\ drafting' = FALSE
    /\ deletes' = Abandoned(deletes)
    /\ UNCHANGED <<server, store, creating, allUsers>>

Navigate(p) ==
    /\ p # page /\ Click
    /\ Show(p)
    /\ drafts' = Abandoned(drafts)

-----------------------------------------------------------------------------
\* useUsers.ts and UsersPanel.tsx

ServerLists(a) ==
    /\ a \in lists /\ ~a.done
    /\ lists' = (lists \ {a}) \cup {[a EXCEPT !.done = TRUE, !.users = Listing(exists)]}
    /\ UNCHANGED <<server, mounted, store, creating, allUsers, policies, clicks>>

\* fetch: its answer sets the store in any case.
ListArrives(a, ok) ==
    /\ a \in lists /\ (ok => a.done)
    /\ lists' = lists \ {a}
    /\ store' = IF ok THEN a.users ELSE store
    /\ loading' = (loading /\ ~a.mine)
    /\ error' = (error \/ (a.mine /\ ~ok))
    /\ UNCHANGED <<server, page, creating, allUsers, policies, clicks>>

\* The form can be cancelled and opened again while its call is on its way.
CreateUser(u) ==
    /\ At("users") /\ creating[u] = "no" /\ Click
    /\ creating' = [creating EXCEPT ![u] = "sent"]
    /\ UNCHANGED <<server, mounted, store, lists, allUsers, policies>>

\* The server reads no llm_policy_id in what it is sent.
ServerCreates(u) ==
    /\ creating[u] = "sent"
    /\ creating' = [creating EXCEPT ![u] = IF u \in exists THEN "refused" ELSE "done"]
    /\ exists' = exists \cup {u}
    /\ UNCHANGED <<assigned, created, live, mounted, store, lists, allUsers, policies, clicks>>

\* createUser goes on with the answer, unless it is an error or is lost.
CreateArrives(u, lost) ==
    /\ creating[u] \in {"done", "refused"}
    /\ creating' = [creating EXCEPT ![u] = "no"]
    /\ store' = IF creating[u] = "done" /\ ~lost THEN AddUser(store, u) ELSE store
    /\ UNCHANGED <<server, mounted, lists, allUsers, policies, clicks>>

\* A user's page, or another administrator: the user is deleted, or given a
\* policy, which may be gone since the server looked it up.
UserDeleted(u) ==
    /\ u \in exists /\ Click
    /\ exists' = exists \ {u}
    /\ assigned' = [assigned EXCEPT ![u] = 0]
    /\ UNCHANGED <<created, live, mounted, users, allUsers, policies>>

UserEdited(u, p) ==
    /\ u \in exists /\ p <= created /\ Click
    /\ assigned' = [assigned EXCEPT ![u] = p]
    /\ UNCHANGED <<exists, created, live, mounted, users, allUsers, policies>>

-----------------------------------------------------------------------------
\* PoliciesPanel.tsx

ServerGivesPolicies ==
    /\ shelf.stage = "sent"
    /\ shelf' = [stage |-> "done", of |-> Newest(live), upto |-> created]
    /\ UNCHANGED <<server, mounted, users, allUsers, rows, deletes, deletingId, drafts,
                   drafting, clicks>>

\* load
ShelfArrives(ok) ==
    /\ shelf.stage # "no" /\ (ok => shelf.stage = "done")
    /\ shelf' = [shelf EXCEPT !.stage = "no"]
    /\ loading' = FALSE
    /\ IF ok THEN rows' = shelf.of /\ UNCHANGED error
       ELSE error' = TRUE /\ UNCHANGED rows
    /\ UNCHANGED <<server, page, users, allUsers, deletes, deletingId, drafts, drafting,
                   clicks>>

\* A mutation: the row goes before the answer comes.
DeletePolicyAtOnce(p) ==
    /\ At("policies") /\ p \in rows /\ deletingId # p /\ Click
    /\ p \notin {allUsers[u] : u \in Users}
    /\ deletingId' = p
    /\ deletes' = deletes \cup {[at |-> clicks', mine |-> TRUE, done |-> FALSE, of |-> p]}
    /\ rows' = rows \ {p}
    /\ UNCHANGED <<server, mounted, users, allUsers, shelf, drafts, drafting>>

\* "Delete" is there if none of the users known is assigned, and disabled for the
\* row that was clicked last.
DeletePolicy(p) ==
    /\ At("policies") /\ p \in rows /\ deletingId # p /\ Click
    /\ p \notin {allUsers[u] : u \in Users}
    /\ deletingId' = p
    /\ deletes' = deletes \cup {[at |-> clicks', mine |-> TRUE, done |-> FALSE, of |-> p]}
    /\ UNCHANGED <<server, mounted, users, allUsers, rows, shelf, drafts, drafting>>

\* Delete of the store; it refuses if the policy is gone or a user has it, and the
\* call then only fails.
ServerDeletes(c) ==
    /\ c \in deletes /\ ~c.done
    /\ c.of \in live /\ \A u \in exists : assigned[u] # c.of
    /\ live' = live \ {c.of}
    /\ deletes' = (deletes \ {c}) \cup {[c EXCEPT !.done = TRUE]}
    /\ UNCHANGED <<exists, assigned, created, mounted, users, allUsers, rows, shelf,
                   deletingId, drafts, drafting, clicks>>

\* The row goes if the policy did, and no row is being deleted any more, also when
\* another was clicked since; the page before can do nothing to this one.
DeleteArrives(c, ok) ==
    /\ c \in deletes /\ (ok => c.done)
    /\ deletes' = deletes \ {c}
    /\ rows' = IF c.mine /\ ok THEN rows \ {c.of} ELSE rows
    /\ deletingId' = IF c.mine THEN 0 ELSE deletingId
    /\ UNCHANGED <<server, mounted, users, allUsers, shelf, drafts, drafting, clicks>>

\* handleNewDraft
NewDraft ==
    /\ At("policies") /\ ~drafting /\ Click
    /\ drafting' = TRUE
    /\ drafts' = drafts \cup {[at |-> clicks', mine |-> TRUE, done |-> FALSE]}
    /\ UNCHANGED <<server, mounted, users, allUsers, rows, shelf, deletes, deletingId>>

CreatePolicy ==
    /\ created < MaxPolicies
    /\ created' = created + 1
    /\ live' = live \cup {created + 1}
    /\ UNCHANGED <<exists, assigned>>

ServerDrafts(c) ==
    /\ c \in drafts /\ ~c.done
    /\ CreatePolicy
    /\ drafts' = (drafts \ {c}) \cup {[c EXCEPT !.done = TRUE]}
    /\ UNCHANGED <<mounted, users, allUsers, rows, shelf, deletes, deletingId, drafting,
                   clicks>>

\* The new draft's page is shown, wherever the administrator is by now.
DraftArrives(c, ok) ==
    /\ c \in drafts /\ (ok => c.done)
    /\ IF ok THEN Show("other") /\ drafts' = Abandoned(drafts \ {c})
       ELSE /\ drafts' = drafts \ {c}
            /\ drafting' = (drafting /\ ~c.mine)
            /\ UNCHANGED <<server, mounted, users, allUsers, rows, shelf, deletes,
                           deletingId>>
    /\ UNCHANGED clicks

\* Another administrator, a fork or the agent creates a policy, or another
\* administrator deletes one.
ElsewhereCreated ==
    /\ Click /\ CreatePolicy
    /\ UNCHANGED <<mounted, users, allUsers, policies>>

ElsewhereDeleted(p) ==
    /\ p \in live /\ (\A u \in exists : assigned[u] # p) /\ Click
    /\ live' = live \ {p}
    /\ UNCHANGED <<exists, assigned, created, mounted, users, allUsers, policies>>

-----------------------------------------------------------------------------
Init ==
    /\ exists \in SUBSET Users
    /\ created \in 0..MaxPolicies /\ live = 1..created
    /\ assigned \in [Users -> 0..created]
    /\ \A u \in Users \ exists : assigned[u] = 0
    /\ allUsers = assigned
    /\ page = "other" /\ loading = FALSE /\ error = FALSE
    /\ store = <<>> /\ lists = {}
    /\ creating = [u \in Users |-> "no"]
    /\ rows = {} /\ shelf = [stage |-> "no", of |-> {}, upto |-> 0]
    /\ deletes = {} /\ deletingId = 0
    /\ drafts = {} /\ drafting = FALSE
    /\ clicks = 0

UserSteps(u) ==
    \/ CreateUser(u) \/ ServerCreates(u) \/ UserDeleted(u)
    \/ \E lost \in BOOLEAN : CreateArrives(u, lost)
    \/ \E p \in 0..MaxPolicies : UserEdited(u, p)

Next ==
    \/ \E p \in {"users", "policies", "other"} : Navigate(p)
    \/ \E a \in lists : ServerLists(a)
    \/ \E a \in lists, ok \in BOOLEAN : ListArrives(a, ok)
    \/ \E u \in Users : UserSteps(u)
    \/ ServerGivesPolicies
    \/ \E ok \in BOOLEAN : ShelfArrives(ok)
    \/ \E p \in Policies : DeletePolicy(p) \/ ElsewhereDeleted(p)
    \/ \E c \in deletes : ServerDeletes(c)
    \/ \E c \in deletes, ok \in BOOLEAN : DeleteArrives(c, ok)
    \/ NewDraft \/ ElsewhereCreated
    \/ \E c \in drafts : ServerDrafts(c)
    \/ \E c \in drafts, ok \in BOOLEAN : DraftArrives(c, ok)

Spec == Init /\ [][Next]_vars

-----------------------------------------------------------------------------
ListCall == [at : 1..MaxClicks, mine : BOOLEAN, done : BOOLEAN, users : Seq(Users)]
DeleteCall == [at : 1..MaxClicks, mine : BOOLEAN, done : BOOLEAN, of : Policies]
DraftCall == [at : 1..MaxClicks, mine : BOOLEAN, done : BOOLEAN]

TypeOK ==
    /\ exists \subseteq Users
    /\ created \in 0..MaxPolicies /\ live \subseteq 1..created
    /\ assigned \in [Users -> 0..MaxPolicies]
    /\ page \in {"users", "policies", "other"}
    /\ loading \in BOOLEAN /\ error \in BOOLEAN
    /\ store \in Seq(Users)
    /\ lists \subseteq ListCall
    /\ creating \in [Users -> Call]
    /\ allUsers \in [Users -> 0..MaxPolicies]
    /\ rows \subseteq Policies
    /\ shelf \in [stage : {"no", "sent", "done"}, of : SUBSET Policies,
                  upto : 0..MaxPolicies]
    /\ deletes \subseteq DeleteCall /\ deletingId \in 0..MaxPolicies
    /\ drafts \subseteq DraftCall /\ drafting \in BOOLEAN
    /\ clicks \in 0..MaxClicks

\* No user is listed twice, whatever getUsers answers before, between and after
\* the calls that create users (userStore.ts:20-23, useUsers.ts:19-21, 43-52).
NoUserTwice == \A i, j \in DOMAIN store : store[i] = store[j] => i = j

\* Of the policies that are not deleted, the page lacks only those it was not
\* answered - a row goes only when its policy did, not while the call is on its
\* way and not when it is refused -, and these are newer than its list, or have
\* at least Limit newer ones (PoliciesPanel.tsx:44-54, 83-94, api.go:476-494,
\* llmpolicy/pg_store.go:93-99).
RowsComplete ==
    At("policies") =>
        \A p \in live \ rows :
            /\ p \notin shelf.of
            /\ p > shelf.upto \/ p + Limit <= shelf.upto

=============================================================================

------------------------- MODULE PolicyLifecycle --------------------------
(***************************************************************************)
(* The life of LLM policies in the database: PGStore of internal/llmpolicy *)
(* and the admin handlers that create, edit, publish, fork, delete and     *)
(* assign them (internal/admin/api.go), while requests and evaluation runs *)
(* load a policy, work with what they have loaded, and record its id.      *)
(*                                                                         *)
(* Each statement of the database is a step.  Handlers that make two, with *)
(* a check in between or the agent's whole conversation, are two actions   *)
(* of an admin, and anything may happen between them.  An unassigned user  *)
(* stands for a deleted one too.                                           *)
(***************************************************************************)
EXTENDS Naturals

CONSTANTS
    Policies,  \* ids of policies
    Contents,  \* name, prompt, model and static rules of a policy
    Users,
    Admins,    \* concurrent requests to the admin API
    Requests,  \* requests through the proxy
    Runs,      \* evaluation runs
    None

ASSUME LifecycleAssumption ==
    /\ None \notin Policies
    /\ None \notin Contents
    /\ Requests \cap Runs = {}

Readers == Requests \cup Runs

VARIABLES
    status,   \* status[p]: "draft", "published", or "none" without a row
    content,  \* content[p], or None without a row
    deleted,  \* policies with a deleted_at
    assigned, \* assigned[u]: users.llm_policy_id, or None
    task,     \* task[a]: the handler that a is in the middle of
    reader    \* reader[r]: the policy it has loaded, and its record of it

policies == <<status, content, deleted>>
lifecycleVars == <<policies, assigned, task, reader>>

Idle == [op |-> "idle", policy |-> None, copy |-> None, user |-> None]

\* In the end, [policy, used] is the row of audit_log or eval_runs: its
\* llm_policy_id or policy_id, and the content that was really applied.
Unread == [at |-> "new", policy |-> None, used |-> None, draft |-> FALSE]

LifecycleInit ==
    /\ status = [p \in Policies |-> "none"]
    /\ content = [p \in Policies |-> None]
    /\ deleted = {}
    /\ assigned = [u \in Users |-> None]
    /\ task = [a \in Admins |-> Idle]
    /\ reader = [r \in Readers |-> Unread]

Exists(p) == status[p] # "none"

EditableDraft(p) == status[p] = "draft" /\ p \notin deleted

---------------------------------------------------------------------------
(* Statements of PGStore                                                   *)

\* Mistake: a row without a status gets none.
InsertUnnormalised(p, c, word) ==
    /\ ~Exists(p)
    /\ status' = [status EXCEPT ![p] = word]
    /\ content' = [content EXCEPT ![p] = c]
    /\ UNCHANGED deleted

\* Create, under a new id.  Any other word that the API lets through counts
\* as published in every query.
Insert(p, c, word) ==
    /\ ~Exists(p)
    /\ status' = [status EXCEPT ![p] = IF word = "" THEN "published" ELSE word]
    /\ content' = [content EXCEPT ![p] = c]
    /\ UNCHANGED deleted

\* Mistake: the statement relies on its callers for the status.
UpdateDraftUnchecked(p, c) ==
    /\ content' = [content EXCEPT ![p] = IF Exists(p) THEN c ELSE @]
    /\ UNCHANGED <<status, deleted>>

\* Without a row to update the callers get ErrPolicyNotDraft, and the agent
\* handler ignores it.
UpdateDraft(p, c) ==
    /\ content' = [content EXCEPT ![p] = IF EditableDraft(p) THEN c ELSE @]
    /\ UNCHANGED <<status, deleted>>

---------------------------------------------------------------------------
(* The admin API                                                           *)

Create(a) ==
    /\ task[a] = Idle
    /\ \E p \in Policies, c \in Contents, word \in {"", "draft", "published"} :
          Insert(p, c, word)
    /\ UNCHANGED <<assigned, task, reader>>

Edit(a) ==
    /\ task[a] = Idle
    /\ \E p \in Policies, c \in Contents : UpdateDraft(p, c)
    /\ UNCHANGED <<assigned, task, reader>>

Publish(a) ==
    /\ task[a] = Idle
    /\ \E p \in Policies :
          /\ EditableDraft(p)
          /\ status' = [status EXCEPT ![p] = "published"]
    /\ UNCHANGED <<content, deleted, assigned, task, reader>>

\* Refused while users are assigned, as far as the statement can see them.
Delete(a) ==
    /\ task[a] = Idle
    /\ \E p \in Policies :
          /\ Exists(p) /\ p \notin deleted
          /\ \A u \in Users : assigned[u] # p
          /\ deleted' = deleted \cup {p}
    /\ UNCHANGED <<status, content, assigned, task, reader>>

\* Get and then Create, with what Get has returned; also of deleted policies.
BeginFork(a) ==
    /\ task[a] = Idle
    /\ \E p \in Policies :
          /\ Exists(p)
          /\ task' = [task EXCEPT ![a] =
                [Idle EXCEPT !.op = "fork", !.policy = p, !.copy = content[p]]]
    /\ UNCHANGED <<policies, assigned, reader>>

EndFork(a) ==
    /\ task[a].op = "fork"
    /\ \/ \E p \in Policies : Insert(p, task[a].copy, "draft")
       \/ UNCHANGED policies
    /\ task' = [task EXCEPT ![a] = Idle]
    /\ UNCHANGED <<assigned, reader>>

\* Get, the check of the status, and the conversation with the agent.
BeginAgent(a) ==
    /\ task[a] = Idle
    /\ \E p \in Policies :
          /\ status[p] = "draft"
          /\ task' = [task EXCEPT ![a] =
                [Idle EXCEPT !.op = "agent", !.policy = p]]
    /\ UNCHANGED <<policies, assigned, reader>>

\* The agent has failed or changed nothing, or its result is saved.
EndAgent(a) ==
    /\ task[a].op = "agent"
    /\ \/ UNCHANGED policies
       \/ \E c \in Contents : UpdateDraft(task[a].policy, c)
    /\ task' = [task EXCEPT ![a] = Idle]
    /\ UNCHANGED <<assigned, reader>>

\* Mistake: any policy that exists will do.
CheckPolicyExists(a) ==
    /\ task[a] = Idle
    /\ \E p \in Policies, u \in Users :
          /\ Exists(p)
          /\ task' = [task EXCEPT ![a] =
                [Idle EXCEPT !.op = "assign", !.policy = p, !.user = u]]
    /\ UNCHANGED <<policies, assigned, reader>>

\* PUT /admin/users/{id} looks the policy up, deleted or not, and refuses
\* drafts.
CheckPolicy(a) ==
    /\ task[a] = Idle
    /\ \E p \in Policies, u \in Users :
          /\ Exists(p) /\ status[p] # "draft"
          /\ task' = [task EXCEPT ![a] =
                [Idle EXCEPT !.op = "assign", !.policy = p, !.user = u]]
    /\ UNCHANGED <<policies, assigned, reader>>

\* The transaction of UpdateUser commits, or fails.
UpdateUser(a) ==
    /\ task[a].op = "assign"
    /\ \/ assigned' = [assigned EXCEPT ![task[a].user] = task[a].policy]
       \/ UNCHANGED assigned
    /\ task' = [task EXCEPT ![a] = Idle]
    /\ UNCHANGED <<policies, reader>>

Unassign(a) ==
    /\ task[a] = Idle
    /\ \E u \in Users : assigned' = [assigned EXCEPT ![u] = None]
    /\ UNCHANGED <<policies, task, reader>>

---------------------------------------------------------------------------
(* Requests and evaluation runs                                            *)

Loaded(p) == [at |-> "loaded", policy |-> p, used |-> content[p],
              draft |-> status[p] = "draft"]

\* GetLLMPolicyForUser, one query over users and llm_policies.
LoadForUser(r) ==
    /\ reader[r] = Unread
    /\ \E u \in Users :
          /\ assigned[u] # None /\ assigned[u] \notin deleted
          /\ reader' = [reader EXCEPT ![r] = Loaded(assigned[u])]
    /\ UNCHANGED <<policies, assigned, task>>

\* POST /admin/evals copies any policy, drafts and deleted ones included.
LoadForRun(r) ==
    /\ reader[r] = Unread
    /\ \E p \in Policies :
          /\ Exists(p)
          /\ reader' = [reader EXCEPT ![r] = Loaded(p)]
    /\ UNCHANGED <<policies, assigned, task>>

\* Mistake: the row names the policy the user has by now.
RecordCurrent(r) ==
    /\ reader[r].at = "loaded"
    /\ \/ reader' = [reader EXCEPT ![r].at = "recorded"]
       \/ \E u \in Users :
             /\ assigned[u] # None
             /\ reader' = [reader EXCEPT ![r].at = "recorded",
                                         ![r].policy = assigned[u]]
    /\ UNCHANGED <<policies, assigned, task>>

\* The row names the policy that was loaded.
Record(r) ==
    /\ reader[r].at = "loaded"
    /\ reader' = [reader EXCEPT ![r].at = "recorded"]
    /\ UNCHANGED <<policies, assigned, task>>

---------------------------------------------------------------------------

Administer(a) ==
    \/ Create(a) \/ Edit(a) \/ Publish(a) \/ Delete(a)
    \/ BeginFork(a) \/ EndFork(a)
    \/ BeginAgent(a) \/ EndAgent(a)
    \/ CheckPolicy(a) \/ UpdateUser(a) \/ Unassign(a)

LifecycleNext ==
    \/ \E a \in Admins : Administer(a)
    \/ \E r \in Requests : LoadForUser(r)
    \/ \E r \in Runs : LoadForRun(r)
    \/ \E r \in Readers : Record(r)

LifecycleSpec == LifecycleInit /\ [][LifecycleNext]_lifecycleVars

---------------------------------------------------------------------------
(* Properties                                                              *)

Task == [op: {"idle", "fork", "agent", "assign"}, policy: Policies \cup {None},
         copy: Contents \cup {None}, user: Users \cup {None}]

Reading == [at: {"new", "loaded", "recorded"}, policy: Policies \cup {None},
            used: Contents \cup {None}, draft: BOOLEAN]

LifecycleTypeOK ==
    /\ status \in [Policies -> {"none", "draft", "published"}]
    /\ content \in [Policies -> Contents \cup {None}]
    /\ \A p \in Policies : content[p] = None <=> status[p] = "none"
    /\ deleted \subseteq {p \in Policies : Exists(p)}
    /\ assigned \in [Users -> Policies \cup {None}]
    /\ task \in [Admins -> Task]
    /\ reader \in [Readers -> Reading]

\* A published policy never changes, and stays published, although agents and
\* editors that found it a draft come back after it was published.
PublishedFrozen ==
    [][ \A p \in Policies :
          status[p] = "published" =>
              status'[p] = "published" /\ content'[p] = content[p] ]_lifecycleVars

\* No user is assigned to a draft: the status is checked by one statement and
\* the assignment made by another, and publishing cannot be undone.
DraftNeverAssigned ==
    \A u \in Users : assigned[u] # None => status[assigned[u]] = "published"

\* The policy id in the row of a request still names the content that the
\* request was decided with, whatever was edited, published, deleted or
\* assigned since it was loaded; the same for a run of a policy that was no
\* draft.
TrailExplains ==
    \A r \in Readers :
        reader[r].at = "recorded" /\ (r \in Requests \/ ~reader[r].draft) =>
            content[reader[r].policy] = reader[r].used
=============================================================================

---------------------------- MODULE AdminProofs ---------------------------
(***************************************************************************)
(* Proofs about the work of the admin API: PolicyLifecycle (policies from  *)
(* their creation to their deletion, and what refers to them), for any     *)
(* policies, users and administrators, and EvalRun (one evaluation run),   *)
(* for any number of rows, workers and batch sizes.                        *)
(***************************************************************************)
EXTENDS PolicyLifecycle, EvalRun, FiniteSetTheorems, FunctionTheorems, TLAPS

---------------------------------------------------------------------------
(* Proofs about PolicyLifecycle, for any policies, users, administrators,  *)
(* requests and runs.  Everything rests on one fact about single steps,    *)
(* StepFreezes: no statement touches the row of a published policy.  So a  *)
(* status read once and a content read once stay true of it.               *)

\* A handler about to assign a policy has seen it published.
CheckedPublished ==
    \A a \in Admins : task[a].op = "assign" =>
        /\ task[a].policy \in Policies
        /\ status[task[a].policy] = "published"
        /\ task[a].user \in Users

\* A handler about to create a fork holds the content of some policy.
CopyIsContent == \A a \in Admins : task[a].op = "fork" => task[a].copy \in Contents

AgentHasPolicy == \A a \in Admins : task[a].op = "agent" => task[a].policy \in Policies

\* What a reader has loaded is still there, if it was no draft; and requests
\* load no drafts.
Unchanged(r) ==
    /\ reader[r].policy \in Policies
    /\ status[reader[r].policy] = "published"
    /\ content[reader[r].policy] = reader[r].used

ReadingsHold ==
    \A r \in Readers : reader[r].at # "new" =>
        /\ ~reader[r].draft => Unchanged(r)
        /\ r \in Requests => ~reader[r].draft

Handlers == CheckedPublished /\ CopyIsContent /\ AgentHasPolicy

LifecycleInv == LifecycleTypeOK /\ Handlers /\ DraftNeverAssigned /\ ReadingsHold

Frozen ==
    \A p \in Policies : status[p] = "published" =>
        status'[p] = "published" /\ content'[p] = content[p]

USE LifecycleAssumption

\* There are no policies at the start, and nothing refers to any.
LEMMA InitLifecycle == LifecycleInit => LifecycleInv
<1> SUFFICES ASSUME LifecycleInit PROVE LifecycleInv
  OBVIOUS
<1>1. LifecycleTypeOK
  BY DEF LifecycleInit, LifecycleTypeOK, Exists, Task, Reading, Idle, Unread
<1>2. Handlers
  BY DEF LifecycleInit, Handlers, CheckedPublished, CopyIsContent, AgentHasPolicy, Idle
<1>3. DraftNeverAssigned
  BY DEF LifecycleInit, DraftNeverAssigned
<1>4. ReadingsHold
  BY DEF LifecycleInit, ReadingsHold, Unread
<1>5. QED
  BY <1>1, <1>2, <1>3, <1>4 DEF LifecycleInv

RowsOK ==
    /\ status \in [Policies -> {"none", "draft", "published"}]
    /\ content \in [Policies -> Contents \cup {None}]
    /\ \A p \in Policies : content[p] = None <=> status[p] = "none"
    /\ deleted \subseteq {p \in Policies : Exists(p)}

\* An INSERT of a policy with a content keeps the rows well-formed, and, the
\* id being new, touches no other row.
LEMMA InsertOK ==
  ASSUME RowsOK, NEW p \in Policies, NEW c \in Contents,
         NEW word \in {"", "draft", "published"}, Insert(p, c, word)
  PROVE  RowsOK' /\ Frozen
<1>1. status' \in [Policies -> {"none", "draft", "published"}]
  BY DEF RowsOK, Insert
<1>2. content' \in [Policies -> Contents \cup {None}]
  BY DEF RowsOK, Insert
<1>3. (\A q \in Policies : content[q] = None <=> status[q] = "none")'
  BY DEF RowsOK, Insert
<1>4. (deleted \subseteq {q \in Policies : Exists(q)})'
  BY DEF RowsOK, Insert, Exists
<1>5. Frozen
  BY DEF RowsOK, Insert, Exists, Frozen
<1>6. QED
  BY <1>1, <1>2, <1>3, <1>4, <1>5 DEF RowsOK

\* An UPDATE of a draft keeps the rows well-formed, and its WHERE clause
\* protects published policies whatever the caller believes.
LEMMA UpdateDraftOK ==
  ASSUME RowsOK, NEW p \in Policies, NEW c \in Contents, UpdateDraft(p, c)
  PROVE  RowsOK' /\ Frozen
<1>1. content' \in [Policies -> Contents \cup {None}]
  BY DEF RowsOK, UpdateDraft
<1>2. (\A q \in Policies : content[q] = None <=> status[q] = "none")'
  BY DEF RowsOK, UpdateDraft, EditableDraft
<1>3. Frozen
  BY DEF RowsOK, UpdateDraft, EditableDraft, Frozen
<1>4. QED
  BY <1>1, <1>2, <1>3 DEF RowsOK, UpdateDraft, Exists

\* Any step keeps the rows well-formed and leaves published policies alone.
LEMMA StepFreezes ==
  ASSUME LifecycleInv, [LifecycleNext]_lifecycleVars
  PROVE  RowsOK' /\ Frozen
<1> USE DEF LifecycleInv
<1>r. RowsOK
  BY DEF LifecycleTypeOK, RowsOK
<1>s. UNCHANGED policies => RowsOK' /\ Frozen
  BY <1>r DEF policies, RowsOK, Frozen, Exists
<1>1. ASSUME NEW a \in Admins, Administer(a)
      PROVE  RowsOK' /\ Frozen
  <2>1. CASE Create(a)
    BY <1>r, <2>1, InsertOK DEF Create
  <2>2. CASE Edit(a)
    BY <1>r, <2>2, UpdateDraftOK DEF Edit
  <2>3. CASE Publish(a)
    <3>1. PICK p \in Policies :
            EditableDraft(p) /\ status' = [status EXCEPT ![p] = "published"]
      BY <2>3 DEF Publish
    <3>2. UNCHANGED <<content, deleted>>
      BY <2>3 DEF Publish
    <3>3. Frozen
      BY <1>r, <3>1, <3>2 DEF Frozen, RowsOK
    <3>4. RowsOK'
      BY <1>r, <3>1, <3>2 DEF RowsOK, EditableDraft, Exists
    <3>5. QED
      BY <3>3, <3>4
  <2>4. CASE Delete(a)
    <3>1. PICK p \in Policies : Exists(p) /\ deleted' = deleted \cup {p}
      BY <2>4 DEF Delete
    <3>2. UNCHANGED <<status, content>>
      BY <2>4 DEF Delete
    <3>3. QED
      BY <1>r, <3>1, <3>2 DEF RowsOK, Exists, Frozen
  <2>5. CASE EndFork(a)
    <3>1. CASE UNCHANGED policies
      BY <1>s, <3>1
    <3>2. CASE \E p \in Policies : Insert(p, task[a].copy, "draft")
      <4>1. task[a].copy \in Contents
        BY <2>5 DEF EndFork, Handlers, CopyIsContent
      <4>2. QED
        BY <1>r, <3>2, <4>1, InsertOK
    <3>3. QED
      BY <2>5, <3>1, <3>2 DEF EndFork
  <2>6. CASE EndAgent(a)
    <3>1. task[a].policy \in Policies
      BY <2>6 DEF EndAgent, Handlers, AgentHasPolicy
    <3>2. QED
      BY <1>r, <1>s, <2>6, <3>1, UpdateDraftOK DEF EndAgent
  <2>7. CASE BeginFork(a) \/ BeginAgent(a) \/ CheckPolicy(a) \/ UpdateUser(a)
             \/ Unassign(a)
    BY <1>s, <2>7 DEF BeginFork, BeginAgent, CheckPolicy, UpdateUser, Unassign
  <2>8. QED
    BY <1>1, <2>1, <2>2, <2>3, <2>4, <2>5, <2>6, <2>7 DEF Administer
<1>2. CASE \E r \in Requests : LoadForUser(r)
  BY <1>s, <1>2 DEF LoadForUser
<1>3. CASE \E r \in Runs : LoadForRun(r)
  BY <1>s, <1>3 DEF LoadForRun
<1>4. CASE \E r \in Readers : Record(r)
  BY <1>s, <1>4 DEF Record
<1>5. CASE UNCHANGED lifecycleVars
  BY <1>s, <1>5 DEF lifecycleVars, policies
<1>6. QED
  BY <1>1, <1>2, <1>3, <1>4, <1>5 DEF LifecycleNext

TasksOK == task \in [Admins -> Task] /\ Handlers

\* What a handler remembers between its two statements stays true.
LEMMA TasksStay ==
  ASSUME LifecycleInv, Frozen, [LifecycleNext]_lifecycleVars
  PROVE  TasksOK'
<1> USE DEF LifecycleInv
<1>t. TasksOK
  BY DEF LifecycleTypeOK, TasksOK
<1>s. UNCHANGED task => TasksOK'
  BY <1>t DEF TasksOK, Handlers, CheckedPublished, CopyIsContent,
              AgentHasPolicy, Frozen
<1>i. ASSUME NEW a \in Admins, task' = [task EXCEPT ![a] = Idle]
      PROVE  TasksOK'
  <2>1. task' \in [Admins -> Task]
    BY <1>t, <1>i DEF TasksOK, Task, Idle
  <2>2. Handlers'
    BY <1>t, <1>i DEF TasksOK, Handlers, CheckedPublished, CopyIsContent,
                      AgentHasPolicy, Frozen, Idle
  <2>3. QED
    BY <2>1, <2>2 DEF TasksOK
<1>1. ASSUME NEW a \in Admins, Administer(a)
      PROVE  TasksOK'
  <2>1. CASE Create(a) \/ Edit(a) \/ Publish(a) \/ Delete(a) \/ Unassign(a)
    BY <1>s, <2>1 DEF Create, Edit, Publish, Delete, Unassign
  <2>2. CASE EndFork(a) \/ EndAgent(a) \/ UpdateUser(a)
    BY <1>i, <2>2 DEF EndFork, EndAgent, UpdateUser
  <2>3. CASE BeginFork(a)
    <3>1. PICK p \in Policies :
            /\ Exists(p)
            /\ task' = [task EXCEPT ![a] =
                  [Idle EXCEPT !.op = "fork", !.policy = p, !.copy = content[p]]]
      BY <2>3 DEF BeginFork
    <3>2. content[p] \in Contents
      BY <3>1 DEF LifecycleTypeOK, Exists
    <3>3. task' \in [Admins -> Task]
      BY <1>t, <3>1, <3>2 DEF TasksOK, Task, Idle
    <3>4. Handlers'
      BY <1>t, <3>1, <3>2 DEF TasksOK, Handlers, CheckedPublished,
            CopyIsContent, AgentHasPolicy, Frozen, Idle
    <3>5. QED
      BY <3>3, <3>4 DEF TasksOK
  <2>4. CASE BeginAgent(a)
    <3>1. PICK p \in Policies : task' = [task EXCEPT ![a] =
                                  [Idle EXCEPT !.op = "agent", !.policy = p]]
      BY <2>4 DEF BeginAgent
    <3>2. task' \in [Admins -> Task]
      BY <1>t, <3>1 DEF TasksOK, Task, Idle
    <3>3. Handlers'
      BY <1>t, <3>1 DEF TasksOK, Handlers, CheckedPublished,
            CopyIsContent, AgentHasPolicy, Frozen, Idle
    <3>4. QED
      BY <3>2, <3>3 DEF TasksOK
  <2>5. CASE CheckPolicy(a)
    <3>1. PICK p \in Policies, u \in Users :
            /\ Exists(p) /\ status[p] # "draft"
            /\ task' = [task EXCEPT ![a] =
                  [Idle EXCEPT !.op = "assign", !.policy = p, !.user = u]]
      BY <2>5 DEF CheckPolicy
    <3>2. status'[p] = "published"
      BY <3>1 DEF LifecycleTypeOK, Exists, Frozen
    <3>3. task' \in [Admins -> Task]
      BY <1>t, <3>1 DEF TasksOK, Task, Idle
    <3>4. Handlers'
      BY <1>t, <3>1, <3>2 DEF TasksOK, Handlers, CheckedPublished,
            CopyIsContent, AgentHasPolicy, Frozen, Idle
    <3>5. QED
      BY <3>3, <3>4 DEF TasksOK
  <2>6. QED
    BY <1>1, <2>1, <2>2, <2>3, <2>4, <2>5 DEF Administer
<1>2. CASE \/ \E r \in Requests : LoadForUser(r)
           \/ \E r \in Runs : LoadForRun(r)
           \/ \E r \in Readers : Record(r)
           \/ UNCHANGED lifecycleVars
  BY <1>s, <1>2 DEF LoadForUser, LoadForRun, Record, lifecycleVars
<1>3. QED
  BY <1>1, <1>2 DEF LifecycleNext

AssignmentsOK == assigned \in [Users -> Policies \cup {None}] /\ DraftNeverAssigned

\* Assignments are made to policies checked before, and what was checked holds.
LEMMA AssignmentsStay ==
  ASSUME LifecycleInv, Frozen, [LifecycleNext]_lifecycleVars
  PROVE  AssignmentsOK'
<1> USE DEF LifecycleInv
<1>t. AssignmentsOK
  BY DEF LifecycleTypeOK, AssignmentsOK
<1>s. UNCHANGED assigned => AssignmentsOK'
  BY <1>t DEF AssignmentsOK, DraftNeverAssigned, Frozen
<1>1. ASSUME NEW a \in Admins, Administer(a)
      PROVE  AssignmentsOK'
  <2>1. CASE UpdateUser(a)
    <3>1. CASE UNCHANGED assigned
      BY <1>s, <3>1
    <3>2. CASE assigned' = [assigned EXCEPT ![task[a].user] = task[a].policy]
      <4>1. /\ task[a].policy \in Policies
            /\ status'[task[a].policy] = "published"
            /\ task[a].user \in Users
        BY <2>1 DEF UpdateUser, Handlers, CheckedPublished, Frozen
      <4>2. QED
        BY <1>t, <3>2, <4>1 DEF AssignmentsOK, DraftNeverAssigned, Frozen
    <3>3. QED
      BY <2>1, <3>1, <3>2 DEF UpdateUser
  <2>2. CASE Unassign(a)
    <3>1. PICK u \in Users : assigned' = [assigned EXCEPT ![u] = None]
      BY <2>2 DEF Unassign
    <3>2. QED
      BY <1>t, <3>1 DEF AssignmentsOK, DraftNeverAssigned, Frozen
  <2>3. CASE \/ Create(a) \/ Edit(a) \/ Publish(a) \/ Delete(a)
             \/ BeginFork(a) \/ EndFork(a) \/ BeginAgent(a) \/ EndAgent(a)
             \/ CheckPolicy(a)
    BY <1>s, <2>3 DEF Create, Edit, Publish, Delete, BeginFork, EndFork,
                      BeginAgent, EndAgent, CheckPolicy
  <2>4. QED
    BY <1>1, <2>1, <2>2, <2>3 DEF Administer
<1>2. CASE \/ \E r \in Requests : LoadForUser(r)
           \/ \E r \in Runs : LoadForRun(r)
           \/ \E r \in Readers : Record(r)
           \/ UNCHANGED lifecycleVars
  BY <1>s, <1>2 DEF LoadForUser, LoadForRun, Record, lifecycleVars
<1>3. QED
  BY <1>1, <1>2 DEF LifecycleNext

ReadersOK == reader \in [Readers -> Reading] /\ ReadingsHold

\* Loading an existing policy, and for a request a published one, gives a
\* reading that holds.
LEMMA LoadingHolds ==
  ASSUME LifecycleInv, Frozen, NEW r \in Readers, NEW p \in Policies, Exists(p),
         r \in Requests => status[p] = "published",
         reader' = [reader EXCEPT ![r] = Loaded(p)]
  PROVE  ReadersOK'
<1> USE DEF LifecycleInv
<1>1. content[p] \in Contents
  BY DEF LifecycleTypeOK, Exists
<1>2. reader' \in [Readers -> Reading]
  BY <1>1 DEF LifecycleTypeOK, Reading, Loaded
<1>3. Loaded(p).draft = FALSE => status'[p] = "published" /\ content'[p] = content[p]
  BY DEF LifecycleTypeOK, Exists, Loaded, Frozen
<1>4. r \in Requests => Loaded(p).draft = FALSE
  BY DEF Loaded
<1>5. ReadingsHold'
  BY <1>3, <1>4 DEF LifecycleTypeOK, ReadingsHold, Unchanged, Loaded, Frozen
<1>6. QED
  BY <1>2, <1>5 DEF ReadersOK

\* What readers have loaded and recorded stays true.
LEMMA ReadersStay ==
  ASSUME LifecycleInv, Frozen, [LifecycleNext]_lifecycleVars
  PROVE  ReadersOK'
<1> USE DEF LifecycleInv
<1>s. UNCHANGED reader => ReadersOK'
  BY DEF LifecycleTypeOK, ReadersOK, ReadingsHold, Unchanged, Frozen
<1>1. CASE \E a \in Admins : Administer(a)
  BY <1>s, <1>1 DEF Administer, Create, Edit, Publish, Delete, BeginFork,
       EndFork, BeginAgent, EndAgent, CheckPolicy, UpdateUser, Unassign
<1>2. ASSUME NEW r \in Requests, LoadForUser(r)
      PROVE  ReadersOK'
  <2>1. PICK u \in Users :
          assigned[u] # None /\ reader' = [reader EXCEPT ![r] = Loaded(assigned[u])]
    BY <1>2 DEF LoadForUser
  <2>2. assigned[u] \in Policies /\ status[assigned[u]] = "published"
    BY <2>1 DEF LifecycleTypeOK, DraftNeverAssigned
  <2>3. Exists(assigned[u]) /\ r \in Readers
    BY <2>2 DEF Exists, Readers
  <2>4. QED
    BY <2>1, <2>2, <2>3, LoadingHolds
<1>3. ASSUME NEW r \in Runs, LoadForRun(r)
      PROVE  ReadersOK'
  <2>1. PICK p \in Policies :
          Exists(p) /\ reader' = [reader EXCEPT ![r] = Loaded(p)]
    BY <1>3 DEF LoadForRun
  <2>2. r \in Readers /\ r \notin Requests
    BY DEF Readers
  <2>3. QED
    BY <2>1, <2>2, LoadingHolds
<1>4. ASSUME NEW r \in Readers, Record(r)
      PROVE  ReadersOK'
  <2>1. reader[r].at = "loaded" /\ reader' = [reader EXCEPT ![r].at = "recorded"]
    BY <1>4 DEF Record
  <2>2. reader' \in [Readers -> Reading]
    BY <2>1 DEF LifecycleTypeOK, Reading
  <2>3. ReadingsHold'
    BY <2>1 DEF LifecycleTypeOK, ReadingsHold, Unchanged, Frozen, Reading
  <2>4. QED
    BY <2>2, <2>3 DEF ReadersOK
<1>5. CASE UNCHANGED lifecycleVars
  BY <1>s, <1>5 DEF lifecycleVars
<1>6. QED
  BY <1>1, <1>2, <1>3, <1>4, <1>5 DEF LifecycleNext

\* The inductive invariant: types, what handlers and readers remember, and
\* that users are assigned to published policies only.
THEOREM LifecycleInvariance == LifecycleSpec => []LifecycleInv
<1>1. ASSUME LifecycleInv, [LifecycleNext]_lifecycleVars PROVE LifecycleInv'
  <2>1. RowsOK' /\ Frozen
    BY <1>1, StepFreezes
  <2>2. TasksOK' /\ AssignmentsOK' /\ ReadersOK'
    BY <1>1, <2>1, TasksStay, AssignmentsStay, ReadersStay
  <2>3. QED
    BY <2>1, <2>2
    DEF LifecycleInv, LifecycleTypeOK, RowsOK, TasksOK, AssignmentsOK, ReadersOK
<1>2. QED
  BY <1>1, InitLifecycle, PTL DEF LifecycleSpec

\* The tables, the handlers and the readers keep their types.
THEOREM LifecycleTypeCorrect == LifecycleSpec => []LifecycleTypeOK
<1>1. LifecycleInv => LifecycleTypeOK
  BY DEF LifecycleInv
<1>2. QED
  BY <1>1, LifecycleInvariance, PTL

\* PublishedFrozen: a published policy never changes again, for any number of
\* editors and agents that found it a draft.
THEOREM PublishedIsFrozen == LifecycleSpec => PublishedFrozen
<1>1. ASSUME LifecycleInv, [LifecycleNext]_lifecycleVars
      PROVE  [\A p \in Policies :
                 status[p] = "published" =>
                     status'[p] = "published" /\ content'[p] = content[p]]_lifecycleVars
  BY <1>1, StepFreezes DEF Frozen
<1>2. QED
  BY <1>1, LifecycleInvariance, PTL DEF LifecycleSpec, PublishedFrozen

\* DraftNeverAssigned: the check and the assignment are two statements, and
\* still no user is ever assigned to a draft.
THEOREM DraftsAreNeverAssigned == LifecycleSpec => []DraftNeverAssigned
<1>1. LifecycleInv => DraftNeverAssigned
  BY DEF LifecycleInv
<1>2. QED
  BY <1>1, LifecycleInvariance, PTL

\* TrailExplains: the policy id of an audit row names the content that its
\* request was decided with, for ever.
THEOREM TrailIsExplained == LifecycleSpec => []TrailExplains
<1>1. LifecycleInv => TrailExplains
  BY DEF LifecycleInv, ReadingsHold, Unchanged, TrailExplains
<1>2. QED
  BY <1>1, LifecycleInvariance, PTL

HIDE LifecycleAssumption

---------------------------------------------------------------------------
(* Proofs about EvalRun, for any number of rows, batch size, capacity,     *)
(* concurrency and limits: no entry has two results, a run that ends by    *)
(* itself is complete, and its status says how it ended.                   *)

USE EvalAssumption

\* TypeOK, the flags apart.
Typed ==
    /\ process \in {"up", "exiting", "down"}
    /\ present \subseteq Entries /\ awaited \subseteq present
    /\ handler \in {"create", "register", "count", "spawn", "done"}
    /\ runStatus \in {"none", "pending", "running"} \cup Terminal
    /\ total \in 0..N
    /\ cause \in {"none", "user", "server", "finished"}
    /\ limit \in Limits
    /\ fetcher \in {"off", "query", "send", "over"}
    /\ batch \in Seq(Entries)
    /\ cursor \in 1 .. (N + 1) /\ delivered \in Nat
    /\ entryCh \in Seq(Entries) /\ Len(entryCh) <= Capacity
    /\ runner \in {"off", "start", "check", "receive", "admit", "acquire",
                   "leave", "finish", "returned", "over"}
    /\ entry \in Entries \cup {0}
    /\ working \subseteq Entries /\ Cardinality(working) <= Concurrency
    /\ replays \in [Entries -> Nat] /\ unstored \subseteq Entries

Flags ==
    /\ registered \in BOOLEAN /\ full \in BOOLEAN
    /\ entryChClosed = (fetcher = "over")
    /\ broken \in BOOLEAN /\ unwritten \in BOOLEAN

\* How far the handler, the two goroutines and the database are.
Phases ==
    /\ handler # "done" => runner = "off" /\ fetcher = "off"
    /\ fetcher = "off" => batch = <<>>
    /\ fetcher = "send" => batch # <<>>
    /\ runStatus \in Terminal => runner \in {"returned", "over"}
    /\ runner \in {"returned", "over"} => working = {}
    /\ runner = "leave" => cause \in {"user", "server"}
    /\ cause = "finished" => runner = "over"

Holding == runner \in {"admit", "acquire"}

Descending(s) == \A i, j \in DOMAIN s : i < j => s[j] < s[i]

\* The entry e has been received by a worker.
Begun(e) == e \in working \/ e \in Replayed

\* Entries move through batch, channel and hands in the order of the rows, so
\* that none that is behind comes again.
InRowOrder ==
    /\ delivered + cursor <= N + 1
    /\ delivered = 0 => cursor = N + 1
    /\ Descending(batch) /\ \A i \in DOMAIN batch : batch[i] < cursor
    /\ Descending(entryCh) /\ \A i \in DOMAIN entryCh : entryCh[i] >= cursor
    /\ Holding => entry \in Entries /\ entry >= cursor
                  /\ \A i \in DOMAIN entryCh : entryCh[i] < entry
    /\ \A e \in Entries : Begun(e) =>
          /\ e >= cursor
          /\ Holding => entry < e
          /\ \A i \in DOMAIN entryCh : entryCh[i] < e
          /\ e \in working => e \notin Replayed
          /\ replays[e] <= 1

\* The entries that were sent, wherever they are.
Sent == {e \in Entries : Begun(e) \/ (Holding /\ entry = e)
                         \/ \E i \in DOMAIN entryCh : entryCh[i] = e}

Uncanceled == cause \in {"none", "finished"}

\* While nothing cancels the run nothing that was sent is lost, and no row of
\* those awaited is passed over.
NothingLost ==
    Uncanceled =>
        /\ delivered <= Cardinality(Sent)
        /\ \A e \in awaited : e >= cursor => e \in Sent
        /\ fetcher = "send" =>
              \A e \in awaited : e < cursor =>
                  \/ \E i \in DOMAIN batch : batch[i] = e
                  \/ full /\ \A i \in DOMAIN batch : e < batch[i]
        /\ fetcher = "over" /\ ~broken =>
              \/ \A e \in awaited : e >= cursor
              \/ limit > 0 /\ delivered >= limit
        /\ runner \in {"finish", "returned", "over"} =>
              fetcher = "over" /\ entryCh = <<>>

RunInv == Typed /\ Flags /\ Phases /\ StatusSaysWhy /\ InRowOrder /\ NothingLost

-----------------------------------------------------------------------------
(* Newest, the rows that one query returns.                                *)

\* A query returns the newest rows, as many as there are or as it asks for,
\* newest first; a row it leaves out is older than all it returns, and it has
\* then returned as many as it was asked for.
LEMMA NewestFacts ==
  ASSUME NEW S \in SUBSET Entries, NEW n \in Nat
  PROVE  /\ Newest(S, n) \in Seq(S)
         /\ Len(Newest(S, n)) = Smaller(n, Cardinality(S))
         /\ Descending(Newest(S, n))
         /\ \A e \in S : \/ \E i \in DOMAIN Newest(S, n) : Newest(S, n)[i] = e
                        \/ /\ Len(Newest(S, n)) = n
                           /\ \A i \in DOMAIN Newest(S, n) : e < Newest(S, n)[i]
<1> DEFINE c == Cardinality(S)
           k == Smaller(n, c)
           Above(e) == {f \in S : f > e}
           Newer(e) == Cardinality(Above(e))
           b == [i \in 1..k |-> CHOOSE e \in S : Newer(e) = i - 1]
<1>1. IsFiniteSet(S) /\ c \in Nat
  <2>1. IsFiniteSet(1..N)
    BY FS_Interval
  <2>2. IsFiniteSet(S)
    BY <2>1, FS_Subset DEF Entries
  <2>3. QED
    BY <2>2, FS_CardinalityType
<1>2. \A e \in S : e \in Int
  BY DEF Entries
<1>3. ASSUME NEW e \in S
      PROVE  IsFiniteSet(Above(e)) /\ Newer(e) \in 0 .. (c - 1)
  <2>1. Above(e) \in SUBSET (S \ {e})
    BY <1>2
  <2>2. IsFiniteSet(S \ {e}) /\ Cardinality(S \ {e}) = c - 1
    BY <1>1, FS_RemoveElement
  <2>3. IsFiniteSet(Above(e)) /\ Newer(e) <= c - 1
    BY <2>1, <2>2, FS_Subset
  <2>4. Newer(e) \in Nat
    BY <2>3, FS_CardinalityType
  <2>5. QED
    BY <1>1, <2>3, <2>4
<1>4. ASSUME NEW e \in S, NEW d \in S, e < d
      PROVE  Newer(d) < Newer(e)
  <2>1. Above(d) \cup {d} \in SUBSET Above(e) /\ d \notin Above(d)
    BY <1>2, <1>4
  <2>2. Cardinality(Above(d) \cup {d}) = Newer(d) + 1
    BY <1>3, <2>1, FS_AddElement
  <2>3. Cardinality(Above(d) \cup {d}) <= Newer(e)
    BY <1>3, <2>1, FS_Subset
  <2>4. Newer(d) \in 0 .. (c - 1) /\ Newer(e) \in 0 .. (c - 1)
    BY <1>3
  <2> HIDE DEF Newer, c
  <2>5. QED
    BY <1>1, <2>2, <2>3, <2>4
<1>5. ASSUME NEW i \in 0 .. (c - 1)
      PROVE  \E e \in S : Newer(e) = i
  <2> DEFINE F == [e \in S |-> Newer(e)]
             T == 0 .. (c - 1)
  <2>1. F \in [S -> T]
    BY <1>3
  <2>2. \A e, d \in S : F[e] = F[d] => e = d
    <3>1. ASSUME NEW e \in S, NEW d \in S, e # d
          PROVE  Newer(e) # Newer(d)
      <4>1. e < d \/ d < e
        BY <1>2, <3>1
      <4>2. Newer(e) \in Int /\ Newer(d) \in Int
        BY <1>3
      <4>3. QED
        BY <1>4, <4>1, <4>2
    <3>2. QED
      BY <3>1
  <2>3. IsFiniteSet(T) /\ Cardinality(T) = c
    BY <1>1, FS_Interval
  <2> HIDE DEF T
  <2>4. F \in Injection(S, T)
    BY <2>1, <2>2, Fun_IsInj
  <2>5. F \in Surjection(S, T)
    BY <2>3, <2>4, FS_Injection
  <2>6. \A x \in T : \E e \in S : F[e] = x
    BY <2>5, Fun_SurjectionProperties
  <2>7. i \in T
    BY DEF T
  <2>8. QED
    BY <2>6, <2>7
<1>6. k \in Nat /\ k <= c /\ k <= n /\ (k = n \/ k = c)
  BY <1>1 DEF Smaller
<1>7. Newest(S, n) = b
  BY DEF Newest
<1> HIDE DEF Newer, k
<1>8. \A i \in 1..k : b[i] \in S /\ Newer(b[i]) = i - 1
  <2>1. SUFFICES ASSUME NEW i \in 1..k
                 PROVE  b[i] \in S /\ Newer(b[i]) = i - 1
    OBVIOUS
  <2>2. \E e \in S : Newer(e) = i - 1
    BY <1>1, <1>5, <1>6
  <2>3. b[i] = CHOOSE e \in S : Newer(e) = i - 1
    OBVIOUS
  <2>4. QED
    BY <2>2, <2>3
<1>9. b \in Seq(S) /\ Len(b) = k /\ DOMAIN b = 1..k
  BY <1>6, <1>8
<1> HIDE DEF b
<1>10. \A i, j \in 1..k : i < j => b[j] < b[i]
  <2>1. SUFFICES ASSUME NEW i \in 1..k, NEW j \in 1..k, i < j
                 PROVE  b[j] < b[i]
    OBVIOUS
  <2>2. b[i] \in S /\ b[j] \in S /\ Newer(b[i]) = i - 1 /\ Newer(b[j]) = j - 1
    BY <1>8
  <2>3. b[i] # b[j]
    BY <2>1, <2>2
  <2>4. ~(b[i] < b[j])
    BY <1>4, <2>1, <2>2
  <2>5. QED
    BY <1>2, <2>2, <2>3, <2>4
<1>11. ASSUME NEW e \in S
       PROVE  \/ \E i \in 1..k : b[i] = e
              \/ k = n /\ \A i \in 1..k : e < b[i]
  <2>1. Newer(e) \in 0 .. (c - 1)
    BY <1>3
  <2>2. CASE Newer(e) < k
    <3> DEFINE i == Newer(e) + 1
    <3>1. i \in 1..k
      BY <1>6, <2>1, <2>2
    <3>2. b[i] \in S /\ Newer(b[i]) = Newer(e)
      BY <1>8, <2>1, <3>1
    <3>3. ~(b[i] < e) /\ ~(e < b[i])
      BY <1>4, <2>1, <3>2
    <3>4. b[i] = e
      BY <1>2, <3>2, <3>3
    <3>5. QED
      BY <3>1, <3>4
  <2>3. CASE Newer(e) >= k
    <3>1. k = n
      BY <1>1, <1>6, <2>1, <2>3
    <3>2. ASSUME NEW i \in 1..k
          PROVE  e < b[i]
      <4>1. b[i] \in S /\ Newer(b[i]) = i - 1
        BY <1>8
      <4>2. Newer(b[i]) < Newer(e)
        BY <1>6, <2>1, <2>3, <4>1
      <4>3. ~(b[i] < e) /\ b[i] # e
        BY <1>4, <2>1, <4>1, <4>2
      <4>4. QED
        BY <1>2, <4>1, <4>3
    <3>3. QED
      BY <3>1, <3>2
  <2>4. QED
    BY <1>6, <2>1, <2>2, <2>3
<1>12. QED
  BY <1>7, <1>9, <1>10, <1>11 DEF Descending, k

-----------------------------------------------------------------------------
(* The steps.                                                              *)

flow == <<delivered, cursor, batch, entryCh, entry, working, replays, unstored>>

\* A step that moves no entry; the one in hand may be dropped.
LEMMA OrderStays ==
  ASSUME InRowOrder, UNCHANGED flow, Holding' => Holding
  PROVE  InRowOrder'
  BY DEF InRowOrder, flow, Descending, Begun, Replayed

\* A step that moves no entry and drops none, unless the run is canceled.
LEMMA NothingLostStays ==
  ASSUME NothingLost, UNCHANGED <<flow, awaited, fetcher, full, broken, limit>>,
         Uncanceled' => Uncanceled /\ Holding' = Holding,
         Uncanceled' /\ runner' \in {"finish", "returned", "over"}
             => runner \in {"finish", "returned", "over"}
  PROVE  NothingLost'
<1> SUFFICES ASSUME Uncanceled' PROVE NothingLost'
  BY DEF NothingLost
<1>1. Uncanceled /\ Holding' = Holding
  OBVIOUS
<1>2. Sent' = Sent
  BY <1>1 DEF Sent, flow, Begun, Replayed
<1>3. QED
  BY <1>1, <1>2 DEF NothingLost, flow

\* There are finitely many rows.
LEMMA Finite ==
  /\ IsFiniteSet(Entries) /\ Cardinality(Entries) = N
  /\ \A S \in SUBSET Entries : IsFiniteSet(S) /\ Cardinality(S) \in 0..N
<1>1. IsFiniteSet(Entries) /\ Cardinality(Entries) = N
  BY FS_Interval DEF Entries
<1>2. ASSUME NEW S \in SUBSET Entries
      PROVE  IsFiniteSet(S) /\ Cardinality(S) \in 0..N
  <2>1. IsFiniteSet(S) /\ Cardinality(S) <= N
    BY <1>1, FS_Subset
  <2>2. Cardinality(S) \in Nat
    BY <2>1, FS_CardinalityType
  <2>3. QED
    BY <2>1, <2>2
<1>3. QED
  BY <1>1, <1>2

\* Nothing has been read at the start.
LEMMA InitRun == Init => RunInv
<1> SUFFICES ASSUME Init PROVE RunInv
  OBVIOUS
<1>1. Cardinality(working) = 0
  BY FS_EmptySet DEF Init
<1>2. Typed
  <2>1. batch \in Seq(Entries) /\ entryCh \in Seq(Entries) /\ Len(entryCh) = 0
    BY DEF Init
  <2>2. replays \in [Entries -> Nat] /\ unstored \subseteq Entries
    BY DEF Init
  <2>3. Cardinality(working) <= Concurrency /\ Len(entryCh) <= Capacity
    BY <1>1, <2>1
  <2>4. QED
    BY <2>1, <2>2, <2>3 DEF Init, Typed, Terminal
<1>3. Flags
  BY DEF Init, Flags
<1>4. Phases /\ StatusSaysWhy
  BY DEF Init, Phases, StatusSaysWhy, Terminal
<1>5. InRowOrder
  BY DEF Init, InRowOrder, Descending, Holding, Begun, Replayed
<1>6. NothingLost
  <2>1. delivered = 0 /\ Sent \in SUBSET Entries /\ awaited = {}
    BY DEF Init, Sent
  <2>2. delivered <= Cardinality(Sent)
    BY <2>1, Finite
  <2>3. QED
    BY <2>1, <2>2 DEF Init, NothingLost
<1>7. QED
  BY <1>2, <1>3, <1>4, <1>5, <1>6 DEF RunInv

\* The handler that creates the run.
LEMMA HandleInv ==
  ASSUME RunInv, CreateRun \/ Register \/ CountEntries
  PROVE  RunInv'
<1>1. /\ UNCHANGED <<process, present, cause, limit, fetching, channel, running, awaited,
                     broken, unwritten>>
      /\ handler # "done"
  BY DEF CreateRun, Register, CountEntries, rows, context
<1>2. /\ handler' \in {"register", "count", "spawn", "done"}
      /\ runStatus' \in {runStatus, "pending"}
      /\ registered' \in {registered, TRUE}
  BY DEF CreateRun, Register, CountEntries, rows, context
<1>3. total' \in 0..N
  <2>1. present \in SUBSET Entries /\ limit \in Nat /\ total \in 0..N
    BY DEF RunInv, Typed
  <2>2. Cardinality(present) \in 0..N
    BY <2>1, Finite
  <2>3. CASE CountEntries
    BY <2>1, <2>2, <2>3 DEF CountEntries, Smaller
  <2>4. CASE CreateRun \/ Register
    BY <2>1, <2>4 DEF CreateRun, Register, rows
  <2>5. QED
    BY <2>3, <2>4
<1>4. Typed'
  <2>1. UNCHANGED <<fetcher, batch, full, cursor, delivered, entryCh, entryChClosed,
                    runner, entry, working, replays, unstored>>
    BY <1>1 DEF fetching, channel, running, results
  <2>2. runStatus' \in {"none", "pending", "running"} \cup Terminal
    BY <1>2 DEF RunInv, Typed
  <2>3. QED
    BY <1>1, <1>2, <1>3, <2>1, <2>2 DEF RunInv, Typed
<1>5. Flags'
  BY <1>1, <1>2 DEF RunInv, Flags, fetching, channel
<1>6. Phases' /\ StatusSaysWhy'
  BY <1>1, <1>2 DEF RunInv, Phases, StatusSaysWhy, Terminal, fetching, channel, running, results
<1>7. UNCHANGED <<flow, fetcher, full, runner>>
  BY <1>1 DEF flow, fetching, channel, running, results
<1>8. InRowOrder'
  BY <1>7, OrderStays DEF RunInv, Holding
<1>9. NothingLost'
  BY <1>1, <1>7, NothingLostStays DEF RunInv, Holding, Uncanceled
<1>10. QED
  BY <1>4, <1>5, <1>6, <1>8, <1>9 DEF RunInv

\* The two goroutines start.
LEMMA SpawnInv ==
  ASSUME RunInv, Spawn
  PROVE  RunInv'
<1>1. /\ UNCHANGED <<process, present, rows, context, limit, batch, full, cursor,
                     delivered, channel, entry, working, replays, unstored, awaited,
                     broken, unwritten>>
      /\ handler = "spawn" /\ handler' = "done"
      /\ fetcher' = "query" /\ runner' = "start"
  BY DEF Spawn, results
<1>2. fetcher = "off" /\ runner = "off"
  BY <1>1 DEF RunInv, Phases
<1>3. Typed'
  BY <1>1, <1>2 DEF RunInv, Typed, rows, context, channel
<1>4. Flags'
  BY <1>1, <1>2 DEF RunInv, Flags, context, channel
<1>5. Phases' /\ StatusSaysWhy'
  BY <1>1, <1>2 DEF RunInv, Phases, StatusSaysWhy, rows, context
<1>6. InRowOrder'
  BY <1>1, <1>2, OrderStays DEF RunInv, Holding, flow, channel
<1>7. NothingLost'
  <2>1. Sent' = Sent
    BY <1>1, <1>2 DEF Sent, Begun, Replayed, Holding, channel
  <2>2. QED
    BY <1>1, <1>2, <2>1 DEF RunInv, NothingLost, Uncanceled, context, channel
<1>8. QED
  BY <1>3, <1>4, <1>5, <1>6, <1>7 DEF RunInv

\* The run is canceled by a user, by the end of the server, or it is too late;
\* rows arrive, the process ends.
LEMMA OutsideInv ==
  ASSUME RunInv, Cancel \/ ServerCancels \/ RowArrives \/ Exit \/ UNCHANGED vars
  PROVE  RunInv'
<1>1. UNCHANGED <<handler, rows, registered, limit, fetching, channel, running, awaited,
                  broken, unwritten>>
  BY DEF Cancel, ServerCancels, RowArrives, Exit, vars, context
<1>2. /\ process' \in {process, "exiting", "down"}
      /\ present' \subseteq Entries /\ present \subseteq present'
      /\ \/ cause' = cause
         \/ cause = "none" /\ cause' \in {"user", "server"}
  BY DEF Cancel, ServerCancels, RowArrives, Exit, Canceled, vars, context, RunInv, Typed
<1>3. Typed'
  BY <1>1, <1>2 DEF RunInv, Typed, rows, fetching, channel, running, results
<1>4. Flags'
  BY <1>1 DEF RunInv, Flags, fetching, channel
<1>5. Phases'
  BY <1>1, <1>2 DEF RunInv, Phases, rows, fetching, running, results
<1>6. StatusSaysWhy'
  BY <1>1, <1>2 DEF RunInv, StatusSaysWhy, rows
<1>7. UNCHANGED <<flow, fetcher, full, runner>>
  BY <1>1 DEF flow, fetching, channel, running, results
<1>8. InRowOrder'
  BY <1>7, OrderStays DEF RunInv, Holding
<1>9. NothingLost'
  BY <1>1, <1>2, <1>7, NothingLostStays DEF RunInv, Holding, Uncanceled
<1>10. QED
  BY <1>3, <1>4, <1>5, <1>6, <1>8, <1>9 DEF RunInv

\* A query returns rows that come after all that were sent.
LEMMA QueryInv ==
  ASSUME RunInv, Query
  PROVE  RunInv'
<1> DEFINE S == BeyondCursor
           n == FetchSize
<1>1. /\ fetcher = "query" /\ ~Canceled /\ (limit = 0 \/ delivered < limit)
      /\ batch' = Newest(S, n) /\ batch' # <<>> /\ full' = (Len(batch') = n)
      /\ fetcher' = "send"
      /\ awaited' = IF delivered = 0 THEN present ELSE awaited
      /\ UNCHANGED <<process, present, handler, runStatus, total, cause, registered, limit,
                     cursor, delivered, entryCh, entryChClosed, runner, entry, working,
                     replays, unstored, broken, unwritten>>
  BY DEF Query, rows, context, channel, running, results
<1>2. S \in SUBSET Entries /\ \A e \in S : e < cursor
  BY DEF BeyondCursor, RunInv, Typed
<1>3. n \in Nat /\ limit \in Nat /\ delivered \in Nat
  BY <1>1 DEF FetchSize, Smaller, RunInv, Typed
<1>4. /\ batch' \in Seq(S) /\ Descending(batch')
      /\ \A e \in S : \/ \E i \in DOMAIN batch' : batch'[i] = e
                     \/ /\ Len(batch') = n
                        /\ \A i \in DOMAIN batch' : e < batch'[i]
  BY <1>1, <1>2, <1>3, NewestFacts
<1> HIDE DEF S, n
<1>5. batch' \in Seq(Entries) /\ \A i \in DOMAIN batch' : batch'[i] \in S
  BY <1>2, <1>4
<1>6. Typed'
  BY <1>1, <1>5 DEF RunInv, Typed
<1>7. Flags'
  BY <1>1 DEF RunInv, Flags
<1>8. Phases' /\ StatusSaysWhy'
  BY <1>1 DEF RunInv, Phases, StatusSaysWhy
<1>9. InRowOrder'
  <2>1. Descending(batch)' /\ \A i \in DOMAIN batch' : batch'[i] < cursor'
    BY <1>1, <1>2, <1>4, <1>5 DEF Descending
  <2>2. QED
    BY <1>1, <2>1 DEF RunInv, InRowOrder, Descending, Holding, Begun, Replayed
<1>10. NothingLost'
  <2>1. Uncanceled /\ cause = "none"
    BY <1>1 DEF Canceled, Uncanceled
  <2>2. Sent' = Sent
    BY <1>1 DEF Sent, Begun, Replayed, Holding
  <2>3. \A e \in awaited' : e \in present
    BY <1>1 DEF RunInv, Typed
  <2>4. \A e \in awaited' : e >= cursor => e \in Sent
    <3>1. CASE delivered = 0
      <4>1. cursor = N + 1
        BY <3>1 DEF RunInv, InRowOrder
      <4>2. \A e \in present : e \in Int /\ e <= N
        BY DEF RunInv, Typed, Entries
      <4>3. QED
        BY <2>3, <4>1, <4>2
    <3>2. CASE delivered # 0
      BY <1>1, <2>1, <3>2 DEF RunInv, NothingLost
    <3>3. QED
      BY <3>1, <3>2
  <2>5. \A e \in awaited' : e < cursor =>
            \/ \E i \in DOMAIN batch' : batch'[i] = e
            \/ full' /\ \A i \in DOMAIN batch' : e < batch'[i]
    BY <1>1, <1>4, <2>3 DEF S, BeyondCursor
  <2>6. delivered <= Cardinality(Sent) /\ runner \notin {"finish", "returned", "over"}
    BY <1>1, <2>1 DEF RunInv, NothingLost
  <2>7. QED
    BY <1>1, <2>2, <2>4, <2>5, <2>6 DEF NothingLost
<1>11. QED
  BY <1>6, <1>7, <1>8, <1>9, <1>10 DEF RunInv

\* The reading ends: because the run was canceled, at its limit, at the last row,
\* or with a query that fails.
LEMMA EndOfQueryInv ==
  ASSUME RunInv, EndOfQuery
  PROVE  RunInv'
<1>1. /\ fetcher = "query" /\ fetcher' = "over" /\ entryChClosed' = TRUE
      /\ awaited' = IF delivered = 0 THEN present ELSE awaited
      /\ UNCHANGED <<process, present, handler, runStatus, total, cause, registered, limit,
                     batch, full, cursor, delivered, entryCh, runner, entry, working,
                     replays, unstored, unwritten>>
  BY DEF EndOfQuery, CloseChannel, rows, context, running, results
<1>2. \/ /\ \/ Canceled
            \/ limit > 0 /\ delivered >= limit
            \/ BeyondCursor = {}
         /\ broken' = broken
      \/ broken' = TRUE
  BY DEF EndOfQuery
<1>3. Typed'
  BY <1>1, <1>2 DEF RunInv, Typed
<1>4. Flags'
  BY <1>1, <1>2 DEF RunInv, Flags
<1>5. Phases' /\ StatusSaysWhy'
  BY <1>1 DEF RunInv, Phases, StatusSaysWhy
<1>6. InRowOrder'
  BY <1>1, OrderStays DEF RunInv, Holding, flow
<1>7. NothingLost'
  <2>1. SUFFICES ASSUME Uncanceled'
                 PROVE  NothingLost'
    BY DEF NothingLost
  <2>2. Uncanceled /\ runner \notin {"finish", "returned", "over"} /\ ~Canceled
    <3>1. Uncanceled
      BY <1>1, <2>1 DEF Uncanceled
    <3>2. runner \notin {"finish", "returned", "over"}
      BY <1>1, <3>1 DEF RunInv, NothingLost
    <3>3. cause = "none"
      BY <3>1, <3>2 DEF RunInv, Phases, Uncanceled
    <3>4. QED
      BY <3>1, <3>2, <3>3 DEF Canceled
  <2>3. Sent' = Sent
    BY <1>1 DEF Sent, Begun, Replayed, Holding
  <2>4. \A e \in awaited' : e \in present /\ e \in Int /\ e <= N
    BY <1>1 DEF RunInv, Typed, Entries
  <2>5. \A e \in awaited' : e >= cursor => e \in Sent
    <3>1. CASE delivered = 0
      <4>1. cursor = N + 1
        BY <3>1 DEF RunInv, InRowOrder
      <4>2. QED
        BY <2>4, <4>1
    <3>2. CASE delivered # 0
      BY <1>1, <2>2, <3>2 DEF RunInv, NothingLost
    <3>3. QED
      BY <3>1, <3>2
  <2>6. ~broken' => \/ \A e \in awaited' : e >= cursor
                    \/ limit > 0 /\ delivered >= limit
    <3>1. CASE BeyondCursor = {}
      <4>1. \A e \in awaited' : ~(e < cursor)
        BY <2>4, <3>1 DEF BeyondCursor
      <4>2. cursor \in Int
        BY DEF RunInv, Typed
      <4>3. QED
        BY <2>4, <4>1, <4>2
    <3>2. CASE BeyondCursor # {}
      BY <1>2, <2>2, <3>2
    <3>3. QED
      BY <3>1, <3>2
  <2>7. delivered <= Cardinality(Sent)
    BY <2>2 DEF RunInv, NothingLost
  <2>8. QED
    BY <1>1, <2>2, <2>3, <2>5, <2>6, <2>7 DEF NothingLost
<1>8. QED
  BY <1>3, <1>4, <1>5, <1>6, <1>7 DEF RunInv

\* A row goes into the channel; it comes after all that were sent before.
LEMMA SendInv ==
  ASSUME RunInv, Send
  PROVE  RunInv'
<1> DEFINE h == Head(batch)
<1>1. /\ fetcher = "send" /\ Len(entryCh) < Capacity
      /\ entryCh' = Append(entryCh, h) /\ batch' = Tail(batch)
      /\ cursor' = h /\ delivered' = delivered + 1
      /\ UNCHANGED <<process, present, handler, runStatus, total, cause, registered, limit,
                     full, runner, entry, working, replays, unstored, awaited, broken, unwritten>>
  BY DEF Send, rows, context, running, results
<1>2. \/ batch' # <<>> /\ UNCHANGED <<fetcher, entryChClosed>>
      \/ batch' = <<>> /\ full /\ fetcher' = "query" /\ UNCHANGED entryChClosed
      \/ batch' = <<>> /\ ~full /\ fetcher' = "over" /\ entryChClosed' = TRUE
  BY DEF Send, CloseChannel
<1>3. /\ batch # <<>> /\ batch \in Seq(Entries) /\ entryCh \in Seq(Entries)
      /\ cursor \in Int /\ delivered \in Nat
  BY <1>1 DEF RunInv, Phases, Typed
<1>4. /\ h \in Entries /\ h = batch[1] /\ 1 \in DOMAIN batch
      /\ batch' \in Seq(Entries)
      /\ \A i \in DOMAIN batch' : i + 1 \in DOMAIN batch /\ batch'[i] = batch[i + 1]
      /\ \A i \in DOMAIN batch : i = 1 \/ (i - 1 \in DOMAIN batch' /\ batch'[i - 1] = batch[i])
      /\ \A i \in DOMAIN batch : i \in Nat /\ i >= 1 /\ batch[i] \in Entries
  BY <1>1, <1>3
<1>5. /\ entryCh' \in Seq(Entries) /\ Len(entryCh') = Len(entryCh) + 1
      /\ \A i \in DOMAIN entryCh : i \in DOMAIN entryCh' /\ entryCh'[i] = entryCh[i]
      /\ entryCh'[Len(entryCh) + 1] = h
      /\ \A i \in DOMAIN entryCh' : i \in DOMAIN entryCh \/ i = Len(entryCh) + 1
      /\ \A i \in DOMAIN entryCh : i < Len(entryCh) + 1 /\ entryCh[i] \in Entries
      /\ Len(entryCh) + 1 \in DOMAIN entryCh' /\ Len(entryCh) \in Nat
      /\ \A i \in DOMAIN entryCh' : i \in Nat
  BY <1>1, <1>3, <1>4
<1> HIDE DEF h
<1>6. \A e \in Entries : e \in Int /\ e >= 1 /\ e <= N
  BY DEF Entries
<1>7. h < cursor /\ \A i \in DOMAIN batch : i # 1 => batch[i] < h
  BY <1>4 DEF RunInv, InRowOrder, Descending
<1>8. Typed'
  <2>1. cursor' \in 1..(N + 1) /\ delivered' \in Nat /\ Len(entryCh') <= Capacity
    BY <1>1, <1>3, <1>4, <1>5, <1>6
  <2>2. fetcher' \in {"send", "query", "over"}
    BY <1>1, <1>2
  <2>3. QED
    BY <1>1, <1>4, <1>5, <2>1, <2>2 DEF RunInv, Typed
<1>9. Flags'
  BY <1>1, <1>2 DEF RunInv, Flags
<1>10. Phases' /\ StatusSaysWhy'
  BY <1>1, <1>2 DEF RunInv, Phases, StatusSaysWhy
<1>11. InRowOrder'
  <2>1. delivered' + cursor' <= N + 1 /\ delivered' # 0
    BY <1>1, <1>3, <1>4, <1>6, <1>7 DEF RunInv, InRowOrder
  <2>2. Descending(batch)' /\ \A i \in DOMAIN batch' : batch'[i] < cursor'
    <3>1. \A i, j \in DOMAIN batch' : i < j => batch'[j] < batch'[i]
      <4>1. SUFFICES ASSUME NEW i \in DOMAIN batch', NEW j \in DOMAIN batch', i < j
                     PROVE  batch'[j] < batch'[i]
        OBVIOUS
      <4>2. i + 1 \in DOMAIN batch /\ j + 1 \in DOMAIN batch /\ i + 1 < j + 1
        BY <1>4, <4>1
      <4>3. batch[j + 1] < batch[i + 1]
        BY <4>2 DEF RunInv, InRowOrder, Descending
      <4>4. QED
        BY <1>4, <4>3
    <3>2. \A i \in DOMAIN batch' : batch'[i] < h
      <4>1. SUFFICES ASSUME NEW i \in DOMAIN batch'
                     PROVE  batch'[i] < h
        OBVIOUS
      <4>2. i + 1 \in DOMAIN batch /\ batch'[i] = batch[i + 1] /\ i \in Nat /\ i >= 1
        BY <1>4
      <4>3. QED
        BY <1>7, <4>2
    <3>3. QED
      BY <1>1, <3>1, <3>2 DEF Descending
  <2>3. Descending(entryCh)' /\ \A i \in DOMAIN entryCh' : entryCh'[i] >= cursor'
    <3>1. \A i \in DOMAIN entryCh : entryCh[i] > h
      BY <1>3, <1>4, <1>5, <1>6, <1>7 DEF RunInv, InRowOrder
    <3>2. \A i \in DOMAIN entryCh' : entryCh'[i] >= h
      BY <1>4, <1>5, <1>6, <3>1
    <3>3. \A i, j \in DOMAIN entryCh' : i < j => entryCh'[j] < entryCh'[i]
      <4>1. SUFFICES ASSUME NEW i \in DOMAIN entryCh', NEW j \in DOMAIN entryCh', i < j
                     PROVE  entryCh'[j] < entryCh'[i]
        OBVIOUS
      <4>2. i \in DOMAIN entryCh
        BY <1>5, <4>1
      <4>3. CASE j \in DOMAIN entryCh
        BY <1>5, <4>1, <4>2, <4>3 DEF RunInv, InRowOrder, Descending
      <4>4. CASE j = Len(entryCh) + 1
        BY <1>5, <3>1, <4>2, <4>4
      <4>5. QED
        BY <1>5, <4>3, <4>4
    <3>4. QED
      BY <1>1, <3>2, <3>3 DEF Descending
  <2>4. Holding' => /\ entry' \in Entries /\ entry' >= cursor'
                    /\ \A i \in DOMAIN entryCh' : entryCh'[i] < entry'
    <3>1. SUFFICES ASSUME Holding
                   PROVE  /\ entry \in Entries /\ entry > h
                          /\ \A i \in DOMAIN entryCh' : entryCh'[i] < entry
      BY <1>1, <1>4, <1>6 DEF Holding
    <3>2. /\ entry \in Entries /\ entry >= cursor
          /\ \A i \in DOMAIN entryCh : entryCh[i] < entry
      BY <3>1 DEF RunInv, InRowOrder
    <3>3. entry > h
      BY <1>3, <1>4, <1>6, <1>7, <3>2
    <3>4. QED
      BY <1>5, <3>2, <3>3
  <2>5. ASSUME NEW e \in Entries, Begun(e)
        PROVE  /\ e > h
               /\ Holding => entry < e
               /\ \A i \in DOMAIN entryCh' : entryCh'[i] < e
               /\ e \in working => e \notin Replayed
               /\ replays[e] <= 1
    <3>1. /\ e >= cursor
          /\ Holding => entry < e
          /\ \A i \in DOMAIN entryCh : entryCh[i] < e
          /\ e \in working => e \notin Replayed
          /\ replays[e] <= 1
      BY <2>5 DEF RunInv, InRowOrder
    <3>2. e > h
      BY <1>3, <1>4, <1>6, <1>7, <3>1
    <3>3. QED
      BY <1>5, <3>1, <3>2
  <2>6. QED
    BY <1>1, <1>4, <1>6, <2>1, <2>2, <2>3, <2>4, <2>5 DEF InRowOrder, Begun, Replayed, Holding
<1>12. NothingLost'
  <2>1. SUFFICES ASSUME Uncanceled'
                 PROVE  NothingLost'
    BY DEF NothingLost
  <2>2. Uncanceled
    BY <1>1, <2>1 DEF Uncanceled
  <2>3. Sent' = Sent \cup {h}
    <3>1. ASSUME NEW e \in Entries
          PROVE  (\E i \in DOMAIN entryCh' : entryCh'[i] = e)
                    <=> e = h \/ \E i \in DOMAIN entryCh : entryCh[i] = e
      BY <1>5
    <3>2. QED
      BY <1>1, <1>4, <3>1 DEF Sent, Begun, Replayed, Holding
  <2>4. h \notin Sent
    BY <1>3, <1>4, <1>6, <1>7 DEF Sent, RunInv, InRowOrder
  <2>5. delivered' <= Cardinality(Sent')
    <3>1. Sent \in SUBSET Entries
      BY DEF Sent
    <3>2. IsFiniteSet(Sent) /\ Cardinality(Sent) \in 0..N
      BY <3>1, Finite
    <3>3. Cardinality(Sent') = Cardinality(Sent) + 1
      BY <2>3, <2>4, <3>2, FS_AddElement
    <3>4. QED
      BY <1>1, <1>3, <2>2, <3>2, <3>3 DEF RunInv, NothingLost
  <2>6. \A e \in awaited : e \in Entries
    BY DEF RunInv, Typed
  <2>7. \A e \in awaited : e < cursor =>
            \/ \E i \in DOMAIN batch : batch[i] = e
            \/ full /\ \A i \in DOMAIN batch : e < batch[i]
    BY <1>1, <2>2 DEF RunInv, NothingLost
  <2>8. \A e \in awaited : e >= h => e \in Sent'
    <3>1. SUFFICES ASSUME NEW e \in awaited, e >= h, e # h
                   PROVE  e \in Sent
      BY <2>3
    <3>2. CASE e >= cursor
      BY <2>2, <3>2 DEF RunInv, NothingLost
    <3>3. CASE e < cursor
      <4>1. ~(e < h)
        BY <1>4, <1>6, <2>6, <3>1
      <4>2. ASSUME NEW i \in DOMAIN batch, batch[i] = e
            PROVE  FALSE
        BY <1>4, <1>7, <3>1, <4>1, <4>2
      <4>3. QED
        BY <1>4, <2>7, <3>3, <4>1, <4>2
    <3>4. QED
      BY <1>3, <1>6, <2>6, <3>2, <3>3
  <2>9. \A e \in awaited : e < h =>
            \/ \E i \in DOMAIN batch' : batch'[i] = e
            \/ full /\ \A i \in DOMAIN batch' : e < batch'[i]
    <3>1. SUFFICES ASSUME NEW e \in awaited, e < h
                   PROVE  \/ \E i \in DOMAIN batch' : batch'[i] = e
                          \/ full /\ \A i \in DOMAIN batch' : e < batch'[i]
      OBVIOUS
    <3>2. e < cursor
      BY <1>3, <1>4, <1>6, <1>7, <2>6, <3>1
    <3>3. CASE full /\ \A i \in DOMAIN batch : e < batch[i]
      BY <1>4, <3>3
    <3>4. ASSUME NEW i \in DOMAIN batch, batch[i] = e
          PROVE  \E j \in DOMAIN batch' : batch'[j] = e
      <4>1. i # 1
        BY <1>4, <1>6, <2>6, <3>1, <3>4
      <4>2. QED
        BY <1>4, <3>4, <4>1
    <3>5. QED
      BY <2>7, <3>2, <3>3, <3>4
  <2>10. fetcher' = "over" => \A e \in awaited : e >= h
    <3>1. SUFFICES ASSUME fetcher' = "over", NEW e \in awaited
                   PROVE  ~(e < h)
      BY <1>4, <1>6, <2>6
    <3>2. ~full /\ batch' = <<>>
      BY <1>1, <1>2, <3>1
    <3>3. QED
      BY <2>9, <3>1, <3>2
  <2>11. runner \notin {"finish", "returned", "over"}
    BY <1>1, <2>2 DEF RunInv, NothingLost
  <2>12. QED
    BY <1>1, <2>5, <2>8, <2>9, <2>10, <2>11 DEF NothingLost
<1>13. QED
  BY <1>8, <1>9, <1>10, <1>11, <1>12 DEF RunInv

\* The sender gives up, the run is marked as running, the loop goes on, finds
\* that the context is over, or that the channel is closed and empty.
LEMMA LoopInv ==
  ASSUME RunInv, StopSending \/ Start \/ Check \/ Leave \/ Drained
  PROVE  RunInv'
<1>1. UNCHANGED <<process, present, handler, total, cause, registered, limit, full, flow,
                  awaited, broken>>
  BY DEF StopSending, Start, Check, Leave, Drained, CloseChannel, others, results, rows, context,
         fetching, channel, running, flow
<1>2. UNCHANGED <<batch, cursor, delivered, entryCh, entry, working, replays, unstored>>
  BY <1>1 DEF flow
<1>3. \/ /\ Canceled /\ fetcher = "send" /\ fetcher' = "over" /\ entryChClosed' = TRUE
         /\ UNCHANGED <<runner, runStatus, unwritten>>
      \/ /\ UNCHANGED <<fetcher, entryChClosed>>
         /\ \/ /\ runner = "start" /\ runner' = "check" /\ WriteStatus("running")
            \/ /\ UNCHANGED <<runStatus, unwritten>>
               /\ \/ ~Canceled /\ runner = "check" /\ runner' = "receive"
                  \/ ~Canceled /\ runner = "admit" /\ runner' = "acquire"
                  \/ /\ Canceled /\ runner \in {"check", "receive", "admit", "acquire"}
                     /\ runner' = "leave"
                  \/ /\ entryCh = <<>> /\ entryChClosed
                     /\ runner = "receive" /\ runner' = "finish"
  BY DEF StopSending, Start, Check, Leave, Drained, CloseChannel, others, results, rows, context,
         fetching, channel, running, Proceed
<1>4. /\ runner' \in {"check", "receive", "acquire", "leave", "finish"} \cup {runner}
      /\ fetcher' \in {fetcher, "over"} /\ runStatus' \in {runStatus, "running"}
  BY <1>3 DEF WriteStatus
<1>5. Typed'
  BY <1>1, <1>2, <1>4 DEF RunInv, Typed
<1>6. Flags'
  <2>1. unwritten' \in BOOLEAN
    BY <1>3 DEF WriteStatus, RunInv, Flags
  <2>2. entryChClosed' = (fetcher' = "over")
    BY <1>3 DEF RunInv, Flags
  <2>3. QED
    BY <1>1, <2>1, <2>2 DEF RunInv, Flags
<1>7. cause = "finished" => fetcher = "over" /\ runner = "over"
  BY DEF RunInv, Phases, NothingLost, Uncanceled
<1>8. StatusSaysWhy'
  BY <1>1, <1>4 DEF RunInv, StatusSaysWhy
<1>9. Phases'
  <2>1. runner = "start" => runStatus \notin Terminal
    BY DEF RunInv, Phases
  <2>2. handler' # "done" => runner' = "off" /\ fetcher' = "off"
    BY <1>1, <1>3 DEF RunInv, Phases
  <2>3. (fetcher' = "off" => batch' = <<>>) /\ (fetcher' = "send" => batch' # <<>>)
    BY <1>2, <1>3 DEF RunInv, Phases
  <2>4. runStatus' \in Terminal => runner' \in {"returned", "over"}
    BY <1>3, <2>1 DEF RunInv, Phases, WriteStatus, Terminal
  <2>5. runner' \in {"returned", "over"} => working' = {}
    BY <1>2, <1>4 DEF RunInv, Phases
  <2>6. runner' = "leave" => cause' \in {"user", "server"}
    BY <1>1, <1>3, <1>7 DEF RunInv, Phases, Canceled, Typed
  <2>7. cause' = "finished" => runner' = "over"
    BY <1>1, <1>3, <1>7
  <2>8. QED
    BY <2>2, <2>3, <2>4, <2>5, <2>6, <2>7 DEF Phases
<1>10. InRowOrder'
  BY <1>1, <1>3, OrderStays DEF RunInv, Holding
<1>11. NothingLost'
  <2>1. SUFFICES ASSUME Uncanceled
                 PROVE  NothingLost'
    BY <1>1 DEF NothingLost, Uncanceled
  <2>2. Canceled => cause = "finished"
    BY <2>1 DEF Canceled, Uncanceled
  <2>3. Holding' = Holding /\ UNCHANGED fetcher
    BY <1>3, <1>7, <2>2 DEF Holding
  <2>4. Sent' = Sent
    BY <1>2, <2>3 DEF Sent, Begun, Replayed
  <2>5. runner' \in {"finish", "returned", "over"} => fetcher = "over" /\ entryCh = <<>>
    BY <1>3, <2>1 DEF RunInv, NothingLost, Flags
  <2>6. QED
    BY <1>1, <1>2, <2>1, <2>3, <2>4, <2>5 DEF RunInv, NothingLost
<1>12. QED
  BY <1>5, <1>6, <1>8, <1>9, <1>10, <1>11 DEF RunInv

\* An entry is received: it is the newest in the channel.
LEMMA ReceiveInv ==
  ASSUME RunInv, Receive
  PROVE  RunInv'
<1> DEFINE h == Head(entryCh)
<1>1. /\ entryCh # <<>> /\ runner = "receive" /\ runner' = "admit"
      /\ entry' = h /\ entryCh' = Tail(entryCh)
      /\ UNCHANGED <<process, present, handler, runStatus, total, cause, registered, limit,
                     fetcher, batch, full, cursor, delivered, entryChClosed, working,
                     replays, unstored, awaited, broken, unwritten>>
  BY DEF Receive, Proceed, others, results, context, fetching
<1>2. entryCh \in Seq(Entries) /\ Len(entryCh) <= Capacity
  BY DEF RunInv, Typed
<1>3. /\ h \in Entries /\ h = entryCh[1] /\ 1 \in DOMAIN entryCh
      /\ entryCh' \in Seq(Entries) /\ Len(entryCh') <= Capacity
      /\ \A i \in DOMAIN entryCh' : i + 1 \in DOMAIN entryCh /\ entryCh'[i] = entryCh[i + 1]
      /\ \A i \in DOMAIN entryCh :
            i = 1 \/ (i - 1 \in DOMAIN entryCh' /\ entryCh'[i - 1] = entryCh[i])
      /\ \A i \in DOMAIN entryCh : i \in Nat /\ i >= 1
      /\ \A i \in DOMAIN entryCh' : i \in Nat /\ i >= 1
  BY <1>1, <1>2
<1> HIDE DEF h
<1>4. /\ \A i \in DOMAIN entryCh : entryCh[i] >= cursor
      /\ \A i, j \in DOMAIN entryCh : i < j => entryCh[j] < entryCh[i]
      /\ \A e \in Entries : Begun(e) => \A i \in DOMAIN entryCh : entryCh[i] < e
  BY DEF RunInv, InRowOrder, Descending
<1>5. Typed'
  BY <1>1, <1>3 DEF RunInv, Typed
<1>6. Flags'
  BY <1>1 DEF RunInv, Flags
<1>7. Phases' /\ StatusSaysWhy'
  BY <1>1 DEF RunInv, Phases, StatusSaysWhy
<1>8. InRowOrder'
  <2>1. Descending(entryCh)' /\ \A i \in DOMAIN entryCh' : entryCh'[i] >= cursor
    <3>1. ASSUME NEW i \in DOMAIN entryCh', NEW j \in DOMAIN entryCh', i < j
          PROVE  entryCh'[j] < entryCh'[i]
      <4>1. i + 1 \in DOMAIN entryCh /\ j + 1 \in DOMAIN entryCh /\ i + 1 < j + 1
        BY <1>3, <3>1
      <4>2. QED
        BY <1>3, <1>4, <4>1
    <3>2. QED
      BY <1>3, <1>4, <3>1 DEF Descending
  <2>2. h >= cursor /\ \A i \in DOMAIN entryCh' : entryCh'[i] < h
    <3>1. ASSUME NEW i \in DOMAIN entryCh'
          PROVE  entryCh'[i] < h
      <4>1. i + 1 \in DOMAIN entryCh /\ 1 < i + 1 /\ entryCh'[i] = entryCh[i + 1]
        BY <1>3
      <4>2. QED
        BY <1>3, <1>4, <4>1
    <3>2. QED
      BY <1>3, <1>4, <3>1
  <2>3. ASSUME NEW e \in Entries, Begun(e)
        PROVE  /\ e >= cursor
               /\ h < e
               /\ \A i \in DOMAIN entryCh' : entryCh'[i] < e
               /\ e \in working => e \notin Replayed
               /\ replays[e] <= 1
    <3>1. e >= cursor /\ (e \in working => e \notin Replayed) /\ replays[e] <= 1
      BY <2>3 DEF RunInv, InRowOrder
    <3>2. QED
      BY <1>3, <1>4, <2>3, <3>1
  <2>4. QED
    BY <1>1, <1>3, <2>1, <2>2, <2>3 DEF RunInv, InRowOrder, Holding, Begun, Replayed
<1>9. NothingLost'
  <2>1. Sent' = Sent
    <3>1. ASSUME NEW e \in Entries
          PROVE  (\E i \in DOMAIN entryCh : entryCh[i] = e)
                   <=> e = h \/ \E i \in DOMAIN entryCh' : entryCh'[i] = e
      BY <1>3
    <3>2. QED
      BY <1>1, <1>3, <3>1 DEF Sent, Begun, Replayed, Holding
  <2>2. QED
    BY <1>1, <2>1 DEF RunInv, NothingLost, Uncanceled
<1>10. QED
  BY <1>5, <1>6, <1>7, <1>8, <1>9 DEF RunInv

\* A worker takes the entry in hand, which none has had.
LEMMA StartWorkerInv ==
  ASSUME RunInv, StartWorker
  PROVE  RunInv'
<1>1. /\ Cardinality(working) < Concurrency
      /\ runner = "acquire" /\ runner' = "check"
      /\ working' = working \cup {entry}
      /\ UNCHANGED <<process, present, handler, runStatus, total, cause, registered, limit,
                     fetcher, batch, full, cursor, delivered, entryCh, entryChClosed, entry,
                     replays, unstored, awaited, broken, unwritten>>
  BY DEF StartWorker, Proceed, others, results, context, fetching, channel
<1>2. Holding
  BY <1>1 DEF Holding
<1>3. /\ entry \in Entries /\ entry >= cursor
      /\ \A i \in DOMAIN entryCh : entryCh[i] < entry
      /\ ~Begun(entry)
  <2>1. /\ entry \in Entries /\ entry >= cursor
        /\ \A i \in DOMAIN entryCh : entryCh[i] < entry
        /\ Begun(entry) => entry < entry
    BY <1>2 DEF RunInv, InRowOrder
  <2>2. QED
    BY <2>1 DEF Entries
<1>4. /\ entry \notin Replayed /\ entry \notin working
      /\ replays[entry] = 0 /\ Replayed' = Replayed
  BY <1>1, <1>3 DEF Begun, Replayed, RunInv, Typed
<1>5. Typed'
  <2>1. IsFiniteSet(working)
    BY Finite DEF RunInv, Typed
  <2>2. Cardinality(working') = Cardinality(working) + 1
    BY <1>1, <1>4, <2>1, FS_AddElement
  <2>3. Cardinality(working) \in Nat
    BY <2>1, FS_CardinalityType
  <2>4. Cardinality(working') <= Concurrency
    BY <1>1, <2>2, <2>3
  <2>5. QED
    BY <1>1, <1>3, <2>4 DEF RunInv, Typed
<1>6. Flags'
  BY <1>1 DEF RunInv, Flags
<1>7. Phases' /\ StatusSaysWhy'
  BY <1>1 DEF RunInv, Phases, StatusSaysWhy
<1>8. ASSUME NEW e \in Entries
      PROVE  Begun(e)' <=> Begun(e) \/ e = entry
  BY <1>1 DEF Begun, Replayed
<1>9. InRowOrder'
  <2>1. ~Holding'
    BY <1>1 DEF Holding
  <2>2. ASSUME NEW e \in Entries, Begun(e)'
        PROVE  /\ e >= cursor
               /\ \A i \in DOMAIN entryCh : entryCh[i] < e
               /\ e \in working' => e \notin Replayed
               /\ replays[e] <= 1
    <3>1. CASE e = entry
      BY <1>3, <1>4, <3>1
    <3>2. CASE e # entry
      BY <1>1, <1>8, <2>2, <3>2 DEF RunInv, InRowOrder
    <3>3. QED
      BY <3>1, <3>2
  <2>3. QED
    BY <1>1, <1>4, <2>1, <2>2 DEF RunInv, InRowOrder, Descending
<1>10. NothingLost'
  <2>1. Sent' = Sent
    BY <1>1, <1>3, <1>8 DEF Sent, Holding
  <2>2. QED
    BY <1>1, <2>1 DEF RunInv, NothingLost, Uncanceled
<1>11. QED
  BY <1>5, <1>6, <1>7, <1>9, <1>10 DEF RunInv

\* A worker adds its result.
LEMMA FinishWorkerInv ==
  ASSUME RunInv, NEW d \in Entries, FinishWorker(d)
  PROVE  RunInv'
<1>1. /\ d \in working
      /\ \/ replays' = [replays EXCEPT ![d] = @ + 1] /\ UNCHANGED unstored
         \/ unstored' = unstored \cup {d} /\ UNCHANGED replays
      /\ working' = working \ {d}
      /\ UNCHANGED <<process, present, handler, runStatus, total, cause, registered, limit,
                     fetcher, batch, full, cursor, delivered, entryCh, entryChClosed,
                     runner, entry, awaited, broken, unwritten>>
  BY DEF FinishWorker, others, results, context, fetching, channel
<1>2. replays \in [Entries -> Nat] /\ unstored \subseteq Entries
  BY DEF RunInv, Typed
<1>3. /\ replays' \in [Entries -> Nat] /\ unstored' \subseteq Entries
      /\ replays'[d] <= replays[d] + 1 /\ (replays'[d] > 0 \/ d \in unstored')
      /\ \A e \in Entries : e # d => /\ replays'[e] = replays[e]
                                     /\ e \in unstored' <=> e \in unstored
  BY <1>1, <1>2
<1>4. replays[d] = 0
  BY <1>1, <1>2 DEF RunInv, InRowOrder, Begun, Replayed
<1>5. Typed'
  <2>1. IsFiniteSet(working) /\ working \subseteq Entries
    BY Finite DEF RunInv, Typed
  <2>2. working' \in SUBSET working
    BY <1>1
  <2>3. IsFiniteSet(working') /\ Cardinality(working') <= Cardinality(working)
    BY <2>1, <2>2, FS_Subset
  <2>4. Cardinality(working) \in Nat /\ Cardinality(working') \in Nat
    BY <2>1, <2>3, FS_CardinalityType
  <2>5. Cardinality(working') <= Concurrency
    BY <2>3, <2>4 DEF RunInv, Typed
  <2>6. QED
    BY <1>1, <1>3, <2>1, <2>2, <2>5 DEF RunInv, Typed
<1>6. Flags'
  BY <1>1 DEF RunInv, Flags
<1>7. Phases' /\ StatusSaysWhy'
  BY <1>1 DEF RunInv, Phases, StatusSaysWhy
<1>8. \A e \in Entries : Begun(e)' <=> Begun(e)
  <2>1. ASSUME NEW e \in Entries PROVE Begun(e)' <=> Begun(e)
    <3>1. CASE e = d
      BY <1>1, <1>3, <1>4, <3>1 DEF Begun, Replayed
    <3>2. CASE e # d
      BY <1>1, <1>3, <3>2 DEF Begun, Replayed
    <3>3. QED
      BY <3>1, <3>2
  <2>2. QED
    BY <2>1
<1>9. InRowOrder'
  <2>1. ASSUME NEW e \in Entries, Begun(e)
        PROVE  (e \in working' => e \notin Replayed') /\ replays'[e] <= 1
    <3>1. CASE e = d
      BY <1>1, <1>3, <1>4, <3>1
    <3>2. CASE e # d
      BY <1>1, <1>3, <2>1, <3>2 DEF RunInv, InRowOrder, Replayed
    <3>3. QED
      BY <3>1, <3>2
  <2>2. Holding' = Holding
    BY <1>1 DEF Holding
  <2>3. ASSUME NEW e \in Entries, Begun(e)
        PROVE  /\ e >= cursor
               /\ Holding => entry < e
               /\ \A i \in DOMAIN entryCh : entryCh[i] < e
    BY <2>3 DEF RunInv, InRowOrder
  <2>4. QED
    BY <1>1, <1>8, <2>1, <2>2, <2>3 DEF RunInv, InRowOrder, Descending
<1>10. NothingLost'
  <2>1. Sent' = Sent
    BY <1>1, <1>8 DEF Sent, Holding
  <2>2. QED
    BY <1>1, <2>1 DEF RunInv, NothingLost, Uncanceled
<1>11. QED
  BY <1>5, <1>6, <1>7, <1>9, <1>10 DEF RunInv

\* RunEval ends: canceled or completed, and returns to the goroutine that
\* forgets the run.
LEMMA EndInv ==
  ASSUME RunInv, EndCanceled \/ EndCompleted \/ Return
  PROVE  RunInv'
<1>1. UNCHANGED <<process, present, handler, total, limit, fetching, channel, entry,
                  working, replays, unstored, awaited, broken>>
  BY DEF EndCanceled, EndCompleted, Return, others, results, rows, channel, fetching
<1>2. UNCHANGED <<fetcher, batch, full, cursor, delivered, entryCh, entryChClosed>>
  BY <1>1 DEF fetching, channel
<1>3. \/ /\ runner = "leave" /\ runner' = "returned" /\ working = {}
         /\ WriteStatus(IF cause = "user" THEN "canceled" ELSE "failed")
         /\ UNCHANGED <<cause, registered>>
      \/ /\ runner = "finish" /\ runner' = "returned" /\ working = {}
         /\ WriteStatus("completed")
         /\ UNCHANGED <<cause, registered>>
      \/ /\ runner = "returned" /\ runner' = "over"
         /\ cause' = IF Canceled THEN cause ELSE "finished"
         /\ registered' = FALSE
         /\ UNCHANGED <<runStatus, unwritten>>
  BY DEF EndCanceled, EndCompleted, Return, Proceed, others, results, context, rows
<1>4. /\ runStatus' \in {runStatus} \cup Terminal
      /\ runner' \in {"returned", "over"} /\ runner \in {"leave", "finish", "returned"}
      /\ cause' \in {cause, "finished"}
  BY <1>3 DEF WriteStatus, Terminal
<1>5. Typed'
  BY <1>1, <1>2, <1>4 DEF RunInv, Typed
<1>6. Flags'
  <2>1. unwritten' \in BOOLEAN /\ registered' \in BOOLEAN
    BY <1>3 DEF WriteStatus, RunInv, Flags
  <2>2. QED
    BY <1>1, <1>2, <2>1 DEF RunInv, Flags
<1>7. StatusSaysWhy'
  <2>1. CASE runner = "leave"
    BY <1>3, <2>1 DEF RunInv, StatusSaysWhy, Phases, WriteStatus
  <2>2. CASE runner = "finish"
    BY <1>3, <2>2 DEF RunInv, StatusSaysWhy, WriteStatus
  <2>3. CASE runner = "returned"
    BY <1>3, <2>3 DEF RunInv, StatusSaysWhy, Canceled
  <2>4. QED
    BY <1>4, <2>1, <2>2, <2>3
<1>8. Phases'
  <2>1. handler' # "done" => FALSE
    BY <1>1, <1>4 DEF RunInv, Phases
  <2>2. working' = {}
    BY <1>1, <1>3 DEF RunInv, Phases
  <2>3. cause' = "finished" => runner' = "over"
    BY <1>3 DEF RunInv, Phases
  <2>4. QED
    BY <1>2, <1>4, <2>1, <2>2, <2>3 DEF RunInv, Phases
<1>9. InRowOrder'
  BY <1>1, <1>2, <1>4, OrderStays DEF RunInv, Holding, flow
<1>10. NothingLost'
  <2>1. SUFFICES ASSUME Uncanceled'
                 PROVE  NothingLost'
    BY DEF NothingLost
  <2>2. Uncanceled /\ runner # "leave"
    BY <1>3, <2>1 DEF Uncanceled, Canceled, RunInv, Phases
  <2>3. Holding' = Holding /\ runner \in {"finish", "returned", "over"}
    BY <1>4, <2>2 DEF Holding
  <2>4. Sent' = Sent
    BY <1>1, <1>2, <2>3 DEF Sent, Begun, Replayed
  <2>5. QED
    BY <1>1, <1>2, <2>2, <2>3, <2>4 DEF RunInv, NothingLost
<1>11. QED
  BY <1>5, <1>6, <1>7, <1>8, <1>9, <1>10 DEF RunInv

\* Every step of the run keeps the invariant.
LEMMA StepInv == RunInv /\ [Next]_vars => RunInv'
<1> SUFFICES ASSUME RunInv, [Next]_vars PROVE RunInv'
  OBVIOUS
<1>1. CASE Handle
  BY <1>1, HandleInv, SpawnInv DEF Handle
<1>2. CASE Fetch
  BY <1>2, QueryInv, EndOfQueryInv, SendInv, LoopInv DEF Fetch
<1>3. CASE Run
  BY <1>3, LoopInv, ReceiveInv, StartWorkerInv, EndInv DEF Run
<1>4. CASE \E e \in Entries : FinishWorker(e)
  BY <1>4, FinishWorkerInv
<1>5. CASE Cancel \/ RowArrives \/ ServerCancels \/ Exit \/ UNCHANGED vars
  BY <1>5, OutsideInv
<1>6. CASE Quiet
  BY <1>6, OutsideInv DEF Quiet
<1>7. QED
  BY <1>1, <1>2, <1>3, <1>4, <1>5, <1>6 DEF Next

-----------------------------------------------------------------------------
(* The theorems.                                                           *)

\* The inductive invariant holds in every state of a run.
THEOREM RunInvariance == Spec => []RunInv
BY InitRun, StepInv, PTL DEF Spec

\* The variables keep their types; the rows delivered are at most all rows, the
\* channel and the slots of the semaphore never overflow.
THEOREM RunTypeCorrect == Spec => []TypeOK
<1>1. RunInv => TypeOK
  <2> SUFFICES ASSUME RunInv PROVE TypeOK
    OBVIOUS
  <2>1. delivered \in 0..N
    BY DEF RunInv, Typed, InRowOrder
  <2>2. QED
    BY <2>1 DEF RunInv, Typed, Flags, TypeOK
<1>2. QED
  BY <1>1, RunInvariance, PTL

\* No entry has two results, whatever rows arrive while the run reads them and
\* however the queries page through them.
THEOREM ReplayedOnceHolds == Spec => []ReplayedOnce
<1>1. RunInv => ReplayedOnce
  <2> SUFFICES ASSUME RunInv, NEW e \in Entries PROVE replays[e] <= 1
    BY DEF ReplayedOnce
  <2>1. CASE Begun(e)
    BY <2>1 DEF RunInv, InRowOrder
  <2>2. CASE ~Begun(e)
    BY <2>2 DEF RunInv, Typed, Begun, Replayed
  <2>3. QED
    BY <2>1, <2>2
<1>2. QED
  BY <1>1, RunInvariance, PTL

\* A run that ends by itself, with no query that failed, has replayed every row
\* there was when its first query ran, or as many as its limit allows.
THEOREM CompletedIsCompleteHolds == Spec => []CompletedIsComplete
<1>1. RunInv => CompletedIsComplete
  <2> SUFFICES ASSUME RunInv, runner = "over", cause = "finished", ~broken
               PROVE  IF limit = 0 THEN awaited \subseteq Replayed
                      ELSE Cardinality(Replayed) >= Smaller(limit, Cardinality(awaited))
    BY DEF CompletedIsComplete
  <2>1. /\ delivered <= Cardinality(Sent)
        /\ \A e \in awaited : e >= cursor => e \in Sent
        /\ \/ \A e \in awaited : e >= cursor
           \/ limit > 0 /\ delivered >= limit
        /\ entryCh = <<>> /\ working = {}
    BY DEF RunInv, NothingLost, Uncanceled, Phases
  <2>2. Sent = Replayed
    BY <2>1 DEF Sent, Begun, Replayed, Holding, RunInv, Typed
  <2>3. Replayed \in SUBSET Entries /\ awaited \in SUBSET Entries
    BY DEF Replayed, RunInv, Typed
  <2>4. IsFiniteSet(Replayed) /\ Cardinality(Replayed) \in 0..N /\ Cardinality(awaited) \in 0..N
    BY <2>3, Finite
  <2>5. CASE awaited \subseteq Replayed
    <3>1. Cardinality(awaited) <= Cardinality(Replayed)
      BY <2>4, <2>5, FS_Subset
    <3>2. limit \in Nat
      BY DEF RunInv, Typed
    <3>3. QED
      BY <2>4, <2>5, <3>1, <3>2 DEF Smaller
  <2>6. CASE ~(awaited \subseteq Replayed)
    <3>1. limit > 0 /\ delivered >= limit /\ limit \in Nat /\ delivered \in Nat
      BY <2>1, <2>2, <2>6 DEF RunInv, Typed
    <3>2. Cardinality(Replayed) >= limit
      BY <2>1, <2>2, <2>4, <3>1
    <3>3. QED
      BY <2>4, <3>1, <3>2 DEF Smaller
  <2>7. QED
    BY <2>5, <2>6
<1>2. QED
  BY <1>1, RunInvariance, PTL

\* Canceled means that a user has canceled the run, failed that the server has
\* ended, also when both happen or the run is ending by itself.
THEOREM StatusSaysWhyHolds == Spec => []StatusSaysWhy
<1>1. RunInv => StatusSaysWhy
  BY DEF RunInv
<1>2. QED
  BY <1>1, RunInvariance, PTL

\* Once the database shows the end of a run neither its status nor its results
\* change: no worker is left when the status is written.
THEOREM ResultsFinalHolds == Spec => ResultsFinal
<1>1. RunInv /\ [Next]_vars /\ runStatus \in Terminal => runStatus' = runStatus /\ replays' = replays
  <2> SUFFICES ASSUME RunInv, [Next]_vars, runStatus \in Terminal
               PROVE  runStatus' = runStatus /\ replays' = replays
    OBVIOUS
  <2>1. runner \in {"returned", "over"} /\ working = {} /\ handler = "done"
    BY DEF RunInv, Phases
  <2>2. CASE Handle \/ Cancel
    BY <2>1, <2>2 DEF Handle, CreateRun, Register, CountEntries, Spawn, Cancel, running, results, rows
  <2>3. CASE Fetch
    BY <2>3 DEF Fetch, Query, EndOfQuery, Send, StopSending, running, results, rows
  <2>4. CASE Run
    BY <2>1, <2>4 DEF Run, Start, Check, Leave, Receive, Drained, StartWorker, EndCanceled,
                      EndCompleted, Return, Proceed, rows, results
  <2>5. CASE \E e \in Entries : FinishWorker(e)
    BY <2>1, <2>5 DEF FinishWorker
  <2>6. CASE RowArrives \/ ServerCancels \/ Exit \/ Quiet \/ UNCHANGED vars
    BY <2>6 DEF RowArrives, ServerCancels, Exit, Quiet, vars, rows, running, results
  <2>7. QED
    BY <2>2, <2>3, <2>4, <2>5, <2>6 DEF Next
<1>2. QED
  BY <1>1, RunInvariance, PTL DEF Spec, ResultsFinal

=============================================================================

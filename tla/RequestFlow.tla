--------------------------- MODULE RequestFlow ----------------------------
(***************************************************************************)
(* The life of one proxied request, from its token to its audit row, with  *)
(* many requests and the administrators interleaved: processRequest,       *)
(* processUpgradeApproval and the audit end of handleWebSocketUpgrade      *)
(* (internal/proxy/handler.go), CheckApproval (internal/approval), the     *)
(* user, policy and audit rows they read and write in PostgreSQL.          *)
(*                                                                         *)
(* Each query is a step of its own: nothing spans two of them in the code. *)
(***************************************************************************)
EXTENDS FiniteSets

CONSTANTS
    Requests, Users, Tokens, Policies,
    Rules,      \* Rules[p]: actions of p's static rules that match
    Prompted,   \* policies with a non-empty prompt
    Configs,    \* deployments to consider
    None        \* no token, no user, no policy, no row

Config == [mode: {"llm", "passthrough"}, judge: BOOLEAN, web3: BOOLEAN,
           fallback: {"deny", "passthrough"}]

ASSUME RequestFlowAssumption ==
    /\ Rules \in [Policies -> SUBSET {"allow", "deny"}]
    /\ Prompted \subseteq Policies
    /\ Configs \subseteq Config
    /\ None \notin Tokens \cup Users \cup Policies

VARIABLES
    config,    \* the deployment; never changes
    \* PostgreSQL
    dbUp,      \* do queries succeed?
    users,     \* rows of users
    gateway,   \* gateway[u]: u's gateway_auth token, or None
    assigned,  \* assigned[u]: users.llm_policy_id, or None
    deleted,   \* policies with deleted_at set
    responses, \* requests with a row in llm_responses
    row,       \* row[r]: r's row in audit_log, or None
    \* requests
    pc, token, socket, web3Bad, user, policy, decision, sent, status, answer,
    said,      \* history: said[r], what the judge returned
    ignored,   \* history: requests whose policy lookup failed although the
               \* user had a live policy
    dropped    \* history: requests whose INSERT into audit_log failed

admin == <<users, gateway, assigned, deleted>>
database == <<dbUp, admin, responses, row>>
arrival == <<token, socket, web3Bad>>
history == <<said, ignored, dropped>>
vars == <<config, database, arrival, pc, user, policy, decision, sent,
          status, answer, history>>

Locations == {"new", "auth", "policy", "check", "judge", "persist", "forward",
              "upstream", "log", "answer", "done", "lost"}
Answers == {"407", "403", "500", "502", "upstream", "101"}

Judgements == {"ALLOW", "DENY", "error"}

Decision == [verdict: {"allow", "deny", "error"},
             by: {"passthrough", "system", "llm-static-rule", "llm-fallback",
                  "web3", "llm", "none"},
             policy: Policies \cup {None}, response: BOOLEAN]
Row == [user: Users, policy: Policies \cup {None}, response: BOOLEAN,
        decision: {"approved", "denied", "ERROR"}, status: Answers]

ASSUME NoneAssumption == None \notin Judgements \cup Answers \cup Decision \cup Row

Init ==
    /\ config \in Configs
    /\ dbUp = TRUE
    /\ users = Users
    /\ gateway \in [Users -> Tokens]
    /\ assigned \in [Users -> Policies \cup {None}]
    /\ deleted = {}
    /\ responses = {}
    /\ row = [r \in Requests |-> None]
    /\ pc = [r \in Requests |-> "new"]
    /\ token = [r \in Requests |-> None]
    /\ socket \in [Requests -> BOOLEAN]
    /\ web3Bad \in [Requests -> IF config.web3 THEN BOOLEAN ELSE {FALSE}]
    /\ user = [r \in Requests |-> None]
    /\ policy = [r \in Requests |-> None]
    /\ decision = [r \in Requests |-> None]
    /\ sent = {}
    /\ status = [r \in Requests |-> None]
    /\ answer = [r \in Requests |-> None]
    /\ said = [r \in Requests |-> None]
    /\ ignored = {}
    /\ dropped = {}

Goto(r, l) == pc' = [pc EXCEPT ![r] = l]

---------------------------------------------------------------------------
(* Who is asking, and under which policy.                                  *)

\* extractProxyAuth; None stands for a missing token and for a scheme other
\* than Basic, which end in the same 407.
Receive(r) ==
    /\ pc[r] = "new"
    /\ \E t \in Tokens \cup {None} : token' = [token EXCEPT ![r] = t]
    /\ Goto(r, "auth")
    /\ UNCHANGED <<config, database, socket, web3Bad, user, policy, decision,
                   sent, status, answer, history>>

Holders(t) == {u \in users : gateway[u] = t}

\* Mistake: a failed lookup is taken for a user without a name.
IdentifyAnyone(r) ==
    /\ pc[r] = "auth"
    /\ dbUp
    /\ token[r] # None
    /\ \E u \in Holders(token[r]) \cup {None} : user' = [user EXCEPT ![r] = u]
    /\ Goto(r, "policy")
    /\ UNCHANGED <<config, database, arrival, policy, decision, sent, status,
                   answer, history>>

\* GetUserByGatewayAuthToken finds a row.  Tokens are not unique across
\* users: QueryRow takes whichever row comes first.
Identify(r) ==
    /\ pc[r] = "auth"
    /\ dbUp
    /\ token[r] # None
    /\ \E u \in Holders(token[r]) : user' = [user EXCEPT ![r] = u]
    /\ Goto(r, "policy")
    /\ UNCHANGED <<config, database, arrival, policy, decision, sent, status,
                   answer, history>>

\* The gateway auth gate: no token, no such token, or no answer from the
\* database.  The 407 is never logged.
Unauthorized(r) ==
    /\ pc[r] = "auth"
    /\ ~dbUp \/ token[r] = None \/ Holders(token[r]) = {}
    /\ status' = [status EXCEPT ![r] = "407"]
    /\ Goto(r, "answer")
    /\ UNCHANGED <<config, database, arrival, user, policy, decision, sent,
                   answer, history>>

\* GetLLMPolicyForUser: the join of the user with a policy that is not
\* deleted.  No row and any error look alike: nil.
LivePolicy(u) ==
    IF u \in users /\ assigned[u] \notin deleted THEN assigned[u] ELSE None

LoadPolicy(r) ==
    /\ pc[r] = "policy"
    /\ policy' = [policy EXCEPT ![r] = IF dbUp THEN LivePolicy(user[r]) ELSE None]
    /\ ignored' = IF ~dbUp /\ LivePolicy(user[r]) # None
                  THEN ignored \cup {r} ELSE ignored
    /\ Goto(r, "check")
    /\ UNCHANGED <<config, database, arrival, user, decision, sent, status,
                   answer, said, dropped>>

---------------------------------------------------------------------------
(* CheckApproval: one decision, by the first layer that has one.           *)

Decided(r, verdict, by, p, response) ==
    /\ decision' = [decision EXCEPT ![r] =
          [verdict |-> verdict, by |-> by, policy |-> p, response |-> response]]
    /\ UNCHANGED <<config, database, arrival, user, policy, sent, answer,
                   ignored, dropped>>

\* Before the judge: the body and the static rules cost no state.
EarlyDecision(r, verdict, by, p) ==
    /\ Decided(r, verdict, by, p, FALSE)
    /\ Goto(r, "persist")
    /\ UNCHANGED <<status, said>>

\* Mistake: the fallback mode is not consulted.
FallbackVerdictOpen == "allow"

FallbackVerdict == IF config.fallback = "passthrough" THEN "allow" ELSE "deny"

Passthrough(r) ==
    /\ pc[r] = "check"
    /\ config.mode = "passthrough"
    /\ EarlyDecision(r, "allow", "passthrough", None)

NoJudge(r) ==
    /\ pc[r] = "check"
    /\ config.mode = "llm" /\ ~config.judge
    /\ EarlyDecision(r, "deny", "system", None)

Checking(r) == pc[r] = "check" /\ config.mode = "llm" /\ config.judge

\* Mistake: the error of the approval check is logged and not returned.
UnreadableBodyGoesOn(r) ==
    /\ Checking(r)
    /\ Decided(r, "error", "none", None, FALSE)
    /\ Goto(r, "forward")
    /\ UNCHANGED <<status, said>>

\* checkApprovalLLM cannot read the rest of a body too long to buffer.
UnreadableBody(r) ==
    /\ Checking(r)
    /\ Decided(r, "error", "none", None, FALSE)
    /\ status' = [status EXCEPT ![r] = "500"]
    /\ Goto(r, "log")
    /\ UNCHANGED said

Matching(r) == IF policy[r] = None THEN {} ELSE Rules[policy[r]]

StaticDeny(r) ==
    /\ Checking(r)
    /\ "deny" \in Matching(r)
    /\ EarlyDecision(r, "deny", "llm-static-rule", policy[r])

\* Mistake: an allow rule wins over a deny rule.
StaticAllowWins(r) ==
    /\ Checking(r)
    /\ "allow" \in Matching(r)
    /\ EarlyDecision(r, "allow", "llm-static-rule", policy[r])

StaticAllow(r) ==
    /\ Checking(r)
    /\ Matching(r) = {"allow"}
    /\ EarlyDecision(r, "allow", "llm-static-rule", policy[r])

\* No policy, or one without a prompt: llmFallback, without a policy id.
NoPrompt(r) ==
    /\ Checking(r)
    /\ Matching(r) = {}
    /\ policy[r] \notin Prompted
    /\ EarlyDecision(r, FallbackVerdict, "llm-fallback", None)

Guarded(r) == Checking(r) /\ Matching(r) = {} /\ policy[r] \in Prompted

\* The web3 rules deny a JSON-RPC request; an allow is only logged.
Web3Deny(r) ==
    /\ Guarded(r)
    /\ config.web3 /\ web3Bad[r]
    /\ EarlyDecision(r, "deny", "web3", policy[r])

AskJudge(r) ==
    /\ Guarded(r)
    /\ ~(config.web3 /\ web3Bad[r])
    /\ Goto(r, "judge")
    /\ UNCHANGED <<config, database, arrival, user, policy, decision, sent,
                   status, answer, history>>

\* Evaluate returns ALLOW, DENY, or an error; the result always names its
\* model, so every outcome carries a response to persist.
JudgeAnswers(r) ==
    /\ pc[r] = "judge"
    /\ \E result \in Judgements :
          /\ said' = [said EXCEPT ![r] = result]
          /\ Decided(r,
                IF result = "error" THEN FallbackVerdict
                ELSE IF result = "ALLOW" THEN "allow" ELSE "deny",
                IF result = "error" THEN "llm-fallback" ELSE "llm",
                policy[r], TRUE)
    /\ Goto(r, "persist")
    /\ UNCHANGED status

CheckApproval(r) ==
    \/ Passthrough(r) \/ NoJudge(r) \/ UnreadableBody(r)
    \/ StaticDeny(r) \/ StaticAllow(r) \/ NoPrompt(r)
    \/ Web3Deny(r) \/ AskJudge(r) \/ JudgeAnswers(r)

---------------------------------------------------------------------------
(* What becomes of the decision.                                           *)

\* Mistake: the deny case does not return.
PersistFallsThrough(r) ==
    /\ pc[r] = "persist"
    /\ responses' = IF decision[r].response /\ dbUp
                    THEN responses \cup {r} ELSE responses
    /\ Goto(r, "forward")
    /\ UNCHANGED <<config, dbUp, admin, row, arrival, user, policy, decision,
                   sent, status, answer, history>>

\* Mistake: a denied request is answered and not logged.
PersistUnlogged(r) ==
    /\ pc[r] = "persist"
    /\ responses' = IF decision[r].response /\ dbUp
                    THEN responses \cup {r} ELSE responses
    /\ IF decision[r].verdict = "allow"
       THEN Goto(r, "forward") /\ UNCHANGED status
       ELSE Goto(r, "answer") /\ status' = [status EXCEPT ![r] = "403"]
    /\ UNCHANGED <<config, dbUp, admin, row, arrival, user, policy, decision,
                   sent, answer, history>>

\* persistLLMResponse, then the switch on the decision.  When the row cannot
\* be written the request goes on without it.
Persist(r) ==
    /\ pc[r] = "persist"
    /\ responses' = IF decision[r].response /\ dbUp
                    THEN responses \cup {r} ELSE responses
    /\ IF decision[r].verdict = "allow"
       THEN Goto(r, "forward") /\ UNCHANGED status
       ELSE Goto(r, "log") /\ status' = [status EXCEPT ![r] = "403"]
    /\ UNCHANGED <<config, dbUp, admin, row, arrival, user, policy, decision,
                   sent, answer, history>>

\* The request goes on the wire to upstream.
Send(r) ==
    /\ pc[r] = "forward"
    /\ sent' = sent \cup {r}
    /\ Goto(r, "upstream")
    /\ UNCHANGED <<config, database, arrival, user, policy, decision, status,
                   answer, history>>

\* It never gets there: the dial fails or the address is blocked (502, for a
\* blocked socket 403), or the upstream request cannot be built (500).  A
\* socket's client has its answer before the row is written.
CannotSend(r) ==
    /\ pc[r] = "forward"
    /\ \E s \in {"502", IF socket[r] THEN "403" ELSE "500"} :
          /\ status' = [status EXCEPT ![r] = s]
          /\ answer' = IF socket[r] THEN [answer EXCEPT ![r] = s] ELSE answer
    /\ Goto(r, "log")
    /\ UNCHANGED <<config, database, arrival, user, policy, decision, sent,
                   history>>

\* An approved socket whose client connection cannot be hijacked: the 500
\* goes back, or nothing does, and nothing is logged.
CannotHijack(r) ==
    /\ pc[r] = "forward"
    /\ socket[r]
    /\ status' = [status EXCEPT ![r] = "500"]
    /\ Goto(r, "answer")
    /\ UNCHANGED <<config, database, arrival, user, policy, decision, sent,
                   answer, history>>

\* Upstream's response, or an error while reading it.  A socket's client
\* sees the handshake's outcome here, before any row exists.
Upstream(r) ==
    /\ pc[r] = "upstream"
    /\ \E s \in {"502", "upstream"} \cup (IF socket[r] THEN {"101"} ELSE {}) :
          /\ status' = [status EXCEPT ![r] = s]
          /\ answer' = IF socket[r] THEN [answer EXCEPT ![r] = s] ELSE answer
    /\ Goto(r, "log")
    /\ UNCHANGED <<config, database, arrival, user, policy, decision, sent,
                   history>>

\* The row that newEntry, applyDecision and the call site build.
Entry(r) ==
    LET d == decision[r] IN
    [user |-> user[r],
     policy |-> d.policy,
     response |-> r \in responses,
     decision |-> IF status[r] = "500" THEN "ERROR"
                  ELSE IF d.verdict = "allow" THEN "approved" ELSE "denied",
     status |-> status[r]]

\* Mistake: the row is retried until it can be inserted.
LogEntryRetries(r) ==
    /\ pc[r] = "log"
    /\ dbUp /\ user[r] \in users
    /\ row' = [row EXCEPT ![r] = Entry(r)]
    /\ Goto(r, "answer")
    /\ UNCHANGED <<config, dbUp, admin, responses, arrival, user, policy,
                   decision, sent, status, answer, history>>

\* logEntry: the INSERT, whose foreign key on users.id must hold, and whose
\* error is only logged; then the broadcast.  A socket's row is written when
\* its relay ends.
LogEntry(r) ==
    /\ pc[r] = "log"
    /\ IF dbUp /\ user[r] \in users
       THEN row' = [row EXCEPT ![r] = Entry(r)] /\ UNCHANGED dropped
       ELSE dropped' = dropped \cup {r} /\ UNCHANGED row
    /\ Goto(r, "answer")
    /\ UNCHANGED <<config, dbUp, admin, responses, arrival, user, policy,
                   decision, sent, status, answer, said, ignored>>

Answer(r) ==
    /\ pc[r] = "answer"
    /\ answer' = [answer EXCEPT ![r] = IF @ = None THEN status[r] ELSE @]
    /\ Goto(r, "done")
    /\ UNCHANGED <<config, database, arrival, user, policy, decision, sent,
                   status, history>>

---------------------------------------------------------------------------
(* The administrators and the machine.                                     *)

requests == <<config, arrival, pc, user, policy, decision, sent, status,
              answer, history>>

CreateUser(u) ==
    /\ dbUp /\ u \notin users
    /\ users' = users \cup {u}
    /\ \E t \in Tokens : gateway' = [gateway EXCEPT ![u] = t]
    /\ assigned' = [assigned EXCEPT ![u] = None]
    /\ UNCHANGED <<dbUp, deleted, responses, row, requests>>

\* PUT /admin/users/{id}: a new token or none, another policy or none.  A
\* deleted policy is accepted: policyStore.Get does not look at deleted_at.
UpdateUser(u) ==
    /\ dbUp /\ u \in users
    /\ \/ /\ \E t \in Tokens \cup {None} : gateway' = [gateway EXCEPT ![u] = t]
          /\ UNCHANGED assigned
       \/ /\ \E p \in Policies \cup {None} : assigned' = [assigned EXCEPT ![u] = p]
          /\ UNCHANGED gateway
    /\ UNCHANGED <<dbUp, users, deleted, responses, row, requests>>

RowsOf(u) == {r \in Requests : row[r] # None /\ row[r].user = u}

\* DELETE FROM users: refused while an audit row references the user;
\* user_channels goes with it.
DeleteUser(u) ==
    /\ dbUp /\ u \in users
    /\ RowsOf(u) = {}
    /\ users' = users \ {u}
    /\ gateway' = [gateway EXCEPT ![u] = None]
    /\ assigned' = [assigned EXCEPT ![u] = None]
    /\ UNCHANGED <<dbUp, deleted, responses, row, requests>>

\* The soft delete, refused while a user is assigned to the policy.
DeletePolicy(p) ==
    /\ dbUp
    /\ p \notin deleted
    /\ \A u \in users : assigned[u] # p
    /\ deleted' = deleted \cup {p}
    /\ UNCHANGED <<dbUp, users, gateway, assigned, responses, row, requests>>

\* The database goes away and comes back.
DatabaseFlips ==
    /\ dbUp' = ~dbUp
    /\ UNCHANGED <<admin, responses, row, requests>>

\* The process dies: requests in flight are gone, the database stays.
Crash ==
    /\ \E r \in Requests : pc[r] \notin {"new", "done", "lost"}
    /\ pc' = [r \in Requests |-> IF pc[r] \in {"new", "done"} THEN pc[r] ELSE "lost"]
    /\ UNCHANGED <<config, database, arrival, user, policy, decision, sent,
                   status, answer, history>>

---------------------------------------------------------------------------

Serve(r) ==
    \/ Identify(r) \/ Unauthorized(r) \/ LoadPolicy(r) \/ CheckApproval(r)
    \/ Persist(r) \/ Send(r) \/ CannotSend(r) \/ CannotHijack(r)
    \/ LogEntry(r) \/ Answer(r)

Administer ==
    \/ \E u \in Users : CreateUser(u) \/ UpdateUser(u) \/ DeleteUser(u)
    \/ \E p \in Policies : DeletePolicy(p)

Next ==
    \/ \E r \in Requests : Receive(r) \/ Serve(r) \/ Upstream(r)
    \/ Administer
    \/ DatabaseFlips
    \/ Crash

Spec == Init /\ [][Next]_vars

\* The handler's own steps are taken: queries return, the judge's call has a
\* timeout.  Nothing bounds the wait for upstream's response (the transport
\* has no response timeout), so Upstream is not fair.
FairSpec == Spec /\ \A r \in Requests : WF_vars(Serve(r))

---------------------------------------------------------------------------
(* Properties                                                              *)

TypeOK ==
    /\ config \in Configs
    /\ dbUp \in BOOLEAN
    /\ users \subseteq Users
    /\ gateway \in [Users -> Tokens \cup {None}]
    /\ assigned \in [Users -> Policies \cup {None}]
    /\ deleted \subseteq Policies
    /\ responses \subseteq Requests
    /\ row \in [Requests -> Row \cup {None}]
    /\ pc \in [Requests -> Locations]
    /\ token \in [Requests -> Tokens \cup {None}]
    /\ socket \in [Requests -> BOOLEAN]
    /\ web3Bad \in [Requests -> BOOLEAN]
    /\ user \in [Requests -> Users \cup {None}]
    /\ policy \in [Requests -> Policies \cup {None}]
    /\ decision \in [Requests -> Decision \cup {None}]
    /\ sent \subseteq Requests
    /\ status \in [Requests -> Answers \cup {None}]
    /\ answer \in [Requests -> Answers \cup {None}]
    /\ said \in [Requests -> Judgements \cup {None}]
    /\ ignored \subseteq Requests
    /\ dropped \subseteq Requests
    /\ \A r \in Requests :
          pc[r] \in {"policy", "check", "judge", "persist", "forward",
                    "upstream", "log"} => user[r] # None

\* With fallback_mode deny nothing goes upstream unless the policy that was
\* live when it was loaded says so itself: by a static allow rule that no
\* static deny rule contradicts, or by the judge's ALLOW under its prompt.
\* Database errors, judge errors, missing policies and administrators
\* editing users and policies meanwhile only ever turn into denials.
FailClosed ==
    \A r \in sent :
        config.mode = "llm" /\ config.fallback = "deny" =>
            /\ config.judge
            /\ policy[r] # None
            /\ \/ Rules[policy[r]] = {"allow"}
               \/ Rules[policy[r]] = {} /\ policy[r] \in Prompted /\ said[r] = "ALLOW"

\* In either fallback mode: a request whose policy was loaded never goes
\* upstream against a static deny rule of that policy, against the judge's
\* DENY, or, when the judge was to be asked, against the web3 rules.
LoadedPolicyObeyed ==
    \A r \in sent :
        config.mode = "llm" /\ policy[r] # None =>
            /\ "deny" \notin Rules[policy[r]]
            /\ said[r] # "DENY"
            /\ said[r] # None /\ config.web3 => ~web3Bad[r]

\* The audit trail does not lie, whenever it is read: a row that says denied
\* is about a request that never went upstream, one that shows upstream's
\* answer is about one that did, and one that names a judge's response is
\* about a request the judge did answer.
AuditTruthful ==
    \A r \in Requests : row[r] # None =>
        /\ row[r].decision = "denied" => r \notin sent
        /\ row[r].status \in {"upstream", "101"} => r \in sent
        /\ row[r].response => said[r] # None /\ row[r].policy = policy[r]

\* Except for sockets, the client of a decided request has its answer only
\* after the row was written or its INSERT failed.
AuditBeforeAnswer ==
    \A r \in Requests :
        ~socket[r] /\ answer[r] # None /\ decision[r] # None
            => row[r] # None \/ r \in dropped

\* Every request that arrives is answered, unless the process dies or
\* upstream keeps it waiting; and then it is answered once upstream is done.
Answered ==
    \A r \in Requests :
        /\ pc[r] = "auth" ~> pc[r] \in {"upstream", "done", "lost"}
        /\ pc[r] = "log" ~> pc[r] \in {"done", "lost"}

\* DESIGN.md, section 7: every request is logged to audit_log.  Stated of
\* the requests that matter most, those that went upstream and were answered.
AuditComplete ==
    \A r \in sent : pc[r] = "done" => row[r] # None

\* DESIGN.md, section 3: if a policy is assigned, its decision applies.
AssignedPolicyApplied ==
    config.mode = "llm" => sent \cap ignored = {}

Gate == INSTANCE Gatekeeper WITH
    verdict  <- [r \in Requests |->
                   IF decision[r] = None THEN "pending"
                   ELSE IF decision[r].verdict = "allow" THEN "allowed" ELSE "refused"],
    upstream <- sent,
    recorded <- {r \in Requests : row[r] # None}

\* Refinement: with all its tables, modes and failures the flow does only
\* what the gatekeeper promises.
ImplementsGatekeeper == Gate!Spec
=============================================================================

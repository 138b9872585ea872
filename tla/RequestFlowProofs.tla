------------------------ MODULE RequestFlowProofs -------------------------
(***************************************************************************)
(* Proofs about RequestFlow, for every set of requests, users, tokens and  *)
(* policies, every assignment of static rules and prompts to the policies, *)
(* and every deployment.                                                   *)
(***************************************************************************)
EXTENDS RequestFlow, TLAPS

Undecided == {"new", "auth", "policy", "check", "judge"}

\* What a request knows before and after its decision: nothing is decided,
\* said, sent or recorded before CheckApproval returns.
Fresh(r) ==
    pc[r] \in Undecided =>
        decision[r] = None /\ said[r] = None /\ row[r] = None /\ r \notin responses

\* The judge is only asked about a request that every earlier layer let
\* through.
JudgeIsLast(r) ==
    pc[r] = "judge" =>
        /\ config.mode = "llm" /\ config.judge
        /\ policy[r] \in Policies \cap Prompted
        /\ Rules[policy[r]] = {}
        /\ ~(config.web3 /\ web3Bad[r])

\* Why a request may be allowed.
ByRule(r) ==
    policy[r] \in Policies /\ Rules[policy[r]] = {"allow"} /\ said[r] = None

ByJudge(r) ==
    /\ policy[r] \in Policies \cap Prompted /\ Rules[policy[r]] = {}
    /\ said[r] = "ALLOW"
    /\ ~(config.web3 /\ web3Bad[r])

ByFallback(r) ==
    /\ config.fallback = "passthrough"
    /\ policy[r] \in Policies => Rules[policy[r]] = {}
    /\ \/ said[r] = None
       \/ said[r] = "error" /\ ~(config.web3 /\ web3Bad[r])

Justified(r) ==
    decision[r] # None /\ decision[r].verdict = "allow" /\ config.mode = "llm" =>
        config.judge /\ (ByRule(r) \/ ByJudge(r) \/ ByFallback(r))

\* Whatever goes towards upstream was allowed, and goes once.
SentAllowed(r) ==
    /\ pc[r] \in {"forward", "upstream"} \/ r \in sent
          => decision[r] # None /\ decision[r].verdict = "allow"
    /\ r \in sent => pc[r] \notin Undecided \cup {"persist", "forward"}
    /\ pc[r] \in {"persist", "log"} => decision[r] # None

\* The status is upstream's only after upstream was asked.
StatusEarned(r) ==
    /\ pc[r] = "upstream" => r \in sent
    /\ pc[r] = "log" /\ status[r] \in {"upstream", "101"} => r \in sent
    /\ pc[r] = "log" => status[r] \in Answers

\* A response is persisted only for a decision that carries one.
ResponseEarned(r) ==
    /\ r \in responses => decision[r] # None /\ decision[r].response
    /\ decision[r] # None =>
          (decision[r].response => said[r] # None /\ decision[r].policy = policy[r])

\* The row is the last thing written.
RowLast(r) ==
    /\ row[r] # None => pc[r] \in {"answer", "done", "lost"} /\ decision[r] # None
    /\ row[r] # None =>
          /\ row[r].decision = "denied" => decision[r].verdict # "allow"
          /\ row[r].status \in {"upstream", "101"} => r \in sent
          /\ row[r].response => said[r] # None /\ row[r].policy = policy[r]

\* Except for sockets, the answer comes after the attempt to log.
LoggedFirst(r) ==
    ~socket[r] =>
        /\ answer[r] # None => pc[r] \in {"done", "lost"}
        /\ decision[r] # None /\ (pc[r] = "answer" \/ answer[r] # None)
              => row[r] # None \/ r \in dropped

RequestInv(r) ==
    /\ LoggedFirst(r)
    /\ Fresh(r) /\ JudgeIsLast(r) /\ Justified(r) /\ SentAllowed(r)
    /\ StatusEarned(r) /\ ResponseEarned(r) /\ RowLast(r)

IInv == TypeOK /\ \A r \in Requests : RequestInv(r)

\* A decision is never mistaken for its absence.
LEMMA DecisionNotNone ==
    ASSUME NEW verdict \in {"allow", "deny", "error"},
           NEW by \in {"passthrough", "system", "llm-static-rule",
                       "llm-fallback", "web3", "llm", "none"},
           NEW p \in Policies \cup {None}, NEW response \in BOOLEAN
    PROVE  [verdict |-> verdict, by |-> by, policy |-> p,
            response |-> response] # None
  <1>1. [verdict |-> verdict, by |-> by, policy |-> p,
         response |-> response] \in Decision
    BY DEF Decision
  <1> QED
    BY <1>1, NoneAssumption

USE RequestFlowAssumption, NoneAssumption
USE DEF Locations, Answers, Judgements, Decision, Row, Config, admin, database, arrival,
        history, requests, Goto, Undecided

---------------------------------------------------------------------------
(* What the operators compute.                                             *)

\* The fallback is a verdict, and an allow only where the deployment says
\* passthrough.
LEMMA FallbackIsVerdict ==
    /\ FallbackVerdict \in {"allow", "deny"}
    /\ FallbackVerdict = "allow" => config.fallback = "passthrough"
  BY DEF FallbackVerdict

\* GetLLMPolicyForUser returns a policy or nothing.
LEMMA LivePolicyType ==
    ASSUME TypeOK, NEW u \in Users
    PROVE  LivePolicy(u) \in Policies \cup {None}
  BY DEF LivePolicy, TypeOK

---------------------------------------------------------------------------
(* Types                                                                   *)

\* The program starts in a well typed state.
LEMMA TypeInit == Init => TypeOK
  <1> SUFFICES ASSUME Init PROVE TypeOK
    OBVIOUS
  <1>1. web3Bad \in [Requests -> BOOLEAN]
    <2>1. CASE config.web3
      BY <2>1 DEF Init
    <2>2. CASE ~config.web3
      <3>1. web3Bad \in [Requests -> {FALSE}]
        BY <2>2 DEF Init
      <3> QED
        BY <3>1
    <2> QED
      BY <2>1, <2>2
  <1> QED
    BY <1>1 DEF Init, TypeOK

\* Before the decision: arrival, identification and the policy's lookup keep
\* the types.
LEMMA TypeArrival ==
    ASSUME TypeOK, NEW r \in Requests,
           Receive(r) \/ Identify(r) \/ Unauthorized(r) \/ LoadPolicy(r)
    PROVE  TypeOK'
  <1>1. CASE Receive(r)
    BY <1>1 DEF Receive, TypeOK
  <1>2. CASE Identify(r)
    BY <1>2 DEF Identify, Holders, TypeOK
  <1>3. CASE Unauthorized(r)
    BY <1>3 DEF Unauthorized, TypeOK
  <1>4. CASE LoadPolicy(r)
    <2>1. user[r] \in Users
      BY <1>4 DEF LoadPolicy, TypeOK
    <2>2. policy' \in [Requests -> Policies \cup {None}]
      BY <1>4, <2>1, LivePolicyType DEF LoadPolicy, TypeOK
    <2>3. ignored' \subseteq Requests
      BY <1>4 DEF LoadPolicy, TypeOK
    <2> QED
      BY <1>4, <2>2, <2>3 DEF LoadPolicy, TypeOK
  <1> QED
    BY <1>1, <1>2, <1>3, <1>4

\* CheckApproval keeps the types.
LEMMA TypeCheck ==
    ASSUME TypeOK, NEW r \in Requests, CheckApproval(r)
    PROVE  TypeOK'
  <1> USE DEF EarlyDecision, Decided, Checking, Guarded
  <1>1. CASE Passthrough(r)
    BY <1>1 DEF Passthrough, TypeOK
  <1>2. CASE NoJudge(r)
    BY <1>2 DEF NoJudge, TypeOK
  <1>3. CASE UnreadableBody(r)
    BY <1>3 DEF UnreadableBody, TypeOK
  <1>4. CASE StaticDeny(r)
    BY <1>4 DEF StaticDeny, TypeOK
  <1>5. CASE StaticAllow(r)
    BY <1>5 DEF StaticAllow, TypeOK
  <1>6. CASE NoPrompt(r)
    BY <1>6, FallbackIsVerdict DEF NoPrompt, TypeOK
  <1>7. CASE Web3Deny(r)
    BY <1>7 DEF Web3Deny, TypeOK
  <1>8. CASE AskJudge(r)
    BY <1>8 DEF AskJudge, TypeOK
  <1>9. CASE JudgeAnswers(r)
    <2>1. PICK result \in Judgements :
             /\ said' = [said EXCEPT ![r] = result]
             /\ Decided(r,
                   IF result = "error" THEN FallbackVerdict
                   ELSE IF result = "ALLOW" THEN "allow" ELSE "deny",
                   IF result = "error" THEN "llm-fallback" ELSE "llm",
                   policy[r], TRUE)
      BY <1>9 DEF JudgeAnswers
    <2>2. (IF result = "error" THEN FallbackVerdict
           ELSE IF result = "ALLOW" THEN "allow" ELSE "deny")
             \in {"allow", "deny", "error"}
      BY FallbackIsVerdict
    <2>3. decision' \in [Requests -> Decision \cup {None}]
      BY <2>1, <2>2 DEF TypeOK
    <2> QED
      BY <1>9, <2>1, <2>3 DEF JudgeAnswers, TypeOK
  <1> QED
    BY <1>1, <1>2, <1>3, <1>4, <1>5, <1>6, <1>7, <1>8, <1>9 DEF CheckApproval

\* After the decision: forwarding, logging and answering keep the types.
LEMMA TypeOutcome ==
    ASSUME TypeOK, NEW r \in Requests,
           pc[r] = "log" => decision[r] # None /\ status[r] \in Answers,
           \/ Persist(r) \/ Send(r) \/ CannotSend(r) \/ CannotHijack(r)
           \/ Upstream(r) \/ LogEntry(r) \/ Answer(r)
    PROVE  TypeOK'
  <1>1. CASE Persist(r)
    BY <1>1 DEF Persist, TypeOK
  <1>2. CASE Send(r)
    BY <1>2 DEF Send, TypeOK
  <1>3. CASE CannotSend(r)
    BY <1>3 DEF CannotSend, TypeOK
  <1>4. CASE CannotHijack(r)
    BY <1>4 DEF CannotHijack, TypeOK
  <1>5. CASE Upstream(r)
    BY <1>5 DEF Upstream, TypeOK
  <1>6. CASE LogEntry(r)
    <2>1. Entry(r) \in Row
      BY <1>6 DEF LogEntry, Entry, TypeOK
    <2> QED
      BY <1>6, <2>1 DEF LogEntry, TypeOK
  <1>7. CASE Answer(r)
    BY <1>7 DEF Answer, TypeOK
  <1> QED
    BY <1>1, <1>2, <1>3, <1>4, <1>5, <1>6, <1>7

\* The administrators, the database and a crash keep the types.
LEMMA TypeOthers ==
    ASSUME TypeOK, Administer \/ DatabaseFlips \/ Crash
    PROVE  TypeOK'
  <1>1. ASSUME NEW u \in Users, CreateUser(u)
        PROVE  TypeOK'
    BY <1>1 DEF CreateUser, TypeOK
  <1>2. ASSUME NEW u \in Users, UpdateUser(u)
        PROVE  TypeOK'
    <2>1. gateway' \in [Users -> Tokens \cup {None}]
      BY <1>2 DEF UpdateUser, TypeOK
    <2>2. assigned' \in [Users -> Policies \cup {None}]
      BY <1>2 DEF UpdateUser, TypeOK
    <2> QED
      BY <1>2, <2>1, <2>2 DEF UpdateUser, TypeOK
  <1>3. ASSUME NEW u \in Users, DeleteUser(u)
        PROVE  TypeOK'
    BY <1>3 DEF DeleteUser, TypeOK
  <1>4. ASSUME NEW p \in Policies, DeletePolicy(p)
        PROVE  TypeOK'
    BY <1>4 DEF DeletePolicy, TypeOK
  <1>5. CASE DatabaseFlips
    BY <1>5 DEF DatabaseFlips, TypeOK
  <1>6. CASE Crash
    BY <1>6 DEF Crash, TypeOK
  <1> QED
    BY <1>1, <1>2, <1>3, <1>4, <1>5, <1>6 DEF Administer

---------------------------------------------------------------------------
(* The invariant of one request                                            *)

USE DEF RequestInv, Fresh, JudgeIsLast, ByRule, ByJudge, ByFallback,
        Justified, SentAllowed, StatusEarned, ResponseEarned, RowLast, LoggedFirst

\* Everything the invariant of request q reads.
Untouched(q) ==
    /\ config' = config /\ web3Bad' = web3Bad /\ socket' = socket
    /\ pc'[q] = pc[q] /\ answer'[q] = answer[q] /\ policy'[q] = policy[q] /\ said'[q] = said[q]
    /\ decision'[q] = decision[q] /\ status'[q] = status[q] /\ row'[q] = row[q]
    /\ q \in sent' <=> q \in sent
    /\ q \in responses' <=> q \in responses
    /\ q \in dropped' <=> q \in dropped

\* A step that leaves a request alone keeps its invariant.
LEMMA Frame ==
    ASSUME NEW q \in Requests, RequestInv(q), Untouched(q)
    PROVE  RequestInv(q)'
  BY DEF Untouched

\* A step of one request leaves the others alone.
LEMMA OthersUntouched ==
    ASSUME TypeOK, NEW r \in Requests, NEW q \in Requests, q # r,
           Receive(r) \/ Serve(r) \/ Upstream(r)
    PROVE  Untouched(q)
  <1> USE DEF Untouched, TypeOK
  <1>1. CASE Receive(r) \/ Identify(r) \/ Unauthorized(r) \/ LoadPolicy(r)
    BY <1>1 DEF Receive, Identify, Unauthorized, LoadPolicy
  <1>2. CASE CheckApproval(r)
    <2> USE DEF EarlyDecision, Decided
    <2>1. CASE Passthrough(r) \/ NoJudge(r) \/ UnreadableBody(r)
      BY <2>1 DEF Passthrough, NoJudge, UnreadableBody
    <2>2. CASE StaticDeny(r) \/ StaticAllow(r) \/ NoPrompt(r)
      BY <2>2 DEF StaticDeny, StaticAllow, NoPrompt
    <2>3. CASE Web3Deny(r) \/ AskJudge(r) \/ JudgeAnswers(r)
      BY <2>3 DEF Web3Deny, AskJudge, JudgeAnswers
    <2> QED
      BY <1>2, <2>1, <2>2, <2>3 DEF CheckApproval
  <1>3. CASE Persist(r) \/ Send(r) \/ CannotSend(r) \/ CannotHijack(r)
    BY <1>3 DEF Persist, Send, CannotSend, CannotHijack
  <1>4. CASE Upstream(r) \/ LogEntry(r) \/ Answer(r)
    BY <1>4 DEF Upstream, LogEntry, Answer
  <1> QED
    BY <1>1, <1>2, <1>3, <1>4 DEF Serve

\* Administrators and the database leave every request alone.
LEMMA AdminUntouched ==
    ASSUME NEW q \in Requests, Administer \/ DatabaseFlips \/ UNCHANGED vars
    PROVE  Untouched(q)
  BY DEF Administer, CreateUser, UpdateUser, DeleteUser, DeletePolicy,
         DatabaseFlips, Untouched, vars

\* The steps before the decision keep the invariant of their request.
LEMMA ArrivalInv ==
    ASSUME TypeOK, NEW r \in Requests, RequestInv(r),
           Receive(r) \/ Identify(r) \/ Unauthorized(r) \/ LoadPolicy(r)
    PROVE  RequestInv(r)'
  <1> USE DEF TypeOK
  <1>1. CASE Receive(r)
    BY <1>1 DEF Receive
  <1>2. CASE Identify(r)
    BY <1>2 DEF Identify
  <1>3. CASE Unauthorized(r)
    BY <1>3 DEF Unauthorized
  <1>4. CASE LoadPolicy(r)
    BY <1>4 DEF LoadPolicy
  <1> QED
    BY <1>1, <1>2, <1>3, <1>4

\* What Decided leaves behind, read at its own request.
LEMMA DecidedAt ==
    ASSUME TypeOK, NEW r \in Requests,
           NEW verdict, NEW by, NEW p, NEW response,
           Decided(r, verdict, by, p, response)
    PROVE  /\ decision'[r] = [verdict |-> verdict, by |-> by, policy |-> p,
                              response |-> response]
           /\ config' = config /\ web3Bad'[r] = web3Bad[r]
           /\ policy'[r] = policy[r] /\ row'[r] = row[r]
           /\ r \in sent' <=> r \in sent
           /\ r \in responses' <=> r \in responses
           /\ socket' = socket /\ answer' = answer
  BY DEF Decided, TypeOK

\* A decision keeps the invariant of its request when an allow among them is
\* justified and a response comes from the judge.
LEMMA DecidedInv ==
    ASSUME TypeOK, NEW r \in Requests, RequestInv(r),
           NEW verdict \in {"allow", "deny", "error"}, NEW by, NEW p,
           NEW response \in BOOLEAN,
           Decided(r, verdict, by, p, response),
           pc[r] \in {"check", "judge"},
           pc'[r] \in {"persist", "log"},
           pc'[r] = "log" => status'[r] = "500",
           response => said'[r] # None /\ p = policy[r],
           verdict = "allow" /\ config.mode = "llm" =>
               config.judge /\ (ByRule(r) \/ ByJudge(r) \/ ByFallback(r))',
           [verdict |-> verdict, by |-> by, policy |-> p,
            response |-> response] # None
    PROVE  RequestInv(r)'
  <1>1. /\ decision'[r] = [verdict |-> verdict, by |-> by, policy |-> p,
                           response |-> response]
        /\ config' = config /\ web3Bad'[r] = web3Bad[r]
        /\ policy'[r] = policy[r] /\ row'[r] = row[r]
        /\ r \in sent' <=> r \in sent
        /\ r \in responses' <=> r \in responses
        /\ socket' = socket /\ answer' = answer
    BY DecidedAt
  <1>2. row[r] = None /\ r \notin responses /\ r \notin sent
    OBVIOUS
  <1>3. decision'[r] # None /\ decision'[r].verdict = verdict
        /\ decision'[r].policy = p /\ decision'[r].response = response
    BY <1>1
  <1>4. Fresh(r)'
    OBVIOUS
  <1>5. JudgeIsLast(r)'
    OBVIOUS
  <1>6. Justified(r)'
    BY <1>1, <1>3
  <1>7. SentAllowed(r)'
    BY <1>1, <1>2, <1>3
  <1>8. StatusEarned(r)'
    OBVIOUS
  <1>9. ResponseEarned(r)'
    BY <1>1, <1>2, <1>3
  <1>10. RowLast(r)'
    BY <1>1, <1>2
  <1>11. LoggedFirst(r)'
    BY <1>1
  <1> QED
    BY <1>4, <1>5, <1>6, <1>7, <1>8, <1>9, <1>10, <1>11

\* CheckApproval keeps the invariant of its request: whatever it allows is
\* justified.
LEMMA CheckInv ==
    ASSUME TypeOK, NEW r \in Requests, RequestInv(r), CheckApproval(r)
    PROVE  RequestInv(r)'
  <1>0. ASSUME NEW verdict \in {"allow", "deny"},
               NEW by \in {"passthrough", "system", "llm-static-rule",
                           "llm-fallback", "web3"},
               NEW p \in Policies \cup {None},
               EarlyDecision(r, verdict, by, p), pc[r] = "check",
               verdict = "allow" /\ config.mode = "llm" =>
                   config.judge /\ (ByRule(r) \/ ByFallback(r))
        PROVE  RequestInv(r)'
    <2>1. Decided(r, verdict, by, p, FALSE) /\ pc'[r] = "persist" /\ said' = said
      BY <1>0 DEF EarlyDecision, TypeOK
    <2>2. config' = config /\ policy'[r] = policy[r]
      BY <2>1, DecidedAt
    <2>3. verdict = "allow" /\ config.mode = "llm" =>
             config.judge /\ (ByRule(r) \/ ByJudge(r) \/ ByFallback(r))'
      BY <1>0, <2>1, <2>2
    <2>4. [verdict |-> verdict, by |-> by, policy |-> p, response |-> FALSE] # None
      <3>1. verdict \in {"allow", "deny", "error"} /\ FALSE \in BOOLEAN
        BY <1>0
      <3>2. by \in {"passthrough", "system", "llm-static-rule",
                   "llm-fallback", "web3", "llm", "none"}
        BY <1>0
      <3> QED
        BY <1>0, <3>1, <3>2, DecisionNotNone
    <2>5. pc'[r] \in {"persist", "log"} /\ pc'[r] # "log"
      BY <2>1
    <2>6. verdict \in {"allow", "deny", "error"} /\ FALSE \in BOOLEAN
      BY <1>0
    <2> HIDE DEF RequestInv, ByRule, ByJudge, ByFallback
    <2> QED
      BY <1>0, <2>1, <2>3, <2>4, <2>5, <2>6, DecidedInv
  <1> USE DEF Checking, Matching
  <1>1. CASE Passthrough(r)
    BY <1>0, <1>1 DEF Passthrough
  <1>2. CASE NoJudge(r)
    BY <1>0, <1>2 DEF NoJudge
  <1>3. CASE UnreadableBody(r)
    <2>1. /\ Decided(r, "error", "none", None, FALSE) /\ pc[r] = "check"
          /\ pc'[r] = "log" /\ status'[r] = "500"
      BY <1>3 DEF UnreadableBody, TypeOK
    <2>2. [verdict |-> "error", by |-> "none", policy |-> None,
           response |-> FALSE] # None
      BY DecisionNotNone
    <2> QED
      BY <2>1, <2>2, DecidedInv
  <1>4. CASE StaticDeny(r)
    BY <1>0, <1>4 DEF StaticDeny, TypeOK
  <1>5. CASE StaticAllow(r)
    <2>1. policy[r] \in Policies /\ Rules[policy[r]] = {"allow"} /\ said[r] = None
      BY <1>5 DEF StaticAllow, TypeOK
    <2> QED
      BY <1>0, <1>5, <2>1 DEF StaticAllow
  <1>6. CASE NoPrompt(r)
    <2>1. policy[r] \in Policies => Rules[policy[r]] = {}
      BY <1>6 DEF NoPrompt
    <2>2. said[r] = None
      BY <1>6 DEF NoPrompt
    <2> QED
      BY <1>0, <1>6, <2>1, <2>2, FallbackIsVerdict DEF NoPrompt
  <1>7. CASE Web3Deny(r)
    BY <1>0, <1>7 DEF Web3Deny, Guarded, TypeOK
  <1>8. CASE AskJudge(r)
    <2>1. policy[r] \in Policies \cap Prompted /\ Rules[policy[r]] = {}
      BY <1>8 DEF AskJudge, Guarded, TypeOK
    <2>2. /\ config.mode = "llm" /\ config.judge /\ ~(config.web3 /\ web3Bad[r])
          /\ pc[r] = "check" /\ pc'[r] = "judge" /\ config' = config
          /\ web3Bad' = web3Bad /\ policy' = policy /\ said' = said
          /\ decision' = decision /\ status' = status /\ row' = row
          /\ sent' = sent /\ responses' = responses
          /\ socket' = socket /\ answer' = answer
      BY <1>8 DEF AskJudge, Guarded, TypeOK
    <2> QED
      BY <2>1, <2>2
  <1>9. CASE JudgeAnswers(r)
    <2>1. PICK result \in Judgements :
             /\ said' = [said EXCEPT ![r] = result]
             /\ Decided(r,
                   IF result = "error" THEN FallbackVerdict
                   ELSE IF result = "ALLOW" THEN "allow" ELSE "deny",
                   IF result = "error" THEN "llm-fallback" ELSE "llm",
                   policy[r], TRUE)
      BY <1>9 DEF JudgeAnswers
    <2>2. pc[r] = "judge" /\ pc'[r] = "persist" /\ said'[r] = result
      BY <1>9, <2>1 DEF JudgeAnswers, TypeOK
    <2> DEFINE verdict == IF result = "error" THEN FallbackVerdict
                          ELSE IF result = "ALLOW" THEN "allow" ELSE "deny"
               by == IF result = "error" THEN "llm-fallback" ELSE "llm"
    <2>3. verdict \in {"allow", "deny", "error"} /\ by \in {"llm", "llm-fallback"}
      BY FallbackIsVerdict
    <2>4. verdict = "allow" => \/ result = "ALLOW"
                               \/ /\ result = "error"
                                  /\ config.fallback = "passthrough"
      <3>1. CASE result = "error"
        BY <3>1, FallbackIsVerdict
      <3>2. CASE result # "error"
        BY <3>2
      <3> QED
        BY <3>1, <3>2
    <2>5. /\ config' = config /\ policy'[r] = policy[r]
          /\ web3Bad'[r] = web3Bad[r]
      BY <2>1, DecidedAt
    <2>6. verdict = "allow" /\ config.mode = "llm" =>
             config.judge /\ (ByRule(r) \/ ByJudge(r) \/ ByFallback(r))'
      <3> HIDE DEF verdict
      <3> QED
        BY <2>2, <2>4, <2>5
    <2>7. [verdict |-> verdict, by |-> by, policy |-> policy[r],
           response |-> TRUE] # None
      <3> HIDE DEF verdict, by
      <3> QED
        BY <2>3, DecisionNotNone DEF TypeOK
    <2>8. Decided(r, verdict, by, policy[r], TRUE)
      BY <2>1
    <2>9. said'[r] # None
      BY <2>2
    <2> HIDE DEF verdict, by
    <2> QED
      BY <2>2, <2>3, <2>6, <2>7, <2>8, <2>9, DecidedInv
  <1> QED
    BY <1>1, <1>2, <1>3, <1>4, <1>5, <1>6, <1>7, <1>8, <1>9 DEF CheckApproval

\* The steps after the decision keep the invariant of their request.
LEMMA OutcomeInv ==
    ASSUME TypeOK, NEW r \in Requests, RequestInv(r),
           \/ Persist(r) \/ Send(r) \/ CannotSend(r) \/ CannotHijack(r)
           \/ Upstream(r) \/ LogEntry(r) \/ Answer(r)
    PROVE  RequestInv(r)'
  <1>1. CASE Persist(r)
    <2>1. /\ pc[r] = "persist" /\ decision[r] # None
          /\ r \in responses' => r \in responses \/ decision[r].response
          /\ config' = config /\ web3Bad' = web3Bad /\ policy' = policy
          /\ said' = said /\ decision' = decision /\ sent' = sent /\ row' = row
          /\ socket' = socket /\ answer' = answer
      BY <1>1 DEF Persist
    <2>2. /\ pc'[r] = "forward" => decision[r].verdict = "allow"
          /\ pc'[r] = "log" => status'[r] = "403"
          /\ pc'[r] \in {"forward", "log"}
      BY <1>1 DEF Persist, TypeOK
    <2>4. Fresh(r)'
      BY <2>1, <2>2
    <2>5. JudgeIsLast(r)'
      BY <2>1, <2>2
    <2>6. Justified(r)'
      BY <2>1, <2>2
    <2>7. SentAllowed(r)'
      BY <2>1, <2>2
    <2>8. StatusEarned(r)'
      BY <2>1, <2>2
    <2>9. ResponseEarned(r)'
      BY <2>1, <2>2
    <2>10. RowLast(r)'
      BY <2>1, <2>2
    <2>11. LoggedFirst(r)'
      BY <2>1, <2>2
    <2> QED
      BY <2>4, <2>5, <2>6, <2>7, <2>8, <2>9, <2>10, <2>11
  <1>2. CASE Send(r)
    BY <1>2 DEF Send, TypeOK
  <1>3. CASE CannotSend(r)
    <2>1. /\ pc[r] = "forward" /\ pc'[r] = "log"
          /\ status'[r] \in {"502", "403", "500"}
          /\ config' = config /\ web3Bad' = web3Bad /\ policy' = policy
          /\ said' = said /\ decision' = decision /\ sent' = sent /\ row' = row
          /\ responses' = responses /\ socket' = socket
          /\ ~socket[r] => answer' = answer
      BY <1>3 DEF CannotSend, TypeOK
    <2>4. Fresh(r)'
      BY <2>1
    <2>5. JudgeIsLast(r)'
      BY <2>1
    <2>6. Justified(r)'
      BY <2>1
    <2>7. SentAllowed(r)'
      BY <2>1
    <2>8. StatusEarned(r)'
      BY <2>1
    <2>9. ResponseEarned(r)'
      BY <2>1
    <2>10. RowLast(r)'
      BY <2>1
    <2>11. LoggedFirst(r)'
      BY <2>1
    <2> QED
      BY <2>4, <2>5, <2>6, <2>7, <2>8, <2>9, <2>10, <2>11
  <1>4. CASE CannotHijack(r)
    BY <1>4 DEF CannotHijack, TypeOK
  <1>5. CASE Upstream(r)
    <2>1. /\ pc[r] = "upstream" /\ pc'[r] = "log"
          /\ status'[r] \in {"502", "101", "upstream"}
          /\ config' = config /\ web3Bad' = web3Bad /\ policy' = policy
          /\ said' = said /\ decision' = decision /\ sent' = sent /\ row' = row
          /\ responses' = responses /\ socket' = socket
          /\ ~socket[r] => answer' = answer
      BY <1>5 DEF Upstream, TypeOK
    <2>4. Fresh(r)'
      BY <2>1
    <2>5. JudgeIsLast(r)'
      BY <2>1
    <2>6. Justified(r)'
      BY <2>1
    <2>7. SentAllowed(r)'
      BY <2>1
    <2>8. StatusEarned(r)'
      BY <2>1
    <2>9. ResponseEarned(r)'
      BY <2>1
    <2>10. RowLast(r)'
      BY <2>1
    <2>11. LoggedFirst(r)'
      BY <2>1
    <2> QED
      BY <2>4, <2>5, <2>6, <2>7, <2>8, <2>9, <2>10, <2>11
  <1>6. CASE LogEntry(r)
    <2>1. /\ pc[r] = "log" /\ pc'[r] = "answer" /\ decision[r] # None
          /\ \/ row'[r] = row[r] /\ r \in dropped'
             \/ row'[r] = Entry(r)
          /\ config' = config /\ web3Bad' = web3Bad /\ policy' = policy
          /\ said' = said /\ decision' = decision /\ sent' = sent
          /\ responses' = responses /\ socket' = socket /\ answer' = answer
      BY <1>6 DEF LogEntry, TypeOK
    <2>2. Entry(r) \in Row /\ None \notin Row
      BY <2>1 DEF Entry, TypeOK
    <2>3. /\ Entry(r).decision = "denied" => decision[r].verdict # "allow"
          /\ Entry(r).status = status[r]
          /\ Entry(r).response => r \in responses
          /\ Entry(r).policy = decision[r].policy
      BY DEF Entry
    <2>4. Fresh(r)'
      BY <2>1, <2>2, <2>3
    <2>5. JudgeIsLast(r)'
      BY <2>1, <2>2, <2>3
    <2>6. Justified(r)'
      BY <2>1, <2>2, <2>3
    <2>7. SentAllowed(r)'
      BY <2>1, <2>2, <2>3
    <2>8. StatusEarned(r)'
      BY <2>1, <2>2, <2>3
    <2>9. ResponseEarned(r)'
      BY <2>1, <2>2, <2>3
    <2>10. RowLast(r)'
      BY <2>1, <2>2, <2>3
    <2>11. LoggedFirst(r)'
      BY <2>1, <2>2, <2>3
    <2> QED
      BY <2>4, <2>5, <2>6, <2>7, <2>8, <2>9, <2>10, <2>11
  <1>7. CASE Answer(r)
    BY <1>7 DEF Answer, TypeOK
  <1> QED
    BY <1>1, <1>2, <1>3, <1>4, <1>5, <1>6, <1>7

\* A crash only ends requests.
LEMMA CrashInv ==
    ASSUME TypeOK, NEW q \in Requests, RequestInv(q), Crash
    PROVE  RequestInv(q)'
  BY DEF Crash, TypeOK

---------------------------------------------------------------------------
(* The theorems                                                            *)

\* Requests start with their invariant.
LEMMA InitInv == Init => IInv
  <1> SUFFICES ASSUME Init PROVE IInv
    OBVIOUS
  <1>1. TypeOK
    BY TypeInit
  <1>2. ASSUME NEW r \in Requests
        PROVE  RequestInv(r)
    BY DEF Init
  <1> QED
    BY <1>1, <1>2 DEF IInv

\* Every step keeps the types and the invariant of every request.
LEMMA NextInv == IInv /\ [Next]_vars => IInv'
  <1> SUFFICES ASSUME IInv, [Next]_vars PROVE IInv'
    OBVIOUS
  <1>0. TypeOK /\ \A q \in Requests : RequestInv(q)
    BY DEF IInv
  <1>1. ASSUME NEW r \in Requests, Receive(r) \/ Serve(r) \/ Upstream(r)
        PROVE  IInv'
    <2>1. TypeOK'
      BY <1>0, <1>1, TypeArrival, TypeCheck, TypeOutcome DEF Serve
    <2>2. RequestInv(r)'
      BY <1>0, <1>1, ArrivalInv, CheckInv, OutcomeInv DEF Serve
    <2>3. ASSUME NEW q \in Requests, q # r
          PROVE  RequestInv(q)'
      BY <1>0, <1>1, <2>3, OthersUntouched, Frame
    <2> QED
      BY <2>1, <2>2, <2>3 DEF IInv
  <1>2. CASE Administer \/ DatabaseFlips
    <2>1. TypeOK'
      BY <1>0, <1>2, TypeOthers
    <2>2. ASSUME NEW q \in Requests
          PROVE  RequestInv(q)'
      BY <1>0, <1>2, AdminUntouched, Frame
    <2> QED
      BY <2>1, <2>2 DEF IInv
  <1>3. CASE Crash
    BY <1>0, <1>3, TypeOthers, CrashInv DEF IInv
  <1>4. CASE UNCHANGED vars
    <2>1. TypeOK'
      BY <1>0, <1>4 DEF vars, TypeOK
    <2>2. ASSUME NEW q \in Requests
          PROVE  RequestInv(q)'
      BY <1>0, <1>4, AdminUntouched, Frame
    <2> QED
      BY <2>1, <2>2 DEF IInv
  <1> QED
    BY <1>1, <1>2, <1>3, <1>4 DEF Next

\* The invariant holds in every reachable state.
THEOREM InductiveInvariant == Spec => []IInv
  BY InitInv, NextInv, PTL DEF Spec

\* Type correctness, for every instance.
THEOREM TypeCorrect == Spec => []TypeOK
  <1>1. IInv => TypeOK
    BY DEF IInv
  <1> QED
    BY <1>1, InductiveInvariant, PTL

\* With fallback_mode deny the proxy fails closed: whatever fails and
\* whatever administrators do meanwhile, only a policy's own allow sends a
\* request upstream.
THEOREM ProxyFailsClosed == Spec => []FailClosed
  <1>1. IInv => FailClosed
    <2> SUFFICES ASSUME IInv, NEW r \in sent, config.mode = "llm",
                        config.fallback = "deny"
                 PROVE  /\ config.judge
                        /\ policy[r] # None
                        /\ \/ Rules[policy[r]] = {"allow"}
                           \/ /\ Rules[policy[r]] = {} /\ policy[r] \in Prompted
                              /\ said[r] = "ALLOW"
      BY DEF FailClosed
    <2>1. r \in Requests /\ RequestInv(r)
      BY DEF IInv, TypeOK
    <2>2. config.judge /\ (ByRule(r) \/ ByJudge(r))
      BY <2>1
    <2> QED
      BY <2>2
  <1> QED
    BY <1>1, InductiveInvariant, PTL

\* In every deployment a loaded policy is obeyed: its static denials, the
\* judge's DENY and, when the judge was asked, the web3 rules.
THEOREM LoadedPolicyIsObeyed == Spec => []LoadedPolicyObeyed
  <1>1. IInv => LoadedPolicyObeyed
    <2> SUFFICES ASSUME IInv, NEW r \in sent, config.mode = "llm",
                        policy[r] # None
                 PROVE  /\ "deny" \notin Rules[policy[r]]
                        /\ said[r] # "DENY"
                        /\ said[r] # None /\ config.web3 => ~web3Bad[r]
      BY DEF LoadedPolicyObeyed
    <2>1. r \in Requests /\ RequestInv(r) /\ policy[r] \in Policies
      BY DEF IInv, TypeOK
    <2>2. ByRule(r) \/ ByJudge(r) \/ ByFallback(r)
      BY <2>1
    <2>3. "deny" \notin Rules[policy[r]]
      BY <2>1, <2>2
    <2>4. said[r] # "DENY"
      BY <2>2
    <2>5. said[r] # None /\ config.web3 => ~web3Bad[r]
      BY <2>2
    <2> QED
      BY <2>3, <2>4, <2>5
  <1> QED
    BY <1>1, InductiveInvariant, PTL

\* No audit row misstates what happened to its request.
THEOREM AuditIsTruthful == Spec => []AuditTruthful
  <1>1. IInv => AuditTruthful
    BY DEF IInv, AuditTruthful
  <1> QED
    BY <1>1, InductiveInvariant, PTL

\* Except for sockets, nobody has an answer that the audit trail was not told
\* about first.
THEOREM AuditComesFirst == Spec => []AuditBeforeAnswer
  <1>1. IInv => AuditBeforeAnswer
    BY DEF IInv, AuditBeforeAnswer
  <1> QED
    BY <1>1, InductiveInvariant, PTL

---------------------------------------------------------------------------
(* The refinement                                                          *)

Verdict(r) ==
    IF decision[r] = None THEN "pending"
    ELSE IF decision[r].verdict = "allow" THEN "allowed" ELSE "refused"

Recorded == {r \in Requests : row[r] # None}

\* A step that decides, sends and records nothing is no step of the
\* gatekeeper's.
LEMMA GateStutters ==
    ASSUME decision' = decision, sent' = sent, row' = row
    PROVE  UNCHANGED Gate!vars
  BY DEF Gate!vars

\* A step of CheckApproval decides, once, or only moves on to the judge.
LEMMA CheckRefines ==
    ASSUME TypeOK, NEW r \in Requests, RequestInv(r), CheckApproval(r)
    PROVE  Gate!Decide(r) \/ UNCHANGED Gate!vars
  <1>1. ASSUME NEW verdict, NEW by, NEW p, NEW response,
               Decided(r, verdict, by, p, response), pc[r] \in Undecided
        PROVE  Gate!Decide(r) \/ UNCHANGED Gate!vars
    <2>1. Verdict(r) = "pending"
      BY <1>1 DEF Verdict
    <2>2. sent' = sent /\ row' = row
      BY <1>1 DEF Decided
    <2>3. CASE decision'[r] = None
      <3>1. decision'[r] = decision[r]
        BY <2>3, <1>1
      <3>2. \A q \in Requests : decision'[q] = decision[q]
        BY <1>1, <3>1 DEF Decided, TypeOK
      <3> QED
        BY <2>2, <3>2 DEF Gate!vars
    <2>4. CASE decision'[r] # None
      <3>1. Verdict(r)' \in {"allowed", "refused"}
        BY <2>4 DEF Verdict
      <3>2. \A q \in Requests \ {r} : decision'[q] = decision[q]
        BY <1>1 DEF Decided, TypeOK
      <3>3. [q \in Requests |-> Verdict(q)]'
              = [[q \in Requests |-> Verdict(q)] EXCEPT ![r] = Verdict(r)']
        BY <3>2 DEF Verdict
      <3> QED
        BY <2>1, <2>2, <3>1, <3>3 DEF Verdict, Gate!Decide
    <2> QED
      BY <2>3, <2>4
  <1>2. CASE AskJudge(r)
    BY <1>2, GateStutters DEF AskJudge
  <1>3. CASE JudgeAnswers(r)
    BY <1>1, <1>3 DEF JudgeAnswers
  <1>4. CASE Passthrough(r) \/ NoJudge(r) \/ UnreadableBody(r)
    BY <1>1, <1>4 DEF Passthrough, NoJudge, UnreadableBody, EarlyDecision, Checking
  <1>5. CASE StaticDeny(r) \/ StaticAllow(r) \/ NoPrompt(r) \/ Web3Deny(r)
    BY <1>1, <1>5 DEF StaticDeny, StaticAllow, NoPrompt, Web3Deny, EarlyDecision,
                      Checking, Guarded
  <1> QED
    BY <1>2, <1>3, <1>4, <1>5 DEF CheckApproval

\* Every step of the flow is a step of the gatekeeper or none.
LEMMA StepRefines == IInv /\ [Next]_vars => [Gate!Next]_(Gate!vars)
  <1> SUFFICES ASSUME IInv, [Next]_vars
               PROVE  Gate!Next \/ UNCHANGED Gate!vars
    OBVIOUS
  <1>0. TypeOK /\ \A q \in Requests : RequestInv(q)
    BY DEF IInv
  <1>1. ASSUME NEW r \in Requests, CheckApproval(r)
        PROVE  Gate!Next \/ UNCHANGED Gate!vars
    BY <1>0, <1>1, CheckRefines DEF Gate!Next
  <1>2. ASSUME NEW r \in Requests, Send(r)
        PROVE  Gate!Next \/ UNCHANGED Gate!vars
    <2>1. Verdict(r) = "allowed" /\ r \notin sent /\ r \notin Recorded
      BY <1>0, <1>2 DEF Send, Verdict, Recorded
    <2>2. sent' = sent \cup {r} /\ decision' = decision /\ row' = row
      BY <1>2 DEF Send
    <2>3. Gate!Send(r)
      BY <2>1, <2>2 DEF Gate!Send, Verdict, Recorded
    <2> QED
      BY <2>3 DEF Gate!Next
  <1>3. ASSUME NEW r \in Requests, LogEntry(r)
        PROVE  Gate!Next \/ UNCHANGED Gate!vars
    <2>1. Verdict(r) # "pending" /\ r \notin Recorded
      BY <1>0, <1>3 DEF LogEntry, Verdict, Recorded
    <2>2. sent' = sent /\ decision' = decision
      BY <1>3 DEF LogEntry
    <2>3. CASE row'[r] = None
      <3>1. \A q \in Requests : row'[q] # None <=> row[q] # None
        BY <1>0, <1>3, <2>1, <2>3 DEF LogEntry, TypeOK, Recorded
      <3> QED
        BY <2>2, <3>1 DEF Gate!vars
    <2>4. CASE row'[r] # None
      <3>1. \A q \in Requests \ {r} : row'[q] = row[q]
        BY <1>0, <1>3 DEF LogEntry, TypeOK
      <3>2. Recorded' = Recorded \cup {r}
        BY <2>4, <3>1 DEF Recorded
      <3>3. Gate!Record(r)
        BY <2>1, <2>2, <3>2 DEF Gate!Record, Verdict, Recorded
      <3> QED
        BY <3>3 DEF Gate!Next
    <2> QED
      BY <2>3, <2>4
  <1>4. ASSUME NEW r \in Requests,
               \/ Receive(r) \/ Identify(r) \/ Unauthorized(r) \/ LoadPolicy(r)
               \/ Persist(r) \/ CannotSend(r) \/ CannotHijack(r)
               \/ Upstream(r) \/ Answer(r)
        PROVE  Gate!Next \/ UNCHANGED Gate!vars
    <2>1. decision' = decision /\ sent' = sent /\ row' = row
      BY <1>4 DEF Receive, Identify, Unauthorized, LoadPolicy, Persist,
                  CannotSend, CannotHijack, Upstream, Answer
    <2> QED
      BY <2>1, GateStutters
  <1>5. CASE Administer \/ DatabaseFlips \/ Crash \/ UNCHANGED vars
    <2>1. decision' = decision /\ sent' = sent /\ row' = row
      BY <1>5 DEF Administer, CreateUser, UpdateUser, DeleteUser, DeletePolicy,
                  DatabaseFlips, Crash, vars
    <2> QED
      BY <2>1, GateStutters
  <1> QED
    BY <1>1, <1>2, <1>3, <1>4, <1>5 DEF Next, Serve

\* The flow starts where the gatekeeper does.
LEMMA InitRefines == Init => Gate!Init
  BY DEF Init, Gate!Init

\* The flow implements the gatekeeper, for every instance.
THEOREM Refinement == Spec => ImplementsGatekeeper
  <1>1. Init => Gate!Init
    BY InitRefines
  <1>2. IInv /\ [Next]_vars => [Gate!Next]_(Gate!vars)
    BY StepRefines
  <1> QED
    BY <1>1, <1>2, InductiveInvariant, PTL DEF Spec, ImplementsGatekeeper, Gate!Spec
=============================================================================

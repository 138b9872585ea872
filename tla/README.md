# A verification of Vanta Proxy

TLA+ specifications of the Vanta Proxy gateway, model-checked with TLC, with
proofs checked by TLAPS. Line numbers and paths are those of the repository
this directory is kept beside; `PROJECT.json` maps every definition to the
lines it stands for.

    tlc -workers 2 -config RequestFlow.cfg MCRequestFlow   # one run
    tlapm RequestFlowProofs.tla                            # one proof module

## The system

The gateway is one Go process (`cmd/gateway/main.go`) and a PostgreSQL
database. Clients send their HTTP traffic through its proxy port; a policy
assigned to the client's user decides whether each request goes upstream; every
decision is logged. Administrators use a second port to manage users and
policies, to replay logged requests against a policy, and to watch the log
live; they do it in a single-page application, `src/web`, which is a concurrent
program of its own: calls, timers, streams and clicks interleave in it.

| Component | State it keeps | Operations | Talks to |
|---|---|---|---|
| Proxy handler, `internal/proxy/handler.go` | per connection: user, tunnel target, the goroutines of a socket | `ServeHTTP`, `handleConnect`, `serveTLS`, `processRequest`, `handleWebSocketUpgrade` | user store, approval manager, upstream, audit log |
| Approval manager, `internal/approval` | none (a cache of compiled globs) | `CheckApproval`: mode, judge present, policy, body, static rules, prompt, web3, judge, fallback | judge, web3 checker |
| Judge and LLM adapters, `internal/judge`, `internal/llm` | per adapter: semaphore, failure counter, time the breaker opened | `Evaluate`, `Complete`, `Acquire`, `RecordSuccess`, `RecordFailure`, `Release` | LLM provider |
| User store, `internal/admin/pg_user_store.go` | `users`, `user_channels` | lookup by token, policy of a user, create, update, delete | database |
| Policy store, `internal/llmpolicy` | `llm_policies` and builder metadata | create, update a draft, publish, soft delete | database |
| Audit log, `pg_audit_reader.go`, `internal/audit` | `audit_log`, a log file | `Add`, `Query`, `QueryBatched`, broadcast | database, notifications |
| Evaluation runs, `internal/eval`, `handleEvals` | `eval_runs`, `eval_results`; in memory: cancel functions, a channel of entries, workers | start, cancel, replay | audit log, judge |
| Live notifications, `internal/notifications` | one registered connection per user, each with a buffered channel | `Broadcast`, `Notify`, serve a connection | browsers |
| Policy agent, `internal/builder` | a conversation | `Run`: tool calls until the model is done | LLM provider, audit log |
| Certificates, `internal/proxy/tls.go` | CA files; an LRU cache of leaf certificates | `EnsureCACertificate`, `GetCertificate` | file system |
| Rate limiter, `internal/proxy/ratelimit.go`, `lru.go` | token buckets in an LRU cache | `Allow` | |
| Web3 rules, `internal/web3` | denylists; nonce states (not wired in) | `Check`, `Observe`, `Advance` | RPC endpoints |
| Database, `internal/db` | schema, pool | migrate under an advisory lock | PostgreSQL |
| Admin API, configuration | a session cookie; the file read at startup | handlers | all stores |
| Sign-in and live stream, `AuthContext.tsx`, `LoginPage.tsx`, `App.tsx`, `api/cookie.ts`, `api/sse.ts` | the token in localStorage and in a cookie, `userID`, the singleton `SSEClient` with its EventSource and timer | restore, log in, log out, connect, reconnect | admin API, router |
| Audit page, `AuditTrail.tsx`, `useAuditLog.ts`, `auditStore.ts` | filter in the URL, the store of entries, the expanded row | filter, fetch, live entry, expand | admin API, live stream |
| Policy page, `PolicyDetail.tsx` | policy, metadata, the editor's fields, what it is busy with | load, edit, save, publish, delete, fork, talk to the agent | admin API, router |
| Evaluation pages, `EvalDetail.tsx`, `EvalsPanel.tsx` | the run, a poll timer, a filter and its debounce timer | load, poll, filter, stop, repeat, create | admin API, router |
| User and policy lists, `UsersPanel.tsx`, `PoliciesPanel.tsx`, `useUsers.ts`, `userStore.ts`, `UserDetailPage.tsx` | rows, a store of users that outlives the page | list, create, edit, assign, delete | admin API, router |

What is hard here, and what makes each part correct:

* **Nothing spans two queries.** A request identifies its user, loads the
  policy, asks the judge for seconds, goes upstream for as long as upstream
  likes, and is logged at the end; users, tokens and policies change at any
  point. Correct means: denied requests never get out, whatever fails; the log
  never misstates what happened.
* **Tunnels outlive everything.** Clients write requests ahead, leave, upgrade
  to sockets; tokens are revoked meanwhile. Correct means: order, no request
  past a refusal, revocation effective, every tunnel and relay comes to an end.
* **Checks and uses are apart**: the breaker and the semaphore, the draft
  status and the agent's result, the draft status and the assignment.
* **Goroutines share channels**: an evaluation run ends through a closed
  channel, a canceled context or both at once; a notification channel is closed
  by somebody else than its reader while others send.
* **The process may stop anywhere**, and the database come and go.
* **Answers overtake each other in the browser.** Few loads are cancelled, a
  continuation runs although its page is gone, stores outlive pages, and
  effects run again at any moment of a poll. Correct means: what is shown and
  what is saved belong to the policy, run, filter or user named beside it;
  nothing polls or reconnects for ever, and nothing stops early.

As committed, the repository does not compile as a whole: the web3 hook in
`approval/manager.go` and `main.go` refers to a decision constant, struct
fields and a configuration field that are not declared. The hook is therefore
modelled by what it is written to do to a request, a denial or nothing, and
its rules are left open.

## Modules

| Module | Models | State and actions |
|---|---|---|
| `CircuitBreaker` | abstract contract of the breaker | tripped or not, the calls inside, the recent outcomes |
| `Resilience` | `llm/resilience.go` and its use in every adapter's `Complete` | `pc[c]` is the place of a caller in `Complete`; one action per critical section: `Admit`/`Refuse` (breaker), `TakeSlot`/`GiveUp` (channel), `Succeed`/`Fail`/`AbortUnsent`, `Release`, `Return` |
| `Gatekeeper` | abstract contract of the proxy | each request is decided once, sent at most once and only if allowed, recorded at most once |
| `RequestFlow` | `processRequest`, `processUpgradeApproval`, `CheckApproval`, the tables | `pc[r]` is the place of a request; one action per query, call or write; administrators, the database and a crash interleave |
| `WebSocketRelay` | the relay at the end of `handleWebSocketUpgrade` | two copying goroutines, the goroutine waiting for them, and the deadlines on the two connections as countdowns |
| `Tunnel` | `handleConnect`, `serveTLS`, the upgrade; composes `WebSocketRelay` | the wire from the client, the request being served, the responses written |
| `EvalRun` | the POST and cancel handlers, `QueryBatched`, `RunEval` and its workers | handler, fetcher, channel, runner and workers; rows that arrive; user and server cancellation; the end of the process |
| `Notifications` | `Broadcast`, `Notify`, the connections of `SSEChannel` | the map under its read-write lock, the channels, the running calls of `Notify` |
| `PolicyLifecycle` | `llmpolicy.PGStore`, the policy handlers, assignment | one action per SQL statement; handlers that make two statements keep a `task` in between; requests and runs load and record |
| `WebSession` | sign-in, sign-out, the cookie, the SSE client, the router's gate | an effect belongs to the step that sets it off (`Enter`, `PageLoad`, `Navigate`); each call is sent in one step and answered in another; `streams[c]` holds the fields of an `SSEClient` |
| `AuditPage` | the audit page, its store and its row that is expanded | `Record`, whose INSERT may fail, and `Announce`, which follows all the same, are the server's; `Deliver` brings a live entry, `Arrive`/`Fail` a fetch, `Judgement` the reason of a row |
| `PolicyPage` | the page of one policy | `view` is the editor or the published view that is mounted, `calls` what is in flight with what is left of its sender; `Render` decides what stays mounted and leaves a suggestion's message with a timeout (`Deferred`, `AutoSent`); the server's handlers are `Read`, `Save`, `Publish`, `Delete`, `Fork`, `Create`, `AgentStarts` to `AgentEnds` |
| `EvalPage` | the page of a run and the forms that lead to it | `polls` are chains of timer and calls, `timer` is `pollTimerRef`; `Render` runs the polling effect again when what it depends on has changed |
| `AdminLists` | the lists of users and policies | every call is made, served and answered in steps of its own; `lists`, `shelf`, `deletes` and `drafts` are the calls under way, `mine` those whose page is still there; policies are numbered as they are created, and `Newest` is the server's `LIMIT` |
| `MC*` | instances for TLC | constants, symmetry |
| `*Proofs` | theorems | inductive invariants, lemmas, refinements |

How they fit together: `RequestFlow` says how a request is decided;
`Tunnel` takes that decision as an open choice and adds what a connection does
around it; `Resilience` is what a call of the judge inside `RequestFlow` goes
through; `PolicyLifecycle` supplies what `RequestFlow` assumes of a policy, that
its content stays what it was while a request uses it; `Notifications` is the
broadcast that `Answer` of `RequestFlow` waits for; `EvalRun` reads what
`LogEntry` wrote. The modules of the web UI meet the server at its API:
`AuditPage` shows what `RequestFlow` logs and `Notifications` announces,
`PolicyPage` is the client of `PolicyLifecycle`, and `EvalPage` that of
`EvalRun`, each with as much of the server as its answers depend on.

Some definitions begin with *Mistake* or are introduced by *A mutation*. They
are bugs that somebody could plausibly write in the place of the definition
after them; no specification uses them. With a mistake in place of its original, a run must report the
property that `PROJECT.json` pairs it with. This shows that the property
depends on the code.

## Runs

| Run | Question | Bounds | Result |
|---|---|---|---|
| `resilience` | Does the breaker implement its contract, are slots accounted for and probes spaced, does it recover? | 3 callers, 2 slots, threshold 2, cooldown 2: a caller waits for a slot while two are out, and outcomes arrive in both orders | holds |
| `request` | Do all layers, modes and failures fail closed, is the audit trail truthful, does the flow implement `Gatekeeper`? | 1 request, 3 policies that separate the layers (contradicting rules, an allow rule, judge only), 5 deployments, 1 user with all edits | holds |
| `tunnel` | Order, revocation, sockets, deadlines, end of the tunnel | 2 requests on the wire, idle 3, write 2, drain 1 ticks: all three timeouts differ | holds |
| `eval` | What has a run replayed when it is over, and does it end? | 3 rows in pages of 2, so that a page ends inside and at the end of the table; channel of 1, 2 workers; with and without a limit | holds |
| `notifications` | Are channels used safely, events in order, requests unblocked? | 2 connections of one user and none of another, 2 broadcasting requests with 2 events each, buffers of 1 | holds |
| `policies` | Are published policies frozen, drafts never assigned, records explained? | 3 policies (a fork and its parent, and one more), 2 contents, 2 administrators, 1 request, 1 run | holds |
| `session` | Who does the UI act as, what outlives a sign-out, does the live feed come back? | 2 administrators and a user who is none, 3 SSE clients, 2 sign-outs under way, 2 failures | holds |
| `audit_page` | Do the rows fit the filter, are they in order, is the reason that of its row, does the spinner go away? | 3 entries, one of them old, of 2 users, 2 rows at most, 3 clicks, 1 failure | holds |
| `policy_page` | Do texts stay with their policy, is what is published what was confirmed unless it was overwritten since, are the turns a view shows kept, is a suggestion sent at most once? | 2 policies, 3 clicks, 2 messages; 2 edits, or 1 edit and 1 lost call | holds |
| `eval_page` | Does polling go on while the run is active, end when it ends, and show that end? | 2 runs, 2 chains of polls at once, 3 clicks | holds |
| `eval_page_polling` | Is the run polled that the page is for? | 2 clicks | **no**, see findings |
| `admin_lists` | Is a user listed twice, and which live policies may the page lack? | 2 users, up to 3 policies, lists of 2, 5 clicks: there is a policy more than the list can have, made before or after it | holds |

Why these bounds are enough to be interesting: each bound is one more than
what the hazard needs (two actors who race and a third party; a full buffer
and one more event; a page boundary with rows on both sides; in the UI, two
pages or two calls that can overtake each other and a third click to move
between them). What the bounds cannot show, the theorems show for every size.

Other configurations are kept beside these. `Resilience_more`,
`RequestFlow_more`, `Tunnel_more`, `EvalRun_more` and `Notifications_more`
check further properties of the same instances, and hold. `Resilience_probe`,
`RequestFlow_lookup`, `RequestFlow_audit`, `Tunnel_drain`, `EvalRun_cancel`,
`PolicyPage_metadata`, `PolicyPage_suggestion` and `AuditPage_history` each
check one thing that a comment, a document or the page itself says and the
code does not keep; TLC reports it violated.

Counters that the code lets grow are saturated where the code can no longer
tell their values apart: `failures` at the threshold, the clocks of
`Resilience` at the cooldown, `quiet` and `draining` of the relay at `Longest`.
`MaxRequests`, `MaxEvents` and `N` bound the inputs, `MaxClicks`, `MaxEdits`
and `MaxTurns` what a user of the UI does, `MaxLeaving` the sign-outs under
way, and `MaxFaults` what the network loses. `Polls` bounds the chains of polls
at once; a step that would need one more is not taken. `MaxPolicies` bounds the
policies that are created, and `Limit` is 50 in the code. `PolicyPage.cfg` also
constrains the run to two edits or one and a lost call (`MCTextsAndFaults`).

### Properties by hazard

* Breaker: `SlotsAccounted`, `TrippedTogether`, `ProbeSpacing`,
  `AcquireReturns`, `Recovers`, `ImplementsContract`. The last is the
  refinement of `CircuitBreaker`: tripped means that the last `Threshold`
  outcomes were all failures.
* Request flow: `FailClosed`, `LoadedPolicyObeyed`, `AuditTruthful`,
  `AuditBeforeAnswer`, `Answered`, `ImplementsGatekeeper`.
* Tunnel: `AnsweredInOrder`, `NothingAfterClose`, `TunnelStaysOnTarget`,
  `RevocationTakesEffect`, `LoggedAfterRelay`, `TunnelEnds`; relay:
  `IdleRelayEnds`, `BusyRelayStays`.
* Evaluation: `ReplayedOnce` and `CompletedIsComplete` (pages shift under
  arriving rows), `ResultsFinal` (no result after the status says it is over),
  `StatusSaysWhy`, `RunEnds`, and `FetcherEnds` of `EvalRun_more.cfg` (no leaked
  goroutine: `RunEnds` does not see it).
* Notifications: `NeverPanics`, `OpenIffRegistered`, `InOrder`,
  `ReplacedEnds`, `BroadcastReturns`.
* Policies: `PublishedFrozen`, `DraftNeverAssigned`, `TrailExplains`. That the
  agent overwrites what others saved into its draft meanwhile is modelled and
  contradicts none of them.
* Sign-in: `ActsAsShown` (a login, a sign-out and a restored session share one
  cookie), `QuietWhenSignedOut` (the reconnect timer), `LiveFeedAttached` (a
  child's effect runs before the parent's that makes the client),
  `StreamRecovers`, `SignOutEnds`.
* Audit page: `RowsMatchFilter` and `LoadingEnds` (answers of a filter that is
  gone), `NewestFirst` (entries are announced when they end and sorted by when
  they began), `ReasonBelongs` (rows move under an expanded one).
* Policy page: `TextStaysHome` (loads and saves overtake a move to another
  policy), `PublishedIsReviewed` (publishing is two calls; a
  text that others save between them is published unseen, and excepted), `TurnsKept` (the
  server replaces the conversation by what came with the message; a
  suggestion, which is sent without a history, is excepted, and so is a view in
  which one went out while the agent was at work),
  `SuggestionSentOnce` (the message survives a reload in the history entry; at
  most once, since it is lost if the page is reloaded before the timeout).
* Evaluation page: `PollAlive`, `PollingEnds`, `RunEndShown` (the effect's
  cleanup at any moment of a poll).
* Lists: `NoUserTwice` (a list and a creation in either order),
  `RowsComplete` (a refusal after the list was loaded, and policies made or
  deleted elsewhere: a live policy that the page lacks was not in its answer,
  because it is newer or because the list is cut off at 50).

### Findings

Where a comment or document and the code disagree, a configuration checks what
the document says and TLC shows an execution:

* `PollsItsRun` (run `eval_page_polling`): a poll in flight when "Repeat" opens
  the new run's page is not cancelled. Its answer, of the old run, is shown
  under the new URL, and if that run has ended the effect clears the new run's
  timer and sets no other: the new run is never polled, although the comment
  at `EvalDetail.tsx:357` says "Poll while running/pending".
* `EditorStartsReady` (`PolicyPage_metadata.cfg`): the comment at
  `PolicyDetail.tsx:981` has the editor mounted only after policy and metadata
  are ready. When the user moves on to another policy during a load, the load
  that ends first takes the spinner away, and the editor of the other one
  starts without its conversation or with that of another policy.
* `SuggestionReachesItsDraft` (`PolicyPage_suggestion.cfg`): "Suggest Policy"
  navigates to its new draft when the answer comes, wherever the user is by
  then, with the message in the router's state; the next editor that is mounted
  sends it, without a history, and that may be the editor of a draft whose load
  was still under way. Its agent is then told to build the policy of somebody
  else, and its conversation is replaced. (`DraftEditor` takes the message to
  be its own: `PolicyDetail.tsx:198`.)
* `CompleteHistory` (`AuditPage_history.cfg`): `AuditTrail.tsx:213` announces
  the complete history, but the server's answer has no `total`, so that "Load
  More" is never offered and only the first page can be seen.
* The form that creates a user offers a policy (`UsersPanel.tsx:105-120`); the
  handler that creates one does not look at it (`AdminLists.ServerCreates`).

* `SingleProbe`: the comment in `circuitBreakerOpen` has concurrent callers see
  the circuit as open until the probe completes. The probe only restarts the
  cooldown, which is shorter than a call's timeout, so a second one follows.
  What does hold is `ProbeSpacing`.
* `AssignedPolicyApplied`: `GetLLMPolicyForUser` returns nil for every error,
  so that under `fallback_mode: passthrough` a failed query lets a request out
  without its user's policy.
* `AuditComplete`: the audit row is written last, and its INSERT may fail
  (database away, user deleted meanwhile) after the request went upstream and
  is answered all the same.
* `DrainBounded`: every delivery of the surviving direction of a socket puts
  the idle timeout back in place of the drain timeout.
* `CompletedUncanceled`: a cancellation seen first by the goroutine that reads
  the entries closes the channel, and one that comes during the last wait is
  not looked at: both runs end as completed.

## Fairness

Safety needs none. The liveness properties assume:

* `Resilience`: goroutines run, callers return, the clock advances, a call
  ends (each adapter gives its HTTP client a timeout), and a sender blocked on
  a channel is not overtaken for ever (Go's channels queue their senders),
  which is the one strong fairness. `Recovers` further assumes, in its own
  premise, a provider that stays up and callers some of whom finish.
* `RequestFlow`: the handler's own steps. Not upstream's answer, for which the
  transport has no timeout, nor the clients and administrators.
* `Tunnel`: the tunnel's and the relay's own goroutines. Not the client, who
  need not write or leave, nor upstream; `TunnelEnds` names that assumption
  itself.
* `EvalRun`: the three goroutines; a judge's call has a timeout. `RunEnds`
  excepts an exiting process and a lost status update, explicitly.
* `Notifications`: calls of `Notify` only. `ReplacedEnds` assumes in its
  premise that writes to the connection return.
* `WebSession`, `AuditPage`, `EvalPage`: a call is answered or given up by the
  browser, a timer fires, an EventSource opens or fails. Nothing is assumed of
  the user, and nothing of the server's run in `EvalPage`: the premises of
  `PollingEnds` and `RunEndShown` name what they need of both.
  `PolicyPage` and `AdminLists` have no liveness property: their pages wait
  for ever for a call that never returns.

## Proofs

Every theorem holds for all values of the constants under the assumptions
named beside their declaration (positive capacities and timeouts, finitely many
callers, `None` distinct from the data). TLC checked each inductive invariant on
a run's instance before it was proved. A proof has one lemma per action, which
first collects what the action changes, and a short temporal step for each
theorem.

Two components whose proofs share a file have no name in common, and the file
extends both; that is why the initial state, the next-state relation and the
variables are called `NotifyInit`, `TunnelNext` or `lifecycleVars` in some of
the modules.

| Proof module | About | Inductive invariants | Theorems about |
|---|---|---|---|
| `UpstreamProofs` | `Resilience`, `Tunnel` with `WebSocketRelay` | `IInv`, `TunnelInv` | breaker, slots, refinement; order, revocation, deadlines |
| `RequestFlowProofs` | `RequestFlow` | `IInv` | failing closed, truthful log, refinement |
| `LiveAuditProofs` | `Notifications`, `AuditPage` | `ChannelInv`, `Order`, `TrailInv` | channels, order of events; rows, order, reasons |
| `AdminProofs` | `PolicyLifecycle`, `EvalRun` | `LifecycleInv`, `RunInv` | frozen policies, audit trail; replays, completeness, status |
| `WebSessionProofs` | `WebSession` | `IInv` | who the UI acts as, the live feed |
| `PolicyPageProofs` | `PolicyPage` | `IInv`, `Sound` | texts, suggestions, publications, conversations |
| `EvalPageProofs` | `EvalPage` | `IInv` | polling |
| `AdminListsProofs` | `AdminLists` | `IInv` | rows |

The arguments, and why a property needs more than itself:

* Breaker. `TrippedTogether` needs the counter's place in the history
  (`CounterIsStreak`: the counter is the length of the failing end of the
  outcomes), and `ProbeSpacing` needs `ProbeRestarts`: the timestamp is never
  older than the last probe. `SlotsAccounted` counts a set that each action
  changes by one caller. `Refinement` maps every step to a step of
  `CircuitBreaker` or a stutter.
* Relay. `IdleRelayEnds` bounds a clock, so the invariant ties it to the
  deadlines: while both directions run, a read still has at most the idle
  timeout less the time since the last delivery, and a write began before such
  a deadline was over (`BothClock`); the direction that is left has the drain
  timeout on top (`OneClock`). `BusyRelayStays` follows from the same.
* Tunnel. `AnsweredInOrder` needs the number of answers at every place of
  `serveTLS` (`Answered`), and that a closing answer is the last there is
  (`LastCloses`). `RevocationTakesEffect` needs `Admitted`: what is decided or
  has gone upstream came with a token that was somebody's after the request was
  read. `Placed` says at which places a relay runs and a row is written.
* Request flow. `FailClosed` is not inductive: what allowed a request was seen
  several steps earlier. `Justified` carries the reason along (a rule, the
  judge, the fallback), `JudgeIsLast` says that the judge is asked only when all
  earlier layers let the request through, and `SentAllowed` that what is on its
  way was allowed. `AuditTruthful` needs `StatusEarned` and `ResponseEarned` in
  the same way. `Refinement` is the refinement of `Gatekeeper`.
* Notifications. `NeverPanics` rests on `ChannelState` (a channel is closed
  exactly when its connection was registered and is not any more) and
  `TodoRegistered` (what a call of `Notify` still has to deliver to stays
  registered while it holds the lock). `InOrder` needs `Order`: a goroutine has
  one call at a time, its event is its newest, and it has not reached the
  connections that are still to get it.
* Policies. One fact about single steps, `StepFreezes` (no statement touches a
  published policy), makes everything that was read of such a policy stay true:
  hence `DraftNeverAssigned`, although check and assignment are two statements,
  and `TrailExplains`.
* Evaluation. `ReplayedOnce` is about a stream that is spread over a cursor, a
  batch, a channel, a hand and a set of workers: `InRowOrder` says that these
  hold descending, disjoint stretches of the rows. `CompletedIsComplete` needs
  `NothingLost`: while nothing cancels the run, a row is either still to be
  read, in one of these places, or has its result, unless its own `AddResult`
  failed. `Newest`, what one query
  returns, is specified by the lemma `NewestFacts`, proved from cardinalities.
* Audit page. `Filtered` says of every answer on its way that it holds rows of
  the filter it was asked for, and that the call that is current has the
  page's filter; `AboutExpanded`, that the block below a row is about the
  entry of the row. `NewestFirst` needs that the sort of the page sorts:
  `SortedFacts` is proved from `Ranks` (in a finite ordered set the number of
  predecessors is a bijection onto the places), which is why `Sorted` is
  defined by the rank of a row, the stable sort of the code, and not by
  recursion.
* Sign-in. `ActsAsShown` and `LiveFeedAttached` need to know which clients are
  referred to by the singleton, by the effect that connected one and by the
  page's subscription; all others are quiet.
* Policy page. `TextStaysHome` is far from inductive: a text may wait in the
  view of an editor, in a save that has not been served, in an answer that will
  be shown, or in a turn of the agent. `IInv` says of each place that the text
  in it is of the policy named beside it (`Carries`, `Fits`, `ViewOK`), and
  `ViewOwns` that a conversation whose events go to the view is one of the draft
  it shows, which is what the editor's `key` is for.
  The second invariant, `Sound`, follows three protocols of several calls.
  `SuggestionSentOnce`: a draft that was made for a suggestion is named by one
  answer (`Sole`), and until its message is sent it is in one of that answer,
  the router's state and a timeout (`Waiting`); what has been sent was for
  different drafts (`SentOK`). `PublishedIsReviewed`: a publication between its
  two calls has the text that is stored, or has stopped vouching for it because
  another was stored since (`VouchOK`), and no step changes both status and text
  of a policy that exists. `TurnsKept`: the view has one conversation at a
  time, `agentRunning` is set while it has one, and its message was sent with
  everything the view shows, or by the page itself (`TalkOK`).
* Evaluation page. `PollAlive` holds because of `Alive`: when the page shows an
  active run, some chain goes on, which is to say that its timer is set or that
  its calls are under way and will set it; `NoPage` says that nothing of a page
  is left when it has been left.
* Lists. `NoUserTwice` needs that every list on its way is without repetition
  (`ListsNoDup`). `RowsComplete` needs what an answer leaves out (`Explained`:
  what is live and not in it is newer, or has `Limit` newer ones, which is the
  cardinality argument about `Newest`), that the rows have lost of their answer
  only what was deleted, and that a deletion that was answered well is one that
  happened (`RowsCover`). Both hold for every limit and every number of policies.

Every invariant and every action property that a configuration reports to hold
is the statement of a theorem, as are the two refinements. Only model-checked:
the liveness properties (`Recovers`, `TunnelEnds`, `RunEnds`,
`BroadcastReturns`, `StreamRecovers`, `SignOutEnds`, `LoadingEnds`,
`PollingEnds`, `RunEndShown`, and `Answered`, `FetcherEnds`, `ReplacedEnds` and
`AcquireReturns` of the other configurations): they need fairness, that is
ENABLED, which TLAPS does not reach. What a recursive definition computes for
every input would need induction over data and is not proved anywhere; the
modules have none where a proof needs one.

## What is left out

* Text: what a static rule matches, what a prompt asks and the judge answers,
  URL normalisation, redaction. `RequestFlow` takes the outcome of a match as
  a constant of the policy and the judge's answer as an open choice.
* In `PolicyPage` the router's state is cleared in the step that mounts the
  editor: the effect calls `navigate` synchronously, but React may show the new
  location in a later render. The timeout after it is a step of its own.
* A panic in a worker of an evaluation run ends the process, as `Exit` does.
* Data on the wire: headers, bodies, compression, the limits on them.
* Deployments of the proxy without a user resolver, and the branch that
  answers an authentication scheme other than Basic inside a tunnel.
* The response rows that workers of an evaluation run create, labels and
  statistics.
* `README.md` of the repository says that any layer of the guard stack can
  deny. In `CheckApproval` a static allow rule and the fallback return before
  the web3 layer is asked; `RequestFlow` models that order, and
  `LoadedPolicyObeyed` says exactly when the web3 rules are binding.
* In the UI: markup, formatting, charts, what a form says about errors, the
  fields of a rule, labels and metrics of an evaluation, and "Load More" of
  both tables (one cannot be reached, the other only appends rows that no
  other step reads). The load of the user page.
* Certificates, rate limiting, nonce tracking, startup and shutdown: not yet.

## Plan

Done, in this order: `Resilience`, `RequestFlow`, `Tunnel`, `EvalRun`,
`Notifications`, `PolicyLifecycle`, then the UI's `WebSession`, `AuditPage`,
`PolicyPage`, `EvalPage`, `AdminLists`, each with the proofs above. The most
important behaviour, how a request is decided, sent and logged, came first
after the self-contained breaker. Next:

1. `LRUCache` with `RateLimiter` and `CertCache` on top of it, composed in one
   module for everything that happens before a request is identified. Abstract
   specification: a token bucket per client that is never forgotten; the cache
   implements it as long as nothing is evicted. Properties: the single flight
   generates once for all who wait; a cached certificate is never expired
   within the margin the code keeps.
2. `CACertFiles`: two renames, a crash in between, two processes starting
   together.
3. `NonceGuard` with its 64-bit counter and eviction, and the web3 rules as
   operators.
4. `StaticRules` and the request limits as operators, checked against
   reference definitions over bounded inputs.
5. Shutdown: both servers' `Shutdown`, the 30 s, the runs and the agent.
6. The user page's load, and the labels of an evaluation.
7. Proofs about the modules above, and of the properties of the other
   configurations that no theorem states yet.

Everything that can go wrong and is not covered yet is listed under `hazards`
in `PROJECT.json` with the reason.

----------------------------- MODULE EvalRun ------------------------------
(***************************************************************************)
(* One evaluation run, which replays audit entries against a policy: the   *)
(* POST handler that starts it and the cancel endpoint (handleEvals and    *)
(* handleEvalAction, internal/admin/api.go), the goroutine that reads the  *)
(* entries (QueryBatched, internal/admin/pg_audit_reader.go), and RunEval  *)
(* with its workers (internal/eval/runner.go).  Audit rows keep arriving   *)
(* while the run reads them, queries fail, users cancel, the server ends.  *)
(***************************************************************************)
EXTENDS Integers, Sequences, FiniteSets

CONSTANTS
    N,           \* audit rows, numbered in the order of (timestamp, id)
    BatchSize,   \* rows per query of QueryBatched
    Capacity,    \* of entryCh
    Concurrency, \* evalConcurrency
    Limits       \* values of filter.Limit; 0 is no limit

ASSUME EvalAssumption ==
    /\ N \in Nat
    /\ BatchSize \in Nat \ {0}
    /\ Capacity \in Nat \ {0}
    /\ Concurrency \in Nat \ {0}
    /\ Limits \subseteq Nat

Entries == 1..N
Terminal == {"completed", "failed", "canceled"}

VARIABLES
    process,   \* the gateway: "up", "exiting" (serverCtx is over) or "down"
    present,   \* rows of audit_log that match the filter
    handler,   \* the POST handler
    runStatus, \* eval_runs.status, or "none" before the row exists
    total,     \* eval_runs.total_entries
    cause,     \* context.Cause(runCtx), or "none" while it is alive
    registered,\* is the run's cancel function in runCancels?
    limit,     \* filter.Limit
    fetcher,   \* the goroutine that reads entries
    batch,     \* rows it still has to send from the current batch
    full,      \* was the current batch as large as asked for?
    cursor,    \* last row of the batches before
    delivered, \* rows fetched so far
    entryCh, entryChClosed,
    runner,    \* the goroutine in RunEval
    entry,     \* the entry it holds
    working,   \* entries being replayed, each in a slot of the semaphore
    replays,   \* replays[e]: results of e in eval_results
    awaited,   \* history: rows present when the first batch was fetched
    unstored,  \* history: the entries whose AddResult failed
    broken,    \* history: did a query of QueryBatched fail?
    unwritten  \* history: did a status update fail?

rows == <<runStatus, total>>
results == <<replays, unstored>>
context == <<cause, registered>>
fetching == <<fetcher, batch, full, cursor, delivered>>
channel == <<entryCh, entryChClosed>>
running == <<runner, entry, working, results>>
vars == <<process, present, handler, rows, context, limit, fetching, channel,
          running, awaited, broken, unwritten>>

Init ==
    /\ process = "up"
    /\ present \in SUBSET Entries
    /\ handler = "create"
    /\ runStatus = "none" /\ total = 0
    /\ cause = "none" /\ registered = FALSE
    /\ limit \in Limits
    /\ fetcher = "off" /\ batch = <<>> /\ full = FALSE
    /\ cursor = N + 1 /\ delivered = 0
    /\ entryCh = <<>> /\ entryChClosed = FALSE
    /\ runner = "off" /\ entry = 0 /\ working = {}
    /\ replays = [e \in Entries |-> 0] /\ unstored = {}
    /\ awaited = {} /\ broken = FALSE /\ unwritten = FALSE

Smaller(a, b) == IF a < b THEN a ELSE b
Alive == process # "down"
Canceled == cause # "none"

---------------------------------------------------------------------------
(* The handlers                                                            *)

\* CreateRun, after the policy was copied; a failed INSERT is a 500.
CreateRun ==
    /\ Alive /\ handler = "create"
    /\ \/ handler' = "register" /\ runStatus' = "pending"
       \/ handler' = "done" /\ UNCHANGED runStatus
    /\ UNCHANGED <<process, present, total, context, limit, fetching, channel,
                   running, awaited, broken, unwritten>>

Register ==
    /\ Alive /\ handler = "register"
    /\ registered' = TRUE
    /\ handler' = "count"
    /\ UNCHANGED <<process, present, rows, cause, limit, fetching, channel,
                   running, awaited, broken, unwritten>>

\* Count and SetTotalEntries; any error leaves the total at zero.
CountEntries ==
    /\ Alive /\ handler = "count"
    /\ \/ /\ ~Canceled
          /\ total' = IF limit > 0 THEN Smaller(limit, Cardinality(present))
                                   ELSE Cardinality(present)
       \/ UNCHANGED total
    /\ handler' = "spawn"
    /\ UNCHANGED <<process, present, runStatus, context, limit, fetching, channel,
                   running, awaited, broken, unwritten>>

Spawn ==
    /\ Alive /\ handler = "spawn"
    /\ handler' = "done"
    /\ fetcher' = "query"
    /\ runner' = "start"
    /\ UNCHANGED <<process, present, rows, context, limit, batch, full, cursor,
                   delivered, channel, entry, working, results, awaited,
                   broken, unwritten>>

\* POST /admin/evals/{id}/cancel; the first cause of a context stays.
Cancel ==
    /\ Alive
    /\ registered
    /\ cause' = IF Canceled THEN cause ELSE "user"
    /\ UNCHANGED <<process, present, handler, rows, registered, limit, fetching,
                   channel, running, awaited, broken, unwritten>>

---------------------------------------------------------------------------
(* QueryBatched and the callback that feeds entryCh                        *)

\* Mistake: the channel is not closed.
KeepChannelOpen == fetcher' = "over" /\ UNCHANGED entryChClosed

CloseChannel == fetcher' = "over" /\ entryChClosed' = TRUE

FetchSize == IF limit > 0 THEN Smaller(BatchSize, limit - delivered) ELSE BatchSize

\* Mistake: pages are counted instead of remembering the last row.
BeyondCursorByOffset ==
    {e \in present : Cardinality({f \in present : f > e}) >= delivered}

BeyondCursor == {e \in present : e < cursor}

\* The newest n of the rows in S, newest first.
Newest(S, n) ==
    LET k == Smaller(n, Cardinality(S))
        Newer(e) == Cardinality({f \in S : f > e})
    IN  [i \in 1..k |-> CHOOSE e \in S : Newer(e) = i - 1]

\* The top of the loop: the context, the limit, the next query, its rows.
Query ==
    /\ Alive /\ fetcher = "query"
    /\ ~Canceled
    /\ limit = 0 \/ delivered < limit
    /\ batch' = Newest(BeyondCursor, FetchSize)
    /\ batch' # <<>>
    /\ full' = (Len(batch') = FetchSize)
    /\ fetcher' = "send"
    /\ awaited' = IF delivered = 0 THEN present ELSE awaited
    /\ UNCHANGED <<process, present, handler, rows, context, limit, cursor,
                   delivered, channel, running, broken, unwritten>>

\* The loop ends: canceled, the limit reached, no rows, or a failed query.
EndOfQuery ==
    /\ Alive /\ fetcher = "query"
    /\ \/ /\ \/ Canceled
             \/ limit > 0 /\ delivered >= limit
             \/ BeyondCursor = {}
          /\ UNCHANGED broken
       \/ broken' = TRUE
    /\ awaited' = IF delivered = 0 THEN present ELSE awaited
    /\ CloseChannel
    /\ UNCHANGED <<process, present, handler, rows, context, limit, batch, full,
                   cursor, delivered, entryCh, running, unwritten>>

Send ==
    /\ Alive /\ fetcher = "send"
    /\ Len(entryCh) < Capacity
    /\ entryCh' = Append(entryCh, Head(batch))
    /\ batch' = Tail(batch)
    /\ cursor' = Head(batch)
    /\ delivered' = delivered + 1
    /\ IF batch' # <<>> THEN UNCHANGED <<fetcher, entryChClosed>>
       ELSE IF full THEN fetcher' = "query" /\ UNCHANGED entryChClosed
       ELSE CloseChannel
    /\ UNCHANGED <<process, present, handler, rows, context, limit, full,
                   running, awaited, broken, unwritten>>

\* Mistake: the callback sends without watching the context.
StopSendingNever == FALSE

\* The select's other case; its error ends QueryBatched.
StopSending ==
    /\ Alive /\ fetcher = "send"
    /\ Canceled
    /\ CloseChannel
    /\ UNCHANGED <<process, present, handler, rows, context, limit, batch, full,
                   cursor, delivered, entryCh, running, awaited, broken,
                   unwritten>>

---------------------------------------------------------------------------
(* RunEval                                                                 *)

\* UpdateRunStatus; an error is only logged.
WriteStatus(s) ==
    \/ runStatus' = s /\ UNCHANGED unwritten
    \/ unwritten' = TRUE /\ UNCHANGED runStatus

Proceed(from, to) ==
    /\ Alive /\ runner = from
    /\ runner' = to

others == <<process, present, handler, total, context, limit, fetching, awaited,
            broken>>

Start ==
    /\ Proceed("start", "check")
    /\ WriteStatus("running")
    /\ UNCHANGED <<others, channel, entry, working, results>>

\* ctx.Err, before the entry is received and again before it is worked on.
Check ==
    /\ \/ ~Canceled /\ Proceed("check", "receive")
       \/ ~Canceled /\ Proceed("admit", "acquire")
    /\ UNCHANGED <<others, runStatus, unwritten, channel, entry, working, results>>

\* Every place where the loop sees that the context is over.
Leave ==
    /\ Canceled
    /\ \E from \in {"check", "receive", "admit", "acquire"} : Proceed(from, "leave")
    /\ UNCHANGED <<others, runStatus, unwritten, channel, entry, working, results>>

Receive ==
    /\ entryCh # <<>>
    /\ Proceed("receive", "admit")
    /\ entry' = Head(entryCh)
    /\ entryCh' = Tail(entryCh)
    /\ UNCHANGED <<others, runStatus, unwritten, entryChClosed, working, results>>

\* Mistake: an empty channel is taken for a closed one.
DrainedWhenEmpty ==
    /\ entryCh = <<>>
    /\ Proceed("receive", "finish")
    /\ UNCHANGED <<others, runStatus, unwritten, channel, entry, working, results>>

Drained ==
    /\ entryCh = <<>> /\ entryChClosed
    /\ Proceed("receive", "finish")
    /\ UNCHANGED <<others, runStatus, unwritten, channel, entry, working, results>>

\* Mistake: the semaphore is taken inside the worker.
StartWorkerUnbounded ==
    /\ Proceed("acquire", "check")
    /\ working' = working \cup {entry}
    /\ UNCHANGED <<others, runStatus, unwritten, channel, entry, results>>

StartWorker ==
    /\ Cardinality(working) < Concurrency
    /\ Proceed("acquire", "check")
    /\ working' = working \cup {entry}
    /\ UNCHANGED <<others, runStatus, unwritten, channel, entry, results>>

\* A worker has its answer, from the static rules or the judge, an error
\* included, and calls AddResult, whose error is only logged; then it gives back
\* its slot.  Nothing recovers a panic in it: that is Exit.
FinishWorker(e) ==
    /\ Alive /\ e \in working
    /\ \/ replays' = [replays EXCEPT ![e] = @ + 1] /\ UNCHANGED unstored
       \/ unstored' = unstored \cup {e} /\ UNCHANGED replays
    /\ working' = working \ {e}
    /\ UNCHANGED <<others, runStatus, unwritten, channel, runner, entry>>

\* Mistake: a canceled run is closed without waiting for its workers.
EndCanceledAtOnce ==
    /\ Proceed("leave", "returned")
    /\ WriteStatus(IF cause = "user" THEN "canceled" ELSE "failed")
    /\ UNCHANGED <<others, channel, entry, working, results>>

\* Mistake: every canceled run has failed.
EndCanceledAsFailed ==
    /\ working = {}
    /\ Proceed("leave", "returned")
    /\ WriteStatus("failed")
    /\ UNCHANGED <<others, channel, entry, working, results>>

\* wg.Wait, then canceledOrFailed.
EndCanceled ==
    /\ working = {}
    /\ Proceed("leave", "returned")
    /\ WriteStatus(IF cause = "user" THEN "canceled" ELSE "failed")
    /\ UNCHANGED <<others, channel, entry, working, results>>

EndCompleted ==
    /\ working = {}
    /\ Proceed("finish", "returned")
    /\ WriteStatus("completed")
    /\ UNCHANGED <<others, channel, entry, working, results>>

\* The deferred runCancel(nil), and the run leaves runCancels.
Return ==
    /\ Proceed("returned", "over")
    /\ cause' = IF Canceled THEN cause ELSE "finished"
    /\ registered' = FALSE
    /\ UNCHANGED <<process, present, handler, rows, limit, fetching, channel,
                   entry, working, results, awaited, broken, unwritten>>

---------------------------------------------------------------------------
(* Traffic and the process                                                 *)

\* A row is inserted, behind the cursor or before it: rows are ordered by the
\* time their request began, and long requests are logged late.
RowArrives ==
    /\ \E e \in Entries \ present : present' = present \cup {e}
    /\ UNCHANGED <<process, handler, rows, context, limit, fetching, channel,
                   running, awaited, broken, unwritten>>

\* main returns after both servers have shut down: the deferred serverCancel.
ServerCancels ==
    /\ process = "up"
    /\ process' = "exiting"
    /\ cause' = IF Canceled THEN cause ELSE "server"
    /\ UNCHANGED <<present, handler, rows, registered, limit, fetching, channel,
                   running, awaited, broken, unwritten>>

\* The process ends, by crash or because main has returned.
Exit ==
    /\ Alive
    /\ process' = "down"
    /\ UNCHANGED <<present, handler, rows, context, limit, fetching, channel,
                   running, awaited, broken, unwritten>>

---------------------------------------------------------------------------

Handle == CreateRun \/ Register \/ CountEntries \/ Spawn

Fetch == Query \/ EndOfQuery \/ Send \/ StopSending

Run ==
    \/ Start \/ Check \/ Leave \/ Receive \/ Drained \/ StartWorker
    \/ EndCanceled \/ EndCompleted \/ Return

Quiet ==
    /\ \/ process = "down"
       \/ handler = "done" /\ runner \in {"off", "over"}
    /\ UNCHANGED vars

Next ==
    \/ Handle \/ Cancel
    \/ Fetch
    \/ Run \/ \E e \in Entries : FinishWorker(e)
    \/ RowArrives \/ ServerCancels \/ Exit
    \/ Quiet

Spec == Init /\ [][Next]_vars

\* The goroutines run, queries return, and a judge's call has a timeout.
FairSpec ==
    /\ Spec
    /\ WF_vars(Fetch) /\ WF_vars(Run)
    /\ \A e \in Entries : WF_vars(FinishWorker(e))

---------------------------------------------------------------------------
(* Properties                                                              *)

\* The entries with a result, and those whose result was lost.
Replayed == {e \in Entries : replays[e] > 0} \cup unstored

TypeOK ==
    /\ process \in {"up", "exiting", "down"}
    /\ present \subseteq Entries /\ awaited \subseteq present
    /\ handler \in {"create", "register", "count", "spawn", "done"}
    /\ runStatus \in {"none", "pending", "running"} \cup Terminal
    /\ total \in 0..N
    /\ cause \in {"none", "user", "server", "finished"}
    /\ registered \in BOOLEAN /\ limit \in Limits
    /\ fetcher \in {"off", "query", "send", "over"}
    /\ batch \in Seq(Entries) /\ full \in BOOLEAN
    /\ cursor \in 1 .. (N + 1) /\ delivered \in 0..N
    /\ entryCh \in Seq(Entries) /\ Len(entryCh) <= Capacity
    /\ entryChClosed = (fetcher = "over")
    /\ runner \in {"off", "start", "check", "receive", "admit", "acquire",
                   "leave", "finish", "returned", "over"}
    /\ entry \in Entries \cup {0}
    /\ working \subseteq Entries /\ Cardinality(working) <= Concurrency
    /\ replays \in [Entries -> Nat] /\ unstored \subseteq Entries
    /\ broken \in BOOLEAN /\ unwritten \in BOOLEAN

\* No entry has two results, however the rows that arrive while the run
\* reads shift the pages.
ReplayedOnce == \A e \in Entries : replays[e] <= 1

\* A run that ends by itself, none of whose queries failed, has replayed every
\* row there was when it began, or as many as its limit allows: a row without a
\* result is one whose own AddResult failed.
CompletedIsComplete ==
    runner = "over" /\ cause = "finished" /\ ~broken =>
        IF limit = 0 THEN awaited \subseteq Replayed
        ELSE Cardinality(Replayed) >= Smaller(limit, Cardinality(awaited))

\* Once the database shows that a run is over, its results do not change: the
\* statistics of a canceled run are as final as those of a completed one.
ResultsFinal ==
    [][ (runStatus \in Terminal) => runStatus' = runStatus /\ replays' = replays ]_vars

\* Canceled means by the user and failed means by the server, also when both
\* happen, or happen while the run is ending.
StatusSaysWhy ==
    /\ runStatus = "canceled" => cause = "user"
    /\ runStatus = "failed" => cause = "server"

\* A started run comes to an end that the database shows, unless the process
\* ends or the update is lost.
RunEnds ==
    runner = "start" ~> runStatus \in Terminal \/ process # "up" \/ unwritten

\* The reading goroutine ends with the run, whether or not somebody still
\* receives from entryCh: none is leaked.
FetcherEnds == runner = "over" ~> fetcher = "over" \/ process = "down"

\* The comment on RunEval: running becomes completed after the channel is
\* drained without cancellation.
CompletedUncanceled ==
    [][ runStatus # "completed" /\ runStatus' = "completed" => ~Canceled ]_vars
=============================================================================

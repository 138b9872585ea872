----------------------------- MODULE EvalPage -----------------------------
(***************************************************************************)
(* The page of an evaluation run (EvalDetail.tsx): how it loads the run,   *)
(* polls it until it has ended and starts it again, with the list and the  *)
(* form of EvalsPanel.tsx and the form of PolicyDetail.tsx that lead to it. *)
(*                                                                         *)
(* A handler or the continuation of an await is one step, together with    *)
(* the render and the effects it sets off.  A poll is a chain: a timer,    *)
(* two calls at once, and a new timer.  React keeps the component when only *)
(* the id in the URL changes.  The rows of the table are left out: no step *)
(* depends on them.  Of the filter it matters only that a new one is a new *)
(* object, on which the polling effect depends.                            *)
(***************************************************************************)
EXTENDS Naturals, FiniteSets

CONSTANTS
    Runs,
    First,      \* the run there is in the beginning
    Polls,      \* chains of polls at once
    None,
    MaxClicks   \* what the user does

ASSUME EvalPageAssumption ==
    /\ First \in Runs
    /\ None \notin Runs \cup Polls
    /\ MaxClicks \in Nat

VARIABLES
    status,    \* status[r]: of the run, on the server
    id,        \* the run whose page is shown; None: another page
    run,       \* the run the page has fetched
    error,
    load,      \* the initial load
    polls,     \* polls[p]: a chain of polls
    timer,     \* pollTimerRef: the chain it was last set for
    typed,     \* the debounce timer of the URL filter is set
    creating,  \* the call of a form that creates a run
    clicks

vars == <<status, id, run, error, load, polls, timer, typed, creating, clicks>>

\* "ended": completed, failed or canceled.
Status == {"none", "pending", "running", "ended"}
Active(s) == s \in {"pending", "running"}

\* What a call may answer that was sent in state s and is answered in state t.
Between(s, t) ==
    {u \in Status : \/ u \in {s, t}
                    \/ s = "pending" /\ t = "ended" /\ u = "running"}

\* A chain is on its timer, waits for both calls of a poll, or for that of the
\* run or that of the rows alone; "mine" of the component now shown; "status" the
\* run's when the call was sent, and then the one it answered.
Poll == [at : {"off", "timer", "both", "run", "rows"}, mine : BOOLEAN, of : Runs,
         status : Status]

Timer(of, mine) == [at |-> "timer", mine |-> mine, of |-> of, status |-> "none"]

Off == [at |-> "off", mine |-> FALSE, of |-> First, status |-> "none"]

\* run?.status
Shown(r) == IF r = None THEN "none" ELSE r.status

-----------------------------------------------------------------------------
\* The effect that polls, with its dependencies status, id and filter.  A timer
\* that has fired is forgotten in pollTimerRef: to clear it does nothing.

\* A mutation: a poll is always followed by another.
ContinueAlways(q) == Timer(q.of, q.mine)

\* A mutation: a run that has not begun is not polled again.
ContinueIfRunning(q) == IF q.status = "running" THEN Timer(q.of, q.mine) ELSE Off

\* The end of poll(): another one is due if the run is still under way.
Continue(q) == IF Active(q.status) THEN Timer(q.of, q.mine) ELSE Off

Rearmed(q, p) == IF q.at = "timer" /\ q.mine THEN p ELSE timer

\* A mutation: a new filter clears the timer and sets none.
RenderOnce(ps, t, r, i, again) ==
    /\ run' = r /\ id' = i
    /\ LET changed == again \/ Shown(r) # Shown(run) \/ i # id
           clears == changed /\ Active(Shown(run)) /\ t # None
           kept == IF clears THEN [ps EXCEPT ![t] = Off] ELSE ps
           free == {p \in Polls : kept[p].at = "off"}
       IN  IF changed /\ ~again /\ Active(Shown(r))
           THEN /\ free # {}
                /\ timer' = CHOOSE p \in free : TRUE
                /\ polls' = [kept EXCEPT ![timer'] = Timer(i, TRUE)]
           ELSE /\ timer' = IF clears THEN None ELSE t
                /\ polls' = kept

\* The page is rendered with run r and id i, after the chains have become ps and
\* pollTimerRef t; "again": the filter is a new object.
Render(ps, t, r, i, again) ==
    /\ run' = r /\ id' = i
    /\ LET changed == again \/ Shown(r) # Shown(run) \/ i # id
           clears == changed /\ Active(Shown(run)) /\ t # None
           kept == IF clears THEN [ps EXCEPT ![t] = Off] ELSE ps
           free == {p \in Polls : kept[p].at = "off"}
       IN  IF changed /\ Active(Shown(r))
           THEN /\ free # {}
                /\ timer' = CHOOSE p \in free : TRUE
                /\ polls' = [kept EXCEPT ![timer'] = Timer(i, TRUE)]
           ELSE /\ timer' = IF clears THEN None ELSE t
                /\ polls' = kept

PollFires(p) ==
    /\ polls[p].at = "timer"
    /\ polls' = [polls EXCEPT ![p].at = "both", ![p].status = status[polls[p].of]]
    /\ timer' = IF timer = p THEN None ELSE timer
    /\ UNCHANGED <<status, id, run, typed, error, load, creating, clicks>>

\* fetchRun's answer: the page shows it, and the chain goes on at once if its
\* rows have come already.
RunArrives(p) ==
    /\ polls[p].at \in {"both", "run"}
    /\ \E s \in Between(polls[p].status, status[polls[p].of]) :
           LET got == [polls[p] EXCEPT !.at = "rows", !.status = s]
               q == IF polls[p].at = "run" THEN Continue(got) ELSE got
               ps == [polls EXCEPT ![p] = q]
           IN  IF polls[p].mine
               THEN Render(ps, Rearmed(q, p), [of |-> got.of, status |-> s], id, FALSE)
               ELSE polls' = ps /\ UNCHANGED <<timer, run, id>>
    /\ UNCHANGED <<status, typed, error, load, creating, clicks>>

\* A poll that failed says so and is the last of its chain.
RunLost(p) ==
    /\ polls[p].at \in {"both", "run"}
    /\ polls' = [polls EXCEPT ![p] = Off]
    /\ error' = (error \/ polls[p].mine)
    /\ UNCHANGED <<status, id, run, typed, load, timer, creating, clicks>>

\* fetchResults' answer, or its failure, which is dropped.
RowsArrive(p) ==
    /\ polls[p].at \in {"both", "rows"}
    /\ LET q == IF polls[p].at = "rows" THEN Continue(polls[p])
                ELSE [polls[p] EXCEPT !.at = "run"]
       IN  polls' = [polls EXCEPT ![p] = q] /\ timer' = Rearmed(q, p)
    /\ UNCHANGED <<status, id, run, typed, error, load, creating, clicks>>

-----------------------------------------------------------------------------
\* The initial load

LoadArrives ==
    /\ load # None /\ load.step = "run"
    /\ load' = [load EXCEPT !.step = "rest"]
    /\ \E s \in Between(load.status, status[load.of]) :
           Render(polls, timer, [of |-> load.of, status |-> s], id, FALSE)
    /\ UNCHANGED <<status, typed, error, creating, clicks>>

LoadEnds ==
    /\ load # None /\ load.step = "rest"
    /\ load' = None
    /\ UNCHANGED <<status, id, run, typed, error, polls, timer, creating, clicks>>

LoadFails ==
    /\ load # None
    /\ load' = None /\ error' = TRUE
    /\ UNCHANGED <<status, id, run, typed, polls, timer, creating, clicks>>

-----------------------------------------------------------------------------
\* What the user does.  Nothing is there to be clicked while the page loads or
\* says an error.

Click == clicks < MaxClicks /\ clicks' = clicks + 1

Ready == id # None /\ load = None /\ ~error /\ run # None

\* The table is asked for with a filter that is a new object: applyFilter,
\* clearFilter, and the URL field's timer.
Refilter ==
    /\ Render(polls, timer, run, id, TRUE)
    /\ UNCHANGED <<status, error, load, creating>>

ApplyFilter == Ready /\ Click /\ Refilter /\ UNCHANGED typed

ClearFilter == Ready /\ Click /\ Refilter /\ typed' \in {typed, TRUE}

Type ==
    /\ Ready /\ Click
    /\ typed' = TRUE
    /\ UNCHANGED <<status, id, run, error, load, polls, timer, creating>>

Debounced ==
    /\ typed
    /\ typed' = FALSE
    /\ Refilter
    /\ UNCHANGED clicks

\* The router shows the page of r: a new component, or the same one with another
\* id; a new one starts the debounce timer too.
GoTo(r) ==
    /\ r # id
    /\ load' = [of |-> r, step |-> "run", status |-> status'[r]]
    /\ IF id = None
       THEN /\ id' = r /\ run' = None /\ error' = FALSE
            /\ typed' = TRUE /\ timer' = None
            /\ UNCHANGED polls
       ELSE Render(polls, timer, run, r, FALSE) /\ UNCHANGED <<error, typed>>

Open(r) ==
    /\ status[r] # "none" /\ Click
    /\ UNCHANGED <<status, creating>>
    /\ GoTo(r)

\* The component is gone: what is in flight answers to nobody.
Leave ==
    /\ id # None /\ Click
    /\ LET kept == IF Active(Shown(run)) /\ timer # None
                   THEN [polls EXCEPT ![timer] = Off] ELSE polls
       IN  polls' = [p \in Polls |-> [kept[p] EXCEPT !.mine = FALSE]]
    /\ id' = None /\ run' = None /\ error' = FALSE /\ load' = None
    /\ timer' = None /\ typed' = FALSE
    /\ UNCHANGED <<status, creating>>

\* A form for a new run is submitted.
SubmitForm ==
    /\ ~creating /\ Click
    /\ creating' = TRUE
    /\ UNCHANGED <<status, id, run, typed, error, load, polls, timer>>

Repeat == Ready /\ SubmitForm

\* "New Eval" on the list of runs, and "Run Eval" on the page of a policy, which
\* has a form of its own.
NewEval == id = None /\ SubmitForm

RunEval == id = None /\ SubmitForm

\* createEvalRun's answer; the page of the new run is opened wherever the user
\* is by now.
Created(r) ==
    /\ creating /\ status[r] = "none"
    /\ status' = [status EXCEPT ![r] = "pending"]
    /\ creating' = FALSE
    /\ GoTo(r)
    /\ UNCHANGED clicks

CreateFails ==
    /\ creating
    /\ creating' = FALSE
    /\ UNCHANGED <<status, id, run, typed, error, load, polls, timer, clicks>>

\* The server.  "Stop" ends a run that has not ended by itself.
Stop ==
    /\ Ready /\ Active(run.status) /\ Click
    /\ status' = IF Active(status[run.of])
                 THEN [status EXCEPT ![run.of] = "ended"] ELSE status
    /\ UNCHANGED <<creating, id, run, typed, error, load, polls, timer>>

Advances(r) ==
    /\ \/ status[r] = "pending" /\ status' = [status EXCEPT ![r] = "running"]
       \/ Active(status[r]) /\ status' = [status EXCEPT ![r] = "ended"]
    /\ UNCHANGED <<creating, id, run, typed, error, load, polls, timer, clicks>>

-----------------------------------------------------------------------------
Init ==
    /\ status = [r \in Runs |-> IF r = First THEN "running" ELSE "none"]
    /\ id = None /\ run = None /\ error = FALSE /\ load = None
    /\ timer = None /\ typed = FALSE /\ polls = [p \in Polls |-> Off]
    /\ creating = FALSE
    /\ clicks = 0

PollSteps(p) ==
    PollFires(p) \/ RunArrives(p) \/ RunLost(p) \/ RowsArrive(p)

LoadSteps == LoadArrives \/ LoadEnds \/ LoadFails

Next ==
    \/ \E p \in Polls : PollSteps(p)
    \/ LoadSteps
    \/ ApplyFilter \/ ClearFilter \/ Type \/ Debounced
    \/ \E r \in Runs : Open(r) \/ Created(r) \/ Advances(r)
    \/ Leave
    \/ Repeat \/ NewEval \/ RunEval \/ CreateFails
    \/ Stop

Spec == Init /\ [][Next]_vars

\* Timers fire, and every call is answered or given up by the browser.
Fairness == (\A p \in Polls : WF_vars(PollSteps(p))) /\ WF_vars(LoadSteps)

FairSpec == Spec /\ Fairness

-----------------------------------------------------------------------------
TypeOK ==
    /\ status \in [Runs -> Status]
    /\ id \in Runs \cup {None}
    /\ run \in [of : Runs, status : Status] \cup {None}
    /\ error \in BOOLEAN
    /\ load \in [of : Runs, step : {"run", "rest"}, status : Status] \cup {None}
    /\ polls \in [Polls -> Poll] /\ timer \in Polls \cup {None}
    /\ typed \in BOOLEAN
    /\ creating \in BOOLEAN
    /\ clicks \in 0..MaxClicks

Polling(p) == polls[p].at # "off" /\ polls[p].mine

\* A page that says a run is under way keeps asking for it: effects that clear
\* the timer, chains that set it again and answers that come late never leave
\* it standing still (EvalDetail.tsx:358-376).
PollAlive ==
    id # None /\ ~error /\ Active(Shown(run)) => \E p \in Polls : Polling(p)

\* When every run has ended, polling stops, in pages that were left as well
\* (EvalDetail.tsx:361-370).
PollingEnds ==
    (\A r \in Runs : ~Active(status[r]))
        ~> \/ \A p \in Polls : polls[p].at = "off"
           \/ \E r \in Runs : Active(status[r])

\* The end of a run is shown on its page, whatever filters are applied
\* meanwhile, if nothing of another run's page is left over and no call for the
\* run fails (EvalDetail.tsx:358-376).
RunEndShown ==
    \A r \in Runs :
        (/\ id = r /\ ~Active(status[r])
         /\ run # None => run.of = r
         /\ \A p \in Polls : Polling(p) => polls[p].of = r)
            ~> \/ run = [of |-> r, status |-> status[r]]
               \/ error \/ id # r

\* What the comment on the effect says (EvalDetail.tsx:357): the page polls
\* while its run is pending or running.
PollsItsRun ==
    (id # None /\ load = None /\ ~error)
        => (Active(status[id]) => \E p \in Polls : Polling(p) /\ polls[p].of = id)

=============================================================================

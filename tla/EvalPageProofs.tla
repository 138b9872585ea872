--------------------------- MODULE EvalPageProofs ---------------------------
(***************************************************************************)
(* What holds of EvalPage for any runs and any number of chains of polls:  *)
(* its type, and that a page that says its run is under way keeps polling. *)
(***************************************************************************)
EXTENDS EvalPage, TLAPS

\* Without a page nothing is left of one.
NoPage ==
    id = None => /\ run = None /\ load = None
                 /\ ~error /\ ~typed
                 /\ \A p \in Polls : ~polls[p].mine

\* A chain of the page that its own next step will not end: one that knows the
\* run's state, and waits for rows only, knows it to be under way.
GoesOn(q) == q.at # "off" /\ q.mine /\ (q.at = "rows" => Active(q.status))

Alive ==
    id # None /\ ~error /\ Active(Shown(run)) => \E p \in Polls : GoesOn(polls[p])

IInv == TypeOK /\ NoPage /\ Alive

RunShown == [of : Runs, status : Status] \cup {None}

\* The records a chain may be.
LEMMA Chains ==
    ASSUME EvalPageAssumption
    PROVE  /\ Off \in Poll /\ Off.at = "off" /\ ~Off.mine
           /\ \A r \in Runs, m \in BOOLEAN : /\ Timer(r, m) \in Poll
                                             /\ Timer(r, m).mine = m
                                             /\ Timer(r, m).at = "timer"
BY DEF EvalPageAssumption, Off, Timer, Poll, Status

\* A chain that goes on is still a chain, of the same page, and it goes on.
LEMMA ContinueKeeps ==
    ASSUME EvalPageAssumption, NEW q \in Poll
    PROVE  /\ Continue(q) \in Poll
           /\ Continue(q).mine => q.mine
           /\ Active(q.status) /\ q.mine => GoesOn(Continue(q))
<1>1. q.of \in Runs /\ q.mine \in BOOLEAN
  BY DEF Poll
<1>2. CASE Active(q.status)
  BY <1>1, <1>2, Chains DEF Continue, GoesOn
<1>3. CASE ~Active(q.status)
  BY <1>3, Chains DEF Continue
<1>4. QED
  BY <1>2, <1>3

\* After a render there is a chain that goes on if the page says its run is under
\* way: the effect starts one, or nothing changed and there was one.
LEMMA RenderKeeps ==
    ASSUME EvalPageAssumption,
           NEW ps \in [Polls -> Poll], NEW t \in Polls \cup {None},
           NEW r \in RunShown, NEW i \in Runs, NEW again \in BOOLEAN,
           Render(ps, t, r, i, again),
           (~error /\ ~again /\ Shown(r) = Shown(run) /\ i = id /\ Active(Shown(r)))
               => \E p \in Polls : GoesOn(ps[p])
    PROVE  /\ run' = r /\ id' = i
           /\ polls' \in [Polls -> Poll] /\ timer' \in Polls \cup {None}
           /\ ~error /\ Active(Shown(r)) => \E p \in Polls : GoesOn(polls'[p])
<1> DEFINE changed == again \/ Shown(r) # Shown(run) \/ i # id
           clears == changed /\ Active(Shown(run)) /\ t # None
           kept == IF clears THEN [ps EXCEPT ![t] = Off] ELSE ps
           free == {p \in Polls : kept[p].at = "off"}
<1>1. kept \in [Polls -> Poll]
  BY Chains
<1>2. CASE changed /\ Active(Shown(r))
  <2>1. /\ free # {}
        /\ timer' = CHOOSE p \in free : TRUE
        /\ polls' = [kept EXCEPT ![timer'] = Timer(i, TRUE)]
        /\ run' = r /\ id' = i
    BY <1>2 DEF Render
  <2>2. timer' \in Polls
    BY <2>1
  <2>3. polls' \in [Polls -> Poll] /\ polls'[timer'] = Timer(i, TRUE)
    BY <1>1, <2>1, <2>2, Chains
  <2>4. GoesOn(polls'[timer'])
    BY <2>3, Chains DEF GoesOn
  <2>5. QED
    BY <2>1, <2>2, <2>3, <2>4
<1>3. CASE ~(changed /\ Active(Shown(r)))
  <2>1. /\ timer' = IF clears THEN None ELSE t
        /\ polls' = kept
        /\ run' = r /\ id' = i
    BY <1>3 DEF Render
  <2>2. Active(Shown(r)) => ~changed /\ polls' = ps
    BY <1>3, <2>1
  <2>3. QED
    BY <1>1, <2>1, <2>2
<1>4. QED
  BY <1>2, <1>3

\* The invariant holds at first.
LEMMA InitInv ==
    ASSUME EvalPageAssumption, Init
    PROVE  IInv
<1>1. TypeOK
  <2>1. status \in [Runs -> Status]
    BY DEF Init, Status
  <2>2. polls \in [Polls -> Poll]
    BY Chains DEF Init
  <2>3. clicks \in 0..MaxClicks
    BY DEF EvalPageAssumption, Init
  <2>4. QED
    BY <2>1, <2>2, <2>3 DEF Init, TypeOK
<1>2. NoPage /\ Alive
  BY Chains DEF Init, NoPage, Alive
<1>3. QED
  BY <1>1, <1>2 DEF IInv

\* A click is counted, and never beyond the bound.
LEMMA Clicks ==
    ASSUME EvalPageAssumption, IInv, clicks' = clicks \/ Click
    PROVE  clicks' \in 0..MaxClicks
BY DEF EvalPageAssumption, IInv, TypeOK, Click

\* What a call answers is a state of a run.
LEMMA Answers == \A s \in Status, t \in Status : Between(s, t) \subseteq Status
BY DEF Between

\* The steps of a chain.
LEMMA FiresInv ==
    ASSUME EvalPageAssumption, IInv, NEW p \in Polls, PollFires(p)
    PROVE  IInv'
<1>1. polls[p] \in Poll /\ status[polls[p].of] \in Status
  BY DEF IInv, TypeOK, Poll
<1>2. polls' \in [Polls -> Poll]
  BY <1>1 DEF PollFires, IInv, TypeOK, Poll
<1>3. TypeOK'
  BY <1>2 DEF PollFires, IInv, TypeOK
<1>4. \A q \in Polls : polls'[q].mine = polls[q].mine
  BY DEF PollFires, IInv, TypeOK, Poll
<1>5. NoPage'
  BY <1>4 DEF PollFires, IInv, NoPage
<1>6. \A q \in Polls : GoesOn(polls[q]) => GoesOn(polls'[q])
  BY <1>1 DEF PollFires, IInv, TypeOK, Poll, GoesOn
<1>7. Alive'
  BY <1>6 DEF PollFires, IInv, Alive, Shown
<1>8. QED
  BY <1>3, <1>5, <1>7 DEF IInv

\* The answer about a run keeps the invariant,
LEMMA RunArrivesInv ==
    ASSUME EvalPageAssumption, IInv, NEW p \in Polls, RunArrives(p)
    PROVE  IInv'
<1> PICK s \in Between(polls[p].status, status[polls[p].of]) :
        LET got == [polls[p] EXCEPT !.at = "rows", !.status = s]
            q == IF polls[p].at = "run" THEN Continue(got) ELSE got
            ps == [polls EXCEPT ![p] = q]
        IN  IF polls[p].mine
            THEN Render(ps, Rearmed(q, p), [of |-> got.of, status |-> s], id, FALSE)
            ELSE polls' = ps /\ UNCHANGED <<timer, run, id>>
  BY DEF RunArrives
<1> DEFINE got == [polls[p] EXCEPT !.at = "rows", !.status = s]
           q == IF polls[p].at = "run" THEN Continue(got) ELSE got
           ps == [polls EXCEPT ![p] = q]
           r == [of |-> got.of, status |-> s]
<1>1. polls[p] \in Poll /\ s \in Status
  BY Answers DEF IInv, TypeOK, Poll
<1>2. got \in Poll /\ got.at = "rows" /\ got.status = s /\ got.mine = polls[p].mine
  BY <1>1 DEF Poll
<1>3. /\ q \in Poll
      /\ q.mine => polls[p].mine
      /\ polls[p].mine /\ Active(s) => GoesOn(q)
  BY <1>2, ContinueKeeps DEF GoesOn
<1>4. /\ ps \in [Polls -> Poll] /\ ps[p] = q
      /\ \A o \in Polls : o # p => ps[o] = polls[o]
  BY <1>3 DEF IInv, TypeOK
<1>5. r \in RunShown
  BY <1>1, <1>2 DEF RunShown, Poll
<1>6. Rearmed(q, p) \in Polls \cup {None}
  BY DEF Rearmed, IInv, TypeOK
<1>7. UNCHANGED <<status, typed, error, load, creating, clicks>>
  BY DEF RunArrives
<1>8. CASE polls[p].mine
  <2>1. id \in Runs
    BY <1>8 DEF IInv, TypeOK, NoPage
  <2>2. Shown(r) = "none" \/ Shown(r) = s
    BY DEF Shown
  <2>3. Active(Shown(r)) => GoesOn(ps[p])
    BY <1>3, <1>4, <1>8, <2>2 DEF Active
  <2>4. Render(ps, Rearmed(q, p), r, id, FALSE)
    BY <1>8
  <2>5. /\ run' = r /\ id' = id
        /\ polls' \in [Polls -> Poll] /\ timer' \in Polls \cup {None}
        /\ ~error /\ Active(Shown(r)) => \E o \in Polls : GoesOn(polls'[o])
    <3> HIDE DEF ps, r, q
    <3>1. QED
      BY <1>4, <1>5, <1>6, <2>1, <2>3, <2>4, RenderKeeps
  <2>6. TypeOK'
    BY <1>5, <1>7, <2>5 DEF IInv, TypeOK, RunShown
  <2>7. NoPage' /\ Alive'
    BY <1>7, <2>1, <2>5 DEF EvalPageAssumption, NoPage, Alive, Shown
  <2>8. QED
    BY <2>6, <2>7 DEF IInv
<1>9. CASE ~polls[p].mine
  <2>1. polls' = ps /\ UNCHANGED <<timer, run, id>>
    BY <1>9
  <2>2. TypeOK'
    BY <1>4, <1>7, <2>1 DEF IInv, TypeOK
  <2>3. \A o \in Polls : polls'[o].mine => polls[o].mine
    BY <1>3, <1>4, <2>1
  <2>4. \A o \in Polls : GoesOn(polls[o]) => GoesOn(polls'[o])
    BY <1>4, <1>9, <2>1 DEF GoesOn
  <2>5. NoPage' /\ Alive'
    BY <1>7, <2>1, <2>3, <2>4 DEF IInv, NoPage, Alive, Shown
  <2>6. QED
    BY <2>2, <2>5 DEF IInv
<1>10. QED
  BY <1>8, <1>9

\* so does a call that fails,
LEMMA RunLostInv ==
    ASSUME EvalPageAssumption, IInv, NEW p \in Polls, RunLost(p)
    PROVE  IInv'
<1>1. polls[p] \in Poll
  BY DEF IInv, TypeOK
<1>2. /\ polls' = [polls EXCEPT ![p] = Off]
      /\ error' = (error \/ polls[p].mine)
      /\ UNCHANGED <<status, id, run, typed, load, timer, creating, clicks>>
  BY DEF RunLost
<1>3. error' \in BOOLEAN
  BY <1>1, <1>2 DEF IInv, TypeOK, Poll
<1>4. TypeOK'
  BY <1>2, <1>3, Chains DEF IInv, TypeOK
<1>5. \A o \in Polls : polls'[o].mine => polls[o].mine
  BY <1>2, Chains DEF IInv, TypeOK
<1>6. NoPage'
  BY <1>1, <1>2, <1>5 DEF IInv, NoPage, TypeOK, Poll
<1>7. Alive'
  BY <1>1, <1>2 DEF IInv, TypeOK, Alive, Shown, GoesOn, Poll
<1>8. QED
  BY <1>4, <1>6, <1>7 DEF IInv

\* and so do the results that come with it.
LEMMA RowsArriveInv ==
    ASSUME EvalPageAssumption, IInv, NEW p \in Polls, RowsArrive(p)
    PROVE  IInv'
<1> DEFINE q == IF polls[p].at = "rows" THEN Continue(polls[p])
                ELSE [polls[p] EXCEPT !.at = "run"]
<1>1. polls[p] \in Poll
  BY DEF IInv, TypeOK
<1>2. /\ q \in Poll
      /\ q.mine => polls[p].mine
      /\ GoesOn(polls[p]) => GoesOn(q)
  <2>1. CASE polls[p].at = "rows"
    BY <1>1, <2>1, ContinueKeeps DEF GoesOn
  <2>2. CASE polls[p].at # "rows"
    BY <1>1, <2>2 DEF GoesOn, Poll
  <2>3. QED
    BY <2>1, <2>2
<1>3. /\ polls' = [polls EXCEPT ![p] = q] /\ timer' = Rearmed(q, p)
      /\ UNCHANGED <<status, id, run, typed, error, load, creating, clicks>>
  BY DEF RowsArrive
<1> HIDE DEF q
<1>4. TypeOK'
  BY <1>2, <1>3 DEF IInv, TypeOK, Rearmed
<1>5. \A o \in Polls : /\ polls'[o].mine => polls[o].mine
                       /\ GoesOn(polls[o]) => GoesOn(polls'[o])
  BY <1>2, <1>3 DEF IInv, TypeOK
<1>6. NoPage' /\ Alive'
  BY <1>3, <1>5 DEF IInv, NoPage, Alive, Shown
<1>7. QED
  BY <1>4, <1>6 DEF IInv

\* The steps of the initial load.
LEMMA LoadInv ==
    ASSUME EvalPageAssumption, IInv, LoadSteps
    PROVE  IInv'
<1>1. CASE LoadArrives
  <2>1. /\ load \in [of : Runs, step : {"run", "rest"}, status : Status]
        /\ load' = [load EXCEPT !.step = "rest"]
        /\ UNCHANGED <<status, typed, error, creating, clicks>>
    BY <1>1 DEF LoadArrives, IInv, TypeOK
  <2>2. id \in Runs
    BY <1>1 DEF LoadArrives, IInv, TypeOK, NoPage
  <2>3. PICK s \in Between(load.status, status[load.of]) :
            Render(polls, timer, [of |-> load.of, status |-> s], id, FALSE)
    BY <1>1 DEF LoadArrives
  <2> DEFINE r == [of |-> load.of, status |-> s]
  <2>4. s \in Status /\ r \in RunShown
    BY <2>1, Answers DEF IInv, TypeOK, RunShown
  <2>5. (~error /\ Shown(r) = Shown(run) /\ Active(Shown(r)))
            => \E p \in Polls : GoesOn(polls[p])
    BY <2>2 DEF EvalPageAssumption, IInv, Alive
  <2>6. /\ run' = r /\ id' = id
        /\ polls' \in [Polls -> Poll] /\ timer' \in Polls \cup {None}
        /\ ~error /\ Active(Shown(r)) => \E p \in Polls : GoesOn(polls'[p])
    <3> HIDE DEF r
    <3>1. polls \in [Polls -> Poll] /\ timer \in Polls \cup {None}
      BY DEF IInv, TypeOK
    <3>2. Render(polls, timer, r, id, FALSE)
      BY <2>3 DEF r
    <3>3. QED
      BY <2>2, <2>4, <2>5, <3>1, <3>2, RenderKeeps
  <2>7. TypeOK'
    BY <2>1, <2>4, <2>6 DEF IInv, TypeOK, RunShown
  <2>8. NoPage' /\ Alive'
    BY <2>1, <2>2, <2>6 DEF EvalPageAssumption, NoPage, Alive, Shown
  <2>9. QED
    BY <2>7, <2>8 DEF IInv
<1>2. CASE LoadEnds
  <2>1. TypeOK'
    BY <1>2 DEF LoadEnds, IInv, TypeOK
  <2>2. NoPage' /\ Alive'
    BY <1>2 DEF LoadEnds, IInv, NoPage, Alive, Shown
  <2>3. QED
    BY <2>1, <2>2 DEF IInv
<1>3. CASE LoadFails
  <2>1. TypeOK'
    BY <1>3 DEF LoadFails, IInv, TypeOK
  <2>2. NoPage' /\ Alive'
    BY <1>3 DEF LoadFails, IInv, NoPage, Alive, Shown
  <2>3. QED
    BY <2>1, <2>2 DEF IInv
<1>4. QED
  BY <1>1, <1>2, <1>3 DEF LoadSteps

\* A step that renders the page of i anew, whatever else it does.
LEMMA RenderStep ==
    ASSUME EvalPageAssumption, IInv, NEW i \in Runs, NEW again \in BOOLEAN,
           Render(polls, timer, run, i, again),
           UNCHANGED error,
           status' \in [Runs -> Status], typed' \in BOOLEAN, creating' \in BOOLEAN,
           clicks' \in 0..MaxClicks,
           load' \in [of : Runs, step : {"run", "rest"}, status : Status] \cup {None}
    PROVE  IInv'
<1>1. /\ polls \in [Polls -> Poll] /\ timer \in Polls \cup {None} /\ run \in RunShown
      /\ error \in BOOLEAN
  BY DEF IInv, TypeOK, RunShown
<1>2. ~error /\ i = id /\ Active(Shown(run)) => \E p \in Polls : GoesOn(polls[p])
  BY EvalPageAssumption DEF EvalPageAssumption, IInv, Alive
<1>3. /\ run' = run /\ id' = i
      /\ polls' \in [Polls -> Poll] /\ timer' \in Polls \cup {None}
      /\ ~error /\ Active(Shown(run)) => \E p \in Polls : GoesOn(polls'[p])
  BY <1>1, <1>2, RenderKeeps
<1>4. TypeOK'
  BY <1>1, <1>3 DEF TypeOK, RunShown
<1>5. NoPage' /\ Alive'
  BY <1>3 DEF EvalPageAssumption, NoPage, Alive, Shown
<1>6. QED
  BY <1>4, <1>5 DEF IInv

\* The router shows the page of a run, in the same component or a new one.
LEMMA GoToInv ==
    ASSUME EvalPageAssumption, IInv, NEW r \in Runs, GoTo(r),
           status' \in [Runs -> Status], creating' \in BOOLEAN, clicks' \in 0..MaxClicks
    PROVE  IInv'
<1>1. r # id /\ load' \in [of : Runs, step : {"run", "rest"}, status : Status]
  BY DEF GoTo
<1>2. CASE id = None
  <2>1. /\ id' = r /\ run' = None /\ error' = FALSE
        /\ typed' = TRUE /\ timer' = None /\ polls' = polls
    BY <1>2 DEF GoTo
  <2>2. TypeOK'
    BY <1>1, <2>1 DEF IInv, TypeOK
  <2>3. NoPage' /\ Alive'
    BY <2>1 DEF EvalPageAssumption, NoPage, Alive, Shown, Active
  <2>4. QED
    BY <2>2, <2>3 DEF IInv
<1>3. CASE id # None
  <2>1. Render(polls, timer, run, r, FALSE) /\ UNCHANGED <<error, typed>>
    BY <1>3 DEF GoTo
  <2>2. typed' \in BOOLEAN
    BY <2>1 DEF IInv, TypeOK
  <2>3. QED
    BY <1>1, <2>1, <2>2, RenderStep
<1>4. QED
  BY <1>2, <1>3

\* Nothing is filtered where there is no page.
LEMMA FilterInv ==
    ASSUME EvalPageAssumption, IInv,
           ApplyFilter \/ ClearFilter \/ Debounced
    PROVE  IInv'
<1>1. id \in Runs
  BY DEF ApplyFilter, ClearFilter, Debounced, Ready, IInv, TypeOK, NoPage
<1>2. /\ Render(polls, timer, run, id, TRUE)
      /\ UNCHANGED <<status, error, load, creating>>
  BY <1>1 DEF ApplyFilter, ClearFilter, Debounced, Refilter
<1>3. Render(polls, timer, run, id, TRUE)
  BY <1>2
<1>4. typed' \in BOOLEAN
  BY DEF ApplyFilter, ClearFilter, Debounced, IInv, TypeOK
<1>5. clicks' \in 0..MaxClicks
  <2>1. clicks' = clicks \/ Click
    BY DEF ApplyFilter, ClearFilter, Debounced
  <2>2. QED
    BY <2>1, Clicks
<1>6. /\ status' \in [Runs -> Status] /\ creating' \in BOOLEAN /\ error' = error
      /\ load' \in [of : Runs, step : {"run", "rest"}, status : Status] \cup {None}
  BY <1>2 DEF IInv, TypeOK
<1>7. QED
  BY <1>1, <1>3, <1>4, <1>5, <1>6, RenderStep

\* Leaving a run ends the interest in its polls.
LEMMA LeaveInv ==
    ASSUME EvalPageAssumption, IInv, Leave
    PROVE  IInv'
<1> DEFINE kept == IF Active(Shown(run)) /\ timer # None
                   THEN [polls EXCEPT ![timer] = Off] ELSE polls
<1>1. kept \in [Polls -> Poll]
  BY Chains DEF IInv, TypeOK
<1>2. /\ polls' = [p \in Polls |-> [kept[p] EXCEPT !.mine = FALSE]]
      /\ id' = None /\ run' = None /\ error' = FALSE /\ load' = None
      /\ timer' = None /\ typed' = FALSE
      /\ UNCHANGED <<status, creating>>
      /\ clicks' \in 0..MaxClicks
  BY DEF Leave, Click, EvalPageAssumption, IInv, TypeOK
<1> HIDE DEF kept
<1>3. polls' \in [Polls -> Poll] /\ \A p \in Polls : ~polls'[p].mine
  BY <1>1, <1>2 DEF Poll
<1>4. TypeOK'
  BY <1>2, <1>3 DEF IInv, TypeOK
<1>5. NoPage' /\ Alive'
  BY <1>2, <1>3 DEF NoPage, Alive
<1>6. QED
  BY <1>4, <1>5 DEF IInv

\* The steps that leave the page as it is.
LEMMA OtherInv ==
    ASSUME EvalPageAssumption, IInv,
           \/ Type \/ SubmitForm \/ CreateFails \/ Stop
           \/ \E r \in Runs : Advances(r)
    PROVE  IInv'
<1>1. UNCHANGED <<id, run, error, load, polls, timer>>
  BY DEF Type, SubmitForm, CreateFails, Stop, Advances
<1>2. clicks' \in 0..MaxClicks
  <2>1. clicks' = clicks \/ Click
    BY DEF Type, SubmitForm, CreateFails, Stop, Advances
  <2>2. QED
    BY <2>1, Clicks
<1>3. typed' \in BOOLEAN /\ (id = None => ~typed')
  <2>1. CASE Type
    BY <2>1 DEF Type, Ready
  <2>2. CASE ~Type
    <3>1. typed' = typed
      BY <2>2 DEF SubmitForm, CreateFails, Stop, Advances
    <3>2. QED
      BY <3>1 DEF IInv, TypeOK, NoPage
  <2>3. QED
    BY <2>1, <2>2
<1>7. creating' \in BOOLEAN
  BY DEF Type, SubmitForm, CreateFails, Stop, Advances, IInv, TypeOK
<1>4. status' \in [Runs -> Status]
  <2>1. \/ status' = status
        \/ \E r \in Runs : status' = [status EXCEPT ![r] = "ended"]
        \/ \E r \in Runs : status' = [status EXCEPT ![r] = "running"]
        \/ Stop
    BY DEF Type, SubmitForm, CreateFails, Advances
  <2>2. CASE Stop
    BY <2>2 DEF Stop, IInv, TypeOK, Status
  <2>3. QED
    BY <2>1, <2>2 DEF IInv, TypeOK, Status
<1>5. TypeOK'
  BY <1>1, <1>2, <1>3, <1>4, <1>7 DEF IInv, TypeOK
<1>6. NoPage' /\ Alive'
  BY <1>1, <1>3 DEF IInv, NoPage, Alive, Shown
<1>8. QED
  BY <1>5, <1>6 DEF IInv

\* The invariant is inductive.
LEMMA NextInv ==
    ASSUME EvalPageAssumption, IInv, [Next]_vars
    PROVE  IInv'
<1>1. CASE \E p \in Polls : PollSteps(p)
  BY <1>1, FiresInv, RunArrivesInv, RunLostInv, RowsArriveInv DEF PollSteps
<1>2. CASE \E r \in Runs : Open(r)
  <2>1. PICK r \in Runs : Open(r)
    BY <1>2
  <2>2. GoTo(r) /\ UNCHANGED <<status, creating>> /\ Click
    BY <2>1 DEF Open
  <2>3. /\ status' \in [Runs -> Status] /\ creating' \in BOOLEAN
        /\ clicks' \in 0..MaxClicks
    BY <2>2 DEF EvalPageAssumption, Click, IInv, TypeOK
  <2>4. QED
    BY <2>2, <2>3, GoToInv
<1>3. CASE \E r \in Runs : Created(r)
  <2>1. PICK r \in Runs : Created(r)
    BY <1>3
  <2>2. GoTo(r) /\ creating' = FALSE /\ clicks' = clicks
        /\ status' = [status EXCEPT ![r] = "pending"]
    BY <2>1 DEF Created
  <2>3. /\ status' \in [Runs -> Status] /\ creating' \in BOOLEAN
        /\ clicks' \in 0..MaxClicks
    BY <2>2 DEF IInv, TypeOK, Status
  <2>4. QED
    BY <2>2, <2>3, GoToInv
<1>4. CASE UNCHANGED vars
  <2>1. TypeOK'
    BY <1>4 DEF vars, IInv, TypeOK
  <2>2. NoPage' /\ Alive'
    BY <1>4 DEF vars, IInv, NoPage, Alive, Shown
  <2>3. QED
    BY <2>1, <2>2 DEF IInv
<1>5. CASE Repeat \/ NewEval \/ RunEval
  BY <1>5, OtherInv DEF Repeat, NewEval, RunEval
<1>6. QED
  BY <1>1, <1>2, <1>3, <1>4, <1>5, LoadInv, FilterInv, LeaveInv, OtherInv DEF Next

\* The chains, the page and what it has fetched keep to their types and to the
\* invariant above.
THEOREM Invariance == Spec => []IInv
<1>1. Init => IInv
  BY EvalPageAssumption, InitInv
<1>2. IInv /\ [Next]_vars => IInv'
  BY EvalPageAssumption, NextInv
<1>3. QED
  BY <1>1, <1>2, PTL DEF Spec

\* Every variable of the page keeps to its type (EvalDetail.tsx:308-321).
THEOREM TypeCorrect == Spec => []TypeOK
<1>1. IInv => TypeOK
  BY DEF IInv
<1>2. QED
  BY <1>1, Invariance, PTL

\* A page that says its run is under way has a poll due or in flight, whatever
\* timers were cleared and answers came late (EvalDetail.tsx:358-376).
THEOREM PollAliveHolds == Spec => []PollAlive
<1>1. IInv => PollAlive
  BY DEF IInv, Alive, PollAlive, GoesOn, Polling
<1>2. QED
  BY <1>1, Invariance, PTL

=============================================================================

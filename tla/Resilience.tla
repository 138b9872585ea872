---------------------------- MODULE Resilience ----------------------------
(***************************************************************************)
(* internal/llm/resilience.go: the semaphore and the circuit breaker that  *)
(* every LLM adapter embeds, driven the way the adapters' Complete drives  *)
(* it: Acquire (breaker check, then a slot or the end of the caller's      *)
(* context), the provider call, RecordSuccess or RecordFailure, Release.   *)
(*                                                                         *)
(* Time is counted in ticks and only as far as the code can tell it apart: *)
(* openFor saturates at Cooldown.  consecutiveFailures saturates at        *)
(* Threshold, the only value it is ever compared with.                     *)
(***************************************************************************)
EXTENDS Integers, Sequences, FiniteSets

CONSTANTS
    Callers,         \* goroutines that call Complete
    MaxConcurrency,  \* capacity of the semaphore channel
    Threshold,       \* cbThreshold
    Cooldown         \* cbCooldown, in ticks

ASSUME ResilienceAssumption ==
    /\ IsFiniteSet(Callers)
    /\ MaxConcurrency \in Nat \ {0}
    /\ Threshold \in Nat \ {0}
    /\ Cooldown \in Nat \ {0}

VARIABLES
    pc,         \* pc[c]: where caller c is in Complete
    cancelled,  \* callers whose context is done
    semaphore,  \* elements in the semaphore channel
    failures,   \* consecutiveFailures
    openFor,    \* time since cbOpenedAt, or Zero
    providerUp, \* does the provider answer well-formed 200s?
    outcomes,   \* history: the last Threshold recorded outcomes
    probeFor,   \* history: time since a caller was let through a tripped
                \* circuit, or Zero if none since the circuit last closed
    probes      \* history: those callers that have not finished

breaker == <<failures, openFor, outcomes>>
probing == <<probeFor, probes>>
vars == <<pc, cancelled, semaphore, failures, openFor, providerUp,
          outcomes, probeFor, probes>>

Zero == -1      \* the zero time.Time

Locations ==
    {"idle", "waiting", "calling", "recorded", "refused"}

Contract == INSTANCE CircuitBreaker WITH
    inflight <- {c \in Callers : pc[c] \in {"calling", "recorded"}},
    tripped  <- openFor # Zero

Goto(c, l) == pc' = [pc EXCEPT ![c] = l]

Init ==
    /\ pc = [c \in Callers |-> "idle"]
    /\ cancelled = {}
    /\ semaphore = 0
    /\ failures = 0
    /\ openFor = Zero
    /\ providerUp = TRUE
    /\ outcomes = <<>>
    /\ probeFor = Zero
    /\ probes = {}

---------------------------------------------------------------------------
(* circuitBreakerOpen: what it answers, and the timestamp it leaves.       *)

CoolingDown == failures >= Threshold /\ openFor < Cooldown
HalfOpens == failures >= Threshold /\ openFor >= Cooldown

\* Mistake: the cooldown is not restarted when a probe is let through.
OpenedAfterCheckStale == openFor

OpenedAfterCheck == IF HalfOpens THEN 0 ELSE openFor

\* Acquire, first half: the breaker lets the caller through.
Admit(c) ==
    /\ pc[c] = "idle"
    /\ ~CoolingDown
    /\ openFor' = OpenedAfterCheck
    /\ Goto(c, "waiting")
    /\ IF failures >= Threshold
       THEN probeFor' = 0 /\ probes' = probes \cup {c}
       ELSE UNCHANGED probing
    /\ UNCHANGED <<cancelled, semaphore, failures, providerUp, outcomes>>

\* Mistake: a refused caller restarts the cooldown.
RefuseRestarts(c) ==
    /\ pc[c] = "idle"
    /\ CoolingDown
    /\ Goto(c, "refused")
    /\ openFor' = 0
    /\ UNCHANGED <<cancelled, semaphore, failures, outcomes, providerUp, probing>>

\* Acquire, first half: the breaker is open and Complete returns its error.
Refuse(c) ==
    /\ pc[c] = "idle"
    /\ CoolingDown
    /\ Goto(c, "refused")
    /\ UNCHANGED <<cancelled, semaphore, breaker, providerUp, probing>>

\* Acquire, second half: the send on the semaphore channel succeeds.  The
\* breaker is not looked at again.
TakeSlot(c) ==
    /\ pc[c] = "waiting"
    /\ semaphore < MaxConcurrency
    /\ semaphore' = semaphore + 1
    /\ Goto(c, "calling")
    /\ UNCHANGED <<cancelled, breaker, providerUp, probing>>

\* Acquire, second half: the context ends first; nothing is recorded.
GiveUp(c) ==
    /\ pc[c] = "waiting"
    /\ c \in cancelled
    /\ Goto(c, "refused")
    /\ probes' = probes \ {c}
    /\ UNCHANGED <<cancelled, semaphore, breaker, providerUp, probeFor>>

---------------------------------------------------------------------------
(* The body of Complete between Acquire and the deferred Release.          *)

Remember(o) == Contract!Remember(outcomes, o)

\* Mistake: RecordSuccess clears the counter and leaves the timestamp.
SucceedKeepsTime(c) ==
    /\ pc[c] = "calling"
    /\ providerUp
    /\ failures' = 0
    /\ outcomes' = Remember("success")
    /\ probeFor' = Zero
    /\ probes' = {}
    /\ Goto(c, "recorded")
    /\ UNCHANGED <<cancelled, semaphore, openFor, providerUp>>

\* A 200 that parses: RecordSuccess.
Succeed(c) ==
    /\ pc[c] = "calling"
    /\ providerUp
    /\ failures' = 0
    /\ openFor' = Zero
    /\ outcomes' = Remember("success")
    /\ probeFor' = Zero
    /\ probes' = {}
    /\ Goto(c, "recorded")
    /\ UNCHANGED <<cancelled, semaphore, providerUp>>

\* Mistake: the threshold is compared with the count before this failure.
FailLate(c) ==
    /\ pc[c] = "calling"
    /\ ~providerUp \/ c \in cancelled
    /\ failures' = IF failures < Threshold THEN failures + 1 ELSE failures
    /\ openFor' = IF failures >= Threshold /\ openFor = Zero THEN 0 ELSE openFor
    /\ outcomes' = Remember("failure")
    /\ probes' = probes \ {c}
    /\ Goto(c, "recorded")
    /\ UNCHANGED <<cancelled, semaphore, providerUp, probeFor>>

\* A transport error, the call timeout, the end of the caller's context, a
\* status other than 200, a body that does not parse: RecordFailure.
Fail(c) ==
    /\ pc[c] = "calling"
    /\ ~providerUp \/ c \in cancelled
    /\ failures' = IF failures < Threshold THEN failures + 1 ELSE failures
    /\ openFor' = IF failures' >= Threshold /\ openFor = Zero
                  THEN 0 ELSE openFor
    /\ outcomes' = Remember("failure")
    /\ probes' = probes \ {c}
    /\ Goto(c, "recorded")
    /\ UNCHANGED <<cancelled, semaphore, providerUp, probeFor>>

\* Mistake: the early return frees the slot that the deferred Release frees.
AbortReleases(c) ==
    /\ pc[c] = "calling"
    /\ semaphore' = semaphore - 1
    /\ Goto(c, "recorded")
    /\ probes' = probes \ {c}
    /\ UNCHANGED <<cancelled, breaker, providerUp, probeFor>>

\* The request cannot be built or marshalled: an early return that records
\* nothing.
AbortUnsent(c) ==
    /\ pc[c] = "calling"
    /\ Goto(c, "recorded")
    /\ probes' = probes \ {c}
    /\ UNCHANGED <<cancelled, semaphore, breaker, providerUp, probeFor>>

\* Mistake: a call whose context ended returns without its Release.
ReleaseLeaks(c) ==
    /\ pc[c] = "recorded"
    /\ semaphore' = IF c \in cancelled THEN semaphore ELSE semaphore - 1
    /\ Goto(c, "idle")
    /\ cancelled' = cancelled \ {c}
    /\ UNCHANGED <<breaker, providerUp, probing>>

\* The deferred Release, and the return of Complete.
Release(c) ==
    /\ pc[c] = "recorded"
    /\ semaphore' = semaphore - 1
    /\ Goto(c, "idle")
    /\ cancelled' = cancelled \ {c}
    /\ UNCHANGED <<breaker, providerUp, probing>>

\* Complete returned an error from Acquire; the goroutine may call again.
Return(c) ==
    /\ pc[c] = "refused"
    /\ Goto(c, "idle")
    /\ cancelled' = cancelled \ {c}
    /\ UNCHANGED <<semaphore, breaker, providerUp, probing>>

---------------------------------------------------------------------------
(* The environment: time, contexts, the provider.                          *)

Older(t) == IF t \in 0 .. (Cooldown - 1) THEN t + 1 ELSE t

Tick ==
    /\ <<Older(openFor), Older(probeFor)>> # <<openFor, probeFor>>
    /\ openFor' = Older(openFor)
    /\ probeFor' = Older(probeFor)
    /\ UNCHANGED <<pc, cancelled, semaphore, failures, providerUp, outcomes,
                   probes>>

Cancel(c) ==
    /\ pc[c] \in {"waiting", "calling"}
    /\ c \notin cancelled
    /\ cancelled' = cancelled \cup {c}
    /\ UNCHANGED <<pc, semaphore, breaker, providerUp, probing>>

Flip ==
    /\ providerUp' = ~providerUp
    /\ UNCHANGED <<pc, cancelled, semaphore, breaker, probing>>

---------------------------------------------------------------------------

Acquire(c) == Admit(c) \/ Refuse(c) \/ TakeSlot(c) \/ GiveUp(c)
Finish(c) == Succeed(c) \/ Fail(c) \/ AbortUnsent(c)

Next ==
    \/ \E c \in Callers :
          Acquire(c) \/ Finish(c) \/ Release(c) \/ Return(c) \/ Cancel(c)
    \/ Tick
    \/ Flip

Spec == Init /\ [][Next]_vars

\* A goroutine that can run runs; callers keep coming; the clock advances;
\* senders blocked on a channel are served in order, so a caller that waits
\* for a slot is not overtaken for ever; a call returns within its timeout.
Fairness ==
    /\ WF_vars(Tick)
    /\ \A c \in Callers :
          /\ WF_vars(Admit(c) \/ Refuse(c))
          /\ SF_vars(TakeSlot(c))
          /\ WF_vars(Finish(c))
          /\ WF_vars(Release(c) \/ Return(c))

FairSpec == Spec /\ Fairness
---------------------------------------------------------------------------
(* Properties                                                              *)

TypeOK ==
    /\ pc \in [Callers -> Locations]
    /\ cancelled \subseteq Callers
    /\ semaphore \in 0..MaxConcurrency
    /\ failures \in 0..Threshold
    /\ openFor \in Zero..Cooldown
    /\ providerUp \in BOOLEAN
    /\ outcomes \in Seq({"success", "failure"})
    /\ probeFor \in Zero..Cooldown
    /\ probes \subseteq Callers

\* No slot is leaked or freed twice, on any path out of Complete: the
\* channel holds exactly one element for each caller between its send and
\* its deferred Release.
SlotsAccounted ==
    semaphore = Cardinality({c \in Callers : pc[c] \in {"calling", "recorded"}})

\* The counter and the timestamp agree: circuitBreakerOpen subtracts
\* cbOpenedAt from now only when RecordFailure has set it, and RecordSuccess
\* never leaves a timestamp behind that would keep a later trip from
\* starting its own cooldown.
TrippedTogether ==
    failures >= Threshold <=> openFor # Zero

\* While the circuit has not closed in between, two callers are let through
\* a tripped circuit at least Cooldown apart, whoever they are and however
\* the earlier one ended.
ProbeSpacing ==
    [][ \A c \in Callers :
          pc[c] = "idle" /\ pc'[c] = "waiting" /\ openFor # Zero
            => probeFor = Zero \/ probeFor >= Cooldown ]_vars

\* The comment in circuitBreakerOpen: concurrent callers see the circuit as
\* open until the probe completes.
SingleProbe == Cardinality(probes) <= 1

\* Every call of Acquire returns: a waiting caller gets its slot or gives up.
AcquireReturns ==
    \A c \in Callers : pc[c] = "waiting" ~> pc[c] # "waiting"

\* The breaker never wedges: once the provider stays up, contexts stay alive
\* and some of the calls made are well formed, the circuit closes for good.
Recovers ==
    (/\ <>[](providerUp /\ cancelled = {})
     /\ SF_vars(\E c \in Callers : Succeed(c)))
       => <>[](openFor = Zero)

\* Refinement: the counter, the timestamp and the channel implement the
\* contract.
ImplementsContract == Contract!Spec
=============================================================================

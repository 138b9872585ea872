-------------------------- MODULE UpstreamProofs --------------------------
(***************************************************************************)
(* Proofs about what a request meets on its way upstream: Resilience (the  *)
(* circuit breaker and the slots in front of the judge), for any callers   *)
(* and limits, and Tunnel with WebSocketRelay (one CONNECT tunnel, the     *)
(* requests in it and the socket that may end it), for any number of       *)
(* requests and any deadlines.                                             *)
(***************************************************************************)
EXTENDS Resilience, Tunnel, FiniteSetTheorems, TLAPS

---------------------------------------------------------------------------
(* Proofs about Resilience, for every set of callers, semaphore capacity,  *)
(* threshold and cooldown.                                                 *)

\* Callers between their send on the semaphore channel and their Release.
Holders == {c \in Callers : pc[c] \in {"calling", "recorded"}}

\* The timestamp is never older than the last probe: circuitBreakerOpen
\* restarts it with every caller it lets through a tripped circuit.
ProbeRestarts ==
    probeFor # Zero => openFor # Zero /\ openFor <= probeFor

\* The counter is the length of the failing end of the history.
CounterIsStreak ==
    /\ Len(outcomes) <= Threshold
    /\ failures <= Len(outcomes)
    /\ \A i \in 1..Len(outcomes) :
          i > Len(outcomes) - failures => outcomes[i] = "failure"
    /\ failures < Len(outcomes)
          => outcomes[Len(outcomes) - failures] = "success"

IInv ==
    /\ TypeOK
    /\ SlotsAccounted
    /\ TrippedTogether
    /\ ProbeRestarts
    /\ CounterIsStreak

USE ResilienceAssumption DEF Zero, Locations, breaker, probing

---------------------------------------------------------------------------
(* What the operators compute.                                             *)

\* Remember appends, and keeps at most the last Threshold outcomes.
LEMMA RememberShifts ==
    ASSUME outcomes \in Seq({"success", "failure"}),
           Len(outcomes) <= Threshold,
           NEW o \in {"success", "failure"}
    PROVE  LET m == Remember(o) IN
           /\ m \in Seq({"success", "failure"})
           /\ Len(outcomes) < Threshold =>
                 /\ Len(m) = Len(outcomes) + 1
                 /\ \A i \in 1..Len(outcomes) : m[i] = outcomes[i]
           /\ Len(outcomes) = Threshold =>
                 /\ Len(m) = Threshold
                 /\ \A i \in 1..(Threshold - 1) : m[i] = outcomes[i + 1]
           /\ m[Len(m)] = o
<1>1. CASE Len(outcomes) < Threshold
  BY <1>1 DEF Remember, Contract!Remember
<1>2. CASE Len(outcomes) = Threshold
  <2> DEFINE t == Tail(outcomes)
  <2>1. /\ t \in Seq({"success", "failure"})
        /\ Len(t) = Threshold - 1
        /\ \A i \in 1..(Threshold - 1) : t[i] = outcomes[i + 1]
    BY <1>2
  <2>2. Remember(o) = Append(t, o)
    BY <1>2 DEF Remember, Contract!Remember
  <2> HIDE DEF t
  <2>3. QED
    BY <1>2, <2>1, <2>2
<1>3. QED
  BY <1>1, <1>2

\* One caller more, one caller fewer among the holders.
LEMMA HoldersCount ==
    ASSUME NEW S \in SUBSET Callers, NEW c \in Callers
    PROVE  /\ IsFiniteSet(S)
           /\ Cardinality(S) \in Nat
           /\ c \notin S => Cardinality(S \cup {c}) = Cardinality(S) + 1
           /\ c \in S => Cardinality(S \ {c}) = Cardinality(S) - 1
<1>1. IsFiniteSet(S)
  BY FS_Subset
<1>2. QED
  BY <1>1, FS_CardinalityType, FS_AddElement, FS_RemoveElement

---------------------------------------------------------------------------
(* The inductive invariant.                                                *)

\* The breaker starts untripped, with a free channel: IInv holds.
LEMMA InitInv == Init => IInv
<1> SUFFICES ASSUME Init PROVE IInv
  OBVIOUS
<1>1. {c \in Callers : pc[c] \in {"calling", "recorded"}} = {}
  BY DEF Init
<1>2. SlotsAccounted
  BY <1>1, FS_EmptySet DEF Init, SlotsAccounted
<1>3. QED
  BY <1>2 DEF Init, IInv, TypeOK, TrippedTogether, ProbeRestarts, CounterIsStreak

\* What moving one caller does to the set of holders.
LEMMA HoldersStep ==
    ASSUME TypeOK, SlotsAccounted, NEW c \in Callers, NEW l \in Locations, Goto(c, l)
    PROVE  /\ pc' \in [Callers -> Locations]
           /\ Holders' = IF l \in {"calling", "recorded"} THEN Holders \cup {c}
                         ELSE Holders \ {c}
           /\ Cardinality(Holders') =
                 IF c \notin Holders /\ l \in {"calling", "recorded"} THEN semaphore + 1
                 ELSE IF c \in Holders /\ l \notin {"calling", "recorded"}
                 THEN semaphore - 1 ELSE semaphore
           /\ c \in Holders => semaphore > 0
<1>1. /\ pc' \in [Callers -> Locations]
      /\ Holders' = IF l \in {"calling", "recorded"} THEN Holders \cup {c}
                    ELSE Holders \ {c}
  BY DEF TypeOK, Goto, Holders
<1>2. semaphore = Cardinality(Holders) /\ Holders \subseteq Callers
  BY DEF SlotsAccounted, Holders
<1>3. c \in Holders => Holders \cup {c} = Holders
  OBVIOUS
<1>4. c \notin Holders => Holders \ {c} = Holders
  OBVIOUS
<1>5. /\ c \notin Holders => Cardinality(Holders \cup {c}) = semaphore + 1
      /\ c \in Holders => Cardinality(Holders \ {c}) = semaphore - 1
      /\ Cardinality(Holders \ {c}) \in Nat
  BY <1>2, HoldersCount
<1>6. QED
  <2>1. CASE c \in Holders
    <3>1. semaphore > 0
      BY <1>5, <2>1 DEF TypeOK
    <3>2. l \in {"calling", "recorded"} => Cardinality(Holders') = semaphore
      BY <1>1, <1>2, <1>3, <2>1
    <3>3. l \notin {"calling", "recorded"} => Cardinality(Holders') = semaphore - 1
      BY <1>1, <1>5, <2>1
    <3>4. QED
      BY <1>1, <2>1, <3>1, <3>2, <3>3
  <2>2. CASE c \notin Holders
    BY <1>1, <1>2, <1>4, <1>5, <2>2 DEF TypeOK
  <2>3. QED
    BY <2>1, <2>2

\* An outcome extends or ends the failing streak that the counter measures.
LEMMA StreakStep ==
    ASSUME TypeOK, CounterIsStreak, NEW o \in {"success", "failure"},
           outcomes' = Remember(o),
           failures' = IF o = "success" THEN 0
                       ELSE IF failures < Threshold THEN failures + 1 ELSE failures
    PROVE  CounterIsStreak' /\ outcomes' \in Seq({"success", "failure"})
<1>1. /\ outcomes \in Seq({"success", "failure"})
      /\ Len(outcomes) <= Threshold
      /\ failures \in 0..Threshold
  BY DEF TypeOK, CounterIsStreak
<1> DEFINE m == Remember(o)
<1>2. /\ m \in Seq({"success", "failure"})
      /\ Len(outcomes) < Threshold =>
            /\ Len(m) = Len(outcomes) + 1
            /\ \A i \in 1..Len(outcomes) : m[i] = outcomes[i]
      /\ Len(outcomes) = Threshold =>
            /\ Len(m) = Threshold
            /\ \A i \in 1..(Threshold - 1) : m[i] = outcomes[i + 1]
      /\ m[Len(m)] = o
  BY <1>1, RememberShifts
<1> HIDE DEF m
<1>3. outcomes' = m
  BY DEF m
<1>4. CASE Len(outcomes) < Threshold
  BY <1>1, <1>2, <1>3, <1>4 DEF CounterIsStreak
<1>5. CASE Len(outcomes) = Threshold
  <2>1. CASE o = "success"
    BY <1>1, <1>2, <1>3, <1>5, <2>1 DEF CounterIsStreak
  <2>2. CASE o = "failure"
    <3>1. CASE failures < Threshold
      <4>1. failures' = failures + 1 /\ failures < Len(outcomes)
        BY <1>1, <1>5, <2>2, <3>1
      <4>2. \A i \in 1..Threshold : i > Threshold - failures' => m[i] = "failure"
        BY <1>1, <1>2, <1>5, <2>2, <4>1 DEF CounterIsStreak
      <4>3. failures' < Threshold => m[Threshold - failures'] = "success"
        <5>1. SUFFICES ASSUME failures' < Threshold
                       PROVE  m[Threshold - failures'] = "success"
          OBVIOUS
        <5>2. /\ Threshold - failures' \in 1..(Threshold - 1)
              /\ Threshold - failures' + 1 = Threshold - failures
          BY <1>1, <4>1, <5>1
        <5>3. QED
          BY <1>1, <1>2, <1>5, <4>1, <5>2 DEF CounterIsStreak
      <4>4. QED
        BY <1>1, <1>2, <1>3, <1>5, <4>1, <4>2, <4>3 DEF CounterIsStreak
    <3>2. CASE failures = Threshold
      BY <1>1, <1>2, <1>3, <1>5, <2>2, <3>2 DEF CounterIsStreak
    <3>3. QED
      BY <1>1, <3>1, <3>2
  <2>3. QED
    BY <2>1, <2>2
<1>6. QED
  BY <1>1, <1>4, <1>5

\* Every step of Acquire, the calls' ends, Release and the clock preserves IInv.
LEMMA NextInv == IInv /\ [Next]_vars => IInv'
<1> SUFFICES ASSUME IInv, [Next]_vars PROVE IInv'
  OBVIOUS
<1> USE DEF IInv
<1>1. ASSUME NEW c \in Callers, Admit(c) PROVE IInv'
  <2>1. SlotsAccounted'
    BY <1>1, HoldersStep DEF Admit, SlotsAccounted, Holders
  <2>2. QED
    BY <1>1, <2>1 DEF Admit, Goto, CoolingDown, OpenedAfterCheck, HalfOpens,
       TypeOK, TrippedTogether, ProbeRestarts, CounterIsStreak
<1>2. ASSUME NEW c \in Callers, Refuse(c) PROVE IInv'
  <2>1. SlotsAccounted'
    BY <1>2, HoldersStep DEF Refuse, SlotsAccounted, Holders
  <2>2. QED
    BY <1>2, <2>1 DEF Refuse, Goto, TypeOK, TrippedTogether, ProbeRestarts,
       CounterIsStreak
<1>3. ASSUME NEW c \in Callers, TakeSlot(c) PROVE IInv'
  <2>1. SlotsAccounted'
    BY <1>3, HoldersStep DEF TakeSlot, SlotsAccounted, Holders
  <2>2. QED
    BY <1>3, <2>1 DEF TakeSlot, Goto, TypeOK, TrippedTogether, ProbeRestarts,
       CounterIsStreak
<1>4. ASSUME NEW c \in Callers, GiveUp(c) PROVE IInv'
  <2>1. SlotsAccounted'
    BY <1>4, HoldersStep DEF GiveUp, SlotsAccounted, Holders
  <2>2. QED
    BY <1>4, <2>1 DEF GiveUp, Goto, TypeOK, TrippedTogether, ProbeRestarts,
       CounterIsStreak
<1>5. ASSUME NEW c \in Callers, Succeed(c) PROVE IInv'
  <2>1. SlotsAccounted'
    BY <1>5, HoldersStep DEF Succeed, SlotsAccounted, Holders
  <2>2. CounterIsStreak' /\ outcomes' \in Seq({"success", "failure"})
    BY <1>5, StreakStep DEF Succeed
  <2>3. QED
    BY <1>5, <2>1, <2>2 DEF Succeed, Goto, TypeOK, TrippedTogether, ProbeRestarts
<1>6. ASSUME NEW c \in Callers, Fail(c) PROVE IInv'
  <2>1. SlotsAccounted'
    BY <1>6, HoldersStep DEF Fail, SlotsAccounted, Holders
  <2>2. CounterIsStreak' /\ outcomes' \in Seq({"success", "failure"})
    BY <1>6, StreakStep DEF Fail
  <2>3. QED
    BY <1>6, <2>1, <2>2 DEF Fail, Goto, TypeOK, TrippedTogether, ProbeRestarts
<1>7. ASSUME NEW c \in Callers, AbortUnsent(c) PROVE IInv'
  <2>1. SlotsAccounted'
    BY <1>7, HoldersStep DEF AbortUnsent, SlotsAccounted, Holders
  <2>2. QED
    BY <1>7, <2>1 DEF AbortUnsent, Goto, TypeOK, TrippedTogether, ProbeRestarts,
       CounterIsStreak
<1>8. ASSUME NEW c \in Callers, Release(c) PROVE IInv'
  <2>1. SlotsAccounted' /\ semaphore > 0
    BY <1>8, HoldersStep DEF Release, SlotsAccounted, Holders
  <2>2. QED
    BY <1>8, <2>1 DEF Release, Goto, TypeOK, TrippedTogether, ProbeRestarts,
       CounterIsStreak
<1>9. ASSUME NEW c \in Callers, Return(c) PROVE IInv'
  <2>1. SlotsAccounted'
    BY <1>9, HoldersStep DEF Return, SlotsAccounted, Holders
  <2>2. QED
    BY <1>9, <2>1 DEF Return, Goto, TypeOK, TrippedTogether, ProbeRestarts,
       CounterIsStreak
<1>10. ASSUME NEW c \in Callers, Cancel(c) PROVE IInv'
  BY <1>10 DEF Cancel, TypeOK, SlotsAccounted, TrippedTogether, ProbeRestarts,
     CounterIsStreak
<1>11. CASE Tick
  BY <1>11 DEF Tick, Older, TypeOK, SlotsAccounted, TrippedTogether, ProbeRestarts,
     CounterIsStreak
<1>12. CASE Flip
  BY <1>12 DEF Flip, TypeOK, SlotsAccounted, TrippedTogether, ProbeRestarts,
     CounterIsStreak
<1>13. CASE UNCHANGED vars
  BY <1>13 DEF vars, TypeOK, SlotsAccounted, TrippedTogether, ProbeRestarts,
     CounterIsStreak
<1>14. QED
  BY <1>1, <1>2, <1>3, <1>4, <1>5, <1>6, <1>7, <1>8, <1>9, <1>10, <1>11, <1>12,
     <1>13 DEF Next, Acquire, Finish

\* Every state Spec reaches satisfies the inductive invariant: the types,
\* the accounting of the semaphore channel's slots, the agreement of
\* consecutiveFailures with cbOpenedAt, and the two facts they need.
THEOREM ResilienceInvariance == Spec => []IInv
<1>1. QED
  BY InitInv, NextInv, PTL DEF Spec

\* Slots of the semaphore channel are never leaked nor freed twice.
THEOREM SlotsAreAccounted == Spec => []SlotsAccounted
<1>1. IInv => SlotsAccounted
  BY DEF IInv
<1>2. QED
  BY <1>1, ResilienceInvariance, PTL

\* consecutiveFailures has reached the threshold exactly when cbOpenedAt is set.
THEOREM CounterAgreesWithTimestamp == Spec => []TrippedTogether
<1>1. IInv => TrippedTogether
  BY DEF IInv
<1>2. QED
  BY <1>1, ResilienceInvariance, PTL

\* Two callers are let through a tripped circuit at least Cooldown apart.
THEOREM ProbesAreSpaced == Spec => ProbeSpacing
<1> DEFINE Step == \A c \in Callers :
       pc[c] = "idle" /\ pc'[c] = "waiting" /\ openFor # Zero
          => probeFor = Zero \/ probeFor >= Cooldown
<1>1. IInv /\ [Next]_vars => [Step]_vars
  <2> SUFFICES ASSUME IInv, Next, NEW c \in Callers,
                      pc[c] = "idle", pc'[c] = "waiting", openFor # Zero,
                      probeFor # Zero
               PROVE  probeFor >= Cooldown
    BY DEF vars
  <2>1. Admit(c)
    BY DEF Next, Acquire, Finish, Admit, Refuse, TakeSlot, GiveUp, Succeed, Fail,
       AbortUnsent, Release, Return, Cancel, Tick, Flip, Goto, IInv, TypeOK
  <2>2. openFor >= Cooldown
    BY <2>1 DEF Admit, CoolingDown, IInv, TypeOK, TrippedTogether
  <2>3. QED
    BY <2>2 DEF IInv, TypeOK, ProbeRestarts
<1>2. QED
  BY <1>1, ResilienceInvariance, PTL DEF Spec, ProbeSpacing

---------------------------------------------------------------------------
(* Refinement.                                                             *)

\* The circuit is tripped exactly when the whole remembered history failed.
LEMMA TrippedIsAllFailed ==
    IInv => (openFor # Zero <=> Contract!AllFailed(outcomes))
<1> SUFFICES ASSUME IInv PROVE openFor # Zero <=> Contract!AllFailed(outcomes)
  OBVIOUS
<1> USE DEF IInv, TypeOK, TrippedTogether, CounterIsStreak, Contract!AllFailed
<1>1. openFor # Zero => Contract!AllFailed(outcomes)
  OBVIOUS
<1>2. ASSUME Contract!AllFailed(outcomes) PROVE openFor # Zero
  <2>1. SUFFICES ASSUME failures < Threshold PROVE FALSE
    OBVIOUS
  <2>2. outcomes[Len(outcomes) - failures] = "success"
    BY <1>2, <2>1
  <2>3. Len(outcomes) - failures \in DOMAIN outcomes
    BY <1>2, <2>1
  <2>4. QED
    BY <1>2, <2>2, <2>3
<1>3. QED
  BY <1>1, <1>2

\* The counter, the timestamp and the semaphore channel implement the
\* contract: every step of Resilience is a step of CircuitBreaker or leaves
\* its variables alone.
THEOREM Refinement == Spec => ImplementsContract
<1> DEFINE inflight == {c \in Callers : pc[c] \in {"calling", "recorded"}}
<1>1. Init => Contract!Init
  BY DEF Init, Contract!Init
<1>a. (IInv => (openFor # Zero <=> Contract!AllFailed(outcomes)))'
  BY TrippedIsAllFailed, PTL
<1>2. IInv /\ IInv' /\ [Next]_vars => [Contract!Next]_Contract!vars
  <2> SUFFICES ASSUME IInv, IInv', [Next]_vars
               PROVE  [Contract!Next]_Contract!vars
    OBVIOUS
  <2> USE DEF Contract!vars
  <2>1. ASSUME NEW c \in Callers, TakeSlot(c) PROVE Contract!Begin(c)
    <3>1. inflight' = inflight \cup {c} /\ c \notin inflight
      BY <2>1 DEF TakeSlot, Goto, IInv, TypeOK
    <3>2. Cardinality(inflight) < MaxConcurrency
      BY <2>1 DEF TakeSlot, IInv, SlotsAccounted
    <3>3. QED
      <4>1. outcomes' = outcomes /\ openFor' = openFor
        BY <2>1 DEF TakeSlot
      <4>2. Contract!Cardinality(inflight) = Cardinality(inflight)
        BY DEF Contract!Cardinality, Cardinality, Contract!IsFiniteSet, IsFiniteSet
      <4>3. QED
        BY <3>1, <3>2, <4>1, <4>2 DEF Contract!Begin
  <2>2. ASSUME NEW c \in Callers, NEW o \in {"success", "failure"},
               c \in inflight, outcomes' = Remember(o), inflight' = inflight
        PROVE  Contract!Record(c, o)
    <3>1. (openFor # Zero)' = Contract!AllFailed(outcomes)'
      BY <1>a DEF Contract!AllFailed
    <3>2. QED
      BY <2>2, <3>1 DEF Contract!Record, Remember
  <2>3. ASSUME NEW c \in Callers, Succeed(c) PROVE Contract!Record(c, "success")
    <3>1. inflight' = inflight /\ c \in inflight
      BY <2>3 DEF Succeed, Goto, IInv, TypeOK
    <3>2. QED
      BY <2>2, <2>3, <3>1 DEF Succeed
  <2>4. ASSUME NEW c \in Callers, Fail(c) PROVE Contract!Record(c, "failure")
    <3>1. inflight' = inflight /\ c \in inflight
      BY <2>4 DEF Fail, Goto, IInv, TypeOK
    <3>2. QED
      BY <2>2, <2>4, <3>1 DEF Fail
  <2>5. ASSUME NEW c \in Callers, Release(c) PROVE Contract!End(c)
    BY <2>5 DEF Release, Goto, Contract!End, IInv, TypeOK
  <2>6. ASSUME NEW c \in Callers,
               \/ Admit(c) \/ Refuse(c) \/ GiveUp(c) \/ AbortUnsent(c)
               \/ Return(c) \/ Cancel(c)
        PROVE  UNCHANGED Contract!vars
    <3>1. inflight' = inflight /\ outcomes' = outcomes
      BY <2>6 DEF Admit, Refuse, GiveUp, AbortUnsent, Return, Cancel, Goto, IInv, TypeOK
    <3>2. (openFor # Zero) = (openFor # Zero)'
      BY <2>6 DEF Admit, Refuse, GiveUp, AbortUnsent, Return, Cancel, OpenedAfterCheck,
         HalfOpens, IInv, TypeOK, TrippedTogether
    <3>3. QED
      BY <3>1, <3>2
  <2>7. CASE Tick \/ Flip \/ UNCHANGED vars
    BY <2>7 DEF Tick, Flip, vars, Older, IInv, TypeOK
  <2>8. QED
    BY <2>1, <2>3, <2>4, <2>5, <2>6, <2>7 DEF Next, Acquire, Finish, Contract!Next
<1>3. QED
  BY <1>1, <1>2, ResilienceInvariance, PTL DEF Spec, ImplementsContract, Contract!Spec

HIDE ResilienceAssumption DEF Zero, Locations, breaker, probing

---------------------------------------------------------------------------
(* Proofs about Tunnel and the relay in it, for any number of requests and *)
(* any three timeouts: the client gets its answers in order and nothing    *)
(* after one that closes, nothing goes to another host or under a token    *)
(* that was nobody's, and a relay over which nothing is delivered ends     *)
(* while one that delivers goes on.                                        *)

USE RelayAssumption, TunnelAssumption

-----------------------------------------------------------------------------
(* The relay: how old the last delivery is against what is left of the     *)
(* deadlines.                                                              *)

\* While both directions run, a read has the deadline that the last delivery
\* set, and a write began before such a deadline was over.
BothClock ==
    relay = "both" =>
        /\ quiet < Idle + Write
        /\ \A e \in Ends : quiet + readIn[e] >= Idle
        /\ \A d \in Directions :
              /\ copy[d] = "read" => quiet + readIn[Source(d)] <= Idle
              /\ copy[d] = "write" => quiet + writeIn[d] < Idle + Write

\* The direction that is left has the drain timeout on top.
OneClock ==
    relay = "one" =>
        /\ quiet < Idle + Write + Drain
        /\ Ended # {}
        /\ \A d \in Directions :
              /\ copy[d] = "read" => quiet + readIn[Source(d)] <= Idle + Drain
              /\ copy[d] = "write" => quiet + writeIn[d] < Idle + Write + Drain

Started == Running => \A d \in Directions : copy[d] # "off"

RelayInv == RelayTypeOK /\ Started /\ BothClock /\ OneClock

\* A read that ends although its peer is there, both directions running: the
\* property BusyRelayStays of one step.
BusyStep ==
    \A d \in Directions :
        copy[d] = "read" /\ copy'[d] = "done" /\ Source(d) \notin closed
          /\ Ended = {} => quiet >= Idle

\* A step that leaves the relay's own state as it is.
LEMMA RelayStays ==
  ASSUME RelayInv, closed' \subseteq Ends, draining' = draining,
         UNCHANGED <<relay, copy, readIn, writeIn, quiet>>
  PROVE  RelayInv' /\ BusyStep
  BY DEF RelayInv, RelayTypeOK, Started, BothClock, OneClock, Running, Ended,
         BusyStep

\* What the numbers in the state of the relay are.
LEMMA RelayFacts ==
  ASSUME RelayInv
  PROVE  /\ quiet \in Nat /\ draining \in Nat /\ Longest \in Nat
         /\ \A e \in Ends : readIn[e] \in Nat
         /\ \A d \in Directions : writeIn[d] \in 0..Write /\ Source(d) \in Ends
  BY DEF RelayInv, RelayTypeOK, Longest, Directions, Source, Ends

\* Both goroutines start, with fresh deadlines.
LEMMA StartRelayInv ==
  ASSUME RelayInv, StartRelay
  PROVE  RelayInv' /\ BusyStep
<1>1. RelayTypeOK'
  BY DEF StartRelay, RelayInv, RelayTypeOK, Refreshed, Longest
<1>2. BothClock'
  BY RelayFacts DEF StartRelay, BothClock, Refreshed
<1>3. OneClock' /\ Started'
  BY DEF StartRelay, OneClock, Started
<1>4. BusyStep
  BY DEF StartRelay, BusyStep
<1>5. QED
  BY <1>1, <1>2, <1>3, <1>4 DEF RelayInv

\* A write begins before the read's deadline is over.
LEMMA ReadInv ==
  ASSUME RelayInv, NEW d \in Directions, Read(d)
  PROVE  RelayInv' /\ BusyStep
<1>1. /\ copy' \in [Directions -> {"off", "read", "write", "done"}]
      /\ writeIn' \in [Directions -> 0..Write]
      /\ \A g \in Directions \ {d} : copy'[g] = copy[g] /\ writeIn'[g] = writeIn[g]
      /\ copy[d] = "read" /\ copy'[d] = "write" /\ writeIn'[d] = Write
  BY DEF Read, RelayInv, RelayTypeOK
<1>2. UNCHANGED <<relay, readIn, closed, quiet, draining>> /\ readIn[Source(d)] > 0
  BY DEF Read
<1>3. RelayTypeOK'
  BY <1>1, <1>2 DEF RelayInv, RelayTypeOK
<1>4. Started'
  BY <1>1, <1>2 DEF RelayInv, Started, Running
<1>5. BothClock'
  BY <1>1, <1>2, RelayFacts DEF RelayInv, BothClock
<1>6. OneClock'
  <2>1. Ended' = Ended
    BY <1>1 DEF Ended
  <2>2. QED
    BY <1>1, <1>2, <2>1, RelayFacts DEF RelayInv, OneClock
<1>7. BusyStep
  BY <1>1 DEF BusyStep
<1>8. QED
  BY <1>3, <1>4, <1>5, <1>6, <1>7 DEF RelayInv

\* A delivery starts everything anew.
LEMMA DeliverInv ==
  ASSUME RelayInv, NEW d \in Directions, Deliver(d)
  PROVE  RelayInv' /\ BusyStep
<1>1. /\ copy' \in [Directions -> {"off", "read", "write", "done"}]
      /\ \A g \in Directions \ {d} : copy'[g] = copy[g]
      /\ copy[d] = "write" /\ copy'[d] = "read"
  BY DEF Deliver, RelayInv, RelayTypeOK
<1>2. /\ UNCHANGED <<relay, writeIn, closed, draining>>
      /\ quiet' = 0 /\ readIn' = [e \in Ends |-> Idle]
  BY DEF Deliver, Refreshed
<1>3. RelayTypeOK'
  BY <1>1, <1>2, RelayFacts DEF RelayInv, RelayTypeOK
<1>4. Started'
  BY <1>1, <1>2 DEF RelayInv, Started, Running
<1>5. BothClock'
  BY <1>1, <1>2, RelayFacts DEF RelayInv, BothClock
<1>6. OneClock'
  <2>1. Ended' = Ended
    BY <1>1 DEF Ended
  <2>2. QED
    BY <1>1, <1>2, <2>1, RelayFacts DEF RelayInv, OneClock
<1>7. BusyStep
  BY <1>1 DEF BusyStep
<1>8. QED
  BY <1>3, <1>4, <1>5, <1>6, <1>7 DEF RelayInv

\* A direction ends: at the end of its stream, when its read or its write takes
\* too long, or when its peer is gone.
LEMMA EndInv ==
  ASSUME RelayInv, NEW d \in Directions,
         FailToDeliver(d) \/ EndOfStream(d) \/ ReadTimesOut(d)
  PROVE  RelayInv' /\ BusyStep
<1>1. /\ copy' \in [Directions -> {"off", "read", "write", "done"}]
      /\ \A g \in Directions \ {d} : copy'[g] = copy[g]
      /\ copy'[d] = "done" /\ copy[d] \in {"read", "write"}
  BY DEF FailToDeliver, EndOfStream, ReadTimesOut, RelayInv, RelayTypeOK
<1>2. UNCHANGED <<relay, writeIn, closed, draining>>
  BY DEF FailToDeliver, EndOfStream, ReadTimesOut
<1>3. \/ UNCHANGED <<readIn, quiet>>
      \/ quiet' = 0 /\ readIn' = [e \in Ends |-> Idle]
  BY DEF FailToDeliver, EndOfStream, ReadTimesOut, Refreshed
<1>4. RelayTypeOK'
  BY <1>1, <1>2, <1>3, RelayFacts DEF RelayInv, RelayTypeOK
<1>5. Started'
  BY <1>1, <1>2 DEF RelayInv, Started, Running
<1>6. BothClock'
  BY <1>1, <1>2, <1>3, RelayFacts DEF RelayInv, BothClock
<1>7. OneClock'
  <2>1. Ended' # {}
    BY <1>1 DEF Ended
  <2>2. QED
    BY <1>1, <1>2, <1>3, <2>1, RelayFacts DEF RelayInv, OneClock
<1>8. BusyStep
  <2>1. SUFFICES ASSUME NEW g \in Directions, copy[g] = "read", copy'[g] = "done",
                        Source(g) \notin closed, Ended = {}
                 PROVE  quiet >= Idle
    BY DEF BusyStep
  <2>2. g = d
    BY <1>1, <2>1
  <2>3. ReadTimesOut(g)
    BY <2>1, <2>2 DEF FailToDeliver, EndOfStream
  <2>4. relay = "both" /\ readIn[Source(g)] = 0
    BY <2>1, <2>3 DEF ReadTimesOut, Running, RelayInv, OneClock
  <2>5. QED
    BY <2>4, RelayFacts DEF RelayInv, BothClock
<1>9. QED
  BY <1>4, <1>5, <1>6, <1>7, <1>8 DEF RelayInv

\* The first direction has ended: what is left gets the drain timeout.
LEMMA TightenInv ==
  ASSUME RelayInv, TightenDeadlines
  PROVE  RelayInv' /\ BusyStep
<1>1. /\ relay = "both" /\ relay' = "one" /\ Ended # {}
      /\ readIn' = [e \in Ends |-> Drain]
      /\ UNCHANGED <<copy, writeIn, closed, quiet, draining>>
  BY DEF TightenDeadlines
<1>2. RelayTypeOK'
  BY <1>1, RelayFacts DEF RelayInv, RelayTypeOK
<1>3. Started' /\ BothClock'
  BY <1>1 DEF RelayInv, Started, Running, BothClock
<1>4. OneClock'
  <2>1. Ended' = Ended
    BY <1>1 DEF Ended
  <2>2. QED
    BY <1>1, <2>1, RelayFacts DEF RelayInv, BothClock, OneClock
<1>5. BusyStep
  BY <1>1 DEF BusyStep
<1>6. QED
  BY <1>2, <1>3, <1>4, <1>5 DEF RelayInv

\* Both have ended.
LEMMA StopInv ==
  ASSUME RelayInv, StopRelay
  PROVE  RelayInv' /\ BusyStep
  BY DEF StopRelay, RelayInv, RelayTypeOK, Started, BothClock, OneClock, Running,
         BusyStep

\* Time passes only while no deadline is over: what is added to the age of the
\* last delivery is taken from every deadline that still counts.
LEMMA TickInv ==
  ASSUME RelayInv, RelayTick
  PROVE  RelayInv' /\ BusyStep
<1>1. Running /\ ~Urgent /\ UNCHANGED <<relay, copy, closed>>
  BY DEF RelayTick
<1>2. /\ quiet' \in 0..Longest /\ quiet' <= quiet + 1
      /\ quiet' = quiet + 1 \/ quiet' = Longest
      /\ draining' \in 0..Longest
  BY RelayFacts DEF RelayTick, More, RelayInv, RelayTypeOK
<1>3. readIn' = [e \in Ends |-> Less(readIn[e])]
      /\ writeIn' = [d \in Directions |-> Less(writeIn[d])]
  BY DEF RelayTick
<1>4. \A e \in Ends : /\ readIn'[e] \in Nat /\ readIn'[e] <= readIn[e]
                      /\ readIn'[e] >= readIn[e] - 1
                      /\ readIn[e] > 0 => readIn'[e] = readIn[e] - 1
  BY <1>3, RelayFacts DEF Less
<1>5. \A d \in Directions : /\ writeIn'[d] \in 0..Write
                            /\ writeIn[d] > 0 => writeIn'[d] = writeIn[d] - 1
  BY <1>3, RelayFacts DEF Less
<1>6. RelayTypeOK'
  <2>1. readIn' \in [Ends -> 0..(IF Idle > Drain THEN Idle ELSE Drain)]
    BY <1>3, <1>4, RelayFacts DEF RelayInv, RelayTypeOK
  <2>2. writeIn' \in [Directions -> 0..Write]
    BY <1>3, <1>5
  <2>3. QED
    BY <1>1, <1>2, <2>1, <2>2 DEF RelayInv, RelayTypeOK
<1>7. \A d \in Directions : /\ copy[d] = "read" => readIn[Source(d)] > 0
                            /\ copy[d] = "write" => writeIn[d] > 0
  BY <1>1, RelayFacts DEF Urgent
<1>8. PICK d \in Directions : copy[d] \in {"read", "write"}
  <2>1. Ended # Directions
    BY <1>1 DEF Urgent, Running, Directions
  <2>2. PICK d \in Directions : copy[d] # "done"
    BY <2>1 DEF Ended
  <2>3. QED
    BY <1>1, <2>2 DEF RelayInv, Started, RelayTypeOK
<1>9. Started'
  BY <1>1 DEF RelayInv, Started, Running
<1>10. BothClock'
  <2>1. SUFFICES ASSUME relay = "both"
                 PROVE  BothClock'
    BY <1>1 DEF BothClock
  <2>2. quiet + 1 < Idle + Write
    BY <1>7, <1>8, <2>1, RelayFacts DEF RelayInv, BothClock
  <2>3. quiet' = quiet + 1
    BY <1>2, <2>2, RelayFacts DEF Longest
  <2>4. \A e \in Ends : quiet' + readIn'[e] >= Idle
    BY <1>4, <2>1, <2>3, RelayFacts DEF RelayInv, BothClock
  <2>5. \A g \in Directions :
           /\ copy[g] = "read" => quiet' + readIn'[Source(g)] <= Idle
           /\ copy[g] = "write" => quiet' + writeIn'[g] < Idle + Write
    BY <1>4, <1>5, <1>7, <2>1, <2>3, RelayFacts DEF RelayInv, BothClock
  <2>6. QED
    BY <1>1, <2>2, <2>3, <2>4, <2>5 DEF BothClock
<1>11. OneClock'
  <2>1. SUFFICES ASSUME relay = "one"
                 PROVE  OneClock'
    BY <1>1 DEF OneClock
  <2>2. quiet + 1 < Idle + Write + Drain
    BY <1>7, <1>8, <2>1, RelayFacts DEF RelayInv, OneClock
  <2>3. quiet' = quiet + 1
    BY <1>2, <2>2, RelayFacts DEF Longest
  <2>4. \A g \in Directions :
           /\ copy[g] = "read" => quiet' + readIn'[Source(g)] <= Idle + Drain
           /\ copy[g] = "write" => quiet' + writeIn'[g] < Idle + Write + Drain
    BY <1>4, <1>5, <1>7, <2>1, <2>3, RelayFacts DEF RelayInv, OneClock
  <2>5. Ended' # {}
    BY <1>1, <2>1 DEF RelayInv, OneClock, Ended
  <2>6. QED
    BY <1>1, <2>2, <2>3, <2>4, <2>5 DEF OneClock
<1>12. BusyStep
  BY <1>1 DEF BusyStep
<1>13. QED
  BY <1>6, <1>9, <1>10, <1>11, <1>12 DEF RelayInv

-----------------------------------------------------------------------------
(* The tunnel: what has been answered, and what goes upstream.             *)

Response == [id : Nat, status : Statuses, closes : BOOLEAN]

Typed ==
    /\ place \in Places
    /\ wire \in Seq(Request) /\ Len(wire) + taken = written
    /\ written \in 0..MaxRequests /\ taken \in Nat
    /\ current \in Request \cup {NoRequest}
    /\ client \in {"up", "gone"} /\ valid \in BOOLEAN /\ held \in BOOLEAN
    /\ closing \in BOOLEAN /\ logged \in BOOLEAN
    /\ response \in Statuses
    /\ replies \in Seq(Response)

\* A request is read when all before it are answered; it is answered at once,
\* or at the end of these stages.
Stages == {"identify", "decide", "upstream", "write"}

Answered ==
    /\ Len(replies) \in {taken - 1, taken}
    /\ place \in Stages => Len(replies) = taken - 1
    /\ place \notin Stages \cup {"log", "closed"} => Len(replies) = taken
    /\ \A i \in DOMAIN replies : replies[i].id = i
    /\ \A f \in forwarded : f.id \in 1..taken

\* A response that closes is to the last request there is, and the tunnel ends.
LastCloses ==
    \A i \in DOMAIN replies :
        replies[i].closes => i = taken /\ place \in {"log", "closed"}

\* The request that is being decided is for the tunnel's host, and its token
\* has been somebody's.
Admitted ==
    /\ place \in {"identify", "decide"} => current.host = "target"
    /\ place = "identify" /\ valid => held
    /\ place = "decide" => held
    /\ \A f \in forwarded : f.host = "target" /\ f.held

\* The relay runs while the tunnel's goroutine waits for it.
Placed ==
    /\ Running => place = "relay"
    /\ logged => place = "closed"

ServeInv == Typed /\ Answered /\ LastCloses /\ Admitted /\ Placed

TunnelInv == RelayInv /\ ServeInv

\* Nothing is read, answered or forwarded at the start.
LEMMA InitTunnel == TunnelInit => TunnelInv
<1> SUFFICES ASSUME TunnelInit PROVE TunnelInv
  OBVIOUS
<1>1. RelayTypeOK
  BY DEF TunnelInit, RelayInit, RelayTypeOK, Longest
<1>2. Started /\ BothClock /\ OneClock
  BY DEF TunnelInit, RelayInit, Started, BothClock, OneClock, Running
<1>3. Typed
  <2>1. wire = <<>> /\ wire \in Seq(Request) /\ Len(wire) = 0
    BY DEF TunnelInit
  <2>2. replies \in Seq(Response)
    BY DEF TunnelInit
  <2>3. Len(wire) + taken = written /\ written \in 0..MaxRequests /\ taken \in Nat
    BY <2>1 DEF TunnelInit
  <2>4. QED
    BY <2>1, <2>2, <2>3 DEF TunnelInit, Typed, Places, Statuses
<1>4. Answered /\ LastCloses /\ Admitted
  BY DEF TunnelInit, Answered, LastCloses, Admitted, Stages
<1>5. Placed
  BY DEF TunnelInit, RelayInit, Placed, Running
<1>6. QED
  BY <1>1, <1>2, <1>3, <1>4, <1>5 DEF TunnelInv, RelayInv, ServeInv

\* A response appended to those there are.
LEMMA ReplyFacts ==
  ASSUME Typed, NEW id \in Nat, NEW s \in Statuses, NEW c \in BOOLEAN,
         Reply(id, s, c)
  PROVE  /\ replies' \in Seq(Response) /\ Len(replies') = Len(replies) + 1
         /\ \A i \in DOMAIN replies : i \in DOMAIN replies' /\ replies'[i] = replies[i]
         /\ \A i \in DOMAIN replies' : i \in DOMAIN replies \/ i = Len(replies')
         /\ replies'[Len(replies')].id = id
         /\ replies'[Len(replies')].closes = c
<1> DEFINE r == [id |-> id, status |-> s, closes |-> c]
<1>1. r \in Response /\ r.id = id /\ r.closes = c
  BY DEF Response
<1>2. replies' = Append(replies, r)
  BY DEF Reply
<1> HIDE DEF r
<1>3. QED
  BY <1>1, <1>2 DEF Typed

\* The steps before the first request, and a read that fails.
LEMMA QuietInv ==
  ASSUME ServeInv, Connect \/ ReadFails
  PROVE  ServeInv'
<1>1. /\ UNCHANGED <<wire, written, taken, current, held, response, closing, replies,
                     client, valid, forwarded, logged, relay>>
      /\ place \in {"accept", "auth", "certificate", "handshake", "read"}
      /\ place' \in {"auth", "certificate", "handshake", "read", "closed"}
  BY DEF Connect, Accept, Authenticate, Certificate, Handshake, ReadFails, served,
         outgoing, peers, relayVars
<1>2. Typed'
  BY <1>1 DEF ServeInv, Typed, Places
<1>3. Answered'
  BY <1>1 DEF ServeInv, Answered, Stages
<1>4. LastCloses'
  BY <1>1 DEF ServeInv, LastCloses
<1>5. Admitted' /\ Placed'
  BY <1>1 DEF ServeInv, Admitted, Placed, Running
<1>6. QED
  BY <1>2, <1>3, <1>4, <1>5 DEF ServeInv

\* What the next request changes.
LEMMA NextRequestFacts ==
  ASSUME ServeInv, NextRequest
  PROVE  /\ wire' \in Seq(Request) /\ Len(wire') + taken' = written'
         /\ written' = written /\ taken' = taken + 1
         /\ current' \in Request /\ held' = valid
         /\ UNCHANGED <<response, closing, client, valid, forwarded, logged, relay>>
         /\ place = "read" /\ Len(replies) = taken
         /\ \A i \in DOMAIN replies : ~replies[i].closes
<1>1. /\ place = "read" /\ wire # <<>> /\ wire' = Tail(wire) /\ current' = Head(wire)
      /\ UNCHANGED <<written, response, closing, client, valid, forwarded, logged, relay>>
      /\ taken' = taken + 1 /\ held' = valid
  BY DEF NextRequest, peers, relayVars
<1>2. wire' \in Seq(Request) /\ Len(wire') = Len(wire) - 1 /\ current' \in Request
  BY <1>1 DEF ServeInv, Typed
<1>3. Len(wire') + taken' = written'
  BY <1>1, <1>2 DEF ServeInv, Typed
<1>4. Len(replies) = taken
  BY <1>1 DEF ServeInv, Answered, Stages
<1>5. \A i \in DOMAIN replies : ~replies[i].closes
  BY <1>1 DEF ServeInv, LastCloses
<1>6. QED
  BY <1>1, <1>2, <1>3, <1>4, <1>5

\* A request that is refused as soon as it is read.
LEMMA RefuseInv ==
  ASSUME ServeInv, Limit \/ RefuseHost
  PROVE  ServeInv'
<1>1. NextRequest
  BY DEF Limit, RefuseHost
<1>2. PICK s \in {"429", "403"} : Reply(taken + 1, s, TRUE) /\ place' = "closed"
  BY DEF Limit, RefuseHost, RefuseWith
<1>3. /\ replies' \in Seq(Response) /\ Len(replies') = Len(replies) + 1
      /\ \A i \in DOMAIN replies : i \in DOMAIN replies' /\ replies'[i] = replies[i]
      /\ \A i \in DOMAIN replies' : i \in DOMAIN replies \/ i = Len(replies')
      /\ replies'[Len(replies')].id = taken + 1
      /\ replies'[Len(replies')].closes
  <2>1. Typed /\ taken + 1 \in Nat /\ s \in Statuses /\ TRUE \in BOOLEAN
    BY DEF ServeInv, Typed, Statuses
  <2>2. QED
    BY <1>2, <2>1, ReplyFacts
<1>4. Typed'
  BY <1>1, <1>2, <1>3, NextRequestFacts DEF ServeInv, Typed, Places
<1>5. Answered'
  <2>1. /\ Len(replies) = taken /\ taken \in Nat /\ taken' = taken + 1
        /\ forwarded' = forwarded /\ place' \notin Stages
    BY <1>1, <1>2, NextRequestFacts DEF ServeInv, Typed, Stages
  <2>2. \A i \in DOMAIN replies' : replies'[i].id = i
    BY <1>3, <2>1 DEF ServeInv, Typed, Answered
  <2>3. QED
    BY <1>2, <1>3, <2>1, <2>2 DEF ServeInv, Answered
<1>6. LastCloses'
  BY <1>1, <1>2, <1>3, NextRequestFacts DEF ServeInv, LastCloses
<1>7. Admitted'
  BY <1>1, <1>2, NextRequestFacts DEF ServeInv, Admitted
<1>8. Placed'
  BY <1>1, <1>2, NextRequestFacts DEF ServeInv, Placed, Running
<1>9. QED
  BY <1>4, <1>5, <1>6, <1>7, <1>8 DEF ServeInv

\* A request for the tunnel's host.
LEMMA TakeInv ==
  ASSUME ServeInv, Take
  PROVE  ServeInv'
<1>1. NextRequest /\ place' = "identify" /\ UNCHANGED replies
      /\ current'.host = "target"
  BY DEF Take
<1>2. Typed'
  BY <1>1, NextRequestFacts DEF ServeInv, Typed, Places
<1>3. Answered'
  BY <1>1, NextRequestFacts DEF ServeInv, Typed, Answered, Stages
<1>4. LastCloses'
  BY <1>1, NextRequestFacts DEF LastCloses
<1>5. Admitted'
  BY <1>1, NextRequestFacts DEF ServeInv, Admitted
<1>6. Placed'
  BY <1>1, NextRequestFacts DEF ServeInv, Placed, Running
<1>7. QED
  BY <1>2, <1>3, <1>4, <1>5, <1>6 DEF ServeInv

\* The user behind the token is looked up again.
LEMMA IdentifyInv ==
  ASSUME ServeInv, Identify
  PROVE  ServeInv'
<1>1. /\ UNCHANGED <<wire, written, taken, current, held, client, valid, replies,
                     forwarded, logged, relay>>
      /\ place = "identify"
      /\ \/ valid /\ place' = "decide" /\ UNCHANGED <<response, closing>>
         \/ place' = "write" /\ response' = "407" /\ closing' = TRUE
  BY DEF Identify, Undecided, Respond, served, peers, relayVars
<1>2. Typed'
  BY <1>1 DEF ServeInv, Typed, Places, Statuses
<1>3. Answered'
  BY <1>1 DEF ServeInv, Answered, Stages
<1>4. LastCloses'
  BY <1>1 DEF ServeInv, LastCloses
<1>5. Admitted'
  BY <1>1 DEF ServeInv, Admitted
<1>6. Placed'
  BY <1>1 DEF ServeInv, Placed, Running
<1>7. QED
  BY <1>2, <1>3, <1>4, <1>5, <1>6 DEF ServeInv

\* Only here a request goes upstream.
LEMMA DecideInv ==
  ASSUME ServeInv, Decide
  PROVE  ServeInv'
<1>1. /\ UNCHANGED <<wire, written, taken, current, held, client, valid, replies,
                     logged, relay>>
      /\ place = "decide"
  BY DEF Decide, served, peers, relayVars
<1>2. \/ /\ forwarded' = forwarded \cup
                 {[id |-> taken, host |-> current.host, held |-> held]}
         /\ place' = "upstream" /\ UNCHANGED <<response, closing>>
      \/ /\ response' \in {"403", "500"} /\ closing' = TRUE /\ place' = "write"
         /\ UNCHANGED forwarded
  BY DEF Decide, Forward, Respond
<1>3. current.host = "target" /\ held /\ taken \in Nat \ {0}
  BY <1>1 DEF ServeInv, Admitted, Typed, Answered, Stages
<1>4. \A f \in forwarded' :
         f \in forwarded \/ (f.id = taken /\ f.host = "target" /\ f.held)
  BY <1>2, <1>3
<1>5. Typed'
  BY <1>1, <1>2 DEF ServeInv, Typed, Places, Statuses
<1>6. Answered'
  BY <1>1, <1>2, <1>3, <1>4 DEF ServeInv, Answered, Stages
<1>7. LastCloses'
  BY <1>1, <1>2 DEF ServeInv, LastCloses
<1>8. Admitted'
  BY <1>1, <1>2, <1>3, <1>4 DEF ServeInv, Admitted
<1>9. Placed'
  BY <1>1, <1>2 DEF ServeInv, Placed, Running
<1>10. QED
  BY <1>5, <1>6, <1>7, <1>8, <1>9 DEF ServeInv

\* Upstream has answered a plain request.
LEMMA UpstreamInv ==
  ASSUME ServeInv, Upstream
  PROVE  ServeInv'
<1>1. /\ UNCHANGED <<wire, written, taken, current, held, client, valid, replies,
                     forwarded, logged, relay>>
      /\ place = "upstream" /\ place' = "write"
      /\ response' \in {"upstream", "502"} /\ closing' \in BOOLEAN
  BY DEF Upstream, served, peers, relayVars
<1>2. Typed'
  BY <1>1 DEF ServeInv, Typed, Places, Statuses
<1>3. Answered'
  BY <1>1 DEF ServeInv, Answered, Stages
<1>4. LastCloses'
  BY <1>1 DEF ServeInv, LastCloses
<1>5. Admitted' /\ Placed'
  BY <1>1 DEF ServeInv, Admitted, Placed, Running
<1>6. QED
  BY <1>2, <1>3, <1>4, <1>5 DEF ServeInv

\* The response is written, or the client is not there to take it.
LEMMA WriteResponseInv ==
  ASSUME ServeInv, WriteResponse
  PROVE  ServeInv'
<1>1. /\ UNCHANGED <<wire, written, taken, current, held, response, closing, client,
                     valid, forwarded, logged, relay>>
      /\ place = "write" /\ place' \in {"closed", "read"}
  BY DEF WriteResponse, served, peers, relayVars
<1>2. Typed /\ Len(replies) = taken - 1 /\ \A i \in DOMAIN replies : ~replies[i].closes
  BY <1>1 DEF ServeInv, Answered, Stages, LastCloses
<1>3. CASE Reply(taken, response, closing)
            /\ place' = IF closing \/ current.close \/ current.upgrade
                     THEN "closed" ELSE "read"
  <2>1. /\ replies' \in Seq(Response) /\ Len(replies') = Len(replies) + 1
        /\ \A i \in DOMAIN replies : i \in DOMAIN replies' /\ replies'[i] = replies[i]
        /\ \A i \in DOMAIN replies' : i \in DOMAIN replies \/ i = Len(replies')
        /\ replies'[Len(replies')].id = taken
        /\ replies'[Len(replies')].closes = closing
    <3>1. taken \in Nat /\ response \in Statuses /\ closing \in BOOLEAN
      BY <1>2 DEF Typed
    <3>2. QED
      BY <1>2, <1>3, <3>1, ReplyFacts
  <2>2. closing => place' = "closed"
    BY <1>3
  <2>3. Typed'
    BY <1>1, <2>1 DEF ServeInv, Typed, Places
  <2>4. Answered'
    BY <1>1, <1>2, <2>1 DEF ServeInv, Typed, Answered, Stages
  <2>5. LastCloses'
    BY <1>1, <1>2, <2>1, <2>2 DEF Typed, LastCloses
  <2>6. Admitted' /\ Placed'
    BY <1>1 DEF ServeInv, Admitted, Placed, Running
  <2>7. QED
    BY <2>3, <2>4, <2>5, <2>6 DEF ServeInv
<1>4. CASE place' = "closed" /\ UNCHANGED replies
  <2>1. Typed' /\ Answered'
    BY <1>1, <1>4 DEF ServeInv, Typed, Places, Answered, Stages
  <2>2. LastCloses' /\ Admitted' /\ Placed'
    BY <1>1, <1>2, <1>4 DEF ServeInv, LastCloses, Admitted, Placed, Running
  <2>3. QED
    BY <2>1, <2>2 DEF ServeInv
<1>5. QED
  BY <1>3, <1>4 DEF WriteResponse

\* The upgrade fails, with an answer to the client or without, or the relay starts.
LEMMA UpgradeInv ==
  ASSUME ServeInv, UpgradeFails \/ Upgrade
  PROVE  ServeInv'
<1>1. /\ UNCHANGED <<wire, written, taken, current, held, response, closing, client,
                     valid, forwarded, logged>>
      /\ place = "upstream"
      /\ \/ place' = "log" /\ relay' = relay
         \/ place' = "relay"
  BY DEF UpgradeFails, Upgrade, served, peers, relayVars
<1>2. \/ \E s \in Statuses, c \in BOOLEAN : Reply(taken, s, c) /\ (c => place' = "log")
      \/ place' = "log" /\ UNCHANGED replies
  BY DEF UpgradeFails, Upgrade, Statuses
<1>3. Typed /\ Len(replies) = taken - 1 /\ \A i \in DOMAIN replies : ~replies[i].closes
  BY <1>1 DEF ServeInv, Answered, Stages, LastCloses
<1>4. Admitted' /\ Placed'
  BY <1>1 DEF ServeInv, Admitted, Placed, Running
<1>5. ASSUME NEW s \in Statuses, NEW c \in BOOLEAN,
             Reply(taken, s, c), c => place' = "log"
      PROVE  ServeInv'
  <2>1. /\ replies' \in Seq(Response) /\ Len(replies') = Len(replies) + 1
        /\ \A i \in DOMAIN replies : i \in DOMAIN replies' /\ replies'[i] = replies[i]
        /\ \A i \in DOMAIN replies' : i \in DOMAIN replies \/ i = Len(replies')
        /\ replies'[Len(replies')].id = taken
        /\ replies'[Len(replies')].closes = c
    <3>1. taken \in Nat
      BY <1>3 DEF Typed
    <3>2. QED
      BY <1>3, <1>5, <3>1, ReplyFacts
  <2>2. Typed'
    BY <1>1, <2>1 DEF ServeInv, Typed, Places
  <2>3. Answered'
    BY <1>1, <1>3, <2>1 DEF ServeInv, Typed, Answered, Stages
  <2>4. LastCloses'
    BY <1>1, <1>3, <1>5, <2>1 DEF Typed, LastCloses
  <2>5. QED
    BY <1>4, <2>2, <2>3, <2>4 DEF ServeInv
<1>6. CASE place' = "log" /\ UNCHANGED replies
  <2>1. Typed' /\ Answered'
    BY <1>1, <1>3, <1>6 DEF ServeInv, Typed, Places, Answered, Stages
  <2>2. LastCloses'
    BY <1>3, <1>6 DEF LastCloses
  <2>3. QED
    BY <1>4, <2>1, <2>2 DEF ServeInv
<1>7. QED
  BY <1>2, <1>5, <1>6

\* The end of a socket.
LEMMA SocketInv ==
  ASSUME ServeInv, RelayEnds \/ LogSocket
  PROVE  ServeInv'
<1>1. /\ UNCHANGED <<wire, written, taken, current, held, response, closing, replies,
                     client, valid, forwarded, relay>>
      /\ \/ place = "relay" /\ relay = "over" /\ place' = "log" /\ logged' = logged
         \/ place = "log" /\ place' = "closed" /\ logged' = TRUE
  BY DEF RelayEnds, LogSocket, served, outgoing, peers, relayVars
<1>2. Typed'
  BY <1>1 DEF ServeInv, Typed, Places
<1>3. Answered'
  BY <1>1 DEF ServeInv, Answered, Stages
<1>4. LastCloses'
  BY <1>1 DEF ServeInv, LastCloses
<1>5. Admitted' /\ Placed'
  BY <1>1 DEF ServeInv, Admitted, Placed, Running
<1>6. QED
  BY <1>2, <1>3, <1>4, <1>5 DEF ServeInv

\* What the client, the administrators and the socket's two ends do.
LEMMA PeersInv ==
  ASSUME ServeInv,
         ClientWrites \/ ClientLeaves \/ TokenChanges \/ UpstreamCloses \/ Relay
  PROVE  ServeInv'
<1>1. /\ UNCHANGED <<place, taken, current, response, closing, replies, forwarded, logged>>
      /\ client' \in {client, "gone"}
      /\ relay' = relay \/ place = "relay"
  BY DEF ClientWrites, ClientLeaves, TokenChanges, UpstreamCloses, Relay, PeerCloses,
         served, outgoing, peers, serveVars, relayVars
<1>2. \/ valid' = valid /\ held' = held
      \/ valid' = ~valid /\ held' = TRUE
  BY DEF ClientWrites, ClientLeaves, TokenChanges, UpstreamCloses, Relay, PeerCloses,
         served, outgoing, peers, serveVars
<1>3. \/ UNCHANGED <<wire, written>>
      \/ /\ written < MaxRequests /\ written' = written + 1
         /\ \E r \in Request : wire' = Append(wire, r)
  BY DEF ClientWrites, ClientLeaves, TokenChanges, UpstreamCloses, Relay, PeerCloses,
         served, outgoing, peers, serveVars
<1>4. Typed'
  <2>1. wire' \in Seq(Request) /\ Len(wire') + taken' = written'
        /\ written' \in 0..MaxRequests
    BY <1>1, <1>3 DEF ServeInv, Typed
  <2>2. valid' \in BOOLEAN /\ held' \in BOOLEAN
    BY <1>2 DEF ServeInv, Typed
  <2>3. QED
    BY <1>1, <2>1, <2>2 DEF ServeInv, Typed
<1>5. Answered' /\ LastCloses'
  BY <1>1 DEF ServeInv, Answered, LastCloses
<1>6. Admitted'
  BY <1>1, <1>2 DEF ServeInv, Admitted
<1>7. Placed'
  <2>1. logged' => place' = "closed"
    BY <1>1 DEF ServeInv, Placed
  <2>2. Running' => place' = "relay"
    BY <1>1 DEF ServeInv, Placed, Running
  <2>3. QED
    BY <2>1, <2>2 DEF Placed
<1>8. QED
  BY <1>4, <1>5, <1>6, <1>7 DEF ServeInv

\* Every step keeps the tunnel's part of the invariant.
LEMMA ServeStep == ServeInv /\ [TunnelNext]_tunnelVars => ServeInv'
<1> SUFFICES ASSUME ServeInv, [TunnelNext]_tunnelVars PROVE ServeInv'
  OBVIOUS
<1>1. CASE UNCHANGED tunnelVars
  <2>1. UNCHANGED serveVars /\ UNCHANGED relayVars
    BY <1>1 DEF tunnelVars
  <2>2. QED
    BY <2>1 DEF serveVars, relayVars, ServeInv, Typed, Answered, LastCloses, Admitted,
                Placed, Running
<1>2. CASE Connect \/ ReadFails
  BY <1>2, QuietInv
<1>3. CASE Limit \/ RefuseHost
  BY <1>3, RefuseInv
<1>4. CASE Take
  BY <1>4, TakeInv
<1>5. CASE Identify
  BY <1>5, IdentifyInv
<1>6. CASE Decide
  BY <1>6, DecideInv
<1>7. CASE Upstream
  BY <1>7, UpstreamInv
<1>8. CASE WriteResponse
  BY <1>8, WriteResponseInv
<1>9. CASE UpgradeFails \/ Upgrade
  BY <1>9, UpgradeInv
<1>10. CASE RelayEnds \/ LogSocket
  BY <1>10, SocketInv
<1>11. CASE ClientWrites \/ ClientLeaves \/ TokenChanges \/ UpstreamCloses \/ Relay
  BY <1>11, PeersInv
<1>12. QED
  BY <1>1, <1>2, <1>3, <1>4, <1>5, <1>6, <1>7, <1>8, <1>9, <1>10, <1>11
  DEF TunnelNext, Serve, AnswerOfUpstream, Done

\* Every step keeps the relay's part and is a step that BusyRelayStays allows.
LEMMA RelayStep == RelayInv /\ [TunnelNext]_tunnelVars => RelayInv' /\ BusyStep
<1> SUFFICES ASSUME RelayInv, [TunnelNext]_tunnelVars PROVE RelayInv' /\ BusyStep
  OBVIOUS
<1>1. CASE UNCHANGED relayVars
  BY <1>1, RelayStays DEF relayVars, RelayInv, RelayTypeOK
<1>2. CASE ClientLeaves \/ UpstreamCloses
  <2>1. closed' \subseteq Ends
        /\ UNCHANGED <<relay, copy, readIn, writeIn, quiet, draining>>
    BY <1>2 DEF ClientLeaves, UpstreamCloses, PeerCloses, RelayInv, RelayTypeOK, Ends
  <2>2. QED
    BY <2>1, RelayStays
<1>3. CASE Upgrade
  BY <1>3, StartRelayInv DEF Upgrade
<1>4. CASE Relay
  <2>1. CASE TightenDeadlines
    BY <2>1, TightenInv
  <2>2. CASE StopRelay
    BY <2>2, StopInv
  <2>3. CASE RelayTick
    BY <2>3, TickInv
  <2>4. ASSUME NEW d \in Directions,
               FailToDeliver(d) \/ EndOfStream(d) \/ ReadTimesOut(d)
        PROVE  RelayInv' /\ BusyStep
    BY <2>4, EndInv
  <2>5. ASSUME NEW d \in Directions, Read(d) \/ Deliver(d)
        PROVE  RelayInv' /\ BusyStep
    BY <2>5, ReadInv, DeliverInv
  <2>6. QED
    BY <1>4, <2>1, <2>2, <2>3, <2>4, <2>5 DEF Relay, Relaying, Traffic
<1>5. CASE Connect \/ Serve \/ Upstream \/ UpgradeFails \/ ClientWrites
           \/ TokenChanges \/ Done \/ UNCHANGED tunnelVars
  <2>1. UNCHANGED relayVars
    BY <1>5 DEF Connect, Accept, Authenticate, Certificate, Handshake, Serve, Limit,
                RefuseHost, NextRequest, Take, ReadFails, Identify, Decide,
                WriteResponse, RelayEnds, LogSocket, Upstream, UpgradeFails,
                ClientWrites, TokenChanges, Done, tunnelVars
  <2>2. QED
    BY <1>1, <2>1
<1>6. QED
  BY <1>2, <1>3, <1>4, <1>5 DEF TunnelNext, AnswerOfUpstream

\* The inductive invariant of the tunnel and its relay: Tunnel's whole state,
\* whatever its peers do (handleConnect, serveTLS, handleWebSocketUpgrade).
THEOREM TunnelInvariance == TunnelSpec => []TunnelInv
<1>1. TunnelInv /\ [TunnelNext]_tunnelVars => TunnelInv'
  BY ServeStep, RelayStep DEF TunnelInv
<1>2. QED
  BY <1>1, InitTunnel, PTL DEF TunnelSpec

\* The tunnel's state is always of its types.
THEOREM TunnelTypeCorrect == TunnelSpec => []TunnelTypeOK
<1>1. TunnelInv => TunnelTypeOK
  BY DEF TunnelInv, RelayInv, ServeInv, Typed, Answered, TunnelTypeOK
<1>2. QED
  BY <1>1, TunnelInvariance, PTL

\* Responses come in the order of the requests, and a request goes upstream only
\* when everything before it was answered (serveTLS).
THEOREM AnsweredInOrderHolds == TunnelSpec => []AnsweredInOrder
<1>1. TunnelInv => AnsweredInOrder
  BY DEF TunnelInv, ServeInv, Typed, Answered, AnsweredInOrder
<1>2. QED
  BY <1>1, TunnelInvariance, PTL

\* After a response that says Connection: close, no later request is answered
\* or goes upstream (serveTLS, writeErrorToConn).
THEOREM NothingAfterCloseHolds == TunnelSpec => []NothingAfterClose
<1>1. TunnelInv => NothingAfterClose
  BY DEF TunnelInv, ServeInv, Typed, Answered, LastCloses, NothingAfterClose
<1>2. QED
  BY <1>1, TunnelInvariance, PTL

\* A tunnel reaches no other host than its own (serveTLS compares every Host).
THEOREM TunnelStaysOnTargetHolds == TunnelSpec => []TunnelStaysOnTarget
<1>1. TunnelInv => TunnelStaysOnTarget
  BY DEF TunnelInv, ServeInv, Admitted, TunnelStaysOnTarget
<1>2. QED
  BY <1>1, TunnelInvariance, PTL

\* A request goes upstream only under a token that was some user's after the
\* request was read: revoking it works on tunnels that are open (processRequest).
THEOREM RevocationTakesEffectHolds == TunnelSpec => []RevocationTakesEffect
<1>1. TunnelInv => RevocationTakesEffect
  BY DEF TunnelInv, ServeInv, Admitted, RevocationTakesEffect
<1>2. QED
  BY <1>1, TunnelInvariance, PTL

\* A socket's row is written when no data can flow any more
\* (handleWebSocketUpgrade).
THEOREM LoggedAfterRelayHolds == TunnelSpec => []LoggedAfterRelay
<1>1. TunnelInv => LoggedAfterRelay
  BY DEF TunnelInv, ServeInv, Placed, LoggedAfterRelay
<1>2. QED
  BY <1>1, TunnelInvariance, PTL

\* For any timeouts, a relay over which nothing is delivered ends within the
\* idle timeout, one blocked write and one drain (handleWebSocketUpgrade).
THEOREM IdleRelayEndsHolds == TunnelSpec => []IdleRelayEnds
<1>1. TunnelInv => IdleRelayEnds
  BY RelayFacts DEF TunnelInv, RelayInv, BothClock, OneClock, IdleRelayEnds, Running
<1>2. QED
  BY <1>1, TunnelInvariance, PTL

\* For any timeouts, traffic in one direction keeps the silent one open
\* (wsRelayWriter.Write).
THEOREM BusyRelayStaysHolds == TunnelSpec => BusyRelayStays
<1>1. TunnelInv /\ [TunnelNext]_tunnelVars => [BusyStep]_relayVars
  BY RelayStep DEF TunnelInv
<1>2. QED
  BY <1>1, TunnelInvariance, PTL DEF TunnelSpec, BusyRelayStays, BusyStep

=============================================================================

-------------------------- MODULE CircuitBreaker --------------------------
(***************************************************************************)
(* What internal/llm/resilience.go promises to the adapters that embed it, *)
(* without the mutex, the counter, the timestamp or the semaphore channel: *)
(* at most MaxConcurrency calls hold a slot, and the circuit is tripped    *)
(* exactly when the last Threshold recorded outcomes were all failures.    *)
(***************************************************************************)
EXTENDS Naturals, Sequences, FiniteSets

CONSTANTS
    Callers,         \* goroutines that call Complete
    MaxConcurrency,  \* slots
    Threshold        \* consecutive failures that trip the circuit

VARIABLES
    inflight,   \* callers that hold a slot
    outcomes,   \* the last (at most Threshold) recorded outcomes, oldest first
    tripped     \* is the circuit tripped?

vars == <<inflight, outcomes, tripped>>

\* The history kept by the contract: append, and forget what is too old.
Remember(seq, o) ==
    IF Len(seq) < Threshold THEN Append(seq, o) ELSE Append(Tail(seq), o)

AllFailed(seq) ==
    /\ Len(seq) = Threshold
    /\ \A i \in DOMAIN seq : seq[i] = "failure"

Init ==
    /\ inflight = {}
    /\ outcomes = <<>>
    /\ tripped = FALSE

Begin(c) ==
    /\ c \notin inflight
    /\ Cardinality(inflight) < MaxConcurrency
    /\ inflight' = inflight \cup {c}
    /\ UNCHANGED <<outcomes, tripped>>

\* Only a caller that holds a slot may have an outcome to record.
Record(c, o) ==
    /\ c \in inflight
    /\ outcomes' = Remember(outcomes, o)
    /\ tripped' = AllFailed(outcomes')
    /\ UNCHANGED inflight

End(c) ==
    /\ c \in inflight
    /\ inflight' = inflight \ {c}
    /\ UNCHANGED <<outcomes, tripped>>

Next ==
    \E c \in Callers :
        \/ Begin(c)
        \/ \E o \in {"success", "failure"} : Record(c, o)
        \/ End(c)

Spec == Init /\ [][Next]_vars
=============================================================================

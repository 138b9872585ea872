-------------------------- MODULE WebSocketRelay --------------------------
(***************************************************************************)
(* The bidirectional relay at the end of handleWebSocketUpgrade            *)
(* (internal/proxy/handler.go): two io.Copy goroutines through             *)
(* wsRelayWriter, the goroutine that waits for both, and the deadlines     *)
(* they set on the two connections.                                        *)
(*                                                                         *)
(* Time is counted in ticks.  A goroutine that can run runs before the     *)
(* next tick: RelayTick waits for whoever has a deadline that is over or a *)
(* result to receive.                                                      *)
(***************************************************************************)
EXTENDS Integers

CONSTANTS
    Idle,    \* wsIdleTimeout
    Write,   \* wsWriteTimeout
    Drain    \* wsDrainTimeout

ASSUME RelayAssumption ==
    /\ Idle \in Nat \ {0}
    /\ Write \in Nat \ {0}
    /\ Drain \in Nat \ {0}

Ends == {"client", "upstream"}
Directions == {"up", "down"}

Source(d) == IF d = "up" THEN "client" ELSE "upstream"
Sink(d) == IF d = "up" THEN "upstream" ELSE "client"

VARIABLES
    relay,     \* the waiting goroutine: "off", "both", "one" or "over"
    copy,      \* copy[d]: what direction d's io.Copy does
    readIn,    \* readIn[e]: ticks until the read deadline of connection e
    writeIn,   \* writeIn[d]: ticks until the write deadline d last set
    closed,    \* peers that have closed or lost their end
    quiet,     \* history: ticks since data was last delivered
    draining   \* history: ticks since the first direction ended

relayVars == <<relay, copy, readIn, writeIn, closed, quiet, draining>>

Longest == Idle + Write + Drain + 1     \* where the two histories saturate

RelayInit ==
    /\ relay = "off"
    /\ copy = [d \in Directions |-> "off"]
    /\ readIn = [e \in Ends |-> 0]
    /\ writeIn = [d \in Directions |-> 0]
    /\ closed = {}
    /\ quiet = 0
    /\ draining = 0

Running == relay \in {"both", "one"}

Refreshed == [e \in Ends |-> Idle]

\* The 101 is relayed: both read deadlines are set, both goroutines start.
StartRelay ==
    /\ relay = "off"
    /\ relay' = "both"
    /\ copy' = [d \in Directions |-> "read"]
    /\ readIn' = Refreshed
    /\ quiet' = 0
    /\ UNCHANGED <<writeIn, closed, draining>>

\* io.Copy reads some data; wsRelayWriter.Write sets its write deadline.
Read(d) ==
    /\ Running /\ copy[d] = "read"
    /\ Source(d) \notin closed
    /\ readIn[Source(d)] > 0
    /\ copy' = [copy EXCEPT ![d] = "write"]
    /\ writeIn' = [writeIn EXCEPT ![d] = Write]
    /\ UNCHANGED <<relay, readIn, closed, quiet, draining>>

\* Mistake: the deadline is refreshed on the connection written to only.
DeliverOneSide(d) ==
    /\ Running /\ copy[d] = "write"
    /\ Sink(d) \notin closed
    /\ writeIn[d] > 0
    /\ copy' = [copy EXCEPT ![d] = "read"]
    /\ readIn' = [readIn EXCEPT ![Sink(d)] = Idle]
    /\ quiet' = 0
    /\ UNCHANGED <<relay, writeIn, closed, draining>>

\* The write succeeds: the read deadlines of both connections start anew.
Deliver(d) ==
    /\ Running /\ copy[d] = "write"
    /\ Sink(d) \notin closed
    /\ writeIn[d] > 0
    /\ copy' = [copy EXCEPT ![d] = "read"]
    /\ readIn' = Refreshed
    /\ quiet' = 0
    /\ UNCHANGED <<relay, writeIn, closed, draining>>

\* The write fails: the peer is gone, or has taken too little for too long.
\* What it did take refreshes the deadlines all the same.
FailToDeliver(d) ==
    /\ Running /\ copy[d] = "write"
    /\ Sink(d) \in closed \/ writeIn[d] = 0
    /\ copy' = [copy EXCEPT ![d] = "done"]
    /\ \/ UNCHANGED <<readIn, quiet>>
       \/ writeIn[d] = 0 /\ readIn' = Refreshed /\ quiet' = 0
    /\ UNCHANGED <<relay, writeIn, closed, draining>>

\* The read ends: end of stream or connection lost.
EndOfStream(d) ==
    /\ Running /\ copy[d] = "read"
    /\ Source(d) \in closed
    /\ copy' = [copy EXCEPT ![d] = "done"]
    /\ UNCHANGED <<relay, readIn, writeIn, closed, quiet, draining>>

\* The read deadline passes.
ReadTimesOut(d) ==
    /\ Running /\ copy[d] = "read"
    /\ readIn[Source(d)] = 0
    /\ copy' = [copy EXCEPT ![d] = "done"]
    /\ UNCHANGED <<relay, readIn, writeIn, closed, quiet, draining>>

Ended == {d \in Directions : copy[d] = "done"}

\* Mistake: the surviving direction is given the idle timeout again.
TightenDeadlinesNot ==
    /\ relay = "both" /\ Ended # {}
    /\ relay' = "one"
    /\ readIn' = Refreshed
    /\ UNCHANGED <<copy, writeIn, closed, quiet, draining>>

\* The first receive from errc, and the drain deadline on both connections.
TightenDeadlines ==
    /\ relay = "both" /\ Ended # {}
    /\ relay' = "one"
    /\ readIn' = [e \in Ends |-> Drain]
    /\ UNCHANGED <<copy, writeIn, closed, quiet, draining>>

\* The second receive from errc; the connections are closed on return.
StopRelay ==
    /\ relay = "one" /\ Ended = Directions
    /\ relay' = "over"
    /\ UNCHANGED <<copy, readIn, writeIn, closed, quiet, draining>>

\* A peer closes its end, on its own or because closeWrite told it to.
PeerCloses(e) ==
    /\ e \notin closed
    /\ closed' = closed \cup {e}
    /\ UNCHANGED <<relay, copy, readIn, writeIn, quiet, draining>>

Urgent ==
    \/ relay = "both" /\ Ended # {}
    \/ relay = "one" /\ Ended = Directions
    \/ \E d \in Directions :
          \/ copy[d] = "read" /\ (readIn[Source(d)] = 0 \/ Source(d) \in closed)
          \/ copy[d] = "write" /\ (writeIn[d] = 0 \/ Sink(d) \in closed)

Less(n) == IF n > 0 THEN n - 1 ELSE 0
More(n) == IF n < Longest THEN n + 1 ELSE n

RelayTick ==
    /\ Running /\ ~Urgent
    /\ readIn' = [e \in Ends |-> Less(readIn[e])]
    /\ writeIn' = [d \in Directions |-> Less(writeIn[d])]
    /\ quiet' = More(quiet)
    /\ draining' = IF Ended # {} THEN More(draining) ELSE 0
    /\ UNCHANGED <<relay, copy, closed>>

\* The relay's own steps.
Relaying ==
    \/ \E d \in Directions :
          FailToDeliver(d) \/ EndOfStream(d) \/ ReadTimesOut(d)
    \/ TightenDeadlines
    \/ StopRelay
    \/ RelayTick

\* What the peers' data makes it do.
Traffic == \E d \in Directions : Read(d) \/ Deliver(d)

---------------------------------------------------------------------------
(* Properties                                                              *)

RelayTypeOK ==
    /\ relay \in {"off", "both", "one", "over"}
    /\ copy \in [Directions -> {"off", "read", "write", "done"}]
    /\ readIn \in [Ends -> 0 .. (IF Idle > Drain THEN Idle ELSE Drain)]
    /\ writeIn \in [Directions -> 0..Write]
    /\ closed \subseteq Ends
    /\ quiet \in 0..Longest
    /\ draining \in 0..Longest

\* A relay over which nothing is delivered does not outlive the idle timeout
\* by more than one blocked write and one drain, whatever the two copies, the
\* peers and the tightening of the deadlines do around the moment it expires.
IdleRelayEnds == Running => quiet < Idle + Write + Drain

\* While both directions run, neither read times out unless nothing at all
\* was delivered for the idle timeout: traffic one way keeps the other way,
\* which may be silent for hours, open.
BusyRelayStays ==
    [][ \A d \in Directions :
          copy[d] = "read" /\ copy'[d] = "done" /\ Source(d) \notin closed
            /\ Ended = {} => quiet >= Idle ]_relayVars

\* The comment on wsDrainTimeout: it bounds how long the surviving direction
\* may go on after the first one has ended; a write under way then may take
\* its own timeout more.
DrainBounded == Running => draining <= Drain + Write
=============================================================================

-------------------------- MODULE Notifications ---------------------------
(***************************************************************************)
(* Live audit events on their way to the web UI: Dispatcher.Broadcast      *)
(* (internal/notifications/dispatcher.go), which every request calls       *)
(* before it is answered, and SSEChannel with its connections, at most one *)
(* registered per user (internal/notifications/sse.go).                    *)
(*                                                                         *)
(* The read lock of Notify is explicit, since Notify makes several         *)
(* deliveries under it; what setClient and removeClient do under the write *)
(* lock is one step.                                                       *)
(***************************************************************************)
EXTENDS Integers, Sequences

CONSTANTS
    Users,
    Connections,
    UserOf,       \* UserOf[c]: the user who opened connection c
    Broadcasters, \* goroutines that serve requests
    MaxEvents,    \* events each of them broadcasts
    Capacity,     \* of SSEClient.messages
    NoConnection

ASSUME NotificationsAssumption ==
    /\ UserOf \in [Connections -> Users]
    /\ MaxEvents \in Nat
    /\ Capacity \in Nat \ {0}
    /\ NoConnection \notin Connections

VARIABLES
    clients,   \* SSEChannel.clients: the registered connection of each user
    messages,  \* messages[c]: SSEClient.messages
    closed,    \* connections whose messages channel is closed
    done,      \* connections whose done channel is closed
    pc,        \* pc[c]: ServeHTTPForUser
    online,    \* connections whose request context is alive
    calls,     \* running calls of Notify
    count,     \* count[b]: events b has broadcast
    reached,   \* history: reached[c][b], b's last event put into c's channel
    panicked   \* history: did anyone close or use a closed channel?

notifyVars == <<clients, messages, closed, done, pc, online, calls, count,
                reached, panicked>>

Event == [from: Broadcasters, number: 1..MaxEvents]

Call == [event: Event, locked: BOOLEAN, todo: SUBSET Connections]

NotifyInit ==
    /\ clients = [u \in Users |-> NoConnection]
    /\ messages = [c \in Connections |-> <<>>]
    /\ closed = {} /\ done = {}
    /\ pc = [c \in Connections |-> "new"]
    /\ online = Connections
    /\ calls = {}
    /\ count = [b \in Broadcasters |-> 0]
    /\ reached = [c \in Connections |-> [b \in Broadcasters |-> 0]]
    /\ panicked = FALSE

Registered == {c \in Connections : clients[UserOf[c]] = c}

---------------------------------------------------------------------------
(* Broadcast and Notify                                                    *)

\* Mistake: Broadcast returns without waiting for the channels.
BroadcastAsync(b) ==
    /\ count[b] < MaxEvents
    /\ count' = [count EXCEPT ![b] = @ + 1]
    /\ calls' = calls \cup
          {[event |-> [from |-> b, number |-> count[b] + 1],
            locked |-> FALSE, todo |-> {}]}
    /\ UNCHANGED <<clients, messages, closed, done, pc, online, reached, panicked>>

\* The next event of b; wg.Wait ended the one before.
Broadcast(b) ==
    /\ count[b] < MaxEvents
    /\ \A n \in calls : n.event.from # b
    /\ count' = [count EXCEPT ![b] = @ + 1]
    /\ calls' = calls \cup
          {[event |-> [from |-> b, number |-> count[b] + 1],
            locked |-> FALSE, todo |-> {}]}
    /\ UNCHANGED <<clients, messages, closed, done, pc, online, reached, panicked>>

\* RLock; the event is for one user or for all that are connected.
Lock(n) ==
    /\ ~n.locked
    /\ \E us \in {{u} : u \in Users} \cup {Users} :
          calls' = (calls \ {n}) \cup
             {[n EXCEPT !.locked = TRUE,
                        !.todo = {c \in Registered : UserOf[c] \in us}]}
    /\ UNCHANGED <<clients, messages, closed, done, pc, online, count, reached,
                   panicked>>

Progress(n, c) == calls' = (calls \ {n}) \cup {[n EXCEPT !.todo = @ \ {c}]}

\* Mistake: messages are queued in a slice.
PushUnbounded(n, c) ==
    /\ n.locked /\ c \in n.todo
    /\ messages' = [messages EXCEPT ![c] = Append(@, n.event)]
    /\ reached' = [reached EXCEPT ![c][n.event.from] = n.event.number]
    /\ Progress(n, c)
    /\ UNCHANGED <<clients, closed, done, pc, online, count, panicked>>

\* The send case of deliver's select; on a closed channel it panics.
Push(n, c) ==
    /\ n.locked /\ c \in n.todo
    /\ c \notin closed => Len(messages[c]) < Capacity
    /\ messages' = [messages EXCEPT ![c] = Append(@, n.event)]
    /\ reached' = [reached EXCEPT ![c][n.event.from] = n.event.number]
    /\ panicked' = (panicked \/ c \in closed)
    /\ Progress(n, c)
    /\ UNCHANGED <<clients, closed, done, pc, online, count>>

\* Mistake: without the default case a slow client holds everybody up.
SkipGoneOnly(n, c) ==
    /\ n.locked /\ c \in n.todo
    /\ c \in done
    /\ Progress(n, c)
    /\ UNCHANGED <<clients, messages, closed, done, pc, online, count, reached,
                   panicked>>

\* The other two: the client has left, or its buffer is full.
Skip(n, c) ==
    /\ n.locked /\ c \in n.todo
    /\ c \in done \/ (c \notin closed /\ Len(messages[c]) >= Capacity)
    /\ Progress(n, c)
    /\ UNCHANGED <<clients, messages, closed, done, pc, online, count, reached,
                   panicked>>

Unlock(n) ==
    /\ n.locked /\ n.todo = {}
    /\ calls' = calls \ {n}
    /\ UNCHANGED <<clients, messages, closed, done, pc, online, count, reached,
                   panicked>>

---------------------------------------------------------------------------
(* ServeHTTPForUser                                                        *)

\* Mistake: Notify works on a copy of the map made under the lock.
WriteLockAlways == TRUE

WriteLock == \A n \in calls : ~n.locked

\* setClient: the connection the user had before is told to end.
SetClient(c) ==
    /\ pc[c] = "new" /\ c \in online
    /\ WriteLock
    /\ LET old == clients[UserOf[c]] IN
          /\ closed' = IF old = NoConnection THEN closed ELSE closed \cup {old}
          /\ panicked' = (panicked \/ old \in closed)
    /\ clients' = [clients EXCEPT ![UserOf[c]] = c]
    /\ pc' = [pc EXCEPT ![c] = "serving"]
    /\ UNCHANGED <<messages, done, online, calls, count, reached>>

\* A message is written to the client.
Write(c) ==
    /\ pc[c] = "serving"
    /\ messages[c] # <<>>
    /\ messages' = [messages EXCEPT ![c] = Tail(@)]
    /\ UNCHANGED <<clients, closed, done, pc, online, calls, count, reached,
                   panicked>>

\* Every way out of the loop closes done first.
Stop(c) ==
    /\ pc[c] = "serving"
    /\ done' = done \cup {c}
    /\ panicked' = (panicked \/ c \in done)
    /\ pc' = [pc EXCEPT ![c] = "leaving"]
    /\ UNCHANGED <<clients, closed, online, calls, count, reached>>

\* A message cannot be written.
WriteFails(c) ==
    /\ messages[c] # <<>>
    /\ messages' = [messages EXCEPT ![c] = Tail(@)]
    /\ Stop(c)

ContextEnds(c) ==
    /\ c \notin online
    /\ Stop(c)
    /\ UNCHANGED messages

\* Mistake: the second value of the receive is not looked at.
SpinOnClosed(c) ==
    /\ pc[c] = "serving"
    /\ messages[c] = <<>> /\ c \in closed
    /\ UNCHANGED notifyVars

\* The channel is closed and empty: the connection was replaced.
SeeClosed(c) ==
    /\ messages[c] = <<>> /\ c \in closed
    /\ Stop(c)
    /\ UNCHANGED messages

\* Mistake: the entry of the user is removed, whosever it is.
RemoveClientOfUser(c) ==
    /\ pc[c] = "leaving"
    /\ WriteLock
    /\ pc' = [pc EXCEPT ![c] = "gone"]
    /\ IF clients[UserOf[c]] # NoConnection
       THEN /\ closed' = closed \cup {c}
            /\ panicked' = (panicked \/ c \in closed)
            /\ clients' = [clients EXCEPT ![UserOf[c]] = NoConnection]
       ELSE UNCHANGED <<closed, panicked, clients>>
    /\ UNCHANGED <<messages, done, online, calls, count, reached>>

\* The deferred removeClient, which leaves a newer connection alone.
RemoveClient(c) ==
    /\ pc[c] = "leaving"
    /\ WriteLock
    /\ pc' = [pc EXCEPT ![c] = "gone"]
    /\ IF clients[UserOf[c]] = c
       THEN /\ closed' = closed \cup {c}
            /\ panicked' = (panicked \/ c \in closed)
            /\ clients' = [clients EXCEPT ![UserOf[c]] = NoConnection]
       ELSE UNCHANGED <<closed, panicked, clients>>
    /\ UNCHANGED <<messages, done, online, calls, count, reached>>

\* The browser goes away, or a timeout of the HTTP server ends the request.
Disconnect(c) ==
    /\ c \in online
    /\ online' = online \ {c}
    /\ UNCHANGED <<clients, messages, closed, done, pc, calls, count, reached,
                   panicked>>

---------------------------------------------------------------------------

Notify(n) == Lock(n) \/ Unlock(n) \/ \E c \in n.todo : Push(n, c) \/ Skip(n, c)

Serve(c) ==
    Write(c) \/ WriteFails(c) \/ ContextEnds(c) \/ SeeClosed(c) \/ RemoveClient(c)

Finished ==
    /\ calls = {} /\ online = {}
    /\ \A b \in Broadcasters : count[b] = MaxEvents
    /\ \A c \in Connections : pc[c] \in {"new", "gone"}
    /\ UNCHANGED notifyVars

NotifyNext ==
    \/ \E b \in Broadcasters : Broadcast(b)
    \/ \E n \in calls : Notify(n)
    \/ \E c \in Connections : SetClient(c) \/ Serve(c) \/ Disconnect(c)
    \/ Finished

NotifySpec == NotifyInit /\ [][NotifyNext]_notifyVars

\* Calls of Notify run; a writer that waits for the lock keeps new readers
\* out.  The handlers of the connections may be stuck in a Write for long.
NotifyFairSpec == NotifySpec /\ WF_notifyVars(\E n \in calls : Notify(n))

---------------------------------------------------------------------------
(* Properties                                                              *)

NotifyTypeOK ==
    /\ clients \in [Users -> Connections \cup {NoConnection}]
    /\ messages \in [Connections -> Seq(Event)]
    /\ closed \subseteq Connections /\ done \subseteq Connections
    /\ pc \in [Connections -> {"new", "serving", "leaving", "gone"}]
    /\ online \subseteq Connections
    /\ calls \subseteq Call
    /\ count \in [Broadcasters -> 0..MaxEvents]
    /\ reached \in [Connections -> [Broadcasters -> 0..MaxEvents]]
    /\ panicked \in BOOLEAN
    /\ \A c \in Connections : Len(messages[c]) <= Capacity

\* No channel is closed twice or sent on after it was closed, whichever way
\* replacing, leaving and notifying interleave: either would take the whole
\* gateway down.
NeverPanics == ~panicked

\* A connection is registered exactly while its channel is open, so events
\* reach the newest connection of a user and none that has ended.
OpenIffRegistered ==
    \A c \in Connections :
        pc[c] # "new" => (c \in closed <=> clients[UserOf[c]] # c)

\* Events that one request path broadcasts one after the other are never
\* delivered in another order, nor twice.
InOrder ==
    [][ \A c \in Connections : Len(messages'[c]) > Len(messages[c]) =>
          LET e == messages'[c][Len(messages'[c])]
          IN  e.number > reached[c][e.from] ]_notifyVars

\* A connection that was replaced ends without waiting for its browser, if
\* its writes return (the WriteTimeout of the server sees to that).
ReplacedEnds ==
    (\A c \in Connections : WF_notifyVars(Serve(c))) =>
        \A c \in Connections :
            pc[c] = "serving" /\ clients[UserOf[c]] # c ~> pc[c] = "gone"

\* Broadcasting never blocks the request that does it: not on clients that do
\* not read, nor on those that come and go.
BroadcastReturns ==
    \A b \in Broadcasters :
        (\E n \in calls : n.event.from = b) ~> (\A n \in calls : n.event.from # b)
=============================================================================

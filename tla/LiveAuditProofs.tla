-------------------------- MODULE LiveAuditProofs -------------------------
(***************************************************************************)
(* Proofs about live audit events at both ends: Notifications (SSEChannel  *)
(* and its connections in the gateway), for any users, connections and     *)
(* events, and AuditPage (the page that merges the events with what it     *)
(* loads), for any entries and filters.                                    *)
(***************************************************************************)
EXTENDS Notifications, AuditPage, FiniteSetTheorems, FunctionTheorems,
        SequenceTheorems, TLAPS

---------------------------------------------------------------------------
(* Proofs about Notifications, for any users, connections and events: no   *)
(* channel of SSEChannel is closed twice or sent on after it was closed,   *)
(* and a connection is registered exactly while its channel is open.       *)

\* What the proofs need of the types.
ChannelTyped ==
    /\ clients \in [Users -> Connections \cup {NoConnection}]
    /\ closed \subseteq Connections /\ done \subseteq Connections
    /\ pc \in [Connections -> {"new", "serving", "leaving", "gone"}]
    /\ panicked \in BOOLEAN

\* A user's entry is a connection of that user.
OwnEntry ==
    \A u \in Users : clients[u] # NoConnection => UserOf[clients[u]] = u

\* A connection's channel is closed once it has been registered and is not
\* registered any more; its done channel once it has left the loop.
ChannelState ==
    \A c \in Connections :
        /\ c \in closed <=> pc[c] # "new" /\ clients[UserOf[c]] # c
        /\ c \in done <=> pc[c] \in {"leaving", "gone"}
        /\ pc[c] = "new" => clients[UserOf[c]] # c
        /\ pc[c] = "gone" => clients[UserOf[c]] # c

\* Under the read lock the connections still to be notified are registered.
TodoRegistered ==
    \A n \in calls : n.todo \subseteq Registered /\ (~n.locked => n.todo = {})

ChannelInv == ChannelTyped /\ OwnEntry /\ ChannelState /\ TodoRegistered /\ NeverPanics

USE NotificationsAssumption

\* Nobody is connected and nothing is closed at the start.
LEMMA InitChannels == NotifyInit => ChannelInv
<1> SUFFICES ASSUME NotifyInit PROVE ChannelInv
  OBVIOUS
<1>1. ChannelTyped /\ OwnEntry /\ NeverPanics
  BY DEF NotifyInit, ChannelTyped, OwnEntry, NeverPanics
<1>2. ChannelState
  BY DEF NotifyInit, ChannelState
<1>3. TodoRegistered
  BY DEF NotifyInit, TodoRegistered
<1>4. QED
  BY <1>1, <1>2, <1>3 DEF ChannelInv

\* The part of the invariant that is not about calls.
Settled == ChannelTyped /\ OwnEntry /\ ChannelState

\* A step that leaves the map, the channels and the handlers alone keeps what
\* is not about calls.
LEMMA SettledStays ==
  ASSUME Settled, UNCHANGED <<clients, closed, done, pc>>, panicked' \in BOOLEAN
  PROVE  Settled'
  BY DEF Settled, ChannelTyped, OwnEntry, ChannelState

\* A registered connection has an open channel.
LEMMA RegisteredOpen ==
  ASSUME Settled, NEW c \in Registered
  PROVE  c \in Connections /\ c \notin closed
  BY DEF Settled, ChannelState, Registered

\* The calls of Notify: each delivers to connections that are registered, so
\* none of its sends is on a closed channel.
LEMMA NotifyInv ==
  ASSUME ChannelInv,
         NEW n \in calls, Notify(n)
  PROVE  ChannelInv'
<1>1. Settled
  BY DEF ChannelInv, Settled
<1>2. n.todo \subseteq Registered
  BY DEF ChannelInv, TodoRegistered
<1>3. UNCHANGED <<clients, closed, done, pc>>
  BY DEF Notify, Lock, Unlock, Push, Skip
<1>4. Registered' = Registered
  BY <1>3 DEF Registered
<1>5. panicked' = FALSE
  <2>1. panicked = FALSE
    BY DEF ChannelInv, NeverPanics, ChannelTyped
  <2>2. CASE Lock(n) \/ Unlock(n) \/ \E c \in n.todo : Skip(n, c)
    BY <2>1, <2>2 DEF Lock, Unlock, Skip
  <2>3. ASSUME NEW c \in n.todo, Push(n, c)
        PROVE  panicked' = FALSE
    BY <2>1, <2>3, <1>1, <1>2, RegisteredOpen DEF Push
  <2>4. QED
    BY <2>2, <2>3 DEF Notify
<1>6. TodoRegistered'
  <2>1. SUFFICES ASSUME NEW m \in calls'
                 PROVE  m.todo \subseteq Registered /\ (~m.locked => m.todo = {})
    BY <1>4 DEF TodoRegistered
  <2>2. CASE m \in calls
    BY <2>2 DEF ChannelInv, TodoRegistered
  <2>3. CASE m \notin calls
    <3>1. CASE Lock(n)
      <4>1. PICK us \in {{u} : u \in Users} \cup {Users} :
                m = [n EXCEPT !.locked = TRUE,
                              !.todo = {c \in Registered : UserOf[c] \in us}]
        BY <2>3, <3>1 DEF Lock
      <4>2. QED
        BY <4>1
    <3>2. ASSUME NEW c \in n.todo, Push(n, c) \/ Skip(n, c)
          PROVE  m.todo \subseteq Registered /\ (~m.locked => m.todo = {})
      <4>1. m = [n EXCEPT !.todo = @ \ {c}]
        BY <2>3, <3>2 DEF Push, Skip, Progress
      <4>2. n.locked
        BY <3>2 DEF Push, Skip
      <4>3. QED
        BY <4>1, <4>2, <1>2
    <3>3. CASE Unlock(n)
      BY <2>3, <3>3 DEF Unlock
    <3>4. QED
      BY <3>1, <3>2, <3>3 DEF Notify
  <2>4. QED
    BY <2>2, <2>3
<1>7. QED
  BY <1>1, <1>3, <1>5, <1>6, SettledStays DEF ChannelInv, Settled, NeverPanics

\* With the write lock taken nobody has deliveries left to make.
LEMMA LockedOut ==
  ASSUME ChannelInv, WriteLock, UNCHANGED calls
  PROVE  TodoRegistered'
  BY DEF ChannelInv, WriteLock, TodoRegistered

\* setClient: the user's old connection, if there is one, is open until now.
LEMMA SetClientInv ==
  ASSUME ChannelInv,
         NEW c \in Connections, SetClient(c)
  PROVE  ChannelInv'
<1>1. PICK u \in Users : u = UserOf[c]
  OBVIOUS
<1>2. /\ pc[c] = "new" /\ clients[u] # c
      /\ pc' = [pc EXCEPT ![c] = "serving"]
      /\ clients' = [clients EXCEPT ![u] = c]
      /\ done' = done
  BY <1>1 DEF SetClient, ChannelInv, ChannelState
<1>3. clients[u] # NoConnection =>
         /\ clients[u] \in Connections /\ clients[u] # c
         /\ UserOf[clients[u]] = u /\ clients[u] \notin closed
  BY <1>2 DEF ChannelInv, ChannelTyped, OwnEntry, ChannelState
<1>4. closed' = IF clients[u] = NoConnection THEN closed ELSE closed \cup {clients[u]}
  BY <1>1 DEF SetClient
<1>5. ChannelTyped'
  <2>1. panicked' \in BOOLEAN
    BY DEF SetClient, ChannelInv, ChannelTyped
  <2>2. QED
    BY <1>2, <1>3, <1>4, <2>1 DEF ChannelInv, ChannelTyped
<1>6. OwnEntry'
  BY <1>1, <1>2 DEF ChannelInv, ChannelTyped, OwnEntry
<1>7. ChannelState'
  <2>1. SUFFICES ASSUME NEW d \in Connections
                 PROVE  /\ d \in closed' <=> pc'[d] # "new" /\ clients'[UserOf[d]] # d
                        /\ d \in done' <=> pc'[d] \in {"leaving", "gone"}
                        /\ pc'[d] = "new" => clients'[UserOf[d]] # d
                        /\ pc'[d] = "gone" => clients'[UserOf[d]] # d
    BY DEF ChannelState
  <2>2. /\ d \in closed <=> pc[d] # "new" /\ clients[UserOf[d]] # d
        /\ d \in done <=> pc[d] \in {"leaving", "gone"}
        /\ pc[d] = "new" => clients[UserOf[d]] # d
        /\ pc[d] = "gone" => clients[UserOf[d]] # d
    BY DEF ChannelInv, ChannelState
  <2>3. pc'[d] = IF d = c THEN "serving" ELSE pc[d]
    BY <1>2 DEF ChannelInv, ChannelTyped
  <2>4. clients'[UserOf[d]] = IF UserOf[d] = u THEN c ELSE clients[UserOf[d]]
    BY <1>2 DEF ChannelInv, ChannelTyped
  <2>5. CASE d = c
    BY <1>1, <1>2, <1>3, <1>4, <2>2, <2>3, <2>4, <2>5
  <2>6. CASE d # c /\ UserOf[d] = u /\ clients[u] = d
    BY <1>2, <1>3, <1>4, <2>2, <2>3, <2>4, <2>6
  <2>7. CASE d # c /\ ~(UserOf[d] = u /\ clients[u] = d)
    BY <1>2, <1>3, <1>4, <2>2, <2>3, <2>4, <2>7
  <2>8. QED
    BY <2>5, <2>6, <2>7
<1>8. panicked' = FALSE
  <2>1. NoConnection \notin closed
    BY DEF ChannelInv, ChannelTyped
  <2>2. QED
    BY <1>1, <1>3, <2>1 DEF SetClient, ChannelInv, NeverPanics, ChannelTyped
<1>9. TodoRegistered'
  BY LockedOut DEF SetClient
<1>10. QED
  BY <1>5, <1>6, <1>7, <1>8, <1>9 DEF ChannelInv, NeverPanics

\* Leaving the loop closes a done channel that is open.
LEMMA StopInv ==
  ASSUME ChannelInv,
         NEW c \in Connections, Stop(c)
  PROVE  ChannelInv'
<1>1. pc[c] = "serving" /\ c \notin done
  BY DEF Stop, ChannelInv, ChannelState
<1>2. /\ pc' = [pc EXCEPT ![c] = "leaving"]
      /\ done' = done \cup {c}
      /\ closed' = closed /\ clients' = clients /\ calls' = calls
  BY DEF Stop
<1>3. panicked' = FALSE
  BY <1>1 DEF Stop, ChannelInv, NeverPanics, ChannelTyped
<1>4. ChannelTyped' /\ OwnEntry'
  BY <1>2, <1>3 DEF ChannelInv, ChannelTyped, OwnEntry
<1>5. ChannelState'
  BY <1>1, <1>2 DEF ChannelInv, ChannelTyped, ChannelState
<1>6. TodoRegistered'
  BY <1>2 DEF ChannelInv, TodoRegistered, Registered
<1>7. QED
  BY <1>3, <1>4, <1>5, <1>6 DEF ChannelInv, NeverPanics

\* removeClient closes the channel only of the connection that is registered.
LEMMA RemoveClientInv ==
  ASSUME ChannelInv,
         NEW c \in Connections, RemoveClient(c)
  PROVE  ChannelInv'
<1>1. /\ pc[c] = "leaving"
      /\ pc' = [pc EXCEPT ![c] = "gone"]
      /\ done' = done
  BY DEF RemoveClient
<1>2. TodoRegistered'
  BY LockedOut DEF RemoveClient
<1>3. CASE clients[UserOf[c]] = c
  <2>1. /\ closed' = closed \cup {c}
        /\ clients' = [clients EXCEPT ![UserOf[c]] = NoConnection]
        /\ panicked' = (panicked \/ c \in closed)
    BY <1>3 DEF RemoveClient
  <2>2. c \notin closed
    BY <1>3 DEF ChannelInv, ChannelState
  <2>3. panicked' = FALSE
    BY <2>1, <2>2 DEF ChannelInv, NeverPanics, ChannelTyped
  <2>4. ChannelTyped' /\ OwnEntry'
    BY <1>1, <2>1, <2>3 DEF ChannelInv, ChannelTyped, OwnEntry
  <2>5. ChannelState'
    <3>1. SUFFICES ASSUME NEW d \in Connections
                   PROVE  /\ d \in closed' <=> pc'[d] # "new" /\ clients'[UserOf[d]] # d
                          /\ d \in done' <=> pc'[d] \in {"leaving", "gone"}
                          /\ pc'[d] = "new" => clients'[UserOf[d]] # d
                          /\ pc'[d] = "gone" => clients'[UserOf[d]] # d
      BY DEF ChannelState
    <3>2. /\ d \in closed <=> pc[d] # "new" /\ clients[UserOf[d]] # d
          /\ d \in done <=> pc[d] \in {"leaving", "gone"}
          /\ pc[d] = "new" => clients[UserOf[d]] # d
          /\ pc[d] = "gone" => clients[UserOf[d]] # d
      BY DEF ChannelInv, ChannelState
    <3>3. pc'[d] = IF d = c THEN "gone" ELSE pc[d]
      BY <1>1 DEF ChannelInv, ChannelTyped
    <3>4. clients'[UserOf[d]] = IF UserOf[d] = UserOf[c] THEN NoConnection ELSE clients[UserOf[d]]
      BY <2>1 DEF ChannelInv, ChannelTyped
    <3>5. QED
      BY <1>1, <1>3, <2>1, <3>2, <3>3, <3>4
  <2>6. QED
    BY <1>2, <2>3, <2>4, <2>5 DEF ChannelInv, NeverPanics
<1>4. CASE clients[UserOf[c]] # c
  <2>1. UNCHANGED <<closed, panicked, clients>>
    BY <1>4 DEF RemoveClient
  <2>2. ChannelTyped' /\ OwnEntry' /\ NeverPanics'
    BY <1>1, <2>1 DEF ChannelInv, ChannelTyped, OwnEntry, NeverPanics
  <2>3. ChannelState'
    BY <1>1, <1>4, <2>1 DEF ChannelInv, ChannelTyped, ChannelState
  <2>4. QED
    BY <1>2, <2>2, <2>3 DEF ChannelInv
<1>5. QED
  BY <1>3, <1>4

\* Steps that touch neither the map nor the channels' ends nor the calls.
LEMMA FrameInv ==
  ASSUME ChannelInv, UNCHANGED <<clients, closed, done, pc, calls, panicked>>
  PROVE  ChannelInv'
  BY DEF ChannelInv, ChannelTyped, OwnEntry, ChannelState, TodoRegistered, Registered, NeverPanics

\* A new call has nothing to deliver yet.
LEMMA BroadcastInv ==
  ASSUME ChannelInv,
         NEW b \in Broadcasters, Broadcast(b)
  PROVE  ChannelInv'
<1>1. ChannelTyped' /\ OwnEntry' /\ ChannelState' /\ NeverPanics'
  BY DEF Broadcast, ChannelInv, ChannelTyped, OwnEntry, ChannelState, NeverPanics
<1>2. Registered' = Registered
  BY DEF Broadcast, Registered
<1>3. TodoRegistered'
  BY <1>2 DEF Broadcast, ChannelInv, TodoRegistered
<1>4. QED
  BY <1>1, <1>3 DEF ChannelInv

\* Every step keeps the inductive invariant.
LEMMA NextInv == ChannelInv /\ [NotifyNext]_notifyVars => ChannelInv'
<1> SUFFICES ASSUME ChannelInv, [NotifyNext]_notifyVars PROVE ChannelInv'
  OBVIOUS
<1>1. ASSUME NEW b \in Broadcasters, Broadcast(b) PROVE ChannelInv'
  BY <1>1, BroadcastInv
<1>2. ASSUME NEW n \in calls, Notify(n) PROVE ChannelInv'
  BY <1>2, NotifyInv
<1>3. ASSUME NEW c \in Connections, SetClient(c) PROVE ChannelInv'
  BY <1>3, SetClientInv
<1>4. ASSUME NEW c \in Connections, Serve(c) PROVE ChannelInv'
  <2>1. CASE Write(c)
    BY <2>1, FrameInv DEF Write
  <2>2. CASE WriteFails(c) \/ ContextEnds(c) \/ SeeClosed(c)
    BY <2>2, StopInv DEF WriteFails, ContextEnds, SeeClosed
  <2>3. CASE RemoveClient(c)
    BY <2>3, RemoveClientInv
  <2>4. QED
    BY <1>4, <2>1, <2>2, <2>3 DEF Serve
<1>5. ASSUME NEW c \in Connections, Disconnect(c) PROVE ChannelInv'
  BY <1>5, FrameInv DEF Disconnect
<1>6. CASE UNCHANGED notifyVars
  BY <1>6, FrameInv DEF notifyVars
<1>7. CASE Finished
  BY <1>7, FrameInv DEF Finished, notifyVars
<1>8. QED
  BY <1>1, <1>2, <1>3, <1>4, <1>5, <1>6, <1>7 DEF NotifyNext

\* Every state Spec reaches satisfies the inductive invariant: the map's
\* entries are their users' own, channels are closed exactly when the
\* connection has lost its entry or left its loop, and running calls of
\* Notify hold registered connections only.
THEOREM ChannelInvariance == NotifySpec => []ChannelInv
<1>1. ChannelInv /\ [NotifyNext]_notifyVars => ChannelInv'
  BY NextInv
<1>2. QED
  BY InitChannels, <1>1, PTL DEF NotifySpec

\* No channel of SSEChannel is closed twice or sent on after it was closed.
THEOREM ChannelsNeverPanic == NotifySpec => []NeverPanics
<1>1. ChannelInv => NeverPanics
  BY DEF ChannelInv
<1>2. QED
  BY <1>1, ChannelInvariance, PTL

\* A connection that was ever registered is registered exactly while its
\* messages channel is open.
THEOREM RegisteredIffOpen == NotifySpec => []OpenIffRegistered
<1>1. ChannelInv => OpenIffRegistered
  BY DEF ChannelInv, ChannelState, OpenIffRegistered
<1>2. QED
  BY <1>1, ChannelInvariance, PTL

---------------------------------------------------------------------------
(* The order of the events and the bound of the buffers                    *)

\* A connection's buffer holds events, no more than its capacity.
Buffered ==
    /\ messages \in [Connections -> Seq(Event)]
    /\ \A c \in Connections : Len(messages[c]) <= Capacity

\* The calls and the numbers of their events.
Numbered ==
    /\ calls \subseteq Call
    /\ count \in [Broadcasters -> 0..MaxEvents]
    /\ reached \in [Connections -> [Broadcasters -> 0..MaxEvents]]
    /\ online \subseteq Connections

\* A goroutine that serves requests broadcasts one event at a time.
OneCall ==
    \A n, m \in calls : n.event.from = m.event.from => n = m

\* The event of a running call is the newest of its goroutine.
Newest ==
    \A n \in calls : n.event.number = count[n.event.from]

\* It has not reached the connections to which it is still to be delivered.
NotYetReached ==
    \A n \in calls, c \in Connections :
        ~n.locked \/ c \in n.todo => reached[c][n.event.from] < n.event.number

\* No event reaches a connection before it is broadcast.
NoneAhead ==
    \A c \in Connections, b \in Broadcasters : reached[c][b] <= count[b]

Order == Numbered /\ OneCall /\ Newest /\ NotYetReached /\ NoneAhead

\* Nothing is numbered at the start.
LEMMA InitOrder == NotifyInit => Order /\ Buffered
<1> SUFFICES ASSUME NotifyInit PROVE Order /\ Buffered
  OBVIOUS
<1>1. Numbered
  BY DEF NotifyInit, Numbered
<1>2. OneCall /\ Newest /\ NotYetReached
  BY DEF NotifyInit, OneCall, Newest, NotYetReached
<1>3. NoneAhead
  BY DEF NotifyInit, NoneAhead
<1>4. Buffered
  <2>1. <<>> \in Seq(Event) /\ Len(<<>>) = 0
    OBVIOUS
  <2>2. QED
    BY <2>1 DEF NotifyInit, Buffered
<1>5. QED
  BY <1>1, <1>2, <1>3, <1>4 DEF Order

\* Steps that broadcast nothing and deliver nothing keep the order.
LEMMA OrderStays ==
  ASSUME Order, UNCHANGED <<calls, count, reached>>, online' \subseteq online
  PROVE  Order'
  BY DEF Order, Numbered, OneCall, Newest, NotYetReached, NoneAhead

\* A call that goes on is the call it was, with no more to deliver than
\* before unless it has just taken the lock.
LEMMA CallGoesOn ==
  ASSUME Order, NEW n \in calls, NEW m \in Call,
         m.event = n.event,
         calls' = (calls \ {n}) \cup {m},
         \A c \in Connections : ~m.locked \/ c \in m.todo =>
             reached'[c][n.event.from] < n.event.number,
         reached' \in [Connections -> [Broadcasters -> 0..MaxEvents]],
         \A c \in Connections, b \in Broadcasters :
             b # n.event.from => reached'[c][b] = reached[c][b],
         \A c \in Connections : reached'[c][n.event.from] <= n.event.number,
         UNCHANGED <<count, online>>
  PROVE  Order'
<1>1. n \in Call /\ n.event.from \in Broadcasters
  BY DEF Order, Numbered, Call, Event
<1>2. Numbered'
  BY DEF Order, Numbered
<1>3. OneCall'
  BY DEF Order, OneCall
<1>4. Newest'
  BY DEF Order, Newest
<1>5. NotYetReached'
  <2>1. SUFFICES ASSUME NEW k \in calls', NEW c \in Connections,
                        ~k.locked \/ c \in k.todo
                 PROVE  reached'[c][k.event.from] < k.event.number
    BY DEF NotYetReached
  <2>2. CASE k = m
    BY <2>1, <2>2
  <2>3. CASE k # m
    <3>1. k \in calls /\ k # n
      BY <2>3
    <3>2. k.event.from # n.event.from /\ k.event.from \in Broadcasters
      BY <3>1 DEF Order, OneCall, Numbered, Call, Event
    <3>3. reached[c][k.event.from] < k.event.number
      BY <2>1, <3>1 DEF Order, NotYetReached
    <3>4. QED
      BY <3>2, <3>3
  <2>4. QED
    BY <2>2, <2>3
<1>6. NoneAhead'
  <2>1. SUFFICES ASSUME NEW c \in Connections, NEW b \in Broadcasters
                 PROVE  reached'[c][b] <= count[b]
    BY DEF NoneAhead
  <2>2. CASE b = n.event.from
    BY <2>2 DEF Order, Newest
  <2>3. CASE b # n.event.from
    BY <2>3 DEF Order, NoneAhead
  <2>4. QED
    BY <2>2, <2>3
<1>7. QED
  BY <1>2, <1>3, <1>4, <1>5, <1>6 DEF Order

\* Taking the lock leaves to deliver what no connection has got yet.
LEMMA LockOrder ==
  ASSUME Order, NEW n \in calls, Lock(n)
  PROVE  Order'
<1>1. PICK us \in {{u} : u \in Users} \cup {Users} :
          calls' = (calls \ {n}) \cup
             {[n EXCEPT !.locked = TRUE,
                        !.todo = {c \in Registered : UserOf[c] \in us}]}
  BY DEF Lock
<1> DEFINE m == [n EXCEPT !.locked = TRUE,
                          !.todo = {c \in Registered : UserOf[c] \in us}]
<1>2. n \in Call
  BY DEF Order, Numbered
<1>3. {c \in Registered : UserOf[c] \in us} \in SUBSET Connections
  BY DEF Registered
<1>4. m \in Call /\ m.event = n.event /\ m.locked
  BY <1>2, <1>3 DEF Call
<1>5. n.event.from \in Broadcasters /\ n.event.number \in Nat
  BY <1>2 DEF Call, Event
<1>6. ~n.locked /\ UNCHANGED <<count, online, reached>>
  BY DEF Lock
<1>7. \A c \in Connections : reached[c][n.event.from] < n.event.number
  BY <1>6 DEF Order, NotYetReached
<1>8. \A c \in Connections : reached[c][n.event.from] \in Nat
  BY <1>5 DEF Order, Numbered
<1>9. reached \in [Connections -> [Broadcasters -> 0..MaxEvents]]
  BY DEF Order, Numbered
<1>10. calls' = (calls \ {n}) \cup {m}
  BY <1>1
<1>11. \A c \in Connections : reached'[c][n.event.from] <= n.event.number
  BY <1>5, <1>6, <1>7, <1>8
<1> HIDE DEF m
<1>12. QED
  BY <1>4, <1>6, <1>7, <1>9, <1>10, <1>11, CallGoesOn

\* A delivery, made or skipped, is struck off.
LEMMA ProgressCall ==
  ASSUME Order, NEW n \in calls, NEW c \in n.todo, Progress(n, c)
  PROVE  \E m \in Call :
            /\ m.event = n.event
            /\ m.locked = n.locked
            /\ m.todo = n.todo \ {c}
            /\ calls' = (calls \ {n}) \cup {m}
<1> DEFINE m == [n EXCEPT !.todo = @ \ {c}]
<1>1. n \in Call
  BY DEF Order, Numbered
<1>2. m \in Call /\ m.event = n.event /\ m.locked = n.locked /\ m.todo = n.todo \ {c}
  BY <1>1 DEF Call
<1>3. calls' = (calls \ {n}) \cup {m}
  BY DEF Progress
<1>4. QED
  BY <1>2, <1>3

\* An event that is put into a buffer has reached that connection.
LEMMA PushOrder ==
  ASSUME Order, NEW n \in calls, NEW c \in n.todo, Push(n, c)
  PROVE  Order'
<1>1. PICK m \in Call :
            /\ m.event = n.event
            /\ m.locked = n.locked
            /\ m.todo = n.todo \ {c}
            /\ calls' = (calls \ {n}) \cup {m}
  BY ProgressCall DEF Push
<1>2. n \in Call
  BY DEF Order, Numbered
<1>3. /\ n.event.from \in Broadcasters /\ n.event.number \in 0..MaxEvents
      /\ n.event.number \in Nat /\ c \in Connections
  BY <1>2 DEF Call, Event
<1>4. /\ reached' = [reached EXCEPT ![c][n.event.from] = n.event.number]
      /\ n.locked /\ UNCHANGED <<count, online>>
  BY DEF Push
<1>5. reached \in [Connections -> [Broadcasters -> 0..MaxEvents]]
  BY DEF Order, Numbered
<1>6. \A d \in Connections, b \in Broadcasters :
         reached'[d][b] = IF d = c /\ b = n.event.from
                          THEN n.event.number ELSE reached[d][b]
  BY <1>3, <1>4, <1>5
<1>7. reached' \in [Connections -> [Broadcasters -> 0..MaxEvents]]
  BY <1>3, <1>4, <1>5
<1>8. \A d \in Connections : reached[d][n.event.from] <= n.event.number
  <2>1. \A d \in Connections : reached[d][n.event.from] <= count[n.event.from]
    BY <1>3 DEF Order, NoneAhead
  <2>2. n.event.number = count[n.event.from]
    BY DEF Order, Newest
  <2>3. QED
    BY <2>1, <2>2
<1>9. \A d \in Connections : reached'[d][n.event.from] <= n.event.number
  BY <1>3, <1>6, <1>8
<1>10. \A d \in Connections : ~m.locked \/ d \in m.todo =>
          reached'[d][n.event.from] < n.event.number
  <2>1. SUFFICES ASSUME NEW d \in Connections, ~m.locked \/ d \in m.todo
                 PROVE  reached'[d][n.event.from] < n.event.number
    OBVIOUS
  <2>2. d # c /\ d \in n.todo
    BY <2>1, <1>1, <1>4
  <2>3. reached[d][n.event.from] < n.event.number
    BY <2>2 DEF Order, NotYetReached
  <2>4. QED
    BY <2>2, <2>3, <1>3, <1>6
<1>11. \A d \in Connections, b \in Broadcasters :
          b # n.event.from => reached'[d][b] = reached[d][b]
  BY <1>6
<1>12. QED
  BY <1>1, <1>4, <1>7, <1>9, <1>10, <1>11, CallGoesOn

\* A delivery that is skipped reaches nobody.
LEMMA SkipOrder ==
  ASSUME Order, NEW n \in calls, NEW c \in n.todo, Skip(n, c)
  PROVE  Order'
<1>1. PICK m \in Call :
            /\ m.event = n.event
            /\ m.locked = n.locked
            /\ m.todo = n.todo \ {c}
            /\ calls' = (calls \ {n}) \cup {m}
  BY ProgressCall DEF Skip
<1>2. n.event.from \in Broadcasters
  BY DEF Order, Numbered, Call, Event
<1>3. UNCHANGED <<count, online, reached>>
  BY DEF Skip
<1>4. reached \in [Connections -> [Broadcasters -> 0..MaxEvents]]
  BY DEF Order, Numbered
<1>5. \A d \in Connections : reached[d][n.event.from] <= n.event.number
  <2>1. \A d \in Connections : reached[d][n.event.from] <= count[n.event.from]
    BY <1>2 DEF Order, NoneAhead
  <2>2. n.event.number = count[n.event.from]
    BY DEF Order, Newest
  <2>3. QED
    BY <2>1, <2>2
<1>6. \A d \in Connections : ~m.locked \/ d \in m.todo =>
          reached[d][n.event.from] < n.event.number
  BY <1>1 DEF Order, NotYetReached
<1>7. QED
  BY <1>1, <1>3, <1>4, <1>5, <1>6, CallGoesOn

\* A new call has a number no connection has seen.
LEMMA BroadcastOrder ==
  ASSUME Order, NEW b \in Broadcasters, Broadcast(b)
  PROVE  Order'
<1> DEFINE m == [event |-> [from |-> b, number |-> count[b] + 1],
                 locked |-> FALSE, todo |-> {}]
<1>1. /\ count[b] < MaxEvents
      /\ count' = [count EXCEPT ![b] = @ + 1]
      /\ UNCHANGED <<reached, online>>
  BY DEF Broadcast
<1>2. \A n \in calls : n.event.from # b
  BY DEF Broadcast
<1>3. calls' = calls \cup {m}
  BY DEF Broadcast
<1>4. count \in [Broadcasters -> 0..MaxEvents]
  BY DEF Order, Numbered
<1>5. count' \in [Broadcasters -> 0..MaxEvents] /\ count[b] + 1 \in 1..MaxEvents
  BY <1>1, <1>4
<1>6. \A d \in Broadcasters : count'[d] = IF d = b THEN count[b] + 1 ELSE count[d]
  BY <1>1, <1>4
<1>7. m \in Call
  BY <1>5 DEF Call, Event
<1>8. /\ m.event.from = b /\ m.event.number = count[b] + 1
      /\ m.todo = {}
  OBVIOUS
<1> HIDE DEF m
<1>9. \A n \in calls : n.event.from \in Broadcasters
  BY DEF Order, Numbered, Call, Event
<1>10. Numbered'
  BY <1>1, <1>3, <1>5, <1>7 DEF Order, Numbered
<1>11. OneCall'
  BY <1>2, <1>3, <1>8 DEF Order, OneCall
<1>12. Newest'
  BY <1>2, <1>3, <1>6, <1>8, <1>9 DEF Order, Newest
<1>13. NotYetReached'
  <2>1. \A c \in Connections : reached[c][b] <= count[b] /\ reached[c][b] \in Nat
    BY DEF Order, NoneAhead, Numbered
  <2>2. count[b] \in Nat
    BY <1>4
  <2>3. \A c \in Connections : reached[c][b] < m.event.number
    BY <2>1, <2>2, <1>8
  <2>4. QED
    BY <2>3, <1>1, <1>3, <1>8 DEF Order, NotYetReached
<1>14. NoneAhead'
  <2>1. SUFFICES ASSUME NEW c \in Connections, NEW d \in Broadcasters
                 PROVE  reached[c][d] <= count'[d]
    BY <1>1 DEF NoneAhead
  <2>2. reached[c][d] <= count[d] /\ reached[c][d] \in Nat /\ count[d] \in Nat
    BY DEF Order, NoneAhead, Numbered
  <2>3. QED
    BY <2>2, <1>6
<1>15. QED
  BY <1>10, <1>11, <1>12, <1>13, <1>14 DEF Order

\* Every step keeps the order.
LEMMA NextOrder == Order /\ [NotifyNext]_notifyVars => Order'
<1> SUFFICES ASSUME Order, [NotifyNext]_notifyVars PROVE Order'
  OBVIOUS
<1>1. ASSUME NEW b \in Broadcasters, Broadcast(b) PROVE Order'
  BY <1>1, BroadcastOrder
<1>2. ASSUME NEW n \in calls, Notify(n) PROVE Order'
  <2>1. CASE Lock(n)
    BY <2>1, LockOrder
  <2>2. CASE Unlock(n)
    BY <2>2 DEF Unlock, Order, Numbered, OneCall, Newest, NotYetReached, NoneAhead
  <2>3. ASSUME NEW c \in n.todo, Push(n, c) PROVE Order'
    BY <2>3, PushOrder
  <2>4. ASSUME NEW c \in n.todo, Skip(n, c) PROVE Order'
    BY <2>4, SkipOrder
  <2>5. QED
    BY <1>2, <2>1, <2>2, <2>3, <2>4 DEF Notify
<1>3. ASSUME NEW c \in Connections, SetClient(c) PROVE Order'
  BY <1>3, OrderStays DEF SetClient
<1>4. ASSUME NEW c \in Connections, Serve(c) PROVE Order'
  BY <1>4, OrderStays
     DEF Serve, Write, WriteFails, ContextEnds, SeeClosed, Stop, RemoveClient
<1>5. ASSUME NEW c \in Connections, Disconnect(c) PROVE Order'
  BY <1>5, OrderStays DEF Disconnect
<1>6. CASE UNCHANGED notifyVars \/ Finished
  BY <1>6, OrderStays DEF notifyVars, Finished
<1>7. QED
  BY <1>1, <1>2, <1>3, <1>4, <1>5, <1>6 DEF NotifyNext

\* A buffer that grows has got the event of a call at its end.
LEMMA Grown ==
  ASSUME Buffered, Order, NEW n \in calls, NEW c \in n.todo, Push(n, c)
  PROVE  /\ messages' \in [Connections -> Seq(Event)]
         /\ Len(messages'[c]) = Len(messages[c]) + 1
         /\ messages'[c][Len(messages'[c])] = n.event
         /\ \A d \in Connections : d # c => messages'[d] = messages[d]
<1>1. n \in Call
  BY DEF Order, Numbered
<1>2. n.event \in Event /\ c \in Connections
  BY <1>1 DEF Call
<1>3. messages' = [messages EXCEPT ![c] = Append(@, n.event)]
  BY DEF Push
<1>4. messages \in [Connections -> Seq(Event)] /\ messages[c] \in Seq(Event)
  BY <1>2 DEF Buffered
<1>5. messages'[c] = Append(messages[c], n.event)
  BY <1>2, <1>3, <1>4
<1>6. /\ Append(messages[c], n.event) \in Seq(Event)
      /\ Len(Append(messages[c], n.event)) = Len(messages[c]) + 1
      /\ Append(messages[c], n.event)[Len(messages[c]) + 1] = n.event
  BY <1>2, <1>4, AppendProperties
<1>7. messages' \in [Connections -> Seq(Event)]
  BY <1>2, <1>3, <1>4, <1>6
<1>8. \A d \in Connections : d # c => messages'[d] = messages[d]
  BY <1>2, <1>3, <1>4
<1>9. QED
  BY <1>5, <1>6, <1>7, <1>8

\* Receiving a message takes the first one away.
LEMMA Taken ==
  ASSUME Buffered, NEW c \in Connections, messages[c] # <<>>,
         messages' = [messages EXCEPT ![c] = Tail(@)]
  PROVE  /\ Buffered'
         /\ \A d \in Connections : Len(messages'[d]) <= Len(messages[d])
<1>1. messages \in [Connections -> Seq(Event)] /\ messages[c] \in Seq(Event)
  BY DEF Buffered
<1>2. Tail(messages[c]) \in Seq(Event) /\ Len(Tail(messages[c])) = Len(messages[c]) - 1
  BY <1>1
<1>3. \A d \in Connections :
         messages'[d] = IF d = c THEN Tail(messages[c]) ELSE messages[d]
  BY <1>1
<1>4. messages' \in [Connections -> Seq(Event)]
  BY <1>1, <1>2
<1>5. \A d \in Connections : Len(messages[d]) \in Nat /\ Len(messages[d]) <= Capacity
  BY <1>1 DEF Buffered
<1>6. \A d \in Connections :
         Len(messages'[d]) <= Len(messages[d]) /\ Len(messages'[d]) <= Capacity
  BY <1>2, <1>3, <1>5
<1>7. QED
  BY <1>4, <1>6 DEF Buffered

\* A step that is no delivery makes no buffer longer.
LEMMA OnlyPushGrows ==
  ASSUME Buffered, [NotifyNext]_notifyVars,
         ~ \E n \in calls : \E c \in n.todo : Push(n, c)
  PROVE  /\ Buffered'
         /\ \A d \in Connections : ~(Len(messages'[d]) > Len(messages[d]))
<1>1. ASSUME UNCHANGED messages
      PROVE  /\ Buffered'
             /\ \A d \in Connections : ~(Len(messages'[d]) > Len(messages[d]))
  <2>1. \A d \in Connections : Len(messages[d]) \in Nat
    BY DEF Buffered
  <2>2. QED
    BY <1>1, <2>1 DEF Buffered
<1>2. ASSUME NEW c \in Connections, Write(c) \/ WriteFails(c)
      PROVE  /\ Buffered'
             /\ \A d \in Connections : ~(Len(messages'[d]) > Len(messages[d]))
  <2>1. Buffered' /\ \A d \in Connections : Len(messages'[d]) <= Len(messages[d])
    BY <1>2, Taken DEF Write, WriteFails
  <2>2. \A d \in Connections : Len(messages[d]) \in Nat /\ Len(messages'[d]) \in Nat
    BY <2>1 DEF Buffered
  <2>3. QED
    BY <2>1, <2>2
<1>3. ASSUME NEW b \in Broadcasters, Broadcast(b) PROVE UNCHANGED messages
  BY <1>3 DEF Broadcast
<1>4. ASSUME NEW n \in calls, Notify(n) PROVE UNCHANGED messages
  BY <1>4 DEF Notify, Lock, Unlock, Skip
<1>5. ASSUME NEW c \in Connections,
             SetClient(c) \/ ContextEnds(c) \/ SeeClosed(c) \/ RemoveClient(c) \/ Disconnect(c)
      PROVE  UNCHANGED messages
  BY <1>5 DEF SetClient, ContextEnds, SeeClosed, RemoveClient, Disconnect
<1>6. CASE UNCHANGED notifyVars \/ Finished
  BY <1>1, <1>6 DEF notifyVars, Finished
<1>7. QED
  BY <1>1, <1>2, <1>3, <1>4, <1>5, <1>6 DEF NotifyNext, Serve

\* Nothing is put into a buffer that is full.
LEMMA NextBuffered == ChannelInv /\ Order /\ Buffered /\ [NotifyNext]_notifyVars => Buffered'
<1> SUFFICES ASSUME ChannelInv, Order, Buffered, [NotifyNext]_notifyVars PROVE Buffered'
  OBVIOUS
<1>1. ASSUME NEW n \in calls, NEW c \in n.todo, Push(n, c) PROVE Buffered'
  <2>1. n.todo \subseteq Registered
    BY DEF ChannelInv, TodoRegistered
  <2>2. c \in Connections /\ c \notin closed
    BY <2>1, RegisteredOpen DEF ChannelInv, Settled
  <2>3. Len(messages[c]) < Capacity /\ Len(messages[c]) \in Nat
    BY <2>2, <1>1 DEF Push, Buffered
  <2>4. Len(messages'[c]) <= Capacity
    BY <2>3, <1>1, Grown
  <2>5. QED
    BY <2>4, <1>1, Grown DEF Buffered
<1>2. QED
  BY <1>1, OnlyPushGrows

\* Every state Spec reaches keeps calls, counters and buffers in order: at
\* most one call per goroutine, whose event is its newest and has not reached
\* the connections that are still to get it.
THEOREM OrderInvariant == NotifySpec => [](Order /\ Buffered)
<1>1. ChannelInv /\ Order /\ Buffered /\ [NotifyNext]_notifyVars => (Order /\ Buffered)'
  BY NextOrder, NextBuffered
<1>2. QED
  BY InitOrder, ChannelInvariance, <1>1, PTL DEF NotifySpec

\* The variables have their types, and no buffer is over its capacity.
THEOREM NotifyTypeCorrect == NotifySpec => []NotifyTypeOK
<1>1. ChannelInv /\ Order /\ Buffered => NotifyTypeOK
  <2> SUFFICES ASSUME ChannelInv, Order, Buffered PROVE NotifyTypeOK
    OBVIOUS
  <2>1. panicked \in BOOLEAN
    BY DEF ChannelInv, ChannelTyped
  <2>2. QED
    BY <2>1 DEF ChannelInv, ChannelTyped, Order, Numbered, Buffered, NotifyTypeOK
<1>2. QED
  BY <1>1, ChannelInvariance, OrderInvariant, PTL

\* What one request path broadcasts one after the other is put into no
\* connection's buffer in another order, nor twice.
THEOREM DeliveredInOrder == NotifySpec => InOrder
<1>1. Order /\ Buffered /\ [NotifyNext]_notifyVars =>
         [ \A c \in Connections : Len(messages'[c]) > Len(messages[c]) =>
              LET e == messages'[c][Len(messages'[c])]
              IN  e.number > reached[c][e.from] ]_notifyVars
  <2> SUFFICES ASSUME Order, Buffered, [NotifyNext]_notifyVars,
                      NEW c \in Connections, Len(messages'[c]) > Len(messages[c])
               PROVE  LET e == messages'[c][Len(messages'[c])]
                      IN  e.number > reached[c][e.from]
    OBVIOUS
  <2>1. PICK n \in calls : \E d \in n.todo : Push(n, d)
    BY OnlyPushGrows
  <2>2. PICK d \in n.todo : Push(n, d)
    BY <2>1
  <2>3. d = c
    <3>1. Len(messages[c]) \in Nat
      BY DEF Buffered
    <3>2. QED
      BY <2>2, <3>1, Grown
  <2>4. messages'[c][Len(messages'[c])] = n.event
    BY <2>2, <2>3, Grown
  <2>5. reached[c][n.event.from] < n.event.number
    BY <2>2, <2>3 DEF Order, NotYetReached
  <2>6. n.event.number \in Nat /\ reached[c][n.event.from] \in Nat
    BY DEF Order, Numbered, Call, Event
  <2>7. QED
    BY <2>4, <2>5, <2>6
<1>2. QED
  BY <1>1, OrderInvariant, PTL DEF NotifySpec, InOrder

HIDE NotificationsAssumption

---------------------------------------------------------------------------
(* Proofs about AuditPage, for any entries, users and page size: a loaded  *)
(* list satisfies the filter in the URL and is newest first, and a         *)
(* judgement is shown under its own entry.                                 *)

USE AuditPageAssumption

PageCall == [filter : Filter, current : BOOLEAN, rows : Seq(Row) \cup {None}]

\* What may have become of an entry.
Phases == {"none", "recorded", "failed", "announced", "unstored"}

\* TypeOK, with what the expanded row is, and the flags apart.
PageTyped ==
    /\ phase \in [Entries -> Phases]
    /\ wire \in Seq(Entries) /\ rows \in Seq(Row)
    /\ url \in Filter /\ filters \in Filter
    /\ total \in Nat \cup {None}
    /\ \A c \in fetches : c \in PageCall
    /\ expanded \in (Row \X Nat) \cup {None}
    /\ asked \subseteq Entries /\ reason \in Entries \cup {None}

Flags == mounted \in BOOLEAN /\ loading \in BOOLEAN /\ error \in BOOLEAN

\* The database has finitely many entries.
FinitelyMany == IsFiniteSet(Recorded)

\* The store has the filter of the URL while the page is shown, an answer that
\* still counts was asked with it, and an answer satisfies what it was asked.
Filtered ==
    /\ mounted => filters = url
    /\ \A c \in fetches : c.current => mounted /\ c.filter = filters
    /\ \A c \in fetches : c.rows # None =>
          \A i \in DOMAIN c.rows : Matches(c.rows[i].entry, c.filter)

\* Whatever is shown or asked for under a row is about the entry of its key.
AboutExpanded ==
    /\ expanded = None => asked = {} /\ reason = None
    /\ expanded # None => asked \subseteq {expanded[1].entry}
                          /\ reason \in {None, expanded[1].entry}

TrailInv == /\ PageTyped /\ Flags /\ FinitelyMany /\ Filtered /\ RowsMatchFilter
        /\ NewestFirst /\ AboutExpanded

-----------------------------------------------------------------------------
(* Lists in order.                                                         *)

\* The elements of a finite ordered set have the ranks from zero to one less than
\* its size; B[x] is the set of those before x.
LEMMA Ranks ==
  ASSUME NEW S, IsFiniteSet(S), NEW B \in [S -> SUBSET S],
         \A x \in S : x \notin B[x],
         \A x, y \in S : x = y \/ x \in B[y] \/ y \in B[x],
         \A x, y \in S : x \in B[y] => B[x] \subseteq B[y]
  PROVE  /\ Cardinality(S) \in Nat
         /\ \A x, y \in S : x \in B[y] => Cardinality(B[x]) < Cardinality(B[y])
         /\ \A i \in 0 .. (Cardinality(S) - 1) : \E x \in S : Cardinality(B[x]) = i
<1> DEFINE c == Cardinality(S)
           rank == [x \in S |-> Cardinality(B[x])]
           T == 0 .. (c - 1)
<1>1. c \in Nat
  BY FS_CardinalityType
<1>2. ASSUME NEW x \in S
      PROVE  IsFiniteSet(B[x]) /\ Cardinality(B[x]) \in T
  <2>1. B[x] \in SUBSET (S \ {x})
    OBVIOUS
  <2>2. IsFiniteSet(S \ {x}) /\ Cardinality(S \ {x}) = c - 1
    BY FS_RemoveElement
  <2>3. IsFiniteSet(B[x]) /\ Cardinality(B[x]) <= c - 1
    BY <2>1, <2>2, FS_Subset
  <2>4. Cardinality(B[x]) \in Nat
    BY <2>3, FS_CardinalityType
  <2>5. QED
    BY <1>1, <2>3, <2>4
<1>3. ASSUME NEW x \in S, NEW y \in S, x \in B[y]
      PROVE  Cardinality(B[x]) < Cardinality(B[y])
  <2>1. B[x] \cup {x} \in SUBSET B[y] /\ x \notin B[x]
    BY <1>3
  <2>2. Cardinality(B[x] \cup {x}) = Cardinality(B[x]) + 1
    BY <1>2, <2>1, FS_AddElement
  <2>3. Cardinality(B[x] \cup {x}) <= Cardinality(B[y])
    BY <1>2, <2>1, FS_Subset
  <2>4. Cardinality(B[x]) \in Int /\ Cardinality(B[y]) \in Int
    BY <1>2
  <2>5. QED
    BY <2>2, <2>3, <2>4
<1>4. rank \in [S -> T]
  BY <1>2
<1>5. \A x, y \in S : rank[x] = rank[y] => x = y
  <2>1. SUFFICES ASSUME NEW x \in S, NEW y \in S, x # y
                 PROVE  Cardinality(B[x]) # Cardinality(B[y])
    OBVIOUS
  <2>2. Cardinality(B[x]) \in Int /\ Cardinality(B[y]) \in Int
    BY <1>2
  <2>3. x \in B[y] \/ y \in B[x]
    BY <2>1
  <2>4. QED
    BY <1>3, <2>2, <2>3
<1>6. IsFiniteSet(T) /\ Cardinality(T) = c
  <2>1. 0 \in Int /\ c - 1 \in Int
    BY <1>1
  <2>2. /\ IsFiniteSet(0 .. (c - 1))
        /\ Cardinality(0 .. (c - 1)) = IF 0 > c - 1 THEN 0 ELSE (c - 1) - 0 + 1
    <3> HIDE DEF c
    <3>1. QED
      BY <2>1, FS_Interval
  <2>3. (IF 0 > c - 1 THEN 0 ELSE (c - 1) - 0 + 1) = c
    BY <1>1
  <2>4. QED
    BY <2>2, <2>3
<1>7. ASSUME NEW i \in T
      PROVE  \E x \in S : Cardinality(B[x]) = i
  <2> HIDE DEF T
  <2>1. rank \in Injection(S, T)
    BY <1>4, <1>5, Fun_IsInj
  <2>2. rank \in Surjection(S, T)
    BY <1>6, <2>1, FS_Injection
  <2>3. \A t \in T : \E x \in S : rank[x] = t
    BY <2>2, Fun_SurjectionProperties
  <2>4. QED
    BY <2>3
<1>8. QED
  BY <1>1, <1>3, <1>7

\* The places of a list of n rows are n.
LEMMA IntervalSize ==
  ASSUME NEW n \in Nat
  PROVE  IsFiniteSet(1 .. n) /\ Cardinality(1 .. n) = n
<1>1. 1 \in Int /\ n \in Int
  OBVIOUS
<1>2. /\ IsFiniteSet(1 .. n)
      /\ Cardinality(1 .. n) = IF 1 > n THEN 0 ELSE n - 1 + 1
  BY <1>1, FS_Interval
<1>3. QED
  BY <1>2

\* The rows of a sorted list are those of the list, the newest first.
LEMMA SortedFacts ==
  ASSUME NEW s \in Seq(Row)
  PROVE  /\ Sorted(s) \in Seq(Row)
         /\ \A k \in DOMAIN Sorted(s) : \E i \in DOMAIN s : Sorted(s)[k] = s[i]
         /\ \A i, j \in DOMAIN Sorted(s) :
               i < j => Sorted(s)[i].entry >= Sorted(s)[j].entry
<1> DEFINE S == DOMAIN s
           key == [i \in S |-> s[i].entry]
           B == [i \in S |-> Ahead(s, i)]
           at == [k \in S |-> CHOOSE i \in S : Cardinality(Ahead(s, i)) = k - 1]
           t == [k \in S |-> s[CHOOSE i \in S : Cardinality(Ahead(s, i)) = k - 1]]
<1>1. S = 1 .. Len(s) /\ Len(s) \in Nat /\ \A i \in S : i \in Int /\ s[i] \in Row
  OBVIOUS
<1>2. key \in [S -> Int]
  <2>1. \A r \in Row : r.entry \in Entries
    BY DEF Row
  <2>2. \A r \in Row : r.entry \in Int
    BY <2>1
  <2>3. QED
    BY <1>1, <2>2
<1>3. IsFiniteSet(S) /\ Cardinality(S) = Len(s)
  <2> HIDE DEF S
  <2>1. IsFiniteSet(1 .. Len(s)) /\ Cardinality(1 .. Len(s)) = Len(s)
    BY <1>1, IntervalSize
  <2>2. QED
    BY <1>1, <2>1
<1>4. B \in [S -> SUBSET S]
  BY DEF Ahead
<1>5. \A i, j \in S : j \in B[i] <=> key[j] > key[i] \/ (key[j] = key[i] /\ j < i)
  <2>1. SUFFICES ASSUME NEW i \in S, NEW j \in S
                 PROVE  j \in B[i] <=> key[j] > key[i] \/ (key[j] = key[i] /\ j < i)
    OBVIOUS
  <2>2. key[i] = s[i].entry /\ key[j] = s[j].entry /\ B[i] = Ahead(s, i)
    OBVIOUS
  <2>3. j \in Ahead(s, i) <=> s[j].entry > s[i].entry \/ (s[j].entry = s[i].entry /\ j < i)
    BY Zenon DEF Ahead
  <2> HIDE DEF key, B
  <2>4. QED
    BY <2>2, <2>3
<1>6. Sorted(s) = t
  BY Zenon DEF Sorted
<1>7. \A i \in S : B[i] = Ahead(s, i) /\ key[i] = s[i].entry
  OBVIOUS
<1> HIDE DEF B, S, key
<1>8. \A i \in S : i \notin B[i]
  BY <1>1, <1>2, <1>5
<1>9. \A i, j \in S : i = j \/ i \in B[j] \/ j \in B[i]
  <2>1. SUFFICES ASSUME NEW i \in S, NEW j \in S, i # j
                 PROVE  i \in B[j] \/ j \in B[i]
    OBVIOUS
  <2>2. i < j \/ j < i
    BY <1>1, <2>1
  <2>3. key[i] > key[j] \/ key[j] > key[i] \/ key[j] = key[i]
    BY <1>2
  <2>4. QED
    BY <1>5, <2>2, <2>3
<1>10. \A i, j \in S : i \in B[j] => B[i] \subseteq B[j]
  <2>1. SUFFICES ASSUME NEW i \in S, NEW j \in S, i \in B[j], NEW k \in B[i]
                 PROVE  k \in B[j]
    OBVIOUS
  <2>2. k \in S
    BY <1>4, <2>1
  <2>3. key[k] \in Int /\ key[i] \in Int /\ key[j] \in Int
    BY <1>2, <2>2
  <2>4. key[k] > key[i] \/ (key[k] = key[i] /\ k < i)
    BY <1>5, <2>1, <2>2
  <2>5. key[i] > key[j] \/ (key[i] = key[j] /\ i < j)
    BY <1>5, <2>1
  <2>6. k \in Int /\ i \in Int /\ j \in Int
    BY <1>1, <2>2
  <2>7. key[k] > key[j] \/ (key[k] = key[j] /\ k < j)
    BY <2>3, <2>4, <2>5, <2>6
  <2>8. QED
    BY <1>5, <2>2, <2>7
<1>11. /\ \A i, j \in S : i \in B[j] => Cardinality(B[i]) < Cardinality(B[j])
       /\ \A n \in 0 .. (Len(s) - 1) : \E i \in S : Cardinality(B[i]) = n
  <2>1. /\ \A i, j \in S : i \in B[j] => Cardinality(B[i]) < Cardinality(B[j])
        /\ \A n \in 0 .. (Cardinality(S) - 1) : \E i \in S : Cardinality(B[i]) = n
    BY <1>3, <1>4, <1>8, <1>9, <1>10, Ranks
  <2>2. QED
    BY <1>3, <2>1
<1>12. ASSUME NEW k \in S
       PROVE  at[k] \in S /\ Cardinality(B[at[k]]) = k - 1 /\ t[k] = s[at[k]]
  <2>1. k - 1 \in 0 .. (Len(s) - 1)
    BY <1>1
  <2>2. \E i \in S : Cardinality(Ahead(s, i)) = k - 1
    BY <1>7, <1>11, <2>1
  <2>3. at[k] \in S /\ Cardinality(Ahead(s, at[k])) = k - 1 /\ t[k] = s[at[k]]
    BY <2>2
  <2> HIDE DEF at, t
  <2>4. QED
    BY <1>7, <2>3
<1>13. \A k \in S : t[k] \in Row
  BY <1>1, <1>12
<1>14. t \in Seq(Row) /\ DOMAIN t = S
  <2>1. t = [k \in 1 .. Len(s) |-> t[k]]
    BY <1>1
  <2> HIDE DEF t
  <2>2. QED
    BY <1>1, <1>13, <2>1
<1> HIDE DEF at, t
<1>15. ASSUME NEW i \in S, NEW j \in S, i < j
       PROVE  t[i].entry >= t[j].entry
  <2>1. /\ at[i] \in S /\ Cardinality(B[at[i]]) = i - 1 /\ t[i] = s[at[i]]
        /\ at[j] \in S /\ Cardinality(B[at[j]]) = j - 1 /\ t[j] = s[at[j]]
    BY <1>12
  <2>2. i \in Int /\ j \in Int
    BY <1>1
  <2>3. ~(j - 1 < i - 1)
    BY <1>15, <2>2
  <2>4. at[j] \notin B[at[i]]
    BY <1>11, <2>1, <2>3
  <2>5. ~(key[at[j]] > key[at[i]])
    BY <1>5, <2>1, <2>4
  <2>6. key[at[i]] \in Int /\ key[at[j]] \in Int
    BY <1>2, <2>1
  <2>7. t[i].entry = key[at[i]] /\ t[j].entry = key[at[j]]
    BY <1>7, <2>1
  <2>8. QED
    BY <2>5, <2>6, <2>7
<1>16. QED
  <2>1. \A k \in S : at[k] \in DOMAIN s /\ t[k] = s[at[k]]
    BY <1>12 DEF S
  <2>2. QED
    BY <1>6, <1>14, <1>15, <2>1

\* An answer has rows that were recorded and that match.
LEMMA AuditLogFacts ==
  ASSUME FinitelyMany, NEW f \in Filter
  PROVE  /\ AuditLog(f) \in Seq(Row)
         /\ \A i \in DOMAIN AuditLog(f) : Matches(AuditLog(f)[i].entry, f)
<1> DEFINE S == {e \in Recorded : Matches(e, f)}
           Newer(e) == {d \in S : d > e}
           B == [e \in S |-> Newer(e)]
           howMany == IF Cardinality(S) < Limit THEN Cardinality(S) ELSE Limit
           at(k) == CHOOSE e \in S : Cardinality(Newer(e)) = k - 1
<1>1. IsFiniteSet(S)
  BY FS_Subset DEF FinitelyMany
<1>2. S \subseteq Entries /\ \A e \in S : e \in Int /\ Matches(e, f)
  BY DEF Recorded
<1> HIDE DEF S
<1>3. B \in [S -> SUBSET S]
  OBVIOUS
<1>4. \A x \in S : x \notin B[x]
  BY <1>2
<1>5. \A x, y \in S : x = y \/ x \in B[y] \/ y \in B[x]
  BY <1>2
<1>6. \A x, y \in S : x \in B[y] => B[x] \subseteq B[y]
  <2>1. SUFFICES ASSUME NEW x \in S, NEW y \in S, x > y, NEW d \in S, d > x
                 PROVE  d > y
    OBVIOUS
  <2>2. QED
    BY <1>2, <2>1
<1> HIDE DEF B
<1>7. /\ Cardinality(S) \in Nat
      /\ \A i \in 0 .. (Cardinality(S) - 1) : \E x \in S : Cardinality(B[x]) = i
  BY <1>1, <1>3, <1>4, <1>5, <1>6, Ranks
<1>8. howMany \in Nat /\ howMany <= Cardinality(S)
  BY <1>7
<1> HIDE DEF howMany
<1>9. ASSUME NEW k \in 1 .. howMany
      PROVE  at(k) \in S
  <2>1. k - 1 \in 0 .. (Cardinality(S) - 1)
    BY <1>7, <1>8
  <2>2. \E e \in S : Cardinality(Newer(e)) = k - 1
    BY <1>7, <2>1 DEF B
  <2>3. QED
    BY <2>2
<1>10. AuditLog(f) = [k \in 1 .. howMany |-> Stored(at(k))]
  BY DEF AuditLog, S, howMany
<1> HIDE DEF at
<1>11. \A k \in 1 .. howMany : Stored(at(k)) \in Row /\ Matches(Stored(at(k)).entry, f)
  BY <1>2, <1>9 DEF Stored, Row
<1>12. QED
  BY <1>8, <1>10, <1>11

-----------------------------------------------------------------------------
(* The steps.                                                              *)

\* Nothing is listed and nothing asked at the start.
LEMMA InitPage == Init => TrailInv
<1> SUFFICES ASSUME Init PROVE TrailInv
  OBVIOUS
<1>1. PageTyped
  <2>1. /\ wire \in Seq(Entries) /\ rows \in Seq(Row)
        /\ phase \in [Entries -> Phases]
    BY DEF Init, Phases
  <2>2. url \in Filter /\ filters \in Filter /\ total \in Nat \cup {None}
    BY DEF Init, Filter
  <2>3. QED
    BY <2>1, <2>2 DEF Init, PageTyped
<1>2. Flags
  BY DEF Init, Flags
<1>3. FinitelyMany
  <2>1. Recorded = Old
    BY DEF Init, Recorded
  <2>2. QED
    BY <2>1 DEF FinitelyMany
<1>4. Filtered /\ RowsMatchFilter /\ NewestFirst /\ AboutExpanded
  BY DEF Init, Filtered, RowsMatchFilter, NewestFirst, AboutExpanded
<1>5. QED
  BY <1>1, <1>2, <1>3, <1>4 DEF TrailInv

\* The server records an entry and announces it.
LEMMA ServerInv ==
  ASSUME TrailInv, NEW e \in Entries, Record(e) \/ Announce(e)
  PROVE  TrailInv'
<1>1. /\ UNCHANGED <<mounted, url, filters, rows, total, loading, error, fetches,
                     expanded, reason, asked>>
      /\ \/ phase[e] = "none" /\ phase' = [phase EXCEPT ![e] = "recorded"]
         \/ phase[e] = "none" /\ phase' = [phase EXCEPT ![e] = "failed"]
         \/ phase[e] = "recorded" /\ phase' = [phase EXCEPT ![e] = "announced"]
         \/ phase[e] = "failed" /\ phase' = [phase EXCEPT ![e] = "unstored"]
      /\ wire' = wire \/ wire' = Append(wire, e)
  BY DEF Record, Announce, store, block
<1>2. phase \in [Entries -> Phases] /\ wire \in Seq(Entries)
  BY DEF TrailInv, PageTyped
<1>3. PageTyped'
  <2>1. phase' \in [Entries -> Phases] /\ wire' \in Seq(Entries)
    BY <1>1, <1>2 DEF Phases
  <2>2. QED
    BY <1>1, <2>1 DEF TrailInv, PageTyped
<1>4. Flags'
  BY <1>1 DEF TrailInv, Flags
<1>5. FinitelyMany'
  <2>1. Recorded' = Recorded \cup {e} \/ Recorded' = Recorded
    BY <1>1, <1>2 DEF Recorded
  <2>2. IsFiniteSet(Recorded) /\ IsFiniteSet(Recorded \cup {e})
    BY FS_AddElement DEF TrailInv, FinitelyMany
  <2>3. QED
    BY <2>1, <2>2 DEF FinitelyMany
<1>6. Filtered' /\ RowsMatchFilter' /\ NewestFirst' /\ AboutExpanded'
  BY <1>1 DEF TrailInv, Filtered, RowsMatchFilter, NewestFirst, AboutExpanded, Matches
<1>7. QED
  BY <1>3, <1>4, <1>5, <1>6 DEF TrailInv

\* The server answers a call.
LEMMA QueryInv ==
  ASSUME TrailInv, NEW c \in fetches, Query(c)
  PROVE  TrailInv'
<1> DEFINE a == [c EXCEPT !.rows = AuditLog(c.filter)]
<1>1. /\ UNCHANGED <<phase, wire, mounted, url, filters, rows, total, loading, error,
                     expanded, reason, asked>>
      /\ fetches' = (fetches \ {c}) \cup {a}
  BY DEF Query, serverVars, store, block
<1>2. c \in PageCall
  BY DEF TrailInv, PageTyped
<1>3. /\ AuditLog(c.filter) \in Seq(Row)
      /\ \A i \in DOMAIN AuditLog(c.filter) :
            Matches(AuditLog(c.filter)[i].entry, c.filter)
  BY <1>2, AuditLogFacts DEF TrailInv, PageCall
<1>4. a \in PageCall /\ a.filter = c.filter /\ a.current = c.current
                 /\ a.rows = AuditLog(c.filter)
  BY <1>2, <1>3 DEF PageCall
<1> HIDE DEF a
<1>5. PageTyped'
  BY <1>1, <1>4 DEF TrailInv, PageTyped
<1>6. Flags'
  BY <1>1 DEF TrailInv, Flags
<1>7. FinitelyMany'
  BY <1>1 DEF TrailInv, FinitelyMany, Recorded
<1>8. Filtered'
  <2>1. \A d \in fetches' : d.current => mounted /\ d.filter = filters
    BY <1>1, <1>4 DEF TrailInv, Filtered
  <2>2. ASSUME NEW d \in fetches', d.rows # None, NEW i \in DOMAIN d.rows
        PROVE  Matches(d.rows[i].entry, d.filter)
    <3>1. CASE d = a
      BY <1>3, <1>4, <2>2, <3>1
    <3>2. CASE d # a
      BY <1>1, <2>2, <3>2 DEF TrailInv, Filtered
    <3>3. QED
      BY <3>1, <3>2
  <2>3. QED
    BY <1>1, <2>1, <2>2 DEF TrailInv, Filtered, Matches
<1>9. RowsMatchFilter' /\ NewestFirst' /\ AboutExpanded'
  BY <1>1 DEF TrailInv, RowsMatchFilter, NewestFirst, AboutExpanded, Matches
<1>10. QED
  BY <1>5, <1>6, <1>7, <1>8, <1>9 DEF TrailInv

\* A row is expanded or closed, and a judgement answers.
LEMMA BlockInv ==
  ASSUME TrailInv, (\E i \in DOMAIN rows : Toggle(i)) \/ (\E e \in asked : Judgement(e))
  PROVE  TrailInv'
<1>1. UNCHANGED <<phase, wire, mounted, url, filters, rows, total, loading, error, fetches>>
  BY DEF Toggle, Judgement, serverVars, store
<1>2. rows \in Seq(Row) /\ expanded \in (Row \X Nat) \cup {None}
  BY DEF TrailInv, PageTyped
<1>3. AboutExpanded' /\ expanded' \in (Row \X Nat) \cup {None}
  <2>1. ASSUME NEW i \in DOMAIN rows, Toggle(i)
        PROVE  AboutExpanded' /\ expanded' \in (Row \X Nat) \cup {None}
    <3>1. /\ \/ expanded' = None /\ asked' = {}
             \/ expanded' = RowKey(rows, i) /\ asked' = {rows[i].entry}
          /\ reason' = None
      BY <2>1 DEF Toggle
    <3>2. RowKey(rows, i) \in Row \X Nat /\ RowKey(rows, i)[1] = rows[i]
      BY <1>2 DEF RowKey
    <3>3. QED
      BY <3>1, <3>2 DEF AboutExpanded
  <2>2. ASSUME NEW e \in asked, Judgement(e)
        PROVE  AboutExpanded' /\ expanded' \in (Row \X Nat) \cup {None}
    BY <1>2, <2>2 DEF Judgement, TrailInv, AboutExpanded
  <2>3. QED
    BY <2>1, <2>2
<1>4. asked' \subseteq Entries /\ reason' \in Entries \cup {None}
  <2>1. \A r \in Row : r.entry \in Entries
    BY DEF Row
  <2>2. \A i \in DOMAIN rows : rows[i] \in Row
    BY <1>2
  <2>3. asked \subseteq Entries /\ reason \in Entries \cup {None}
    BY DEF TrailInv, PageTyped
  <2>4. ASSUME NEW i \in DOMAIN rows, Toggle(i)
        PROVE  asked' \subseteq Entries /\ reason' = None
    BY <2>1, <2>2, <2>4 DEF Toggle
  <2>5. ASSUME NEW e \in asked, Judgement(e)
        PROVE  asked' \subseteq Entries /\ reason' \in {e, reason}
    BY <2>3, <2>5 DEF Judgement
  <2>6. QED
    BY <2>3, <2>4, <2>5
<1>5. PageTyped'
  BY <1>1, <1>3, <1>4 DEF TrailInv, PageTyped
<1>6. Flags'
  BY <1>1 DEF TrailInv, Flags
<1>7. FinitelyMany'
  BY <1>1 DEF TrailInv, FinitelyMany, Recorded
<1>8. Filtered' /\ RowsMatchFilter' /\ NewestFirst'
  BY <1>1 DEF TrailInv, Filtered, RowsMatchFilter, NewestFirst, Matches
<1>9. QED
  BY <1>3, <1>5, <1>6, <1>7, <1>8 DEF TrailInv

\* What a cancelled call keeps.
LEMMA CancelledFacts ==
  ASSUME TrailInv, NEW c \in Cancelled
  PROVE  /\ c \in PageCall /\ c.current = FALSE
         /\ c.rows # None => \A i \in DOMAIN c.rows : Matches(c.rows[i].entry, c.filter)
<1>1. PICK d \in fetches : c = [d EXCEPT !.current = FALSE]
  BY DEF Cancelled
<1>2. d \in PageCall
  BY DEF TrailInv, PageTyped
<1>3. c \in PageCall /\ c.current = FALSE /\ c.rows = d.rows /\ c.filter = d.filter
  BY <1>1, <1>2 DEF PageCall
<1>4. QED
  BY <1>3 DEF TrailInv, Filtered

\* The page is shown, left, or given another filter.
LEMMA PageInv ==
  ASSUME TrailInv, Unmount \/ \E f \in Filter : Mount(f) \/ SetParam(f)
  PROVE  TrailInv'
<1>1. UNCHANGED <<phase, wire, rows, total>>
  BY DEF Unmount, Mount, SetParam, serverVars, store
<1>2. filters \in Filter /\ url \in Filter
  BY DEF TrailInv, PageTyped
<1>3. ASSUME NEW f \in Filter, NEW b \in BOOLEAN
      PROVE  /\ Fetch(f, b) \in PageCall /\ Fetch(f, b).filter = f
             /\ Fetch(f, b).current = b /\ Fetch(f, b).rows = None
  BY DEF Fetch, PageCall
<1>4. /\ \A c \in fetches' : c \in PageCall
      /\ \A c \in fetches' : c.current => mounted' /\ c.filter = filters'
      /\ \A c \in fetches' : c.rows # None =>
            \A i \in DOMAIN c.rows : Matches(c.rows[i].entry, c.filter)
  <2>1. CASE Unmount
    <3>1. fetches' = Cancelled
      BY <2>1 DEF Unmount
    <3>2. QED
      BY <3>1, CancelledFacts
  <2>2. ASSUME NEW f \in Filter, Mount(f)
        PROVE  <1>4!1 /\ <1>4!2 /\ <1>4!3
    <3> DEFINE old == Fetch(filters, FALSE)
               new == Fetch(f, TRUE)
    <3>1. /\ fetches' = Cancelled \cup {old, new}
          /\ mounted' = TRUE /\ filters' = f
      BY <2>2 DEF Mount, SetFilters
    <3>2. old \in PageCall /\ old.current = FALSE /\ old.rows = None
      BY <1>2, <1>3
    <3>3. /\ new \in PageCall /\ new.filter = f /\ new.rows = None
      BY <1>3
    <3> HIDE DEF old, new
    <3>4. \A c \in fetches' : c \in Cancelled \/ c = old \/ c = new
      BY <3>1
    <3>5. <1>4!1
      BY <3>2, <3>3, <3>4, CancelledFacts
    <3>6. <1>4!2
      BY <3>1, <3>2, <3>3, <3>4, CancelledFacts
    <3>7. <1>4!3
      BY <3>2, <3>3, <3>4, CancelledFacts
    <3>8. QED
      BY <3>5, <3>6, <3>7
  <2>3. ASSUME NEW f \in Filter, SetParam(f)
        PROVE  <1>4!1 /\ <1>4!2 /\ <1>4!3
    <3> DEFINE new == Fetch(f, TRUE)
    <3>1. /\ fetches' = Cancelled \cup {new}
          /\ mounted' = mounted /\ mounted /\ filters' = f
      BY <2>3 DEF SetParam, SetFilters
    <3>2. /\ new \in PageCall /\ new.filter = f /\ new.rows = None
      BY <1>3
    <3> HIDE DEF new
    <3>3. \A c \in fetches' : c \in Cancelled \/ c = new
      BY <3>1
    <3>4. <1>4!1
      BY <3>2, <3>3, CancelledFacts
    <3>5. <1>4!2
      BY <3>1, <3>2, <3>3, CancelledFacts
    <3>6. <1>4!3
      BY <3>2, <3>3, CancelledFacts
    <3>7. QED
      BY <3>4, <3>5, <3>6
  <2>4. QED
    BY <2>1, <2>2, <2>3
<1>5. /\ url' \in Filter /\ filters' \in Filter /\ (mounted' => filters' = url')
      /\ \/ expanded' = None /\ reason' = None /\ asked' = {}
         \/ UNCHANGED <<expanded, reason, asked>>
  BY <1>2 DEF Unmount, Mount, SetParam, SetFilters, block, store, TrailInv, Filtered
<1>6. mounted' => loading'
  BY DEF Unmount, Mount, SetParam, SetFilters
<1>7. PageTyped'
  <2>1. expanded' \in (Row \X Nat) \cup {None} /\ asked' \subseteq Entries
        /\ reason' \in Entries \cup {None}
    BY <1>5 DEF TrailInv, PageTyped
  <2>2. QED
    BY <1>1, <1>4, <1>5, <2>1 DEF TrailInv, PageTyped
<1>8. Flags'
  BY DEF TrailInv, Flags, Unmount, Mount, SetParam, SetFilters
<1>9. FinitelyMany'
  BY <1>1 DEF TrailInv, FinitelyMany, Recorded
<1>10. Filtered' /\ RowsMatchFilter'
  BY <1>4, <1>5, <1>6 DEF Filtered, RowsMatchFilter, Matches
<1>11. NewestFirst' /\ AboutExpanded'
  BY <1>1, <1>5 DEF TrailInv, NewestFirst, AboutExpanded
<1>12. QED
  BY <1>7, <1>8, <1>9, <1>10, <1>11 DEF TrailInv

\* The list has changed: a row that is still where it was stays expanded, with a
\* block that is about the same entry.
LEMMA RerenderFacts ==
  ASSUME TrailInv, Rerender, rows' \in Seq(Row)
  PROVE  /\ AboutExpanded' /\ expanded' \in (Row \X Nat) \cup {None}
         /\ asked' \subseteq Entries /\ reason' \in Entries \cup {None}
<1>1. \A r \in Row : r.entry \in Entries
  BY DEF Row
<1>2. expanded \in (Row \X Nat) \cup {None} /\ asked \subseteq Entries
      /\ reason \in Entries \cup {None}
  BY DEF TrailInv, PageTyped
<1>3. CASE ExpandedIn(rows') = {}
  <2>1. reason' = None /\ asked' = {} /\ expanded' = expanded
    BY <1>3 DEF Rerender
  <2>2. QED
    BY <1>2, <2>1 DEF AboutExpanded
<1>4. CASE ExpandedIn(rows') # {}
  <2> DEFINE now == ExpandedIn(rows')
  <2>1. /\ expanded' = expanded /\ reason' = reason
        /\ asked' = asked \/ asked' = asked \cup {rows'[j].entry : j \in now}
    BY <1>4 DEF Rerender
  <2>2. \A j \in now : expanded # None /\ rows'[j] = expanded[1] /\ rows'[j] \in Row
    BY DEF ExpandedIn, RowKey
  <2>3. now # {}
    BY <1>4
  <2> HIDE DEF now
  <2>4. expanded # None
    BY <2>2, <2>3
  <2>5. \A e \in {rows'[j].entry : j \in now} : e = expanded[1].entry /\ e \in Entries
    BY <1>1, <2>2
  <2>6. asked' \subseteq {expanded[1].entry} /\ asked' \subseteq Entries
    BY <1>2, <2>1, <2>4, <2>5 DEF TrailInv, AboutExpanded
  <2>7. QED
    BY <1>2, <2>1, <2>4, <2>6 DEF TrailInv, AboutExpanded
<1>5. QED
  BY <1>3, <1>4

\* An answer arrives, or a call fails.
LEMMA AnswerInv ==
  ASSUME TrailInv, NEW c \in fetches, Arrive(c) \/ Fail(c)
  PROVE  TrailInv'
<1>1. /\ UNCHANGED <<phase, wire, mounted, url, filters>>
      /\ fetches' = fetches \ {c}
  BY DEF Arrive, Fail, serverVars, store
<1>2. c \in PageCall
  BY DEF TrailInv, PageTyped
<1>3. CASE Arrive(c) /\ c.current
  <2>1. /\ c.rows # None
        /\ rows' = Sorted(c.rows) /\ total' = None /\ Rerender
        /\ error' = FALSE /\ loading' = FALSE
    BY <1>3 DEF Arrive, SetEntries
  <2>2. c.rows \in Seq(Row)
    BY <1>2, <2>1 DEF PageCall
  <2>3. /\ rows' \in Seq(Row)
        /\ \A k \in DOMAIN rows' : \E i \in DOMAIN c.rows : rows'[k] = c.rows[i]
        /\ \A i, j \in DOMAIN rows' : i < j => rows'[i].entry >= rows'[j].entry
    BY <2>1, <2>2, SortedFacts
  <2>4. mounted => c.filter = url
    BY <1>3 DEF TrailInv, Filtered
  <2>5. \A i \in DOMAIN c.rows : Matches(c.rows[i].entry, c.filter)
    BY <2>1 DEF TrailInv, Filtered
  <2>6. /\ AboutExpanded' /\ expanded' \in (Row \X Nat) \cup {None}
        /\ asked' \subseteq Entries /\ reason' \in Entries \cup {None}
    BY <2>1, <2>3, RerenderFacts
  <2>7. RowsMatchFilter'
    <3>1. ASSUME mounted, NEW k \in DOMAIN rows'
          PROVE  Matches(rows'[k].entry, url)
      BY <2>3, <2>4, <2>5, <3>1
    <3>2. QED
      BY <1>1, <3>1 DEF RowsMatchFilter, Matches
  <2>8. NewestFirst'
    BY <2>3 DEF NewestFirst
  <2>9. PageTyped'
    BY <1>1, <2>1, <2>3, <2>6 DEF TrailInv, PageTyped
  <2>10. Flags'
    BY <1>1, <2>1 DEF TrailInv, Flags
  <2>11. FinitelyMany' /\ Filtered'
    BY <1>1 DEF TrailInv, FinitelyMany, Recorded, Filtered, Matches
  <2>12. QED
    BY <2>6, <2>7, <2>8, <2>9, <2>10, <2>11 DEF TrailInv
<1>4. CASE Fail(c) \/ ~c.current
  <2>1. /\ UNCHANGED <<rows, total, expanded, reason, asked>>
        /\ \/ UNCHANGED <<loading, error>>
           \/ error' = TRUE /\ loading' = FALSE
    BY <1>4 DEF Arrive, Fail, store, block
  <2>2. PageTyped'
    BY <1>1, <2>1 DEF TrailInv, PageTyped
  <2>3. Flags'
    BY <1>1, <2>1 DEF TrailInv, Flags
  <2>4. FinitelyMany' /\ Filtered' /\ NewestFirst' /\ AboutExpanded'
    BY <1>1, <2>1 DEF TrailInv, FinitelyMany, Recorded, Filtered, NewestFirst, AboutExpanded,
                      Matches
  <2>5. RowsMatchFilter'
    BY <1>1, <2>1 DEF TrailInv, RowsMatchFilter, Matches
  <2>6. QED
    BY <2>2, <2>3, <2>4, <2>5 DEF TrailInv
<1>5. QED
  BY <1>3, <1>4

\* A live entry comes.
LEMMA DeliverInv ==
  ASSUME TrailInv, Deliver
  PROVE  TrailInv'
<1> DEFINE e == Head(wire)
<1>1. /\ wire # <<>> /\ wire' = Tail(wire)
      /\ UNCHANGED <<phase, mounted, url, filters, loading, error, fetches>>
  BY DEF Deliver
<1>2. wire \in Seq(Entries) /\ rows \in Seq(Row)
  BY DEF TrailInv, PageTyped
<1>3. wire' \in Seq(Entries) /\ e \in Entries
  BY <1>1, <1>2
<1>4. /\ rows' \in Seq(Row) /\ total' \in Nat \cup {None} /\ NewestFirst'
      /\ mounted => \A k \in DOMAIN rows' : \/ \E i \in DOMAIN rows : rows'[k] = rows[i]
                                            \/ Matches(rows'[k].entry, filters)
  <2>1. CASE UNCHANGED <<rows, total>>
    BY <2>1 DEF TrailInv, PageTyped, NewestFirst
  <2>2. CASE ~UNCHANGED <<rows, total>>
    <3> DEFINE s == <<Live(e)>> \o rows
    <3>1. /\ mounted /\ Matches(e, filters)
          /\ rows' = Sorted(s)
          /\ total' = IF total = None THEN None ELSE total + 1
      BY <2>2 DEF Deliver, AddEntry
    <3>2. Live(e) \in Row /\ Live(e).entry = e
      BY <1>3 DEF Live, Row
    <3>3. /\ s \in Seq(Row) /\ Len(s) = 1 + Len(rows)
          /\ \A i \in 1..(1 + Len(rows)) : s[i] = IF i <= 1 THEN Live(e) ELSE rows[i - 1]
      <4>1. <<Live(e)>> \in Seq(Row) /\ Len(<<Live(e)>>) = 1 /\ <<Live(e)>>[1] = Live(e)
        BY <3>2
      <4>2. QED
        BY <1>2, <4>1, ConcatProperties
    <3> HIDE DEF s
    <3>4. \A i \in DOMAIN s : s[i] = Live(e) \/ \E j \in DOMAIN rows : s[i] = rows[j]
      <4>1. DOMAIN s = 1..(1 + Len(rows)) /\ DOMAIN rows = 1..Len(rows) /\ Len(rows) \in Nat
        BY <1>2, <3>3
      <4>2. ASSUME NEW i \in DOMAIN s, ~(i <= 1)
            PROVE  i - 1 \in DOMAIN rows
        BY <4>1, <4>2
      <4>3. QED
        BY <3>3, <4>1, <4>2
    <3>5. /\ rows' \in Seq(Row)
          /\ \A k \in DOMAIN rows' : \E i \in DOMAIN s : rows'[k] = s[i]
          /\ \A i, j \in DOMAIN rows' : i < j => rows'[i].entry >= rows'[j].entry
      <4> DEFINE t == Sorted(s)
      <4>1. /\ t \in Seq(Row)
            /\ \A k \in DOMAIN t : \E i \in DOMAIN s : t[k] = s[i]
            /\ \A i, j \in DOMAIN t : i < j => t[i].entry >= t[j].entry
        <5>1. s \in Seq(Row)
          BY <3>3
        <5>2. QED
          BY <5>1, SortedFacts
      <4>2. rows' = t
        BY <3>1
      <4> HIDE DEF t
      <4>3. QED
        BY <4>1, <4>2
    <3>6. total' \in Nat \cup {None}
      BY <3>1 DEF TrailInv, PageTyped
    <3>7. \A k \in DOMAIN rows' : \/ \E i \in DOMAIN rows : rows'[k] = rows[i]
                                  \/ rows'[k] = Live(e)
      BY <3>4, <3>5
    <3>8. QED
      BY <3>1, <3>2, <3>5, <3>6, <3>7 DEF NewestFirst
  <2>3. QED
    BY <2>1, <2>2
<1>5. /\ AboutExpanded' /\ expanded' \in (Row \X Nat) \cup {None}
      /\ asked' \subseteq Entries /\ reason' \in Entries \cup {None}
  <2>1. CASE Rerender
    BY <1>4, <2>1, RerenderFacts
  <2>2. CASE UNCHANGED block
    BY <2>2 DEF block, TrailInv, PageTyped, AboutExpanded
  <2>3. QED
    BY <2>1, <2>2 DEF Deliver
<1>6. PageTyped'
  BY <1>1, <1>3, <1>4, <1>5 DEF TrailInv, PageTyped
<1>7. Flags'
  BY <1>1 DEF TrailInv, Flags
<1>8. FinitelyMany' /\ Filtered'
  BY <1>1 DEF TrailInv, FinitelyMany, Recorded, Filtered, Matches
<1>9. RowsMatchFilter'
  <2>1. SUFFICES ASSUME mounted, ~loading, ~error, NEW k \in DOMAIN rows'
                 PROVE  Matches(rows'[k].entry, url)
    BY <1>1 DEF RowsMatchFilter, Matches
  <2>2. filters = url /\ \A i \in DOMAIN rows : Matches(rows[i].entry, url)
    BY <2>1 DEF TrailInv, Filtered, RowsMatchFilter
  <2>3. QED
    BY <1>4, <2>1, <2>2
<1>10. QED
  BY <1>4, <1>5, <1>6, <1>7, <1>8, <1>9 DEF TrailInv

\* Every step of the page and of the server keeps the invariant.
LEMMA StepInv == TrailInv /\ [Next]_vars => TrailInv'
<1> SUFFICES ASSUME TrailInv, [Next]_vars PROVE TrailInv'
  OBVIOUS
<1>1. CASE \E e \in Entries : Record(e) \/ Announce(e)
  BY <1>1, ServerInv
<1>2. CASE Deliver
  BY <1>2, DeliverInv
<1>3. CASE Unmount \/ \E f \in Filter : Mount(f) \/ SetParam(f)
  BY <1>3, PageInv
<1>4. CASE (\E i \in DOMAIN rows : Toggle(i)) \/ (\E e \in asked : Judgement(e))
  BY <1>4, BlockInv
<1>5. CASE \E c \in fetches : Query(c) \/ Arrive(c) \/ Fail(c)
  BY <1>5, QueryInv, AnswerInv
<1>6. CASE UNCHANGED vars
  <2>1. UNCHANGED <<phase, wire, mounted, url, filters, rows, total, loading, error,
                    fetches, expanded, reason, asked>>
    BY <1>6 DEF vars
  <2>2. PageTyped'
    BY <2>1 DEF TrailInv, PageTyped
  <2>3. Flags'
    BY <2>1 DEF TrailInv, Flags
  <2>4. FinitelyMany' /\ Filtered'
    BY <2>1 DEF TrailInv, FinitelyMany, Recorded, Filtered, Matches
  <2>5. RowsMatchFilter' /\ NewestFirst' /\ AboutExpanded'
    BY <2>1 DEF TrailInv, RowsMatchFilter, NewestFirst, AboutExpanded, Matches
  <2>6. QED
    BY <2>2, <2>3, <2>4, <2>5 DEF TrailInv
<1>7. QED
  BY <1>1, <1>2, <1>3, <1>4, <1>5, <1>6 DEF Next

-----------------------------------------------------------------------------
(* The theorems.                                                           *)

\* The inductive invariant holds in every state.
THEOREM TrailInvariance == Spec => []TrailInv
BY InitPage, StepInv, PTL DEF Spec

\* The variables keep their types.
THEOREM PageTypeCorrect == Spec => []TypeOK
<1>1. TrailInv => TypeOK
  <2> SUFFICES ASSUME TrailInv PROVE TypeOK
    OBVIOUS
  <2>1. \A c \in fetches : c.filter \in Filter /\ c.rows \in Seq(Row) \cup {None}
    BY DEF TrailInv, PageTyped, PageCall
  <2>2. \A c \in fetches : c.current \in BOOLEAN
    BY DEF TrailInv, PageTyped, PageCall
  <2>3. {mounted, loading, error} \subseteq BOOLEAN
    BY DEF TrailInv, Flags
  <2>4. QED
    BY <2>1, <2>2, <2>3 DEF TrailInv, PageTyped, Phases, TypeOK
<1>2. QED
  BY <1>1, TrailInvariance, PTL

\* Once the page has loaded, every row satisfies the filter in the URL, however
\* answers overtake each other and live entries come between them.
THEOREM RowsMatchFilterHolds == Spec => []RowsMatchFilter
<1>1. TrailInv => RowsMatchFilter
  BY DEF TrailInv
<1>2. QED
  BY <1>1, TrailInvariance, PTL

\* The list is newest first, though entries are announced as requests end.
THEOREM NewestFirstHolds == Spec => []NewestFirst
<1>1. TrailInv => NewestFirst
  BY DEF TrailInv
<1>2. QED
  BY <1>1, TrailInvariance, PTL

\* The judgement under an expanded row is that of the row's entry.
THEOREM ReasonBelongsHolds == Spec => []ReasonBelongs
<1>1. TrailInv => ReasonBelongs
  <2> SUFFICES ASSUME TrailInv, reason # None
               PROVE  /\ expanded # None
                      /\ \A i \in ExpandedIn(rows) : rows[i].entry = reason
    BY DEF ReasonBelongs
  <2>1. expanded # None /\ reason = expanded[1].entry
    BY DEF TrailInv, AboutExpanded
  <2>2. \A i \in ExpandedIn(rows) : rows[i] = expanded[1]
    BY DEF ExpandedIn, RowKey
  <2>3. QED
    BY <2>1, <2>2
<1>2. QED
  BY <1>1, TrailInvariance, PTL

=============================================================================

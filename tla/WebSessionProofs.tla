------------------------- MODULE WebSessionProofs -------------------------
(***************************************************************************)
(* Proofs about WebSession, for any users, administrators and SSE clients. *)
(* The invariant has two parts that do not depend on each other's steps:   *)
(* who is signed in where (Identities), and what became of the streams     *)
(* (Feeds); the second needs of the first only that a page being restored  *)
(* and a login form have no user yet.                                      *)
(***************************************************************************)
EXTENDS WebSession, TLAPS

\* While the page restores its user nothing else has begun.
RestoringAlone ==
    restoring # None => /\ restoring = stored
                        /\ user = None /\ ~checked /\ entering = None

EnteringAlone == entering # None => user = None

\* Neither place keeps another user's token than that of the user shown.
TokensAgree ==
    user # None => /\ cookie \in {user, None}
                   /\ stored \in {user, None}
                   /\ leaving = 0 => stored = user

Identities == RestoringAlone /\ EnteringAlone /\ TokensAgree

\* The client connected by AuthContext is the singleton, if there is a user.
OneClient == /\ wired = client
             /\ user # None => client \in Clients

\* Its stream is on, or its timer is set, and it may set it again.
ClientTries == user # None => Live(client) /\ ~streams[client].manual

AuditSubscribed == View = "app" /\ page = "audit" => sub = client

Feeds == OneClient /\ QuietWhenSignedOut /\ ClientTries /\ AuditSubscribed

IInv == TypeOK /\ Identities /\ Feeds

USE WebSessionAssumption

\* What sse.ts does to one client.
LEMMA StreamOps ==
    ASSUME NEW s \in Stream
    PROVE  /\ Connect(s) \in Stream /\ Disconnect(s) \in Stream
           /\ OnError(s) \in Stream /\ OnTimer(s) \in Stream
           /\ NewStream \in Stream
           /\ Connect(s).source # "none"
           /\ ~s.manual => ~Connect(s).manual /\ ~OnError(s).manual /\ ~OnTimer(s).manual
           /\ ~s.manual => OnError(s).timer
           /\ OnError(s).timer => s.timer \/ ~s.manual
           /\ OnError(s).source = "none"
           /\ OnTimer(s).source # "none"
           /\ Disconnect(s).source = "none" /\ ~Disconnect(s).timer
BY DEF Connect, Disconnect, OnError, OnTimer, NewStream, Stream, Source

\* The invariant holds at first.
LEMMA InitInv == Init => IInv
<1> SUFFICES ASSUME Init PROVE IInv
  OBVIOUS
<1>1. TypeOK
  BY DEF Init, TypeOK, NewStream, Stream, Source
<1>2. Identities
  BY DEF Init, Identities, RestoringAlone, EnteringAlone, TokensAgree
<1>3. Feeds
  BY DEF Init, Feeds, OneClient, QuietWhenSignedOut, ClientTries, AuditSubscribed, View,
         Live, NewStream
<1>4. QED
  BY <1>1, <1>2, <1>3 DEF IInv

\* The streams of the clients that are given up end.
LEMMA QuietStreams ==
    ASSUME IInv
    PROVE  /\ Quiet \in [Clients -> Stream]
           /\ \A c \in Clients : Quiet[c].source = "none" /\ ~Quiet[c].timer
BY StreamOps DEF IInv, TypeOK, Quiet, Feeds, OneClient, QuietWhenSignedOut, Live, Disconnect, Stream, Source

\* A new user gets a client of his own, and nothing else is connected.
LEMMA EnterFeeds ==
    ASSUME IInv, NEW u \in Users, Enter(u), checked' \in BOOLEAN, page' = page
    PROVE  /\ user' = u
           /\ client' \in Clients /\ wired' = client'
           /\ streams' \in [Clients -> Stream]
           /\ sub' \in Clients \cup {None}
           /\ Feeds'
<1> PICK c \in {c \in Clients : Unused(c)} :
        /\ client' = c /\ wired' = c
        /\ streams' = [Quiet EXCEPT ![c] = Connect(NewStream)]
        /\ sub' = IF u \in Admins /\ page = "audit" THEN c ELSE None
  BY DEF Enter
<1>1. user' = u /\ u # None
  BY DEF Enter
<1>2. streams' \in [Clients -> Stream]
  BY QuietStreams, StreamOps DEF NewStream, Connect, Stream, Source
<1>3. /\ streams'[c].source # "none" /\ ~streams'[c].manual
      /\ \A d \in Clients : d # c => streams'[d].source = "none" /\ ~streams'[d].timer
  BY QuietStreams DEF NewStream, Connect
<1>4. OneClient' /\ QuietWhenSignedOut' /\ ClientTries'
  BY <1>1, <1>2, <1>3 DEF OneClient, QuietWhenSignedOut, ClientTries, Live
<1>5. AuditSubscribed'
  BY <1>1 DEF AuditSubscribed, View
<1>6. QED
  BY <1>1, <1>2, <1>4, <1>5 DEF Feeds

\* Without a user all streams are over.
LEMMA NobodyFeeds ==
    ASSUME IInv, user' = None, client' = None, wired' = None, sub' = None,
           streams' = Quiet \/ streams' = [c \in Clients |-> NewStream]
    PROVE  /\ streams' \in [Clients -> Stream]
           /\ Feeds'
<1>1. /\ streams' \in [Clients -> Stream]
      /\ \A c \in Clients : streams'[c].source = "none" /\ ~streams'[c].timer
  <2>1. CASE streams' = Quiet
    BY <2>1, QuietStreams
  <2>2. CASE streams' = [c \in Clients |-> NewStream]
    <3>1. NewStream \in Stream /\ NewStream.source = "none" /\ ~NewStream.timer
      BY DEF NewStream, Stream, Source
    <3>2. QED
      BY <2>2, <3>1
  <2>3. QED
    BY <2>1, <2>2
<1>2. View' # "app"
  BY DEF View
<1>3. QED
  BY <1>1, <1>2 DEF Feeds, OneClient, QuietWhenSignedOut, ClientTries, AuditSubscribed, Live

\* One client's stream changes, and comes to life only as the singleton's.
LEMMA OneStreamFeeds ==
    ASSUME IInv, NEW c \in Clients, NEW s \in Stream,
           streams' = [streams EXCEPT ![c] = s],
           s.source # "none" \/ s.timer => Live(c),
           ~streams[c].manual => ~s.manual /\ (s.source # "none" \/ s.timer),
           UNCHANGED <<user, checked, client, wired, sub, page>>
    PROVE  /\ streams' \in [Clients -> Stream]
           /\ Feeds'
<1>1. streams' \in [Clients -> Stream]
  BY DEF IInv, TypeOK
<1>2. OneClient' /\ AuditSubscribed'
  BY DEF IInv, Feeds, OneClient, AuditSubscribed, View
<1>3. QuietWhenSignedOut'
  BY DEF IInv, TypeOK, Feeds, QuietWhenSignedOut, Live
<1>4. ClientTries'
  BY DEF IInv, TypeOK, Feeds, OneClient, ClientTries, Live
<1>5. QED
  BY <1>1, <1>2, <1>3, <1>4 DEF Feeds

\* A step that leaves the user and the streams alone.
LEMMA SameFeeds ==
    ASSUME IInv, UNCHANGED <<user, streaming, page>>,
           checked' = checked \/ user = None
    PROVE  Feeds'
<1>1. OneClient' /\ QuietWhenSignedOut' /\ ClientTries'
  BY DEF IInv, Feeds, OneClient, QuietWhenSignedOut, ClientTries, Live, streaming
<1>2. AuditSubscribed'
  BY DEF IInv, Feeds, AuditSubscribed, View, streaming
<1>3. QED
  BY <1>1, <1>2 DEF Feeds

\* No answer of another login reaches the token a page is restored with.
LEMMA IdentityStep ==
    ASSUME IInv, [Next]_vars
    PROVE  Identities'
<1> USE DEF IInv, TypeOK, Identities, RestoringAlone, EnteringAlone, TokensAgree, streaming
<1>1. CASE Reload
  BY <1>1 DEF Reload, PageLoad
<1>2. CASE Restored
  BY <1>2 DEF Restored, Enter
<1>3. CASE RestoreFails
  BY <1>3 DEF RestoreFails, LoginLost
<1>4. CASE Accepted
  BY <1>4 DEF Accepted, Login, Enter
<1>5. CASE NotAdmin
  BY <1>5 DEF NotAdmin
<1>6. CASE LoginFails
  BY <1>6 DEF LoginFails, LoginLost
<1>7. CASE \E ok \in BOOLEAN : SignedOut(ok)
  BY <1>7 DEF SignedOut
<1>8. CASE \E token \in Users : SubmitToken(token)
  BY <1>8 DEF SubmitToken, View
<1>9. CASE \E token \in Users : Revoke(token)
  BY <1>9 DEF Revoke
<1>10. CASE SignOut
  <2>1. user # None /\ leaving' = leaving + 1 /\ leaving' # 0
    BY <1>10 DEF SignOut, View
  <2>2. QED
    BY <1>10, <2>1 DEF SignOut
<1>11. CASE \E p \in {"audit", "other"} : Navigate(p)
  BY <1>11 DEF Navigate
<1>12. CASE CookieExpires
  BY <1>12 DEF CookieExpires
<1>13. CASE \E c \in Clients :
             StreamOpens(c) \/ StreamRefused(c) \/ StreamBreaks(c) \/ TimerFires(c)
  BY <1>13 DEF StreamOpens, StreamRefused, StreamBreaks, TimerFires
<1>14. CASE UNCHANGED vars
  BY <1>14 DEF vars
<1>15. QED
  BY <1>1, <1>2, <1>3, <1>4, <1>5, <1>6, <1>7, <1>8, <1>9, <1>10, <1>11, <1>12,
     <1>13, <1>14 DEF Next, Answered

\* A stream's own steps bring no client to life that was not.
LEMMA StreamStep ==
    ASSUME IInv, NEW c \in Clients,
           StreamOpens(c) \/ StreamRefused(c) \/ StreamBreaks(c) \/ TimerFires(c)
    PROVE  /\ streams' \in [Clients -> Stream]
           /\ Feeds'
<1>1. streams[c] \in Stream
  BY DEF IInv, TypeOK
<1>2. CASE StreamOpens(c)
  <2> DEFINE s == [streams[c] EXCEPT !.source = "open"]
  <2>1. s \in Stream /\ s.source = "open" /\ s.timer = streams[c].timer
        /\ s.manual = streams[c].manual
    BY <1>1 DEF Stream, Source
  <2>2. streams' = [streams EXCEPT ![c] = s] /\ Live(c)
    BY <1>2 DEF StreamOpens, Live, IInv, TypeOK
  <2>3. UNCHANGED <<user, checked, client, wired, sub, page>>
    BY <1>2 DEF StreamOpens
  <2> HIDE DEF s
  <2>4. QED
    BY <2>1, <2>2, <2>3, OneStreamFeeds
<1>3. CASE StreamRefused(c) \/ StreamBreaks(c)
  <2> DEFINE s == OnError(streams[c])
  <2>1. /\ s \in Stream
        /\ ~streams[c].manual => ~s.manual /\ s.timer
    BY <1>1, StreamOps
  <2>2. streams' = [streams EXCEPT ![c] = s] /\ Live(c)
    BY <1>3 DEF StreamRefused, StreamBreaks, Live, IInv, TypeOK
  <2>3. UNCHANGED <<user, checked, client, wired, sub, page>>
    BY <1>3 DEF StreamRefused, StreamBreaks
  <2> HIDE DEF s
  <2>4. QED
    BY <2>1, <2>2, <2>3, OneStreamFeeds
<1>4. CASE TimerFires(c)
  <2> DEFINE s == OnTimer(streams[c])
  <2>1. /\ s \in Stream /\ s.source # "none"
        /\ ~streams[c].manual => ~s.manual
    BY <1>1, StreamOps
  <2>2. streams' = [streams EXCEPT ![c] = s] /\ Live(c)
    BY <1>4 DEF TimerFires, Live, IInv, TypeOK
  <2>3. UNCHANGED <<user, checked, client, wired, sub, page>>
    BY <1>4 DEF TimerFires
  <2> HIDE DEF s
  <2>4. QED
    BY <2>1, <2>2, <2>3, OneStreamFeeds
<1>5. QED
  BY <1>2, <1>3, <1>4

\* Showing a page connects the singleton, which is connected or will be.
LEMMA NavigateStep ==
    ASSUME IInv, NEW p \in {"audit", "other"}, Navigate(p)
    PROVE  /\ streams' \in [Clients -> Stream]
           /\ sub' \in Clients \cup {None}
           /\ Feeds'
<1>1. user # None /\ client \in Clients /\ Live(client) /\ ~streams[client].manual
      /\ streams[client] \in Stream
  BY DEF Navigate, View, IInv, TypeOK, Feeds, OneClient, ClientTries
<1>2. UNCHANGED <<user, checked, client, wired>> /\ page' = p
  BY DEF Navigate
<1>3. CASE p = "audit"
  <2> DEFINE s == Connect(streams[client])
  <2>1. s \in Stream /\ s.source # "none" /\ ~s.manual
    BY <1>1, StreamOps
  <2>2. streams' = [streams EXCEPT ![client] = s] /\ sub' = client
    BY <1>3 DEF Navigate
  <2> HIDE DEF s
  <2>3. streams' \in [Clients -> Stream]
    BY <1>1, <2>1, <2>2 DEF IInv, TypeOK
  <2>4. OneClient' /\ AuditSubscribed'
    BY <1>2, <2>2 DEF IInv, Feeds, OneClient, AuditSubscribed
  <2>5. QuietWhenSignedOut' /\ ClientTries'
    BY <1>1, <1>2, <2>1, <2>2
       DEF IInv, TypeOK, Feeds, QuietWhenSignedOut, ClientTries, Live
  <2>6. QED
    BY <1>1, <2>2, <2>3, <2>4, <2>5 DEF Feeds
<1>4. CASE p = "other"
  <2>1. sub' = None /\ UNCHANGED streams
    BY <1>4 DEF Navigate
  <2>2. OneClient' /\ QuietWhenSignedOut' /\ ClientTries' /\ AuditSubscribed'
    BY <1>2, <1>4, <2>1
       DEF IInv, Feeds, OneClient, QuietWhenSignedOut, ClientTries, AuditSubscribed, Live
  <2>3. QED
    BY <2>1, <2>2 DEF IInv, TypeOK, Feeds
<1>5. QED
  BY <1>3, <1>4

\* Every step keeps the types and the streams in order.
LEMMA FeedStep ==
    ASSUME IInv, [Next]_vars
    PROVE  TypeOK' /\ Feeds'
<1>1. CASE Reload
  <2>1. streams' \in [Clients -> Stream] /\ Feeds'
    BY <1>1, NobodyFeeds DEF Reload, PageLoad
  <2>2. TypeOK'
    BY <1>1, <2>1 DEF Reload, PageLoad, IInv, TypeOK
  <2>3. QED
    BY <2>1, <2>2
<1>2. CASE Restored
  <2>1. restoring \in Users /\ Enter(restoring) /\ checked' \in BOOLEAN /\ page' = page
    BY <1>2 DEF Restored, IInv, TypeOK
  <2>2. QED
    BY <1>2, <2>1, EnterFeeds DEF Restored, IInv, TypeOK
<1>3. CASE Accepted
  <2>1. entering \in Users /\ Enter(entering) /\ checked' \in BOOLEAN /\ page' = page
    BY <1>3 DEF Accepted, Login, IInv, TypeOK
  <2>2. QED
    BY <1>3, <2>1, EnterFeeds DEF Accepted, IInv, TypeOK
<1>4. CASE RestoreFails
  <2>1. Feeds'
    BY <1>4, SameFeeds DEF RestoreFails, IInv, Identities, RestoringAlone
  <2>2. cookie' \in Users \cup {None} /\ faults' \in 0..MaxFaults
    BY <1>4 DEF RestoreFails, LoginLost, IInv, TypeOK
  <2>3. QED
    BY <1>4, <2>1, <2>2 DEF RestoreFails, IInv, TypeOK, streaming
<1>5. CASE LoginFails
  <2>1. Feeds'
    BY <1>5, SameFeeds DEF LoginFails
  <2>2. cookie' \in Users \cup {None} /\ faults' \in 0..MaxFaults
    BY <1>5 DEF LoginFails, LoginLost, IInv, TypeOK
  <2>3. QED
    BY <1>5, <2>1, <2>2 DEF LoginFails, IInv, TypeOK, streaming
<1>6. CASE NotAdmin
  <2>1. Feeds'
    BY <1>6, SameFeeds DEF NotAdmin
  <2>2. QED
    BY <1>6, <2>1 DEF NotAdmin, IInv, TypeOK, streaming
<1>7. ASSUME NEW ok \in BOOLEAN, SignedOut(ok) PROVE TypeOK' /\ Feeds'
  <2>1. streams' \in [Clients -> Stream] /\ Feeds'
    BY <1>7, NobodyFeeds DEF SignedOut
  <2>2. leaving' \in 0..MaxLeaving /\ faults' \in 0..MaxFaults
        /\ cookie' \in Users \cup {None}
    BY <1>7 DEF SignedOut, IInv, TypeOK
  <2>3. QED
    BY <1>7, <2>1, <2>2 DEF SignedOut, IInv, TypeOK
<1>8. CASE \E token \in Users : SubmitToken(token)
  <2>1. Feeds'
    BY <1>8, SameFeeds DEF SubmitToken
  <2>2. QED
    BY <1>8, <2>1 DEF SubmitToken, IInv, TypeOK, streaming
<1>9. CASE \E token \in Users : Revoke(token)
  <2>1. Feeds'
    BY <1>9, SameFeeds DEF Revoke
  <2>2. QED
    BY <1>9, <2>1 DEF Revoke, IInv, TypeOK, streaming
<1>10. CASE SignOut
  <2>1. Feeds'
    BY <1>10, SameFeeds DEF SignOut
  <2>2. QED
    BY <1>10, <2>1 DEF SignOut, IInv, TypeOK, streaming
<1>11. ASSUME NEW p \in {"audit", "other"}, Navigate(p) PROVE TypeOK' /\ Feeds'
  BY <1>11, NavigateStep DEF Navigate, IInv, TypeOK
<1>12. CASE CookieExpires
  <2>1. Feeds'
    BY <1>12, SameFeeds DEF CookieExpires
  <2>2. QED
    BY <1>12, <2>1 DEF CookieExpires, IInv, TypeOK, streaming
<1>13. ASSUME NEW c \in Clients,
              StreamOpens(c) \/ StreamRefused(c) \/ StreamBreaks(c) \/ TimerFires(c)
       PROVE  TypeOK' /\ Feeds'
  <2>1. streams' \in [Clients -> Stream] /\ Feeds'
    BY <1>13, StreamStep
  <2>2. faults' \in 0..MaxFaults
    BY <1>13 DEF StreamOpens, StreamRefused, StreamBreaks, TimerFires, IInv, TypeOK
  <2>3. QED
    BY <1>13, <2>1, <2>2
       DEF StreamOpens, StreamRefused, StreamBreaks, TimerFires, IInv, TypeOK
<1>14. CASE UNCHANGED vars
  <2>1. Feeds'
    BY <1>14, SameFeeds DEF vars, streaming
  <2>2. QED
    BY <1>14, <2>1 DEF vars, IInv, TypeOK
<1>15. QED
  BY <1>1, <1>2, <1>3, <1>4, <1>5, <1>6, <1>7, <1>8, <1>9, <1>10, <1>11, <1>12,
     <1>13, <1>14 DEF Next, Answered

\* The invariant is inductive.
LEMMA NextInv == IInv /\ [Next]_vars => IInv'
BY IdentityStep, FeedStep DEF IInv

\* The invariant holds of the specification.
THEOREM Invariance == Spec => []IInv
BY InitInv, NextInv, PTL DEF Spec

\* Every variable keeps its type.
THEOREM TypeCorrect == Spec => []TypeOK
<1>1. IInv => TypeOK
  BY DEF IInv
<1>2. QED
  BY <1>1, Invariance, PTL

\* What the UI does is done as the user it shows (AuthContext.tsx:25-77): no
\* interleaving of sign-in, sign-out and reload mixes two users' tokens.
THEOREM ActsAsShownHolds == Spec => []ActsAsShown
<1>1. IInv => ActsAsShown
  BY DEF IInv, Identities, TokensAgree, ActsAsShown, Identity
<1>2. QED
  BY <1>1, Invariance, PTL

\* No stream and no reconnect timer outlives its user's session, whatever the
\* network does (sse.ts:86-134).
THEOREM QuietWhenSignedOutHolds == Spec => []QuietWhenSignedOut
<1>1. IInv => QuietWhenSignedOut
  BY DEF IInv, Feeds
<1>2. QED
  BY <1>1, Invariance, PTL

\* The audit page listens to the one client that is connected
\* (useAuditLog.ts:48-65, AuthContext.tsx:45-63).
THEOREM LiveFeedAttachedHolds == Spec => []LiveFeedAttached
<1>1. IInv => LiveFeedAttached
  BY DEF IInv, Feeds, OneClient, ClientTries, AuditSubscribed, LiveFeedAttached, View
<1>2. QED
  BY <1>1, Invariance, PTL

=============================================================================

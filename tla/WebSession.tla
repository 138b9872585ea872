---------------------------- MODULE WebSession ----------------------------
(***************************************************************************)
(* Who the web UI takes its user to be, and the stream of live events that *)
(* follows him: AuthContext.tsx (sign-in kept in localStorage and in an    *)
(* HttpOnly cookie), LoginPage.tsx, the gate RequireAuth of App.tsx, the   *)
(* calls of api/cookie.ts, and the SSE client of api/sse.ts.               *)
(*                                                                         *)
(* One tab.  A token is named after the user it belongs to.  A handler, the *)
(* continuation of an await, or a timer's callback is one step with the    *)
(* React effects it sets off, children's effects first; a call is one step *)
(* that sends it and one that brings its answer.  How long a reconnect     *)
(* waits is left out.                                                      *)
(***************************************************************************)
EXTENDS Naturals, FiniteSets

CONSTANTS
    Users,
    Admins,
    Clients,     \* SSEClient objects; one nobody refers to is used again
    None,
    MaxLeaving,  \* calls of logout in flight at once
    MaxFaults    \* failures of the network

ASSUME WebSessionAssumption ==
    /\ Admins \subseteq Users
    /\ None \notin Users /\ None \notin Clients
    /\ MaxLeaving \in Nat /\ MaxFaults \in Nat

VARIABLES
    valid,      \* the tokens the server accepts
    stored,     \* localStorage web_token
    cookie,     \* the HttpOnly cookie
    user,       \* AuthContext.userID
    checked,    \* AuthContext.authChecked
    restoring,  \* token of the login call made when the page was loaded
    entering,   \* token of the login form's call
    refusal,    \* what the login form says
    leaving,    \* number of logout calls in flight
    client,     \* sseClient: the singleton of sse.ts
    wired,      \* the client AuthContext's effect connected and will disconnect
    streams,    \* streams[c]: the fields of an SSEClient
    page,       \* the page the router shows
    sub,        \* the client the audit page's callback is registered with
    faults

vars == <<valid, stored, cookie, user, checked, restoring, entering, refusal,
          leaving, client, wired, streams, page, sub, faults>>

streaming == <<client, wired, streams, sub>>

Source == {"none", "connecting", "open"}

Stream == [source: Source, timer: BOOLEAN, manual: BOOLEAN]

NewStream == [source |-> "none", timer |-> FALSE, manual |-> FALSE]

View ==
    IF ~checked THEN "spinner"
    ELSE IF user = None THEN "login"
    ELSE IF user \in Admins THEN "app" ELSE "denied"

\* Whose token fetchAPI's requests carry: the header wins over the cookie.
Identity == IF stored # None THEN stored ELSE cookie

-----------------------------------------------------------------------------
\* api/sse.ts

Connect(s) ==
    IF s.source # "none" THEN s
    ELSE [s EXCEPT !.source = "connecting", !.manual = FALSE]

\* A mutation: the pending reconnect survives disconnect.
DisconnectKeepsTimer(s) ==
    [source |-> "none", timer |-> s.timer, manual |-> TRUE]

Disconnect(s) == [source |-> "none", timer |-> FALSE, manual |-> TRUE]

\* A mutation: a broken stream is not tried again.
OnErrorGivesUp(s) == [s EXCEPT !.source = "none"]

OnError(s) == [s EXCEPT !.source = "none", !.timer = s.timer \/ ~s.manual]

OnTimer(s) == Connect([s EXCEPT !.timer = FALSE])

Live(c) == streams[c].source # "none" \/ streams[c].timer

Unused(c) == ~Live(c) /\ c \notin {client, wired, sub}

\* resetSSEClient and the effect's cleanup: the streams of both clients end.
Quiet == [c \in Clients |->
             IF c \in {client, wired} THEN Disconnect(streams[c]) ELSE streams[c]]

StreamOpens(c) ==
    /\ streams[c].source = "connecting"
    /\ cookie \in valid \cap Admins
    /\ streams' = [streams EXCEPT ![c].source = "open"]
    /\ UNCHANGED <<valid, stored, cookie, user, checked, restoring, entering,
                   refusal, leaving, client, wired, page, sub, faults>>

StreamRefused(c) ==
    /\ streams[c].source = "connecting"
    /\ cookie \notin valid \cap Admins
    /\ streams' = [streams EXCEPT ![c] = OnError(@)]
    /\ UNCHANGED <<valid, stored, cookie, user, checked, restoring, entering,
                   refusal, leaving, client, wired, page, sub, faults>>

StreamBreaks(c) ==
    /\ streams[c].source # "none"
    /\ faults < MaxFaults
    /\ faults' = faults + 1
    /\ streams' = [streams EXCEPT ![c] = OnError(@)]
    /\ UNCHANGED <<valid, stored, cookie, user, checked, restoring, entering,
                   refusal, leaving, client, wired, page, sub>>

TimerFires(c) ==
    /\ streams[c].timer
    /\ streams' = [streams EXCEPT ![c] = OnTimer(@)]
    /\ UNCHANGED <<valid, stored, cookie, user, checked, restoring, entering,
                   refusal, leaving, client, wired, page, sub, faults>>

-----------------------------------------------------------------------------
\* AuthContext.tsx and LoginPage.tsx

\* A mutation: AuthContext's effect, which runs after the page's, makes a client
\* of its own.
EnterResetsClient(u) ==
    /\ user' = u
    /\ \E b, c \in {c \in Clients : Unused(c)} :
           /\ b # c
           /\ client' = c /\ wired' = c
           /\ streams' = [Quiet EXCEPT ![c] = Connect(NewStream)]
           /\ sub' = IF u \in Admins /\ page = "audit" THEN b ELSE None

\* The effects of a new userID: the audit page, if it is shown, registers its
\* callback with getSSEClient() and connects it; AuthContext connects it.
Enter(u) ==
    /\ user' = u
    /\ \E c \in {c \in Clients : Unused(c)} :
           /\ client' = c /\ wired' = c
           /\ streams' = [Quiet EXCEPT ![c] = Connect(NewStream)]
           /\ sub' = IF u \in Admins /\ page = "audit" THEN c ELSE None

\* login of AuthContext.tsx.
Login(u) == Enter(u)

PageLoad(token) ==
    /\ user' = None
    /\ restoring' = token
    /\ checked' = (token = None)
    /\ entering' = None /\ refusal' = "none" /\ leaving' = 0
    /\ client' = None /\ wired' = None /\ sub' = None
    /\ streams' = [c \in Clients |-> NewStream]

Init ==
    /\ valid = Users
    /\ stored \in Users \cup {None}
    /\ cookie \in {None, stored}
    /\ user = None /\ restoring = stored /\ checked = (stored = None)
    /\ entering = None /\ refusal = "none" /\ leaving = 0
    /\ client = None /\ wired = None /\ sub = None
    /\ streams = [c \in Clients |-> NewStream]
    /\ page \in {"audit", "other"}
    /\ faults = 0

Reload ==
    /\ PageLoad(stored)
    /\ UNCHANGED <<valid, stored, cookie, page, faults>>

\* What a login call leaves in the browser when it fails: the cookie is set by
\* the head of an answer whose body may still be lost.
LoginLost(token) ==
    \/ token \notin valid /\ UNCHANGED <<cookie, faults>>
    \/ /\ faults < MaxFaults
       /\ faults' = faults + 1
       /\ cookie' \in {cookie} \cup ({token} \cap valid)

Restored ==
    /\ restoring \in valid
    /\ cookie' = restoring
    /\ Enter(restoring)
    /\ checked' = TRUE /\ restoring' = None
    /\ UNCHANGED <<valid, stored, entering, refusal, leaving, page, faults>>

RestoreFails ==
    /\ restoring # None
    /\ LoginLost(restoring)
    /\ stored' = None
    /\ checked' = TRUE /\ restoring' = None
    /\ UNCHANGED <<valid, user, entering, refusal, leaving, streaming, page>>

SubmitToken(token) ==
    /\ View = "login"
    /\ entering = None
    /\ entering' = token
    /\ refusal' = "none"
    /\ UNCHANGED <<valid, stored, cookie, user, checked, restoring, leaving,
                   streaming, page, faults>>

Accepted ==
    /\ entering \in valid \cap Admins
    /\ cookie' = entering /\ stored' = entering
    /\ Login(entering)
    /\ entering' = None
    /\ UNCHANGED <<valid, checked, restoring, refusal, leaving, page, faults>>

NotAdmin ==
    /\ entering \in valid \ Admins
    /\ cookie' = entering
    /\ refusal' = "denied"
    /\ entering' = None
    /\ UNCHANGED <<valid, stored, user, checked, restoring, leaving, streaming,
                   page, faults>>

LoginFails ==
    /\ entering # None
    /\ LoginLost(entering)
    /\ refusal' = "invalid"
    /\ entering' = None
    /\ UNCHANGED <<valid, stored, user, checked, restoring, leaving, streaming,
                   page>>

\* The button stays where it is until the answer comes.
SignOut ==
    /\ View \in {"app", "denied"}
    /\ leaving < MaxLeaving
    /\ stored' = None
    /\ leaving' = leaving + 1
    /\ UNCHANGED <<valid, cookie, user, checked, restoring, entering, refusal,
                   streaming, page, faults>>

\* A mutation: a failed call ends logout half-way.
SignedOutUncaught(ok) ==
    /\ leaving > 0
    /\ leaving' = leaving - 1
    /\ UNCHANGED <<valid, stored, checked, restoring, entering, refusal, page>>
    /\ IF ok
       THEN /\ cookie' = None /\ user' = None
            /\ client' = None /\ wired' = None /\ sub' = None
            /\ streams' = Quiet
            /\ UNCHANGED faults
       ELSE /\ faults < MaxFaults /\ faults' = faults + 1
            /\ UNCHANGED <<cookie, user, streaming>>

\* A mutation: the user is forgotten only if his token was still stored, which
\* logout has removed before its call.
SignedOutIfStored(ok) ==
    /\ leaving > 0
    /\ IF ok THEN cookie' = None /\ UNCHANGED faults
       ELSE faults < MaxFaults /\ faults' = faults + 1 /\ UNCHANGED cookie
    /\ leaving' = leaving - 1
    /\ UNCHANGED <<valid, stored, checked, restoring, entering, refusal, page>>
    /\ IF stored # None
       THEN /\ user' = None
            /\ client' = None /\ wired' = None /\ sub' = None
            /\ streams' = Quiet
       ELSE UNCHANGED <<user, streaming>>

\* serverLogout answers or fails; logout goes on in both cases.
SignedOut(ok) ==
    /\ leaving > 0
    /\ IF ok THEN cookie' = None /\ UNCHANGED faults
       ELSE faults < MaxFaults /\ faults' = faults + 1 /\ UNCHANGED cookie
    /\ leaving' = leaving - 1
    /\ user' = None
    /\ client' = None /\ wired' = None /\ sub' = None
    /\ streams' = Quiet
    /\ UNCHANGED <<valid, stored, checked, restoring, entering, refusal, page>>

-----------------------------------------------------------------------------
\* App.tsx, Layout.tsx and the subscription of useAuditLog.ts

Navigate(p) ==
    /\ View = "app"
    /\ page' = p
    /\ IF p = "audit"
       THEN /\ sub' = client
            /\ streams' = [streams EXCEPT ![client] = Connect(@)]
       ELSE /\ sub' = None
            /\ UNCHANGED streams
    /\ UNCHANGED <<valid, stored, cookie, user, checked, restoring, entering,
                   refusal, leaving, client, wired, faults>>

\* The server and the browser: a token is revoked, the cookie gets too old.
Revoke(token) ==
    /\ valid' = valid \ {token}
    /\ UNCHANGED <<stored, cookie, user, checked, restoring, entering, refusal,
                   leaving, streaming, page, faults>>

CookieExpires ==
    /\ cookie' = None
    /\ UNCHANGED <<valid, stored, user, checked, restoring, entering, refusal,
                   leaving, streaming, page, faults>>

Answered ==
    \/ Restored \/ RestoreFails
    \/ Accepted \/ NotAdmin \/ LoginFails
    \/ \E ok \in BOOLEAN : SignedOut(ok)

Next ==
    \/ Reload
    \/ Answered
    \/ \E token \in Users : SubmitToken(token) \/ Revoke(token)
    \/ SignOut
    \/ \E p \in {"audit", "other"} : Navigate(p)
    \/ CookieExpires
    \/ \E c \in Clients :
           StreamOpens(c) \/ StreamRefused(c) \/ StreamBreaks(c) \/ TimerFires(c)

Spec == Init /\ [][Next]_vars

\* Every call is answered or given up by the browser, a timer fires, and an
\* EventSource opens or fails.
Fairness ==
    /\ WF_vars(Restored \/ RestoreFails)
    /\ WF_vars(Accepted \/ NotAdmin \/ LoginFails)
    /\ WF_vars(\E ok \in BOOLEAN : SignedOut(ok))
    /\ \A c \in Clients :
           /\ WF_vars(StreamOpens(c) \/ StreamRefused(c))
           /\ WF_vars(TimerFires(c))

FairSpec == Spec /\ Fairness

-----------------------------------------------------------------------------
TypeOK ==
    /\ valid \subseteq Users
    /\ stored \in Users \cup {None} /\ cookie \in Users \cup {None}
    /\ user \in Users \cup {None} /\ checked \in BOOLEAN
    /\ restoring \in Users \cup {None} /\ entering \in Users \cup {None}
    /\ refusal \in {"none", "denied", "invalid"}
    /\ leaving \in 0..MaxLeaving
    /\ client \in Clients \cup {None}
    /\ wired \in Clients \cup {None}
    /\ sub \in Clients \cup {None}
    /\ streams \in [Clients -> Stream]
    /\ page \in {"audit", "other"}
    /\ faults \in 0..MaxFaults

\* What the UI does is done as the user it shows: no request of a page carries
\* another user's token, and it carries one unless the sign-out has begun.
\* Sign-out, sign-in and reload overlap, and the two places a token is kept
\* are written by different continuations (AuthContext.tsx:59-77,
\* LoginPage.tsx:20-27).
ActsAsShown ==
    user # None => /\ Identity \in {user, None}
                   /\ leaving = 0 => stored = user

\* Nothing is left of an earlier sign-in: an EventSource or a reconnect timer
\* belongs to the client of the user who is signed in now (sse.ts:93-133).
QuietWhenSignedOut ==
    \A c \in Clients : Live(c) => user # None /\ c = client

\* The audit page listens to the client that is connected, and that client is
\* connected or will try again (AuthContext.tsx:49-59, useAuditLog.ts:49-52).
LiveFeedAttached ==
    View = "app" /\ page = "audit" => /\ sub \in Clients
                                      /\ sub = client
                                      /\ Live(sub)

\* An administrator's stream that breaks is opened again, unless he signs out
\* or his session ends on the server.
StreamRecovers ==
    \A u \in Admins :
        (user = u /\ cookie = u)
            ~> \/ client # None /\ streams[client].source = "open"
               \/ user # u \/ cookie # u \/ u \notin valid

\* Signing out ends at the login form even when the server cannot be reached
\* (AuthContext.tsx:69-76).
SignOutEnds == leaving > 0 ~> user = None

=============================================================================

------------------------------ MODULE Tunnel ------------------------------
(***************************************************************************)
(* One CONNECT tunnel: handleConnect, serveTLS and the socket that may     *)
(* end it, handleWebSocketUpgrade (internal/proxy/handler.go).  The client *)
(* writes requests ahead and leaves when it likes; administrators revoke   *)
(* and restore its token.  What CheckApproval decides is left open here    *)
(* (RequestFlow says how it decides), and so is the rate limiter's answer. *)
(***************************************************************************)
EXTENDS WebSocketRelay, Sequences

CONSTANTS MaxRequests    \* requests the client writes into the tunnel

ASSUME TunnelAssumption == MaxRequests \in Nat

Request == [host: {"target", "other"}, upgrade: BOOLEAN, close: BOOLEAN]
NoRequest == [host |-> "none", upgrade |-> FALSE, close |-> FALSE]

VARIABLES
    place,     \* the tunnel's goroutine
    wire,      \* requests written and not read yet
    written,   \* number of requests the client wrote
    taken,     \* number of requests read; the last one is current
    current,   \* the request being served
    client,    \* is the client still connected?
    valid,     \* is the client's token some user's?
    held,      \* history: has the token been some user's at any time since
               \* the current request was read?
    response,  \* response to write: its status
    closing,   \* does the response say Connection: close?
    replies,   \* history: the responses written, each with its request
    forwarded, \* history: requests that went upstream, where to, and whether
               \* their token held
    logged     \* history: was the socket's row written?

serveVars == <<place, wire, written, taken, current, client, valid, held,
              response, closing, replies, forwarded, logged>>
tunnelVars == <<serveVars, relayVars>>

Places == {"accept", "auth", "certificate", "handshake", "read", "identify",
           "decide", "upstream", "write", "relay", "log", "closed"}
Statuses == {"429", "407", "403", "500", "502", "upstream", "none"}

TunnelInit ==
    /\ RelayInit
    /\ place = "accept"
    /\ wire = <<>> /\ written = 0 /\ taken = 0
    /\ current = NoRequest
    /\ client = "up"
    /\ valid \in BOOLEAN /\ held = FALSE
    /\ response = "none" /\ closing = FALSE
    /\ replies = <<>>
    /\ forwarded = {}
    /\ logged = FALSE

served == <<wire, written, taken, current, held>>
outgoing == <<response, closing, replies>>
peers == <<client, valid>>

---------------------------------------------------------------------------
(* handleConnect                                                           *)

\* The rate limiter comes first; a CONNECT over the limit ends in a 429.
Accept ==
    /\ place = "accept"
    /\ place' \in {"auth", "closed"}
    /\ UNCHANGED <<served, outgoing, peers, forwarded, logged, relayVars>>

\* The token is resolved before the certificate is generated.
Authenticate ==
    /\ place = "auth"
    /\ place' \in (IF valid THEN {"certificate", "closed"} ELSE {"closed"})
    /\ UNCHANGED <<served, outgoing, peers, forwarded, logged, relayVars>>

\* A certificate or a 500; then the hijack and the 200, which may fail.
Certificate ==
    /\ place = "certificate"
    /\ place' \in {"handshake", "closed"}
    /\ UNCHANGED <<served, outgoing, peers, forwarded, logged, relayVars>>

Handshake ==
    /\ place = "handshake"
    /\ place' \in {"read", "closed"}
    /\ UNCHANGED <<served, outgoing, peers, forwarded, logged, relayVars>>

---------------------------------------------------------------------------
(* serveTLS                                                                *)

Reply(id, status, closes) ==
    replies' = Append(replies, [id |-> id, status |-> status, closes |-> closes])

\* Early returns write their response and leave the loop.
RefuseWith(status) == Reply(taken + 1, status, TRUE) /\ place' = "closed"

\* Mistake: each request is read through a buffer of its own, and what that
\* has read ahead is lost.
NextRequestUnbuffered ==
    /\ place = "read"
    /\ wire # <<>>
    /\ wire' = <<>>
    /\ taken' = taken + 1
    /\ current' = Head(wire)
    /\ held' = valid
    /\ UNCHANGED <<written, response, closing, peers, forwarded, logged, relayVars>>

\* ReadRequest returns the next request.
NextRequest ==
    /\ place = "read"
    /\ wire # <<>>
    /\ wire' = Tail(wire)
    /\ taken' = taken + 1
    /\ current' = Head(wire)
    /\ held' = valid
    /\ UNCHANGED <<written, response, closing, peers, forwarded, logged, relayVars>>

\* Over the rate limit.
Limit ==
    /\ NextRequest
    /\ RefuseWith("429")

\* The Host does not match the CONNECT target.
RefuseHost ==
    /\ NextRequest
    /\ current'.host # "target"
    /\ RefuseWith("403")

\* Mistake: sockets are let through before the Host is compared.
TakeUpgradesUnchecked ==
    /\ NextRequest
    /\ current'.host = "target" \/ current'.upgrade
    /\ place' = "identify"
    /\ UNCHANGED replies

Take ==
    /\ NextRequest
    /\ current'.host = "target"
    /\ place' = "identify"
    /\ UNCHANGED replies

\* Mistake: an error of ReadRequest is logged and the loop goes on.
ReadFailsAndGoesOn ==
    /\ place = "read"
    /\ client = "up" \/ wire = <<>>
    /\ UNCHANGED tunnelVars

\* ReadRequest fails: end of stream, or something that is no request.
ReadFails ==
    /\ place = "read"
    /\ client = "up" \/ wire = <<>>
    /\ place' = "closed"
    /\ UNCHANGED <<served, outgoing, peers, forwarded, logged, relayVars>>

Forward ==
    /\ forwarded' = forwarded \cup {[id |-> taken, host |-> current.host, held |-> held]}
    /\ place' = "upstream"
    /\ UNCHANGED <<response, closing>>

Respond(status) ==
    /\ response' = status
    /\ closing' = TRUE
    /\ place' = "write"

Undecided == UNCHANGED <<response, closing>> /\ place' = "decide"

\* Mistake: the user found at CONNECT is used for the whole tunnel.
IdentifyOnce ==
    /\ place = "identify"
    /\ Undecided
    /\ UNCHANGED <<served, peers, replies, forwarded, logged, relayVars>>

\* Mistake: a request that cannot be attributed is dropped without an answer.
IdentifySilently ==
    /\ place = "identify"
    /\ \/ valid /\ Undecided
       \/ place' = "read" /\ UNCHANGED <<response, closing>>
    /\ UNCHANGED <<served, peers, replies, forwarded, logged, relayVars>>

\* processRequest and processUpgradeApproval resolve the token of the CONNECT
\* again for every request.  An unknown token and a database error both end
\* in a 407.
Identify ==
    /\ place = "identify"
    /\ \/ valid /\ Undecided
       \/ Respond("407")
    /\ UNCHANGED <<served, peers, replies, forwarded, logged, relayVars>>

\* The decision, which may take a judge's call: forward, deny, or an error.
Decide ==
    /\ place = "decide"
    /\ \/ Forward
       \/ \E s \in {"403", "500"} : Respond(s) /\ UNCHANGED forwarded
    /\ UNCHANGED <<served, peers, replies, logged, relayVars>>

\* The upstream response of a plain request, or 502.
Upstream ==
    /\ place = "upstream" /\ ~current.upgrade
    /\ \/ response' = "upstream" /\ closing' \in BOOLEAN
       \/ response' = "502" /\ closing' = TRUE
    /\ place' = "write"
    /\ UNCHANGED <<served, peers, replies, forwarded, logged, relayVars>>

\* Mistake: keep-alive is computed from the headers after they are stripped.
WriteResponseStripped ==
    /\ place = "write"
    /\ \/ /\ Reply(taken, response, closing)
          /\ place' = IF current.close \/ current.upgrade THEN "closed" ELSE "read"
       \/ place' = "closed" /\ UNCHANGED replies
    /\ UNCHANGED <<served, response, closing, peers, forwarded, logged, relayVars>>

\* Keep-alive is computed, the hop-by-hop headers are stripped, and the
\* response goes to the client.  It may break off: the client has left, or the
\* rest of upstream's body cannot be read.
WriteResponse ==
    /\ place = "write"
    /\ \/ /\ Reply(taken, response, closing)
          /\ place' = IF closing \/ current.close \/ current.upgrade
                   THEN "closed" ELSE "read"
       \/ place' = "closed" /\ UNCHANGED replies
    /\ UNCHANGED <<served, response, closing, peers, forwarded, logged, relayVars>>

---------------------------------------------------------------------------
(* handleWebSocketUpgrade                                                  *)

\* The dial, the handshake or its answer fails, or the answer, a 101 included,
\* cannot be written to the client.  The row is written in any case.
UpgradeFails ==
    /\ place = "upstream" /\ current.upgrade
    /\ \/ \E s \in {"403", "502", "upstream"} : Reply(taken, s, TRUE)
       \/ UNCHANGED replies
    /\ place' = "log"
    /\ UNCHANGED <<served, response, closing, peers, forwarded, logged, relayVars>>

\* Upstream's 101 is relayed and the relay starts.
Upgrade ==
    /\ place = "upstream" /\ current.upgrade
    /\ Reply(taken, "upstream", FALSE)
    /\ place' = "relay"
    /\ StartRelay
    /\ UNCHANGED <<served, response, closing, peers, forwarded, logged>>

\* Mistake: the row is written when the first direction ends.
RelayEndsEarly ==
    /\ place = "relay" /\ relay \in {"one", "over"}
    /\ place' = "log"
    /\ UNCHANGED <<served, outgoing, peers, forwarded, logged, relayVars>>

RelayEnds ==
    /\ place = "relay" /\ relay = "over"
    /\ place' = "log"
    /\ UNCHANGED <<served, outgoing, peers, forwarded, logged, relayVars>>

\* logWebSocketEntry, then the deferred closes.
LogSocket ==
    /\ place = "log"
    /\ logged' = TRUE
    /\ place' = "closed"
    /\ UNCHANGED <<served, outgoing, peers, forwarded, relayVars>>

---------------------------------------------------------------------------
(* The client, the administrator, upstream's end of the socket             *)

\* The client may write requests ahead of the responses.
ClientWrites ==
    /\ client = "up" /\ place \notin {"accept", "auth", "certificate", "handshake",
                                   "relay", "log", "closed"}
    /\ written < MaxRequests
    /\ \E r \in Request : wire' = Append(wire, r)
    /\ written' = written + 1
    /\ UNCHANGED <<place, taken, current, held, outgoing, peers, forwarded,
                   logged, relayVars>>

ClientLeaves ==
    /\ client = "up"
    /\ client' = "gone"
    /\ closed' = closed \cup {"client"}
    /\ UNCHANGED <<place, served, outgoing, valid, forwarded, logged, relay, copy,
                   readIn, writeIn, quiet, draining>>

\* An administrator deletes the token or gives it out again.
TokenChanges ==
    /\ place # "closed"
    /\ valid' = ~valid
    /\ held' = TRUE
    /\ UNCHANGED <<place, wire, written, taken, current, outgoing, client,
                   forwarded, logged, relayVars>>

UpstreamCloses ==
    /\ place = "relay"
    /\ PeerCloses("upstream")
    /\ UNCHANGED serveVars

---------------------------------------------------------------------------

Connect == Accept \/ Authenticate \/ Certificate \/ Handshake

Serve ==
    \/ Limit \/ RefuseHost \/ Take \/ ReadFails \/ Identify
    \/ Decide \/ WriteResponse \/ RelayEnds \/ LogSocket

AnswerOfUpstream == Upstream \/ UpgradeFails \/ Upgrade

Relay == place = "relay" /\ UNCHANGED serveVars /\ (Relaying \/ Traffic)

Done == place = "closed" /\ UNCHANGED tunnelVars

TunnelNext ==
    \/ Connect \/ Serve \/ AnswerOfUpstream \/ Relay
    \/ ClientWrites \/ ClientLeaves \/ TokenChanges \/ UpstreamCloses
    \/ Done

TunnelSpec == TunnelInit /\ [][TunnelNext]_tunnelVars

\* The tunnel's own goroutines run.  The client need not write or leave; the
\* transport has no response timeout, so upstream need not answer.  A read
\* with the client connected and nothing on the wire may wait for ever.
TunnelFairness ==
    /\ WF_tunnelVars(Connect)
    /\ WF_tunnelVars(Serve /\ (place = "read" => wire # <<>> \/ client = "gone"))
    /\ WF_tunnelVars(place = "relay" /\ UNCHANGED serveVars /\ Relaying)

TunnelFairSpec == TunnelInit /\ [][TunnelNext]_tunnelVars /\ TunnelFairness

---------------------------------------------------------------------------
(* Properties                                                              *)

TunnelTypeOK ==
    /\ RelayTypeOK
    /\ place \in Places
    /\ wire \in Seq(Request) /\ Len(wire) + taken = written
    /\ written \in 0..MaxRequests
    /\ current \in Request \cup {NoRequest}
    /\ client \in {"up", "gone"} /\ valid \in BOOLEAN /\ held \in BOOLEAN
    /\ closing \in BOOLEAN /\ logged \in BOOLEAN
    /\ response \in Statuses
    /\ \A f \in forwarded : f.id \in 1..taken

\* Responses come in the order of the requests and at most once each, and a
\* request goes upstream only when everything before it was answered: what
\* the client wrote ahead waits.
AnsweredInOrder ==
    /\ \A i \in DOMAIN replies : replies[i].id = i
    /\ \A f \in forwarded : Len(replies) >= f.id - 1

\* Nothing written ahead gets past a refusal: after a response that says
\* Connection: close, as every 429, 403, 407 and 5xx of the proxy does, no
\* later request goes upstream or is answered.
NothingAfterClose ==
    \A i \in DOMAIN replies :
        replies[i].closes =>
            i = Len(replies) /\ \A f \in forwarded : f.id <= i

\* A tunnel never reaches another host than the one it was opened for, not
\* even by upgrading to a socket.
TunnelStaysOnTarget == \A f \in forwarded : f.host = "target"

\* Revoking a token takes effect inside tunnels that are open already: a
\* request goes upstream only if the token its CONNECT came with was some
\* user's at a moment after the request was read, however long ago the tunnel
\* was authenticated.
RevocationTakesEffect == \A f \in forwarded : f.held

\* A socket is logged when it has ended and never while data can still flow.
LoggedAfterRelay == logged => ~Running

\* Once the client is gone and upstream answers what is under way, the tunnel
\* ends, whether it was idle, being served, or relaying a socket.
TunnelEnds ==
    WF_tunnelVars(AnswerOfUpstream) => (client = "gone" ~> place = "closed")
=============================================================================

---------------------------- MODULE Gatekeeper ----------------------------
(***************************************************************************)
(* What the proxy promises about each request, whatever the policies, the  *)
(* judge, the database and the administrators do meanwhile: it is decided  *)
(* at most once, only an allowed request is handed to the transport, at    *)
(* most once, and the audit trail records it at most once, after it is     *)
(* decided and, when it went upstream, after it did.                       *)
(***************************************************************************)
CONSTANTS Requests

VARIABLES
    verdict,    \* verdict[r]: "pending", "allowed" or "refused"
    upstream,   \* requests sent upstream
    recorded    \* requests with a row in the audit trail

vars == <<verdict, upstream, recorded>>

Init ==
    /\ verdict = [r \in Requests |-> "pending"]
    /\ upstream = {}
    /\ recorded = {}

Decide(r) ==
    /\ verdict[r] = "pending"
    /\ \E v \in {"allowed", "refused"} : verdict' = [verdict EXCEPT ![r] = v]
    /\ UNCHANGED <<upstream, recorded>>

Send(r) ==
    /\ verdict[r] = "allowed"
    /\ r \notin upstream
    /\ r \notin recorded
    /\ upstream' = upstream \cup {r}
    /\ UNCHANGED <<verdict, recorded>>

Record(r) ==
    /\ verdict[r] # "pending"
    /\ r \notin recorded
    /\ recorded' = recorded \cup {r}
    /\ UNCHANGED <<verdict, upstream>>

Next == \E r \in Requests : Decide(r) \/ Send(r) \/ Record(r)

Spec == Init /\ [][Next]_vars
=============================================================================

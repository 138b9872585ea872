------------------------- MODULE MCNotifications --------------------------
(* Instances of Notifications for TLC.                                     *)
EXTENDS Notifications, TLC

CONSTANTS alice, bob, a1, a2

\* Alice opens two connections, one replacing the other; Bob opens none.
MCUserOf == (a1 :> alice) @@ (a2 :> alice)
=============================================================================

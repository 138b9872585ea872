----------------------------- MODULE MCTunnel -----------------------------
(* Instances of Tunnel for TLC.                                            *)
EXTENDS Tunnel
=============================================================================

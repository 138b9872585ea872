---------------------------- MODULE MCEvalRun -----------------------------
(* Instances of EvalRun for TLC.                                           *)
EXTENDS EvalRun
=============================================================================

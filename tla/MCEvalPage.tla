---------------------------- MODULE MCEvalPage ----------------------------
EXTENDS EvalPage
=============================================================================

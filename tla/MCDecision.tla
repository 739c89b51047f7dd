---------------------------- MODULE MCDecision ----------------------------
(* DecisionHistory for TLC.                                                *)
EXTENDS DecisionHistory
=============================================================================

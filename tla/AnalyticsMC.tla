----------------------------- MODULE AnalyticsMC ----------------------------
(***************************************************************************)
(* Instances of Analytics for TLC.                                         *)
(***************************************************************************)
EXTENDS Analytics

CONSTANT x
=============================================================================

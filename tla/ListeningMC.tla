----------------------------- MODULE ListeningMC ---------------------------
(***************************************************************************)
(* Instances of Listening for TLC                                          *)
(***************************************************************************)
EXTENDS Listening
=============================================================================

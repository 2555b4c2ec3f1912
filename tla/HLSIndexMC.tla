----------------------------- MODULE HLSIndexMC -----------------------------
(***************************************************************************)
(* An instance of HLSIndex for TLC: enough segments for playlists of       *)
(* three, short ones of two, and two restarts.                             *)
(***************************************************************************)
EXTENDS HLSIndex
=============================================================================

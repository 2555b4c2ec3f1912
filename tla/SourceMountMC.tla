--------------------------- MODULE SourceMountMC ---------------------------
(***************************************************************************)
(* Instances of SourceMount for TLC: a fallback proxy and Icecast sources. *)
(***************************************************************************)
EXTENDS SourceMount

CONSTANTS p, a, b
=============================================================================

----------------------------- MODULE RegistryMC -----------------------------
(***************************************************************************)
(* Instances of Registry for TLC.                                          *)
(***************************************************************************)
EXTENDS Registry

CONSTANTS a, b, s1
=============================================================================

--------------------------- MODULE DumpRestoreMC ---------------------------
(***************************************************************************)
(* Instances of DumpRestore for TLC: one or two streams.                   *)
(***************************************************************************)
EXTENDS DumpRestore

CONSTANTS a, b

One == <<a>>
Two == <<a, b>>
=============================================================================

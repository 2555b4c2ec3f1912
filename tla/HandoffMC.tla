------------------------------ MODULE HandoffMC -----------------------------
(***************************************************************************)
(* Instances of Handoff for TLC: two mounts, of which the second may be    *)
(* created during the handoff, and one source of each; the second may be   *)
(* a fallback.                                                             *)
(***************************************************************************)
EXTENDS Handoff, TLC

CONSTANTS m1, m2, s1, s2, f

Mounts == (s1 :> m1) @@ (s2 :> m2) @@ (f :> m2)
=============================================================================

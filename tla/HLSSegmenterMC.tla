-------------------------- MODULE HLSSegmenterMC ---------------------------
(***************************************************************************)
(* Instances of HLSSegmenter for TLC: segments of two or three chunks that *)
(* may begin late, a buffer of a few segments, dumps and restarts at any   *)
(* time.                                                                   *)
(***************************************************************************)
EXTENDS HLSSegmenter
=============================================================================

--------------------------- MODULE RewindBufferMC --------------------------
(***************************************************************************)
(* An instance of RewindBuffer for TLC: three sources of two stream keys,  *)
(* and a listener.                                                         *)
(***************************************************************************)
EXTENDS RewindBuffer, TLC

CONSTANTS s1, s2, s3, k1, k2, c1

KeyOfSource == (s1 :> k1) @@ (s2 :> k2) @@ (s3 :> k1)

\* Two sources at most are used.  Listeners are on buffers of length 3 and of one
\* stream key, and on none that is not steady: what they hear then nobody promises.
Silent == \A c \in Client : offset[c] = -1 /\ pumped[c] = <<>> /\ heard[c] = <<>>
MCNext ==
    /\ Next
    /\ \/ used' \subseteq {s1, s2}
       \/ steady' /\ used' \subseteq {s1, s3}
    /\ \/ Silent'
       \/ steady' /\ secs' = 3 /\ used' \subseteq {s1, s3} /\ load'.key # k2
MCSpec == Init /\ [][MCNext]_vars

=============================================================================

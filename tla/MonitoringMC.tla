---------------------------- MODULE MonitoringMC ---------------------------
(***************************************************************************)
(* Instances of Monitoring for TLC: two slaves watched for responses, one  *)
(* of them for its buffers too.                                            *)
(***************************************************************************)
EXTENDS Monitoring

CONSTANTS s1, s2

Watched == {<<"slave_unresponsive", s1>>, <<"slave_unresponsive", s2>>, <<"slave_unsynced", s1>>}
=============================================================================

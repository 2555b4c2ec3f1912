------------------------------ MODULE Preroller -----------------------------
(***************************************************************************)
(* Advertisements before a stream (slave/preroller.coffee): one AdRequest  *)
(* for each output, which asks an ad server for an ad and a transcoder for *)
(* its audio, pipes that to the listener, calls back once and, if nothing  *)
(* went wrong, counts the impression a while later.                        *)
(*                                                                         *)
(* Servers may answer anything or nothing; what bounds a request is its    *)
(* timer, and the departure of its listener.                               *)
(***************************************************************************)
CONSTANTS Output

VARIABLES
    ad,             \* how far the AdRequest of each output is (AdStates)
    impression      \* its impression: _impressionTimeout, and whether the URL was hit

\* "stuck": the answer holds no ad, which _requestCreative stumbles over; "aborted":
\* _aborted is set, the transcoder's answer may still end.
AdStates == {"none", "asking", "fetching", "piping", "stuck", "aborted", "over"}
InFlight == {"asking", "fetching", "piping", "stuck"}

Impressions == {"none", "armed", "counted"}

Init == /\ ad = [o \in Output |-> "none"]
        /\ impression = [o \in Output |-> "none"]

\* pump, the constructor of AdRequest, _requestAd
Pump(o) ==
    /\ ad[o] = "none"
    /\ ad' = [ad EXCEPT ![o] = "asking"]
    /\ UNCHANGED impression

\* The ad server answers with an ad that has audio, which is asked for,
AdComes(o) ==
    /\ ad[o] = "asking"
    /\ ad' = [ad EXCEPT ![o] = "fetching"]
    /\ UNCHANGED impression

\* or with a wrapper without an ad: the callback throws.
NoAdComes(o) ==
    /\ ad[o] = "asking"
    /\ ad' = [ad EXCEPT ![o] = "stuck"]
    /\ UNCHANGED impression

\* The transcoder answers.
Responds(o) ==
    /\ ad[o] = "fetching"
    /\ ad' = [ad EXCEPT ![o] = "piping"]
    /\ UNCHANGED impression

\* _cleanup with an error: either server refuses, or cannot be reached or understood.
Fails(o) ==
    /\ ad[o] \in {"asking", "fetching"}
    /\ ad' = [ad EXCEPT ![o] = "over"]
    /\ UNCHANGED impression

\* _armImpression and _cleanup
Finish(o) ==
    /\ ad' = [ad EXCEPT ![o] = "over"]
    /\ impression' = [impression EXCEPT ![o] = "armed"]

\* An ad without audio needs no transcoder.
AdWithoutAudio(o) == ad[o] = "asking" /\ Finish(o)

\* The transcoder's answer ends, or is cut off.
Ends(o) == ad[o] = "piping" /\ Finish(o)

\* MUTANT: what is being piped is left to go on.
TimesOut_Pipes(o) ==
    /\ ad[o] \in InFlight
    /\ ad' = [ad EXCEPT ![o] = IF @ = "piping" THEN @ ELSE "aborted"]
    /\ UNCHANGED impression

\* _timeout: _abort
TimesOut(o) ==
    /\ ad[o] \in InFlight
    /\ ad' = [ad EXCEPT ![o] = "aborted"]
    /\ UNCHANGED impression

\* The impression's timer: the URL is hit, if the ad has one.
ImpressionTimer(o) ==
    /\ impression[o] = "armed"
    /\ \E i \in {"counted", "none"} : impression' = [impression EXCEPT ![o] = i]
    /\ UNCHANGED ad

\* MUTANT: an impression that is armed stays so.
Leave_StaysArmed(os) ==
    /\ ad' = [o \in Output |-> IF o \in os /\ ad[o] \in InFlight THEN "aborted" ELSE ad[o]]
    /\ UNCHANGED impression

\* The outputs os emit "disconnect": _abortL for those in flight, disarm.
Leave(os) ==
    /\ ad' = [o \in Output |-> IF o \in os /\ ad[o] \in InFlight THEN "aborted" ELSE ad[o]]
    /\ impression' = [o \in Output |-> IF o \in os /\ impression[o] = "armed" THEN "none"
                                       ELSE impression[o]]

----------------------------------------------------------------------------
AdsTyped ==
    /\ ad \in [Output -> AdStates]
    /\ impression \in [Output -> Impressions]
=============================================================================

------------------------------ MODULE Listening -----------------------------
(***************************************************************************)
(* A listener from its request to its end: the stream of a slave           *)
(* (SlaveStream) with its Preroller.  The advertisement comes between the  *)
(* request and the connection to the stream (outputs/raw_audio.coffee,     *)
(* shoutcast.coffee): its callback connects, an output that disconnects    *)
(* aborts it.                                                              *)
(***************************************************************************)
EXTENDS SlaveStream

VARIABLES ad, impression

P == INSTANCE Preroller WITH Output <- Listener

ads == <<ad, impression>>

all == <<vars, ads>>

LInit == Init /\ P!Init

\* The stream's own steps; those who are disconnected by one of them tell their request.
StreamStep ==
    /\ \/ InitTimeout \/ UseSource \/ RewindStep \/ LoadCut
       \/ \E l \in Listener : Request(l) \/ FallBehind(l) \/ CatchUp(l)
    /\ UNCHANGED ads

DisconnectStep ==
    /\ \/ \E l \in Listener : Close(l)
       \/ Poll
       \/ RemoveStream
    /\ P!Leave(disconnected' \ disconnected)

\* Once the session has started: with a preroller that knows the stream's key,
Preroll(l) ==
    /\ output[l] = "created" /\ l \notin disconnected
    /\ P!Pump(l)
    /\ UNCHANGED vars

\* or without, or with preskip.
Direct(l) ==
    /\ ad[l] = "none"
    /\ Connect(l)
    /\ UNCHANGED ads

\* The servers answer.
AdStep(l) ==
    /\ P!AdComes(l) \/ P!NoAdComes(l) \/ P!Responds(l)
    /\ UNCHANGED vars

\* The callback of pump, which is called once
Callback(l) ==
    IF ad[l] \in P!InFlight THEN Connect(l) ELSE UNCHANGED vars

Over(l) ==
    /\ P!Fails(l) \/ P!AdWithoutAudio(l) \/ P!Ends(l)
    /\ Callback(l)

Overdue(l) == P!TimesOut(l) /\ Callback(l)

Impression(l) == P!ImpressionTimer(l) /\ UNCHANGED vars

LNext ==
    \/ StreamStep
    \/ DisconnectStep
    \/ \E l \in Listener :
           Preroll(l) \/ Direct(l) \/ AdStep(l) \/ Over(l) \/ Overdue(l) \/ Impression(l)

LSpec == LInit /\ [][LNext]_all

\* A request is taken up in the next tick; timers run off, the preroll's too; a load that
\* is not cut ends.  Neither the master nor the ad's servers need answer.
FairSpec ==
    /\ LSpec
    /\ WF_all(InitTimeout /\ UNCHANGED ads)
    /\ WF_all(RewindTimeout /\ UNCHANGED ads)
    /\ WF_all(LoadEnd /\ UNCHANGED ads)
    /\ \A l \in Listener : WF_all(Preroll(l) \/ Direct(l)) /\ WF_all(Overdue(l))

----------------------------------------------------------------------------
(* Properties *)

\* The types of both parts; an ad in flight is that of an output which has not connected
\* to the stream and is still there.
ListeningTypeOK ==
    /\ TypeOK
    /\ P!AdsTyped
    /\ \A l \in Listener : ad[l] \in P!InFlight => output[l] = "created" /\ l \notin disconnected

\* The advertisement and the stream are never written to the same listener at once: what
\* is served has its ad behind it, or cut off.
NoAdOverAudio == \A l \in Listener : ad[l] = "piping" => output[l] # "served"

\* "does not hit impression URL for aborted client"
CountedWhilePresent ==
    [][\A l \in Listener : impression[l] # "counted" /\ impression'[l] = "counted" =>
           l \notin disconnected]_all

\* An ad that was cut short, by its timer or by a departure, is never counted, though the
\* transcoder's answer ends after that.
AbortedIsNotCounted ==
    [][\A l \in Listener : ad[l] = "aborted" => impression'[l] = "none"]_all

\* Whatever the ad's servers and the master do, whoever asks for a stream is served or
\* leaves, unless the stream is removed or the master is lost during the load.
EveryoneIsServed ==
    \A l \in Listener :
        output[l] = "created" ~> output[l] = "served" \/ l \in disconnected \/ removed
                                 \/ rewind = "cut"
=============================================================================

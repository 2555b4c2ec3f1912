--------------------------- MODULE ListeningProofs --------------------------
(***************************************************************************)
(* SlaveStream: for any number of listeners, none is served while the      *)
(* rewind buffer is being loaded, and who is served stays listed until it  *)
(* disconnects.  The argument: from the arrival of the source to the end   *)
(* of its load the stream is initializing (LoadingInits), since the first  *)
(* timer is gone by then (TypeOK).                                         *)
(*                                                                         *)
(* Listening: with advertisements a stream still does what SlaveStream     *)
(* says, so that its theorems hold here too; no ad is written over the     *)
(* stream's audio, and what is counted was heard.  The argument: an ad in  *)
(* flight is that of an output which is created and still there            *)
(* (InFlightWaits), hence the callback can connect it; an impression is    *)
(* that of an ad that is over, and is armed only for who is still there    *)
(* (ImpressionOK).                                                         *)
(*                                                                         *)
(* HLSIndex: as long as the master keeps its numbers, playlists are true   *)
(* and what they list is found.  The argument: numbers and names of        *)
(* segments go up together, also over what is loaded again, and the        *)
(* sequence of discontinuities moves exactly at gaps (MasterInOrder), so   *)
(* that an entry made from any snapshot says what one made from any other  *)
(* would (EntriesAreTrue).                                                 *)
(***************************************************************************)
EXTENDS Listening, HLSIndex, TLAPS

-----------------------------------------------------------------------------
(* The stream, whatever its listeners wait for *)

LoadingInits == rewind \in {"asked", "loading", "cut"} => initializing

IInv == TypeOK /\ LoadingInits /\ ListedWhileServed

LEMMA InitOK == Init => IInv
BY DEF Init, IInv, TypeOK, LoadingInits, ListedWhileServed, Phases, Outputs

\* _source_init lists everyone it serves.
LEMMA SourceInitKeeps ==
    ASSUME IInv, SourceInit,
           rewind' \in Phases, sourced' \in BOOLEAN, sourced' <=> rewind' # "none",
           rewind' \notin {"asked", "loading", "cut"},
           initTimer' \in BOOLEAN, ~initTimer'
    PROVE  IInv'
<1> USE DEF IInv, SourceInit, Serve
<1>1. output' \in [Listener -> Outputs] /\ \A l \in Listener :
          output'[l] = IF l \in waiting THEN "served" ELSE output[l]
  BY DEF TypeOK, Outputs
<1>2. lmeta' = lmeta \cup waiting /\ waiting' = {} /\ disconnected' = disconnected
  OBVIOUS
<1>3. TypeOK'
  BY <1>1, <1>2 DEF TypeOK
<1>4. LoadingInits'
  BY DEF LoadingInits
<1>5. ListedWhileServed'
  BY <1>1, <1>2 DEF ListedWhileServed
<1> QED
  BY <1>3, <1>4, <1>5

LEMMA SourceKeeps ==
    ASSUME IInv, InitTimeout \/ UseSource \/ RewindStep \/ LoadCut
    PROVE  IInv'
<1>1. CASE InitTimeout
  BY <1>1, SourceInitKeeps DEF InitTimeout, IInv, TypeOK, Phases
<1>2. CASE UseSource
  BY <1>2 DEF UseSource, IInv, TypeOK, LoadingInits, ListedWhileServed, Phases
<1>3. CASE RewindComes
  BY <1>3 DEF RewindComes, IInv, TypeOK, LoadingInits, ListedWhileServed, Phases
<1>4. CASE RewindFails
  BY <1>4, SourceInitKeeps DEF RewindFails, IInv, TypeOK, Phases
<1>5. CASE RewindTimeout
  BY <1>5, SourceInitKeeps DEF RewindTimeout, IInv, TypeOK, Phases
<1>6. CASE LoadEnd
  BY <1>6, SourceInitKeeps DEF LoadEnd, IInv, TypeOK, Phases
<1>7. CASE LoadCut
  BY <1>7 DEF LoadCut, IInv, TypeOK, LoadingInits, ListedWhileServed, Phases
<1> QED
  BY <1>1, <1>2, <1>3, <1>4, <1>5, <1>6, <1>7 DEF RewindStep

\* Whoever is let go was disconnected.
LEMMA DisconnectKeeps ==
    ASSUME IInv, NEW ls \in SUBSET Listener, DisconnectAll(ls),
           UNCHANGED <<sourced, initializing, initTimer, rewind, output>>,
           removed' \in BOOLEAN, waiting' \in SUBSET waiting
    PROVE  IInv'
<1> USE DEF IInv, DisconnectAll
<1>1. TypeOK'
  BY DEF TypeOK
<1>2. LoadingInits'
  BY DEF LoadingInits
<1>3. ListedWhileServed'
  BY DEF ListedWhileServed
<1> QED
  BY <1>1, <1>2, <1>3

LEMMA ListenerKeeps ==
    ASSUME IInv, NEW l \in Listener,
           Request(l) \/ Connect(l) \/ Close(l) \/ FallBehind(l) \/ CatchUp(l)
    PROVE  IInv'
<1> USE DEF IInv, stream
<1>1. CASE Request(l)
  <2>1. output' = [output EXCEPT ![l] = "created"]
    BY <1>1 DEF Request
  <2>2. TypeOK'
    BY <1>1, <2>1 DEF Request, TypeOK, Outputs
  <2> QED
    BY <1>1, <2>1, <2>2 DEF Request, TypeOK, LoadingInits, ListedWhileServed
<1>2. CASE Connect(l)
  <2>1. CASE initializing
    BY <1>2, <2>1 DEF Connect, TypeOK, Outputs, LoadingInits, ListedWhileServed
  <2>2. CASE ~initializing
    <3>1. output' = [k \in Listener |-> IF k \in {l} THEN "served" ELSE output[k]]
          /\ lmeta' = lmeta \cup {l} /\ UNCHANGED waiting
      BY <1>2, <2>2 DEF Connect, Serve
    <3>2. TypeOK'
      BY <1>2, <3>1 DEF Connect, TypeOK, Outputs
    <3> QED
      BY <1>2, <3>1, <3>2 DEF Connect, LoadingInits, ListedWhileServed
  <2> QED
    BY <2>1, <2>2
<1>3. CASE Close(l)
  BY <1>3, DisconnectKeeps DEF Close, TypeOK
<1>4. CASE FallBehind(l)
  BY <1>4 DEF FallBehind, TypeOK, LoadingInits, ListedWhileServed
<1>5. CASE CatchUp(l)
  BY <1>5 DEF CatchUp, TypeOK, LoadingInits, ListedWhileServed
<1> QED
  BY <1>1, <1>2, <1>3, <1>4, <1>5

LEMMA StepKeeps == IInv /\ [Next]_vars => IInv'
<1> SUFFICES ASSUME IInv, [Next]_vars PROVE IInv'
  OBVIOUS
<1>1. CASE InitTimeout \/ UseSource \/ RewindStep \/ LoadCut
  BY <1>1, SourceKeeps
<1>2. ASSUME NEW l \in Listener,
             Request(l) \/ Connect(l) \/ Close(l) \/ FallBehind(l) \/ CatchUp(l)
      PROVE  IInv'
  BY <1>2, ListenerKeeps
<1>3. CASE Poll
  <2>1. behind \in SUBSET Listener
    BY DEF IInv, TypeOK
  <2> QED
    BY <1>3, <2>1, DisconnectKeeps DEF Poll, stream, IInv, TypeOK
<1>4. CASE RemoveStream
  <2>1. lmeta \in SUBSET Listener
    BY DEF IInv, TypeOK
  <2> QED
    BY <1>4, <2>1, DisconnectKeeps DEF RemoveStream
<1>5. CASE UNCHANGED vars
  BY <1>5 DEF vars, IInv, TypeOK, LoadingInits, ListedWhileServed
<1> QED
  BY <1>1, <1>2, <1>3, <1>4, <1>5 DEF Next

\* IInv is an invariant of the stream.
THEOREM Invariance == Spec => []IInv
BY InitOK, StepKeeps, PTL DEF Spec

\* Every reachable state is well typed; the first timer is never set with a source.
THEOREM TypeCorrect == Spec => []TypeOK
<1>1. IInv => TypeOK
  BY DEF IInv
<1> QED
  BY <1>1, Invariance, PTL

\* Who is served stays in _lmeta as long as its output is connected: a removal of the
\* stream and the poller find it.
THEOREM ServedAreListed == Spec => []ListedWhileServed
<1>1. IInv => ListedWhileServed
  BY DEF IInv
<1> QED
  BY <1>1, Invariance, PTL

\* Nobody is given a rewinder between the arrival of a source and the end of its load
\* (_once_source_loaded), however late the source comes.
THEOREM NotServedEarly == Spec => ServedOnlyWhenLoaded
<1> DEFINE Newly == \E l \in Listener : output[l] # "served" /\ output'[l] = "served"
<1> DEFINE Good == Newly => rewind' \notin {"asked", "loading", "cut"}
<1>1. ASSUME IInv, [Next]_vars PROVE [Good]_vars
  <2> SUFFICES ASSUME Next PROVE Good
    BY <1>1
  <2> USE <1>1 DEF IInv, stream
  <2>1. CASE InitTimeout \/ UseSource \/ RewindStep \/ LoadCut
    BY <2>1 DEF InitTimeout, UseSource, RewindStep, RewindComes, RewindFails, RewindTimeout,
                LoadEnd, LoadCut, TypeOK
  <2>2. ASSUME NEW l \in Listener, Request(l) \/ Connect(l) PROVE Good
    <3>1. CASE Connect(l) /\ ~initializing
      BY <3>1 DEF Connect, LoadingInits
    <3>2. CASE Connect(l) /\ initializing
      BY <3>2 DEF Connect, TypeOK
    <3>3. CASE Request(l)
      BY <3>3 DEF Request, TypeOK
    <3> QED
      BY <2>2, <3>1, <3>2, <3>3
  <2>3. ASSUME NEW l \in Listener, Close(l) \/ FallBehind(l) \/ CatchUp(l) PROVE Good
    BY <2>3 DEF Close, FallBehind, CatchUp
  <2>4. CASE Poll \/ RemoveStream
    BY <2>4 DEF Poll, RemoveStream
  <2> QED
    BY <2>1, <2>2, <2>3, <2>4 DEF Next
<1> QED
  BY <1>1, Invariance, PTL DEF Spec, ServedOnlyWhenLoaded

-----------------------------------------------------------------------------
(* Advertisements *)

InFlightWaits ==
    \A l \in Listener : ad[l] \in P!InFlight => output[l] = "created" /\ l \notin disconnected

ImpressionOK ==
    \A l \in Listener :
        /\ impression[l] # "none" => ad[l] = "over"
        /\ impression[l] = "armed" => l \notin disconnected

LInv == IInv /\ P!AdsTyped /\ InFlightWaits /\ ImpressionOK

----------------------------------------------------------------------------
(* The stream's part *)

\* What a preroll's step does to the stream is a connection or nothing.
LEMMA AdStepRefines ==
    ASSUME NEW l \in Listener,
           Preroll(l) \/ Direct(l) \/ AdStep(l) \/ Over(l) \/ Overdue(l) \/ Impression(l)
    PROVE  Connect(l) \/ UNCHANGED vars
BY DEF Preroll, Direct, AdStep, Over, Overdue, Impression, Callback

LEMMA StepRefines == [LNext]_all => [Next]_vars
<1> SUFFICES ASSUME LNext \/ UNCHANGED all PROVE [Next]_vars
  OBVIOUS
<1>1. CASE StreamStep
  BY <1>1 DEF StreamStep, Next
<1>2. CASE DisconnectStep
  BY <1>2 DEF DisconnectStep, Next
<1>3. ASSUME NEW l \in Listener,
             Preroll(l) \/ Direct(l) \/ AdStep(l) \/ Over(l) \/ Overdue(l) \/ Impression(l)
      PROVE  [Next]_vars
  BY <1>3, AdStepRefines DEF Next
<1>4. CASE UNCHANGED all
  BY <1>4 DEF all
<1> QED
  BY <1>1, <1>2, <1>3, <1>4 DEF LNext

\* With its prerolls a stream implements SlaveStream: an ad delays a connection and does
\* nothing else to the stream.
THEOREM ImplementsStream == LSpec => Spec
<1>1. LInit => Init
  BY DEF LInit
<1> QED
  BY <1>1, StepRefines, PTL DEF LSpec, Spec

----------------------------------------------------------------------------
(* The invariant *)

LEMMA LInitOK == LInit => LInv
BY InitOK DEF LInit, LInv, P!Init, P!AdsTyped, P!AdStates, P!InFlight, P!Impressions,
              InFlightWaits, ImpressionOK

\* A connection leaves the other outputs alone.
LEMMA ConnectEffect ==
    ASSUME IInv, NEW l \in Listener, Connect(l)
    PROVE  /\ disconnected' = disconnected
           /\ \A k \in Listener \ {l} : output'[k] = output[k]
BY DEF IInv, TypeOK, Connect, Serve

LEMMA StreamStepKeeps ==
    ASSUME LInv, StreamStep, IInv'
    PROVE  LInv'
<1> USE DEF LInv
<1>1. ad' = ad /\ impression' = impression
  BY DEF StreamStep, ads
<1>2. disconnected' = disconnected
      /\ \A k \in Listener : output[k] = "created" /\ k \notin waiting => output'[k] = "created"
  <2>1. CASE InitTimeout \/ UseSource \/ RewindStep \/ LoadCut
    BY <2>1 DEF InitTimeout, UseSource, RewindStep, RewindComes, RewindFails, RewindTimeout,
                LoadEnd, LoadCut, SourceInit, Serve
  <2>2. ASSUME NEW l \in Listener, Request(l)
        PROVE  disconnected' = disconnected
               /\ \A k \in Listener : output[k] = "created" => output'[k] = "created"
    BY <2>2 DEF Request, IInv, TypeOK
  <2>3. ASSUME NEW l \in Listener, FallBehind(l) \/ CatchUp(l)
        PROVE  disconnected' = disconnected /\ output' = output
    BY <2>3 DEF FallBehind, CatchUp
  <2> QED
    BY <2>1, <2>2, <2>3 DEF StreamStep
<1>3. \A k \in waiting : output[k] = "connected"
  BY DEF IInv, TypeOK
<1>4. InFlightWaits'
  BY <1>1, <1>2, <1>3 DEF InFlightWaits
<1>5. ImpressionOK'
  BY <1>1, <1>2 DEF ImpressionOK
<1>6. P!AdsTyped'
  BY <1>1 DEF P!AdsTyped
<1> QED
  BY <1>4, <1>5, <1>6

\* Who disconnects has no ad in flight and no impression armed after that.
LEMMA DisconnectStepKeeps ==
    ASSUME LInv, DisconnectStep, IInv'
    PROVE  LInv'
<1> USE DEF LInv
<1> DEFINE gone == disconnected' \ disconnected
<1>1. output' = output
  BY DEF DisconnectStep, Close, Poll, RemoveStream, stream
<1>2. /\ ad' = [o \in Listener |-> IF o \in gone /\ ad[o] \in P!InFlight THEN "aborted"
                                   ELSE ad[o]]
      /\ impression' = [o \in Listener |-> IF o \in gone /\ impression[o] = "armed" THEN "none"
                                           ELSE impression[o]]
  BY DEF DisconnectStep, P!Leave
<1> HIDE DEF gone
<1>3. P!AdsTyped'
  BY <1>2 DEF P!AdsTyped, P!AdStates, P!Impressions
<1>4. InFlightWaits'
  BY <1>1, <1>2 DEF InFlightWaits, P!InFlight, gone
<1>5. ImpressionOK'
  BY <1>2 DEF ImpressionOK, P!InFlight, gone
<1> QED
  BY <1>3, <1>4, <1>5

\* An ad that starts, goes on or ends.
LEMMA AdStepKeeps ==
    ASSUME LInv, IInv', NEW l \in Listener,
           Preroll(l) \/ Direct(l) \/ AdStep(l) \/ Over(l) \/ Overdue(l) \/ Impression(l)
    PROVE  LInv'
<1> USE DEF LInv
<1>1. disconnected' = disconnected /\ \A k \in Listener \ {l} : output'[k] = output[k]
  BY AdStepRefines, ConnectEffect DEF vars
<1>2. CASE Preroll(l)
  BY <1>2 DEF Preroll, vars, P!Pump, P!AdsTyped, P!AdStates, P!InFlight, InFlightWaits,
              ImpressionOK
<1>3. CASE Direct(l)
  BY <1>1, <1>3 DEF Direct, ads, P!AdsTyped, P!AdStates, P!InFlight, InFlightWaits, ImpressionOK
<1>4. CASE AdStep(l)
  BY <1>4 DEF AdStep, vars, P!AdComes, P!NoAdComes, P!Responds, P!AdsTyped, P!AdStates,
              P!InFlight, InFlightWaits, ImpressionOK
<1>5. CASE Over(l)
  BY <1>1, <1>5 DEF Over, P!Fails, P!AdWithoutAudio, P!Ends, P!Finish, P!AdsTyped, P!AdStates,
              P!Impressions, P!InFlight, InFlightWaits, ImpressionOK
<1>6. CASE Overdue(l)
  BY <1>1, <1>6 DEF Overdue, P!TimesOut, P!AdsTyped, P!AdStates, P!InFlight, InFlightWaits,
              ImpressionOK
<1>7. CASE Impression(l)
  BY <1>7 DEF Impression, vars, P!ImpressionTimer, P!AdsTyped, P!Impressions, P!InFlight,
              InFlightWaits, ImpressionOK
<1> QED
  BY <1>2, <1>3, <1>4, <1>5, <1>6, <1>7

LEMMA LStepKeeps == LInv /\ [LNext]_all => LInv'
<1> SUFFICES ASSUME LInv, [LNext]_all PROVE LInv'
  OBVIOUS
<1>1. IInv'
  BY StepRefines, StepKeeps DEF LInv
<1>2. CASE UNCHANGED all
  BY <1>1, <1>2 DEF all, vars, ads, LInv, P!AdsTyped, InFlightWaits, ImpressionOK
<1> QED
  BY <1>1, <1>2, StreamStepKeeps, DisconnectStepKeeps, AdStepKeeps DEF LNext

\* LInv is an invariant of the stream with its prerolls.
THEOREM LInvariance == LSpec => []LInv
BY LInitOK, LStepKeeps, PTL DEF LSpec

----------------------------------------------------------------------------
(* What follows *)

\* Both parts are well typed; an ad in flight is that of a listener who is there and has
\* not connected.
THEOREM ListeningTypeCorrect == LSpec => []ListeningTypeOK
<1>1. LInv => ListeningTypeOK
  BY DEF LInv, IInv, InFlightWaits, ListeningTypeOK
<1> QED
  BY <1>1, LInvariance, PTL

\* An ad's audio is piped only before the stream's (connectToStream is the callback).
THEOREM NoAdDuringTheStream == LSpec => []NoAdOverAudio
<1>1. LInv => NoAdOverAudio
  BY DEF LInv, InFlightWaits, NoAdOverAudio, P!InFlight
<1> QED
  BY <1>1, LInvariance, PTL

\* No impression is counted for a listener that has left (disarm, _abortL).
THEOREM CountsThePresent == LSpec => CountedWhilePresent
<1> DEFINE Good == \A l \in Listener : impression[l] # "counted" /\ impression'[l] = "counted" =>
                       l \notin disconnected
<1>1. ASSUME LInv, [LNext]_all PROVE [Good]_all
  <2> USE <1>1 DEF LInv, P!AdsTyped
  <2>1. CASE StreamStep
    BY <2>1 DEF StreamStep, ads
  <2>2. CASE DisconnectStep
    BY <2>2 DEF DisconnectStep, P!Leave
  <2>3. ASSUME NEW l \in Listener, Preroll(l) \/ Direct(l) \/ AdStep(l) \/ Overdue(l)
        PROVE  Good
    BY <2>3 DEF Preroll, Direct, AdStep, Overdue, ads, P!Pump, P!AdComes, P!NoAdComes,
                P!Responds, P!TimesOut
  <2>4. ASSUME NEW l \in Listener, Over(l) PROVE Good
    BY <2>4 DEF Over, P!Fails, P!AdWithoutAudio, P!Ends, P!Finish
  <2>5. ASSUME NEW l \in Listener, Impression(l) PROVE Good
    BY <2>5 DEF Impression, P!ImpressionTimer, ImpressionOK
  <2> QED
    BY <2>1, <2>2, <2>3, <2>4, <2>5 DEF LNext
<1> QED
  BY <1>1, LInvariance, PTL DEF LSpec, CountedWhilePresent

\* What was aborted is not counted, whatever the servers still answer (_aborted).
THEOREM AbortedNeverCounts == LSpec => AbortedIsNotCounted
<1> DEFINE Good == \A l \in Listener : ad[l] = "aborted" => impression'[l] = "none"
<1>1. ASSUME LInv, [LNext]_all PROVE [Good]_all
  <2> USE <1>1 DEF LInv, P!AdsTyped
  <2>0. \A l \in Listener : ad[l] = "aborted" => impression[l] = "none"
    BY DEF ImpressionOK
  <2>1. CASE StreamStep
    BY <2>0, <2>1 DEF StreamStep, ads
  <2>2. CASE DisconnectStep
    BY <2>0, <2>2 DEF DisconnectStep, P!Leave
  <2>3. ASSUME NEW l \in Listener, Preroll(l) \/ Direct(l) \/ AdStep(l) \/ Overdue(l)
        PROVE  Good
    BY <2>0, <2>3 DEF Preroll, Direct, AdStep, Overdue, ads, P!Pump, P!AdComes, P!NoAdComes,
                P!Responds, P!TimesOut
  <2>4. ASSUME NEW l \in Listener, Over(l) PROVE Good
    BY <2>0, <2>4 DEF Over, P!Fails, P!AdWithoutAudio, P!Ends, P!Finish
  <2>5. ASSUME NEW l \in Listener, Impression(l) PROVE Good
    BY <2>0, <2>5 DEF Impression, P!ImpressionTimer
  <2> QED
    BY <2>1, <2>2, <2>3, <2>4, <2>5 DEF LNext
<1> QED
  BY <1>1, LInvariance, PTL DEF LSpec, AbortedIsNotCounted

-----------------------------------------------------------------------------
(* Playlists of a slave: HLSIndex *)

Segments == [w : Nat, id : Nat, dseq : Int]

\* Names of segments and their numbers go up together, to the last one there is;
\* what is still to be loaded comes right before the list.
MasterInOrder ==
    /\ list \in Seq(Segments) /\ toLoad \in Seq(Segments)
    /\ made \in Nat /\ seq = made /\ gaps \subseteq 1 .. made /\ dseq \in Int /\ dseqR \in Int
    /\ \A i \in 1 .. Len(list) :
         list[i].w = list[i].id + 1 /\ list[i].id = seq - Len(list) + i - 1
    /\ \A i \in 1 .. Len(toLoad) :
         /\ toLoad[i].w = toLoad[i].id + 1
         /\ toLoad[i].id = seq - Len(list) - Len(toLoad) + i - 1
    /\ \A i \in 2 .. Len(list) : list[i].dseq # list[i - 1].dseq <=> list[i].w \in gaps
    /\ list # <<>> => list[Len(list)].dseq = dseq
    /\ toLoad # <<>> => dseqR = IF list = <<>> THEN dseq ELSE list[1].dseq

\* Entries are those of the segments the source has made.
EntriesAreTrue ==
    \A id \in DOMAIN cache :
      /\ id \in Nat /\ id < made
      /\ cache[id].id = id /\ cache[id].w = id + 1 /\ (cache[id].disc <=> id + 1 \in gaps)

SlaveInOrder ==
    /\ EntriesAreTrue /\ PlaylistIsTrue /\ ToldAreFound
    /\ index # None => \A i \in 1 .. Len(index) : index[i].w \in 1 .. made

Ordered == ~renumbered => MasterInOrder /\ SlaveInOrder

LEMMA AddKeeps ==
    ASSUME MasterInOrder, NEW gap \in BOOLEAN, Add(gap)
    PROVE  MasterInOrder'
<1> DEFINE s == Segment(made', seq, dseq')
<1> USE DEF MasterInOrder, Add
<1>1. /\ made' = made + 1 /\ made' \in Nat /\ seq' = made' /\ dseq' \in Int /\ dseqR' \in Int
      /\ gaps' \subseteq 1 .. made' /\ \A w \in 1 .. made : w \in gaps' <=> w \in gaps
      /\ made' \in gaps' <=> gap
  OBVIOUS
<1>2. s \in Segments /\ s.w = made' /\ s.id = seq /\ s.dseq = dseq'
  BY <1>1 DEF Segments, Segment
<1>3. list' = Append(list, s)
  OBVIOUS
<1> HIDE DEF s
<1>4. /\ list' \in Seq(Segments) /\ Len(list') = Len(list) + 1 /\ list'[Len(list')] = s
      /\ \A i \in 1 .. Len(list) : list'[i] = list[i]
      /\ list' # <<>> /\ (list # <<>> <=> Len(list) > 0)
  BY <1>2, <1>3
<1>5. \A i \in 1 .. Len(list') :
        list'[i].w = list'[i].id + 1 /\ list'[i].id = seq' - Len(list') + i - 1
  <2> SUFFICES ASSUME NEW i \in 1 .. Len(list')
               PROVE  list'[i].w = list'[i].id + 1 /\ list'[i].id = seq' - Len(list') + i - 1
    OBVIOUS
  <2>1. CASE i = Len(list')
    BY <1>1, <1>2, <1>4, <2>1
  <2>2. CASE i # Len(list')
    <3>1. i \in 1 .. Len(list) /\ list'[i] = list[i]
      BY <1>4, <2>2
    <3>2. seq' - Len(list') = seq - Len(list)
      BY <1>1, <1>4
    <3> QED
      BY <3>1, <3>2
  <2> QED
    BY <2>1, <2>2
<1>6. toLoad' = toLoad
  OBVIOUS
<1>7. \A i \in 2 .. Len(list') : list'[i].dseq # list'[i - 1].dseq <=> list'[i].w \in gaps'
  <2> SUFFICES ASSUME NEW i \in 2 .. Len(list')
               PROVE  list'[i].dseq # list'[i - 1].dseq <=> list'[i].w \in gaps'
    OBVIOUS
  <2>1. i - 1 \in 1 .. Len(list) /\ list'[i - 1] = list[i - 1]
    BY <1>4
  <2>2. CASE i = Len(list')
    <3>1. list # <<>> /\ i - 1 = Len(list) /\ list'[i - 1].dseq = dseq
      BY <1>4, <2>1, <2>2
    <3>2. dseq' = IF gap THEN dseq + 1 ELSE dseq
      BY <3>1
    <3> QED
      BY <3>1, <3>2, <2>2, <1>1, <1>2, <1>4
  <2>3. CASE i # Len(list')
    <3>1. i \in 2 .. Len(list) /\ i \in 1 .. Len(list) /\ list'[i] = list[i]
      BY <1>4, <2>3
    <3>2. i <= Len(list) /\ i \in Nat /\ Len(list) \in Nat
      BY <3>1
    <3>3. list[i] \in Segments /\ list[i].id \in Nat
      <4>1. list[i] \in Segments
        BY <3>1
      <4> QED
        BY <4>1 DEF Segments
    <3>4. list[i].w \in 1 .. made
      <4>1. list[i].w = list[i].id + 1 /\ list[i].id = seq - Len(list) + i - 1
        BY <3>1
      <4> QED
        BY <3>2, <3>3, <4>1
    <3>5. list[i].dseq # list[i - 1].dseq <=> list[i].w \in gaps
      BY <3>1
    <3> QED
      BY <3>1, <3>4, <3>5, <2>1, <1>1
  <2> QED
    BY <2>2, <2>3
<1>8. list'[Len(list')].dseq = dseq'
  BY <1>2, <1>4
<1>9. toLoad' # <<>> => dseqR' = IF list' = <<>> THEN dseq' ELSE list'[1].dseq
  BY <1>2, <1>4
<1>10. \A i \in 1 .. Len(toLoad') :
         /\ toLoad'[i].w = toLoad'[i].id + 1
         /\ toLoad'[i].id = seq' - Len(list') - Len(toLoad') + i - 1
  BY <1>1, <1>4, <1>6
<1> QED
  BY <1>1, <1>4, <1>5, <1>6, <1>7, <1>8, <1>9, <1>10

LEMMA ExpireKeeps ==
    ASSUME MasterInOrder, Expire
    PROVE  MasterInOrder'
<1> USE DEF MasterInOrder, Expire
<1>1. /\ list' \in Seq(Segments) /\ Len(list') = Len(list) - 1 /\ Len(list) > 0
      /\ \A i \in 1 .. Len(list') : list'[i] = list[i + 1]
      /\ list' # <<>> => Len(list') > 0
  OBVIOUS
<1>2. toLoad' = <<>> /\ toLoad' \in Seq(Segments) /\ Len(toLoad') = 0
  OBVIOUS
<1>3. \A i \in 1 .. Len(list') :
        list'[i].w = list'[i].id + 1 /\ list'[i].id = seq' - Len(list') + i - 1
  BY <1>1
<1>4. \A i \in 2 .. Len(list') : list'[i].dseq # list'[i - 1].dseq <=> list'[i].w \in gaps'
  <2> SUFFICES ASSUME NEW i \in 2 .. Len(list')
               PROVE  list'[i].dseq # list'[i - 1].dseq <=> list'[i].w \in gaps'
    OBVIOUS
  <2>1. list'[i] = list[i + 1] /\ list'[i - 1] = list[i] /\ i + 1 \in 2 .. Len(list)
    BY <1>1
  <2>2. list[i + 1].dseq # list[(i + 1) - 1].dseq <=> list[i + 1].w \in gaps
    BY <2>1
  <2> QED
    BY <2>1, <2>2
<1>5. list' # <<>> => list'[Len(list')].dseq = dseq'
  BY <1>1
<1> QED
  BY <1>1, <1>2, <1>3, <1>4, <1>5

LEMMA LoadSegmentKeeps ==
    ASSUME MasterInOrder, LoadSegment
    PROVE  MasterInOrder'
<1> DEFINE t == Last(toLoad)
           s == Segment(t.w, t.id, dseqR')
<1> USE DEF MasterInOrder, LoadSegment
<1>1. /\ t \in Segments /\ t.w = t.id + 1 /\ t.id = seq - Len(list) - 1
      /\ toLoad' \in Seq(Segments) /\ Len(toLoad') = Len(toLoad) - 1
      /\ \A i \in 1 .. Len(toLoad') : toLoad'[i] = toLoad[i]
  BY DEF Last, Front
<1>2. dseqR' \in Int
  OBVIOUS
<1>3. s \in Segments /\ s.w = t.w /\ s.id = t.id /\ s.dseq = dseqR'
  BY <1>1, <1>2 DEF Segments, Segment
<1>4. list' = <<s>> \o list
  OBVIOUS
<1> HIDE DEF s, t
<1>5. /\ list' \in Seq(Segments) /\ Len(list') = Len(list) + 1 /\ list'[1] = s
      /\ \A i \in 2 .. Len(list') : list'[i] = list[i - 1]
      /\ list' # <<>> /\ (list # <<>> <=> Len(list) > 0)
  BY <1>3, <1>4
<1>6. \A i \in 1 .. Len(list') :
        list'[i].w = list'[i].id + 1 /\ list'[i].id = seq' - Len(list') + i - 1
  BY <1>1, <1>3, <1>5
<1>7. \A i \in 1 .. Len(toLoad') :
         /\ toLoad'[i].w = toLoad'[i].id + 1
         /\ toLoad'[i].id = seq' - Len(list') - Len(toLoad') + i - 1
  <2> SUFFICES ASSUME NEW i \in 1 .. Len(toLoad')
               PROVE  /\ toLoad'[i].w = toLoad'[i].id + 1
                      /\ toLoad'[i].id = seq' - Len(list') - Len(toLoad') + i - 1
    OBVIOUS
  <2>1. i \in 1 .. Len(toLoad) /\ toLoad'[i] = toLoad[i]
    BY <1>1
  <2>2. seq' - Len(list') - Len(toLoad') = seq - Len(list) - Len(toLoad)
    BY <1>1, <1>5
  <2>3. /\ toLoad[i].w = toLoad[i].id + 1
        /\ toLoad[i].id = seq - Len(list) - Len(toLoad) + i - 1
    BY <2>1
  <2> QED
    BY <2>1, <2>2, <2>3
<1>8. \A i \in 2 .. Len(list') : list'[i].dseq # list'[i - 1].dseq <=> list'[i].w \in gaps'
  <2> SUFFICES ASSUME NEW i \in 2 .. Len(list')
               PROVE  list'[i].dseq # list'[i - 1].dseq <=> list'[i].w \in gaps'
    OBVIOUS
  <2>1. list'[i] = list[i - 1]
    BY <1>5
  <2>2. CASE i = 2
    <3>1. list # <<>> /\ list'[i] = Head(list) /\ list'[i - 1] = s /\ dseqR = Head(list).dseq
      BY <1>5, <2>1, <2>2
    <3>2. dseqR' = IF Head(list).w \in gaps THEN dseqR - 1 ELSE dseqR
      BY <3>1
    <3> QED
      BY <3>1, <3>2, <1>3
  <2>3. CASE i # 2
    <3>1. i - 1 \in 2 .. Len(list) /\ list'[i - 1] = list[(i - 1) - 1]
      BY <1>5, <2>3
    <3> QED
      BY <3>1, <2>1
  <2> QED
    BY <2>2, <2>3
<1>9. list'[Len(list')].dseq = dseq'
  <2>1. CASE list = <<>>
    BY <1>3, <1>5, <2>1
  <2>2. CASE list # <<>>
    BY <1>5, <2>2
  <2> QED
    BY <2>1, <2>2
<1>10. toLoad' # <<>> => dseqR' = IF list' = <<>> THEN dseq' ELSE list'[1].dseq
  BY <1>3, <1>5
<1> QED
  BY <1>1, <1>2, <1>5, <1>6, <1>7, <1>8, <1>9, <1>10

\* A handoff: all there is is loaded again.
LEMMA HandoffKeeps ==
    ASSUME MasterInOrder, Restart(seq)
    PROVE  MasterInOrder'
<1> USE DEF MasterInOrder, Restart
<1>1. toLoad' = list
  <2>1. CASE list = <<>>
    BY <2>1 DEF Before
  <2>2. CASE list # <<>>
    <3>1. Len(list) > 0 /\ Head(list) = list[1] /\ 1 \in 1 .. Len(list)
      BY <2>2
    <3>2. list[1].id = seq - Len(list) + 1 - 1
      BY <3>1
    <3>3. seq - Head(list).id = Len(list)
      BY <3>1, <3>2
    <3>4. toLoad' = SubSeq(list, 1, Len(list))
      BY <2>2, <3>3 DEF Before
    <3> QED
      BY <3>4
  <2> QED
    BY <2>1, <2>2
<1>2. list' = <<>> /\ list' \in Seq(Segments) /\ Len(list') = 0 /\ seq' = made' /\ made' = made
  OBVIOUS
<1>3. toLoad' # <<>> => Len(list) > 0
  BY <1>1
<1>4. dseq' \in Int /\ dseqR' = dseq'
  BY <1>1, <1>3 DEF Last, Segments
<1> QED
  BY <1>1, <1>2, <1>3, <1>4

LEMMA MasterKeeps ==
    ASSUME MasterInOrder, Add(TRUE) \/ Add(FALSE) \/ Expire \/ LoadSegment \/ Restart(seq)
    PROVE  MasterInOrder'
BY AddKeeps, ExpireKeeps, LoadSegmentKeeps, HandoffKeeps

\* What the slave has stays true when the master goes on.
LEMMA SlaveStays ==
    ASSUME MasterInOrder, SlaveInOrder, UNCHANGED <<playlists, told>>,
           made' \in Nat, made <= made', \A w \in 1 .. made : w \in gaps' <=> w \in gaps
    PROVE  SlaveInOrder'
<1>1. /\ cache' = cache /\ index' = index /\ header' = header /\ told' = told
      /\ made \in Nat
  BY DEF playlists, MasterInOrder
<1>2. EntriesAreTrue'
  <2> SUFFICES ASSUME NEW id \in DOMAIN cache
               PROVE  /\ id \in Nat /\ id < made'
                      /\ cache[id].id = id /\ cache[id].w = id + 1
                      /\ cache[id].disc <=> id + 1 \in gaps'
    BY <1>1 DEF EntriesAreTrue
  <2>1. /\ id \in Nat /\ id < made
        /\ cache[id].id = id /\ cache[id].w = id + 1 /\ (cache[id].disc <=> id + 1 \in gaps)
    BY DEF SlaveInOrder, EntriesAreTrue
  <2>2. id + 1 \in 1 .. made
    BY <1>1, <2>1
  <2> QED
    BY <1>1, <2>1, <2>2
<1>3. PlaylistIsTrue'
  BY <1>1 DEF SlaveInOrder, PlaylistIsTrue
<1>4. ToldAreFound'
  BY <1>1 DEF SlaveInOrder, ToldAreFound
<1>5. index' # None => \A i \in 1 .. Len(index') : index'[i].w \in 1 .. made'
  BY <1>1 DEF SlaveInOrder
<1> QED
  BY <1>2, <1>3, <1>4, <1>5 DEF SlaveInOrder

LEMMA EntriesOfList ==
    ASSUME MasterInOrder, EntriesAreTrue, Len(list) >= 3
    PROVE  LET es == Entries(list) IN
             /\ DOMAIN es = 1 .. Len(list) - 2 /\ Len(es) = Len(list) - 2
             /\ \A i \in 1 .. Len(es) :
                  /\ es[i].id = list[i + 2].id /\ es[i].id \in Ids(list)
                  /\ es[i].id = list[3].id + i - 1
                  /\ es[i].id \in Nat /\ es[i].id < made
                  /\ es[i].w = es[i].id + 1 /\ es[i].w \in 1 .. made
                  /\ es[i].disc <=> es[i].w \in gaps
                  /\ es[i].id \in DOMAIN cache => es[i] = cache[es[i].id]
<1> DEFINE es == Entries(list)
<1>1. DOMAIN es = 1 .. Len(list) - 2 /\ Len(es) = Len(list) - 2
  BY DEF Entries, MasterInOrder
<1>2. ASSUME NEW i \in 1 .. Len(es)
      PROVE  /\ es[i].id = list[i + 2].id /\ es[i].id \in Ids(list)
             /\ es[i].id = list[3].id + i - 1
             /\ es[i].id \in Nat /\ es[i].id < made
             /\ es[i].w = es[i].id + 1 /\ es[i].w \in 1 .. made
             /\ es[i].disc <=> es[i].w \in gaps
             /\ es[i].id \in DOMAIN cache => es[i] = cache[es[i].id]
  <2> DEFINE s == list[i + 2]
  <2>1. /\ i + 2 \in 1 .. Len(list) /\ i + 2 \in 2 .. Len(list) /\ 3 \in 1 .. Len(list)
        /\ (i + 2) - 1 = i + 1 /\ i \in 1 .. Len(list) - 2
    <3>1. Len(list) \in Nat /\ i \in 1 .. Len(list) - 2
      BY <1>1 DEF MasterInOrder
    <3> QED
      BY <3>1
  <2>2. es[i] = Entry(list, i + 2)
    BY <2>1 DEF Entries
  <2>3. /\ s \in Segments /\ list[3] \in Segments
        /\ s.w = s.id + 1 /\ s.id = seq - Len(list) + (i + 2) - 1
        /\ list[3].id = seq - Len(list) + 3 - 1
    <3>1. s \in Segments /\ list[3] \in Segments
      BY <2>1 DEF MasterInOrder
    <3>2. \A j \in 1 .. Len(list) :
            list[j].w = list[j].id + 1 /\ list[j].id = seq - Len(list) + j - 1
      BY DEF MasterInOrder
    <3> QED
      BY <2>1, <3>1, <3>2
  <2> HIDE DEF s
  <2>4. /\ s.id \in Nat /\ list[3].id \in Nat /\ seq = made /\ made \in Nat
        /\ i \in Nat /\ Len(list) \in Nat /\ i + 2 <= Len(list)
    <3>1. s.id \in Nat /\ list[3].id \in Nat
      BY <2>3 DEF Segments
    <3>2. seq = made /\ made \in Nat /\ Len(list) \in Nat
      BY DEF MasterInOrder
    <3> QED
      BY <2>1, <3>1, <3>2
  <2>5. s.id = list[3].id + i - 1 /\ s.id < made /\ s.w \in 1 .. made
    <3>1. s.id = seq - Len(list) + (i + 2) - 1 /\ list[3].id = seq - Len(list) + 3 - 1
      BY <2>3
    <3>2. s.id < made
      BY <2>4, <3>1
    <3>3. s.w \in 1 .. made
      BY <2>3, <2>4, <3>2
    <3> QED
      BY <2>4, <3>1, <3>2, <3>3
  <2>6. FollowsGap(list, i + 2) <=> s.w \in gaps
    <3>1. \A j \in 2 .. Len(list) : list[j].dseq # list[j - 1].dseq <=> list[j].w \in gaps
      BY DEF MasterInOrder
    <3>2. list[i + 2].dseq # list[(i + 2) - 1].dseq <=> list[i + 2].w \in gaps
      BY <2>1, <3>1
    <3> HIDE DEF MasterInOrder
    <3> QED
      BY <3>2 DEF FollowsGap, s
  <2>7. s.id \in Ids(list) /\ s = list[i + 2]
    BY <2>1 DEF Ids, s
  <2>8. CASE s.id \in DOMAIN cache
    <3>1. es[i] = cache[s.id]
      BY <2>2, <2>8 DEF Entry, s
    <3>2. cache[s.id].id = s.id /\ cache[s.id].w = s.id + 1 /\ (cache[s.id].disc <=> s.id + 1 \in gaps)
      BY <2>8 DEF EntriesAreTrue
    <3> QED
      BY <3>1, <3>2, <2>3, <2>4, <2>7, <2>5
  <2>9. CASE s.id \notin DOMAIN cache
    <3>1. es[i] = [w |-> s.w, id |-> s.id, disc |-> FollowsGap(list, i + 2)]
      BY <2>2, <2>9 DEF Entry, s
    <3> QED
      BY <3>1, <2>3, <2>4, <2>6, <2>7, <2>9, <2>5
  <2> QED
    BY <2>8, <2>9
<1> QED
  BY <1>1, <1>2

LEMMA SnapshotKeeps ==
    ASSUME MasterInOrder, SlaveInOrder, LoadSnapshot
    PROVE  SlaveInOrder'
<1>0. made' = made /\ gaps' = gaps /\ list \in Seq(Segments)
  BY DEF LoadSnapshot, masterVars, MasterInOrder
<1>1. CASE Len(list) < 3
  <2>1. index' = None /\ UNCHANGED <<cache, header>>
    BY <1>1 DEF LoadSnapshot, RunIndex
  <2>2. told' \subseteq told
    BY <2>1 DEF LoadSnapshot
  <2>3. EntriesAreTrue'
    BY <1>0, <2>1 DEF SlaveInOrder, EntriesAreTrue
  <2>4. ToldAreFound'
    BY <2>1, <2>2 DEF SlaveInOrder, ToldAreFound
  <2> QED
    BY <2>1, <2>3, <2>4 DEF SlaveInOrder, PlaylistIsTrue
<1>2. CASE Len(list) >= 3
  <2> DEFINE es == Entries(list)
             new == {i \in 1 .. Len(es) : es[i].id \notin DOMAIN cache}
             ids == DOMAIN cache \cup Ids(es)
  <2>1. /\ DOMAIN es = 1 .. Len(list) - 2 /\ Len(es) = Len(list) - 2
        /\ \A i \in 1 .. Len(es) :
             /\ es[i].id = list[i + 2].id /\ es[i].id \in Ids(list)
             /\ es[i].id = list[3].id + i - 1
             /\ es[i].id \in Nat /\ es[i].id < made
             /\ es[i].w = es[i].id + 1 /\ es[i].w \in 1 .. made
             /\ es[i].disc <=> es[i].w \in gaps
             /\ es[i].id \in DOMAIN cache => es[i] = cache[es[i].id]
    BY <1>2, EntriesOfList DEF SlaveInOrder
  <2>2. /\ header' = list[3].id /\ index' = es
        /\ cache' = [id \in ids \cap Kept(list) |->
                       IF id \in DOMAIN cache THEN cache[id]
                       ELSE es[CHOOSE i \in new : es[i].id = id]]
    BY <1>0, <1>2 DEF LoadSnapshot, RunIndex
  <2>3. told' \subseteq {e \in told : e.id \in Ids(list)} \cup ToSet(es)
    BY <2>2 DEF LoadSnapshot
  <2>4. Ids(es) = {es[i].id : i \in 1 .. Len(es)}
    BY DEF Ids
  <2>5. ToSet(es) = {es[i] : i \in 1 .. Len(es)}
    BY <2>1 DEF ToSet
  <2> HIDE DEF es
  <2>6. /\ DOMAIN cache' = ids \cap Ids(list)
        /\ \A id \in DOMAIN cache' : id \in DOMAIN cache => cache'[id] = cache[id]
    BY <2>2 DEF Kept
  <2>7. \A id \in DOMAIN cache' : id \notin DOMAIN cache =>
           \E i \in 1 .. Len(es) : es[i].id = id /\ cache'[id] = es[i]
    <3> SUFFICES ASSUME NEW id \in DOMAIN cache', id \notin DOMAIN cache
                 PROVE  \E i \in 1 .. Len(es) : es[i].id = id /\ cache'[id] = es[i]
      OBVIOUS
    <3> DEFINE c == CHOOSE i \in new : es[i].id = id
    <3>1. \E i \in new : es[i].id = id
      BY <2>4, <2>6
    <3>2. c \in new /\ es[c].id = id
      BY <3>1
    <3>3. cache'[id] = es[c]
      BY <2>2, <2>6 DEF Kept
    <3> QED
      BY <3>2, <3>3
  <2>8. EntriesAreTrue'
    <3> SUFFICES ASSUME NEW id \in DOMAIN cache'
                 PROVE  /\ id \in Nat /\ id < made
                        /\ cache'[id].id = id /\ cache'[id].w = id + 1
                        /\ cache'[id].disc <=> id + 1 \in gaps
      BY <1>0 DEF EntriesAreTrue
    <3>1. CASE id \in DOMAIN cache
      BY <2>6, <3>1 DEF SlaveInOrder, EntriesAreTrue
    <3>2. CASE id \notin DOMAIN cache
      <4>1. PICK i \in 1 .. Len(es) : es[i].id = id /\ cache'[id] = es[i]
        BY <2>7, <3>2
      <4> QED
        BY <4>1, <2>1
    <3> QED
      BY <3>1, <3>2
  <2>9. PlaylistIsTrue' /\ \A i \in 1 .. Len(index') : index'[i].w \in 1 .. made'
    BY <1>0, <2>1, <2>2 DEF PlaylistIsTrue
  <2>10. ToldAreFound'
    <3> SUFFICES ASSUME NEW e \in told'
                 PROVE  e.id \in DOMAIN cache' /\ cache'[e.id].w = e.w
      BY DEF ToldAreFound
    <3>1. CASE e \in told /\ e.id \in Ids(list)
      BY <2>6, <3>1 DEF SlaveInOrder, ToldAreFound
    <3>2. CASE e \in ToSet(es)
      <4>1. PICK i \in 1 .. Len(es) : e = es[i]
        BY <2>5, <3>2
      <4>2. e.id \in DOMAIN cache' /\ e.w = e.id + 1
        BY <4>1, <2>1, <2>4, <2>6
      <4>3. cache'[e.id].w = e.id + 1
        BY <4>2, <2>8 DEF EntriesAreTrue
      <4> QED
        BY <4>2, <4>3
    <3> QED
      BY <2>3, <3>1, <3>2
  <2> QED
    BY <2>8, <2>9, <2>10 DEF SlaveInOrder
<1> QED
  BY <1>0, <1>1, <1>2

LEMMA IndexStarts == IndexInit => Ordered
<1> SUFFICES ASSUME IndexInit PROVE MasterInOrder /\ SlaveInOrder
  BY DEF Ordered
<1>1. MasterInOrder
  BY DEF IndexInit, MasterInOrder
<1>2. SlaveInOrder
  BY DEF IndexInit, SlaveInOrder, EntriesAreTrue, PlaylistIsTrue, ToldAreFound
<1> QED
  BY <1>1, <1>2

LEMMA IndexKeeps == Ordered /\ [IndexNext]_indexVars => Ordered'
<1> SUFFICES ASSUME Ordered, [IndexNext]_indexVars, ~renumbered'
             PROVE  MasterInOrder' /\ SlaveInOrder'
  BY DEF Ordered
<1>1. CASE Add(TRUE) \/ Add(FALSE)
  <2>1. MasterInOrder /\ SlaveInOrder
    BY <1>1 DEF Ordered, Add
  <2>2. /\ UNCHANGED <<playlists, told>> /\ made' \in Nat /\ made <= made'
        /\ \A w \in 1 .. made : w \in gaps' <=> w \in gaps
    BY <1>1, <2>1 DEF Add, MasterInOrder
  <2> QED
    BY <1>1, <2>1, <2>2, MasterKeeps, SlaveStays
<1>2. CASE Expire \/ LoadSegment
  <2>1. MasterInOrder /\ SlaveInOrder
    BY <1>2 DEF Ordered, Expire, LoadSegment
  <2>2. UNCHANGED <<playlists, told, made, gaps>>
    BY <1>2 DEF Expire, LoadSegment
  <2>3. made' \in Nat /\ made <= made'
    BY <2>1, <2>2 DEF MasterInOrder
  <2> QED
    BY <1>2, <2>1, <2>2, <2>3, MasterKeeps, SlaveStays
<1>3. ASSUME NEW n \in 0 .. seq, Restart(n)
      PROVE  MasterInOrder' /\ SlaveInOrder'
  <2>1. ~renumbered /\ n = seq /\ UNCHANGED <<playlists, told, made, gaps>>
    BY <1>3 DEF Restart
  <2>2. MasterInOrder /\ SlaveInOrder /\ Restart(seq)
    BY <1>3, <2>1 DEF Ordered
  <2>3. made' \in Nat /\ made <= made'
    BY <2>1, <2>2 DEF MasterInOrder
  <2> QED
    BY <2>1, <2>2, <2>3, MasterKeeps, SlaveStays
<1>4. CASE LoadSnapshot
  <2>1. MasterInOrder /\ SlaveInOrder
    BY <1>4 DEF Ordered, LoadSnapshot
  <2>2. MasterInOrder'
    BY <1>4, <2>1 DEF LoadSnapshot, masterVars, MasterInOrder
  <2> QED
    BY <1>4, <2>1, <2>2, SnapshotKeeps
<1>5. CASE UNCHANGED indexVars
  <2>1. MasterInOrder /\ SlaveInOrder
    BY <1>5 DEF Ordered, indexVars
  <2>2. UNCHANGED masterVars /\ UNCHANGED <<playlists, told>>
    BY <1>5 DEF indexVars
  <2>3. MasterInOrder' /\ made' \in Nat /\ made <= made' /\ gaps' = gaps
    BY <2>1, <2>2 DEF masterVars, MasterInOrder
  <2> QED
    BY <2>1, <2>2, <2>3, SlaveStays
<1> QED
  BY <1>1, <1>2, <1>3, <1>4, <1>5 DEF IndexNext

\* For any number of segments, gaps, snapshots and handoffs: as long as the master
\* keeps its numbers, playlists count from their headers and tell of gaps where the
\* source had them, and segments that were listed are found (_runIndex, pumpSegment).
THEOREM ClientsStayServed == IndexSpec => []ClientsAreServed
<1>1. Ordered => ClientsAreServed
  BY DEF Ordered, SlaveInOrder, ClientsAreServed
<1> QED
  BY <1>1, IndexStarts, IndexKeeps, PTL DEF IndexSpec
=============================================================================

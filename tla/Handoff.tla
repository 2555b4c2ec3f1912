------------------------------- MODULE Handoff ------------------------------
(***************************************************************************)
(* A live restart of a master: the runner (runner.coffee) spawns a new     *)
(* process beside the old one and carries messages between them; the old   *)
(* one hands over its sources, its rewind buffers and at last its          *)
(* listening sockets, and exits (modes/base.coffee, modes/master.coffee,   *)
(* sendHandoffData and loadHandoffData of master/index.coffee).            *)
(*                                                                         *)
(* Requests and answers travel in order each way (ipc-rpc over the child   *)
(* processes' pipes).  An exception in a handler ends its process, which   *)
(* is what Node does.  Answers that are only logged are left out, and so   *)
(* are timeouts whose callback only logs.  A stream and the mount of its   *)
(* key are one here: Stream.                                               *)
(***************************************************************************)
EXTENDS Naturals, Sequences

CONSTANTS
    Stream,         \* keys of streams, each with its source mount
    Source,         \* sources that may connect
    Fallback,       \* those of them that are fallbacks (files, proxies)
    MountOf,        \* the mount each of them connects to
    None

ASSUME SourceAssumption ==
    /\ Fallback \subseteq Source
    /\ MountOf \in [Source -> Stream]
    /\ None \notin Stream

Port == {"source", "master"}

VARIABLES
    old,            \* how far the old process is (OldStage)
    new,            \* how far the new process is (NewStage)
    spare,          \* the process the runner starts when one has died
    toNew, toOld,   \* messages under way
    oldStreams, newStreams,     \* what either is configured with
    at,             \* where each source is
    due,            \* sources connected when the old process began to send them
    mountsLeft, sourcesLeft,    \* what sendHandoffData has still to send
    streamsLeft, asked,         \* the same of rewind buffers; the one under way
    parts,          \* how often sendHandoffData's fFunc was called
    acked,          \* sockets the new process has confirmed
    connecting, loading,        \* rewind buffers the new process is fetching
    handshake,      \* handoff_timer is set
    fellBack,       \* the new process has tried to listen by itself
    newHolds,       \* sockets the new process listens on
    process,        \* the runner's @process
    inHandoff,      \* the runner's @_inHandoff
    watchesOld,     \* its listeners on the old process are attached
    seen            \* exits the runner has been told of

oldVars == <<oldStreams, due, mountsLeft, sourcesLeft, streamsLeft, asked, parts, acked>>
newVars == <<newStreams, connecting, loading, handshake, fellBack, newHolds>>
runnerVars == <<spare, process, inHandoff, watchesOld, seen>>
vars == <<old, new, toNew, toOld, at, oldVars, newVars, runnerVars>>

\* "gaveUp": HANDOFF_GO was not answered in time; "exited": by the handoff.
OldStage == {"running", "signalled", "asking", "awaiting", "syncing", "sending", "sockets",
             "gaveUp", "exited", "dead"}
NewStage == {"none", "waiting", "answered", "configured", "loading", "dead"}

OldAlive == old \notin {"exited", "dead"}
NewAlive == new \notin {"none", "dead"}

Msg(key, of) == [key |-> key, of |-> of]

\* What is sent to a process that is gone is lost.
TellNew(msgs) == toNew' = IF NewAlive THEN toNew \o msgs ELSE toNew
TellOld(msgs) == toOld' = IF OldAlive THEN toOld \o msgs ELSE toOld

Init ==
    /\ old = "running" /\ new = "none" /\ spare = "none"
    /\ toNew = <<>> /\ toOld = <<>>
    /\ oldStreams \in SUBSET Stream /\ newStreams = {}
    /\ at \in [Source -> {"none", "old"}]
    /\ \A s \in Source : at[s] = "old" => MountOf[s] \in oldStreams
    /\ due = {} /\ mountsLeft = {} /\ sourcesLeft = {}
    /\ streamsLeft = {} /\ asked = None
    /\ parts = 0 /\ acked = {}
    /\ connecting = {} /\ loading = {}
    /\ handshake = FALSE /\ fellBack = FALSE /\ newHolds = {}
    /\ process = "old" /\ inHandoff = FALSE /\ watchesOld = FALSE /\ seen = {}

-----------------------------------------------------------------------------
(* The runner                                                              *)

\* A signal or the watched file.  One restart is modelled.
Restart ==
    /\ process = "old" /\ old = "running" /\ ~inHandoff
    /\ inHandoff' = TRUE /\ watchesOld' = TRUE
    /\ new' = "waiting" /\ handshake' = TRUE
    /\ old' = "signalled"
    /\ UNCHANGED <<toNew, toOld, at, oldVars, newStreams, connecting, loading, fellBack, newHolds,
                   spare, process, seen>>

\* The exit of the old process ends the handoff.  Its own handler of exits does
\* nothing, it is stopping.
OldExitSeen ==
    /\ ~OldAlive /\ "old" \notin seen
    /\ seen' = seen \cup {"old"}
    /\ process' = IF watchesOld THEN "new" ELSE process
    /\ inHandoff' = IF watchesOld THEN FALSE ELSE inHandoff
    /\ UNCHANGED <<old, new, toNew, toOld, at, oldVars, newVars, spare, watchesOld>>

\* MUTANT: the new process is marked as stopping, like the old one.
NewExitSeen_Ignored ==
    /\ new = "dead" /\ "new" \notin seen
    /\ seen' = seen \cup {"new"}
    /\ UNCHANGED <<old, new, toNew, toOld, at, oldVars, newVars, spare, process, inHandoff, watchesOld>>

\* _startUp: `worker` is not defined, so that it takes the process it has for gone,
\* whichever that is, lets go of it and spawns another.
NewExitSeen ==
    /\ new = "dead" /\ "new" \notin seen
    /\ seen' = seen \cup {"new"}
    /\ watchesOld' = IF process = "old" THEN FALSE ELSE watchesOld
    /\ process' = "spare" /\ spare' = "starting"
    /\ UNCHANGED <<old, new, toNew, toOld, at, oldVars, newVars, inHandoff>>

\* While the old process has the ports the spare one cannot listen, dies and is
\* spawned anew, which is no change here.
SpareListens ==
    /\ spare = "starting" /\ ~OldAlive
    /\ spare' = "serving"
    /\ UNCHANGED <<old, new, toNew, toOld, at, oldVars, newVars, process, inHandoff, watchesOld, seen>>
-----------------------------------------------------------------------------
(* The old process                                                         *)

\* SIGUSR2
AskGo ==
    /\ old = "signalled"
    /\ old' = "asking"
    /\ TellNew(<<Msg("HANDOFF_GO", None)>>)
    /\ UNCHANGED <<new, toOld, at, oldVars, newVars, runnerVars>>

\* Its 20 seconds; the process may be asked again, but the runner does not.
GoTimeout ==
    /\ old = "asking"
    /\ old' = "gaveUp"
    /\ UNCHANGED <<new, toNew, toOld, at, oldVars, newVars, runnerVars>>

\* The old process takes the next message if it is of the given key.
OldTakes(key) ==
    /\ OldAlive /\ toOld # <<>> /\ Head(toOld).key = key
    /\ toOld' = Tail(toOld)
    /\ UNCHANGED <<new, newVars, runnerVars>>

\* HANDOFF_GO is answered: _sendHandoff.
OldGo ==
    /\ OldTakes("GO")
    /\ old' = IF old = "asking" THEN "awaiting" ELSE old
    /\ UNCHANGED <<toNew, at, oldVars>>

\* "configured": the running configuration goes to the new process.
OldConfigured ==
    /\ OldTakes("configured")
    /\ IF old = "awaiting"
       THEN old' = "syncing" /\ TellNew(<<Msg("config", oldStreams)>>)
       ELSE UNCHANGED <<old, toNew>>
    /\ UNCHANGED <<at, oldVars>>

\* Its answer: "configured" is answered, and what sends the data stands by.
OldSynced ==
    /\ OldTakes("config ok")
    /\ old' = "sending"
    /\ TellNew(<<Msg("configured ok", None)>>)
    /\ UNCHANGED <<at, oldVars>>

\* MUTANT: the first of the two parts is enough.
PartDone_Early ==
    /\ parts' = parts + 1
    /\ IF parts' = 1
       THEN old' = "sockets" /\ TellNew(<<Msg("source_socket", None), Msg("master_handle", None)>>)
       ELSE UNCHANGED <<old, toNew>>

\* fFunc: both sockets are sent when it is called the second time.
PartDone ==
    /\ parts' = parts + 1
    /\ IF parts' = 2
       THEN old' = "sockets" /\ TellNew(<<Msg("source_socket", None), Msg("master_handle", None)>>)
       ELSE UNCHANGED <<old, toNew>>

SourcesOf(m) == {s \in Source : at[s] = "old" /\ MountOf[s] = m}

\* _sendSource.  The socket of a source that has left since is sent as nothing, and
\* that of a fallback there never was.
SendSource(s) ==
    /\ TellNew(<<Msg(IF at[s] = "old" /\ s \notin Fallback THEN "source" ELSE "bare source", s)>>)
    /\ at' = IF at[s] = "old" /\ s \notin Fallback THEN [at EXCEPT ![s] = "moving"] ELSE at
    /\ UNCHANGED <<old, parts>>

\* _sendMount, _sendSource: on to the next source of the mount, or to the next mount
\* that has any, or to the end.  The order of the mounts is left open.
SendNext(mounts, sources) ==
    \/ \E s \in sources :
          /\ SendSource(s)
          /\ sourcesLeft' = sources \ {s} /\ mountsLeft' = mounts
    \/ /\ sources = {}
       /\ \E m \in mounts : \E without \in SUBSET {n \in mounts : SourcesOf(n) = {}} :
             \E s \in SourcesOf(m) :
                /\ SendSource(s)
                /\ sourcesLeft' = SourcesOf(m) \ {s} /\ mountsLeft' = mounts \ ({m} \cup without)
    \/ /\ sources = {} /\ \A m \in mounts : SourcesOf(m) = {}
       /\ PartDone
       /\ sourcesLeft' = {} /\ mountsLeft' = {}
       /\ UNCHANGED at

OldGetsSources ==
    /\ OldTakes("sources")
    /\ due' = {s \in Source : at[s] = "old"}
    /\ SendNext(oldStreams, {})
    /\ UNCHANGED <<oldStreams, streamsLeft, asked, acked>>

\* A source is confirmed.
OldSentSource ==
    /\ OldTakes("source ok")
    /\ SendNext(mountsLeft, sourcesLeft)
    /\ UNCHANGED <<oldStreams, due, streamsLeft, asked, acked>>

\* _sendStream: streams with nothing buffered are passed over; which they are is
\* left open.
SendNextRewind(streams) ==
    \/ \E st \in streams : \E empty \in SUBSET (streams \ {st}) :
          /\ TellNew(<<Msg("stream_rewind", st)>>)
          /\ asked' = st
          /\ streamsLeft' = streams \ ({st} \cup empty)
          /\ UNCHANGED <<old, parts>>
    \/ /\ PartDone
       /\ asked' = None
       /\ streamsLeft' = {}

OldGetsRewinds ==
    /\ OldTakes("stream_rewinds")
    /\ SendNextRewind(oldStreams)
    /\ UNCHANGED <<at, oldStreams, due, mountsLeft, sourcesLeft, acked>>

\* A rewind buffer is confirmed, unless its time has run off.
OldSentRewind ==
    /\ OldTakes("stream_rewind ok")
    /\ IF asked = Head(toOld).of
       THEN SendNextRewind(streamsLeft)
       ELSE UNCHANGED <<old, toNew, parts, asked, streamsLeft>>
    /\ UNCHANGED <<at, oldStreams, due, mountsLeft, sourcesLeft, acked>>

\* The ten seconds of a rewind buffer.  Once the new process has connected, the
\* server is closed only when that connection ends, as with an answer.
RewindTimeout ==
    /\ OldAlive /\ asked # None /\ asked \notin loading
    /\ SendNextRewind(streamsLeft)
    /\ UNCHANGED <<new, toOld, at, oldStreams, due, mountsLeft, sourcesLeft, acked, newVars, runnerVars>>

\* MUTANT: it exits as soon as one socket is confirmed.
OldSentSocket_First(port) ==
    /\ OldTakes(port)
    /\ acked' = acked \cup {port}
    /\ old' = "exited"
    /\ UNCHANGED <<toNew, at, oldStreams, due, mountsLeft, sourcesLeft, streamsLeft, asked, parts>>

\* A socket is confirmed; after both the process exits.
OldSentSocket(port) ==
    /\ OldTakes(port)
    /\ acked' = acked \cup {port}
    /\ old' = IF acked' = Port THEN "exited" ELSE old
    /\ UNCHANGED <<toNew, at, oldStreams, due, mountsLeft, sourcesLeft, streamsLeft, asked, parts>>

\* A stream is created through the API, with its mount.
CreateStream ==
    /\ OldAlive
    /\ \E st \in Stream \ oldStreams : oldStreams' = oldStreams \cup {st}
    /\ UNCHANGED <<old, new, toNew, toOld, at, due, mountsLeft, sourcesLeft, streamsLeft, asked,
                   parts, acked, newVars, runnerVars>>

\* Bound: the old process dies of itself only while a restart is under way.
OldDies ==
    /\ OldAlive /\ old # "running"
    /\ old' = "dead"
    /\ toOld' = <<>>
    /\ UNCHANGED <<new, toNew, at, oldVars, newVars, runnerVars>>
-----------------------------------------------------------------------------
(* The new process                                                         *)

\* The next message for the new process is of the given key.
NewGets(key) ==
    /\ NewAlive /\ toNew # <<>> /\ Head(toNew).key = key

\* It takes the message and goes on, which leaves the others alone,
NewGoesOn ==
    /\ toNew' = Tail(toNew)
    /\ UNCHANGED <<old, oldVars, runnerVars>>

\* or it ends, with everything it has.
NewEnds ==
    /\ new' = "dead"
    /\ toNew' = <<>>
    /\ at' = [s \in Source |-> IF at[s] \in {"moving", "new"} THEN "gone" ELSE at[s]]
    /\ connecting' = {} /\ loading' = {}
    /\ handshake' = FALSE /\ fellBack' = FALSE /\ newHolds' = {}
    /\ UNCHANGED <<old, toOld, oldVars, newStreams, runnerVars>>

\* handoff_timer: _handoffStart falls back to a normal start.
HandshakeTimeout ==
    /\ handshake
    /\ handshake' = FALSE /\ fellBack' = TRUE
    /\ UNCHANGED <<old, new, toNew, toOld, at, oldVars, newStreams, connecting, loading, newHolds,
                   runnerVars>>

\* What comes of it: the ports are free, or listening fails and nobody handles that.
FallbackListens ==
    /\ fellBack
    /\ IF OldAlive
       THEN NewEnds
       ELSE /\ fellBack' = FALSE /\ newHolds' = Port
            /\ UNCHANGED <<old, new, toNew, toOld, at, oldVars, newStreams, connecting, loading,
                           handshake, runnerVars>>

\* HANDOFF_GO is heard after the timer too.
NewGo ==
    /\ NewGets("HANDOFF_GO") /\ NewGoesOn
    /\ handshake' = FALSE
    /\ new' = "answered"
    /\ TellOld(<<Msg("GO", None)>>)
    /\ UNCHANGED <<at, newStreams, connecting, loading, fellBack, newHolds>>

\* once_configured, at once or when its configuration has come
NewConfigured ==
    /\ new = "answered"
    /\ new' = "configured"
    /\ TellOld(<<Msg("configured", None)>>)
    /\ UNCHANGED <<old, toNew, at, oldVars, newVars, runnerVars>>

\* The old process's configuration replaces its own.
NewConfig ==
    /\ NewGets("config") /\ NewGoesOn
    /\ newStreams' = Head(toNew).of
    /\ TellOld(<<Msg("config ok", None)>>)
    /\ UNCHANGED <<new, at, connecting, loading, handshake, fellBack, newHolds>>

\* MUTANT: only the sources are asked for.
NewConfirmed_NoRewinds ==
    /\ NewGets("configured ok") /\ NewGoesOn
    /\ new' = "loading"
    /\ TellOld(<<Msg("sources", None)>>)
    /\ UNCHANGED <<at, newVars>>

\* loadHandoffData
NewConfirmed ==
    /\ NewGets("configured ok") /\ NewGoesOn
    /\ new' = "loading"
    /\ TellOld(<<Msg("sources", None), Msg("stream_rewinds", None)>>)
    /\ UNCHANGED <<at, newVars>>

\* A source comes; with an unknown mount the handler throws.
NewGetsSource ==
    /\ NewGets("source")
    /\ LET s == Head(toNew).of
       IN  IF MountOf[s] \in newStreams
           THEN /\ NewGoesOn
                /\ at' = IF at[s] = "moving" THEN [at EXCEPT ![s] = "new"] ELSE at
                /\ TellOld(<<Msg("source ok", s)>>)
                /\ UNCHANGED <<new, newVars>>
           ELSE NewEnds

\* A source without a socket, or of no type that could be loaded: it throws.
NewGetsBareSource == NewGets("bare source") /\ NewEnds

NewGetsRewind ==
    /\ NewGets("stream_rewind") /\ NewGoesOn
    /\ connecting' = connecting \cup {Head(toNew).of}
    /\ UNCHANGED <<new, toOld, at, newStreams, loading, handshake, fellBack, newHolds>>

\* The connection to the rewind buffer's socket.  That it is closed already is an
\* error nobody handles, and so is a stream it does not know.
NewConnects(st) ==
    /\ st \in connecting
    /\ IF OldAlive /\ asked = st /\ st \in newStreams
       THEN /\ connecting' = connecting \ {st} /\ loading' = loading \cup {st}
            /\ UNCHANGED <<old, new, toNew, toOld, at, oldVars, newStreams, handshake, fellBack,
                           newHolds, runnerVars>>
       ELSE NewEnds

\* The buffer is loaded, as far as it came.
NewLoads(st) ==
    /\ st \in loading
    /\ loading' = loading \ {st}
    /\ TellOld(<<Msg("stream_rewind ok", st)>>)
    /\ UNCHANGED <<old, new, toNew, at, oldVars, newStreams, connecting, handshake, fellBack,
                   newHolds, runnerVars>>

\* A listening socket comes.
NewGetsSocket(key, port) ==
    /\ NewGets(key) /\ NewGoesOn
    /\ newHolds' = newHolds \cup {port}
    /\ TellOld(<<Msg(port, None)>>)
    /\ UNCHANGED <<new, at, newStreams, connecting, loading, handshake, fellBack>>

NewDies == NewAlive /\ NewEnds

-----------------------------------------------------------------------------
(* Sources come and go.  Each connects once.                               *)

SourceConnects(s) ==
    /\ at[s] = "none"
    /\ \/ OldAlive /\ MountOf[s] \in oldStreams /\ at' = [at EXCEPT ![s] = "old"]
       \/ "source" \in newHolds /\ MountOf[s] \in newStreams /\ at' = [at EXCEPT ![s] = "new"]
    /\ UNCHANGED <<old, new, toNew, toOld, oldVars, newVars, runnerVars>>

SourceLeaves(s) ==
    /\ at[s] \in {"old", "moving", "new"}
    /\ at' = [at EXCEPT ![s] = "gone"]
    /\ UNCHANGED <<old, new, toNew, toOld, oldVars, newVars, runnerVars>>

-----------------------------------------------------------------------------
RunnerStep == Restart \/ OldExitSeen \/ NewExitSeen \/ SpareListens

OldStep ==
    \/ AskGo \/ OldGo \/ OldConfigured \/ OldSynced
    \/ OldGetsSources \/ OldSentSource \/ OldGetsRewinds \/ OldSentRewind
    \/ \E port \in Port : OldSentSocket(port)

NewStep ==
    \/ FallbackListens \/ NewGo \/ NewConfigured \/ NewConfig \/ NewConfirmed
    \/ NewGetsSource \/ NewGetsBareSource \/ NewGetsRewind
    \/ \E st \in Stream : NewConnects(st) \/ NewLoads(st)
    \/ NewGetsSocket("source_socket", "source") \/ NewGetsSocket("master_handle", "master")

Mishap ==
    \/ GoTimeout \/ RewindTimeout \/ OldDies \/ NewDies \/ CreateStream
    \/ \E s \in Source : SourceConnects(s) \/ SourceLeaves(s)

Next == RunnerStep \/ OldStep \/ NewStep \/ HandshakeTimeout \/ Mishap

Spec == Init /\ [][Next]_vars

\* Processes take their messages, timers run off and the runner hears of exits;
\* that anything is restarted, or goes wrong, is not assumed.
FairSpec ==
    /\ Spec
    /\ WF_vars(OldStep) /\ WF_vars(NewStep) /\ WF_vars(HandshakeTimeout)
    /\ WF_vars(OldExitSeen) /\ WF_vars(NewExitSeen) /\ WF_vars(SpareListens)

-----------------------------------------------------------------------------
(* Properties                                                              *)

NewMessages ==
    [key : {"HANDOFF_GO", "configured ok", "source_socket", "master_handle"}, of : {None}]
        \cup [key : {"source", "bare source"}, of : Source]
        \cup [key : {"stream_rewind"}, of : Stream]
        \cup [key : {"config"}, of : SUBSET Stream]

OldMessages ==
    [key : {"GO", "configured", "config ok", "sources", "stream_rewinds"} \cup Port, of : {None}]
        \cup [key : {"source ok"}, of : Source]
        \cup [key : {"stream_rewind ok"}, of : Stream]

TypeOK ==
    /\ old \in OldStage /\ new \in NewStage /\ spare \in {"none", "starting", "serving"}
    /\ toNew \in Seq(NewMessages) /\ toOld \in Seq(OldMessages)
    /\ oldStreams \in SUBSET Stream /\ newStreams \in SUBSET Stream
    /\ at \in [Source -> {"none", "old", "moving", "new", "gone"}]
    /\ due \in SUBSET Source /\ sourcesLeft \in SUBSET Source
    /\ mountsLeft \in SUBSET Stream /\ streamsLeft \in SUBSET Stream
    /\ asked \in Stream \cup {None}
    /\ parts \in Nat /\ acked \in SUBSET Port
    /\ connecting \in SUBSET Stream /\ loading \in SUBSET Stream
    /\ handshake \in BOOLEAN /\ fellBack \in BOOLEAN /\ newHolds \in SUBSET Port
    /\ process \in {"old", "new", "spare"}
    /\ inHandoff \in BOOLEAN /\ watchesOld \in BOOLEAN /\ seen \in SUBSET {"old", "new"}

Served(port) == OldAlive \/ port \in newHolds \/ spare = "serving"

\* A restart without mishap leaves no moment at which a port is nobody's: the old
\* process goes only when the new one has both sockets.
PortsHeld == old = "dead" \/ new = "dead" \/ \A port \in Port : Served(port)

\* When the old process has exited, the sources that were connected when it began to
\* send them, and have not left, are with the new one; those that came later in its
\* last moments are not promised anything.
SourcesFollow ==
    old = "exited" /\ new # "dead" => \A s \in due : at[s] \in {"new", "gone"}

\* The two processes, each waiting for answers of the other, never wait in vain
\* while both live: a restart ends with the exit of the old process, if it is not
\* given up before it begins.
HandoffCompletes == (old = "signalled") ~> (old \in {"exited", "gaveUp", "dead"} \/ new = "dead")

\* The old process has died after it was answered, and the new one waits for the
\* rest of its data: there is no timer for that.
Abandoned ==
    old = "dead" /\ new \in {"answered", "configured", "loading"} /\ ~fellBack /\ newHolds # Port

\* Whatever dies, somebody listens again on both ports, the runner sees to it; but
\* not when the new process is left in the middle of a handoff.
ServedAgain == []<>(Abandoned \/ \A port \in Port : Served(port))
=============================================================================

----------------------------- MODULE SlaveStream ----------------------------
(***************************************************************************)
(* A stream on a slave (slave/stream.coffee) with its source               *)
(* (slave/socket_source.coffee) and the outputs of its listeners           *)
(* (outputs/base.coffee, raw_audio.coffee).  A stream that gets a source   *)
(* asks the master for its rewind buffer; until that is loaded, or is not  *)
(* to be had, listeners wait.                                              *)
(*                                                                         *)
(* What a listener is sent is the matter of RewindBuffer; here its queue   *)
(* is within max_buffer or beyond it.                                      *)
(***************************************************************************)
EXTENDS FiniteSets

CONSTANTS Listener

VARIABLES
    sourced,        \* the stream has been given a source
    initializing,   \* _sourceInitializing
    initTimer,      \* whether _sourceInitT is set
    rewind,         \* how far the request for the rewind buffer is (Phases)
    removed,        \* the stream has been disconnected: it is no longer configured
    output,         \* how far each listener's output is (Outputs)
    waiting,        \* those that wait for _source_init
    disconnected,   \* outputs that are disconnected
    lmeta,          \* @_lmeta
    behind          \* listeners whose queue is beyond max_buffer

vars == <<sourced, initializing, initTimer, rewind, removed, output, waiting, disconnected,
          lmeta, behind>>

\* "overdue": the request's timer has run off, an answer may still come, and is then
\* "loading late"; "cut": the connection to the master is lost during the load, which
\* neither ends nor fails.
Phases == {"none", "asked", "loading", "cut", "done", "overdue", "loading late", "cut late"}

\* An output is created by a request, connects to the stream after its session and
\* preroll, and is served when it gets a rewinder.
Outputs == {"none", "created", "connected", "served"}

Init ==
    /\ sourced = FALSE
    /\ initializing = TRUE /\ initTimer = TRUE
    /\ rewind = "none"
    /\ removed = FALSE
    /\ output = [l \in Listener |-> "none"]
    /\ waiting = {} /\ disconnected = {} /\ lmeta = {} /\ behind = {}

\* The callback of _once_source_loaded: each gets a rewinder, those too that have
\* disconnected meanwhile.
Serve(ls) ==
    /\ output' = [l \in Listener |-> IF l \in ls THEN "served" ELSE output[l]]
    /\ lmeta' = lmeta \cup ls

\* _source_init is emitted.
SourceInit ==
    /\ initializing' = FALSE
    /\ Serve(waiting)
    /\ waiting' = {}
    /\ UNCHANGED <<removed, disconnected, behind>>

\* The timer of the constructor
InitTimeout ==
    /\ initTimer
    /\ initTimer' = FALSE
    /\ SourceInit
    /\ UNCHANGED <<sourced, rewind>>

\* MUTANT: a source that comes after the timer does not make listeners wait again.
UseSource_NotAgain ==
    /\ ~sourced /\ ~removed
    /\ sourced' = TRUE
    /\ initTimer' = FALSE
    /\ rewind' = "asked"
    /\ UNCHANGED <<initializing, removed, output, waiting, disconnected, lmeta, behind>>

\* useSource; the stream's handler asks for the rewind buffer.
UseSource ==
    /\ ~sourced /\ ~removed
    /\ sourced' = TRUE
    /\ initTimer' = FALSE
    /\ initializing' = TRUE
    /\ rewind' = "asked"
    /\ UNCHANGED <<removed, output, waiting, disconnected, lmeta, behind>>

\* The master sends its rewind buffer,
RewindComes ==
    /\ rewind \in {"asked", "overdue"}
    /\ rewind' = IF rewind = "asked" THEN "loading" ELSE "loading late"
    /\ UNCHANGED <<sourced, initializing, initTimer, removed, output, waiting, disconnected,
                   lmeta, behind>>

\* or has none, or cannot be reached.
RewindFails ==
    /\ rewind \in {"asked", "overdue"}
    /\ rewind' = "done"
    /\ SourceInit
    /\ UNCHANGED <<sourced, initTimer>>

\* MUTANT: the timer says nothing.
RewindTimeout_Silent ==
    /\ rewind = "asked"
    /\ rewind' = "overdue"
    /\ UNCHANGED <<sourced, initializing, initTimer, removed, output, waiting, disconnected,
                   lmeta, behind>>

\* The request's timer; the request itself goes on.
RewindTimeout ==
    /\ rewind = "asked"
    /\ rewind' = "overdue"
    /\ SourceInit
    /\ UNCHANGED <<sourced, initTimer>>

LoadEnd ==
    /\ rewind \in {"loading", "loading late"}
    /\ rewind' = "done"
    /\ SourceInit
    /\ UNCHANGED <<sourced, initTimer>>

LoadCut ==
    /\ rewind \in {"loading", "loading late"}
    /\ rewind' = IF rewind = "loading" THEN "cut" ELSE "cut late"
    /\ UNCHANGED <<sourced, initializing, initTimer, removed, output, waiting, disconnected,
                   lmeta, behind>>

----------------------------------------------------------------------------
(* Listeners *)

stream == <<sourced, initializing, initTimer, rewind, removed>>

\* A request for a stream that is configured
Request(l) ==
    /\ output[l] = "none" /\ ~removed
    /\ output' = [output EXCEPT ![l] = "created"]
    /\ UNCHANGED <<stream, waiting, disconnected, lmeta, behind>>

\* connectToStream, listen
Connect(l) ==
    /\ output[l] = "created" /\ l \notin disconnected
    /\ IF initializing
       THEN /\ output' = [output EXCEPT ![l] = "connected"]
            /\ waiting' = waiting \cup {l}
            /\ UNCHANGED lmeta
       ELSE Serve({l}) /\ UNCHANGED waiting
    /\ UNCHANGED <<stream, disconnected, behind>>

\* disconnect of the outputs ls: what was disconnected before is not again, and only a
\* rewinder that is there is let go.
DisconnectAll(ls) ==
    /\ disconnected' = disconnected \cup ls
    /\ lmeta' = lmeta \ {l \in ls \ disconnected : output[l] = "served"}
    /\ behind' = behind \cap lmeta'

\* A listener's socket ends or is closed.
Close(l) ==
    /\ output[l] # "none" /\ l \notin disconnected
    /\ DisconnectAll({l})
    /\ UNCHANGED <<stream, output, waiting>>

\* A listener does not keep up, or catches up again; one that is gone never reads.
FallBehind(l) ==
    /\ l \in lmeta \ behind
    /\ behind' = behind \cup {l}
    /\ UNCHANGED <<stream, output, waiting, disconnected, lmeta>>

CatchUp(l) ==
    /\ l \in behind \ disconnected
    /\ behind' = behind \ {l}
    /\ UNCHANGED <<stream, output, waiting, disconnected, lmeta>>

\* The poller of buffer sizes
Poll ==
    /\ ~removed /\ behind # {}
    /\ DisconnectAll(behind)
    /\ UNCHANGED <<stream, output, waiting>>

\* MUTANT: the stream's listeners are only forgotten.
RemoveStream_Forgets ==
    /\ ~removed
    /\ removed' = TRUE
    /\ lmeta' = {} /\ behind' = {}
    /\ waiting' = {}
    /\ UNCHANGED <<sourced, initializing, initTimer, rewind, output, disconnected>>

\* configureStreams without this stream: disconnect, which drops those that wait
\* without a word.
RemoveStream ==
    /\ ~removed
    /\ removed' = TRUE
    /\ DisconnectAll(lmeta)
    /\ waiting' = {}
    /\ UNCHANGED <<sourced, initializing, initTimer, rewind, output>>

RewindStep == RewindComes \/ RewindFails \/ RewindTimeout \/ LoadEnd

Next ==
    \/ InitTimeout \/ UseSource \/ RewindStep \/ LoadCut
    \/ \E l \in Listener :
           Request(l) \/ Connect(l) \/ Close(l) \/ FallBehind(l) \/ CatchUp(l)
    \/ Poll
    \/ RemoveStream

Spec == Init /\ [][Next]_vars

----------------------------------------------------------------------------
(* Properties *)

\* The types, and who can be where: only those wait that connected, and a queue that
\* is too long is that of a listener.
TypeOK ==
    /\ sourced \in BOOLEAN /\ initializing \in BOOLEAN /\ removed \in BOOLEAN
    /\ initTimer \in BOOLEAN /\ (initTimer => initializing /\ ~sourced)
    /\ rewind \in Phases /\ (sourced <=> rewind # "none")
    /\ output \in [Listener -> Outputs]
    /\ waiting \subseteq {l \in Listener : output[l] = "connected"}
    /\ lmeta \subseteq {l \in Listener : output[l] = "served"}
    /\ disconnected \subseteq Listener
    /\ behind \subseteq lmeta

\* "Don't ask for a rewinder while our source is going through init": nobody is
\* served between the arrival of a source and the end of its load, also if the source
\* comes late, unless the master took too long.
ServedOnlyWhenLoaded ==
    [][(\E l \in Listener : output[l] # "served" /\ output'[l] = "served")
           => rewind' \notin {"asked", "loading", "cut"}]_vars

\* Who is served and still there is listed: the poller and a removal find it, and the
\* status counts it.
ListedWhileServed ==
    \A l \in Listener : output[l] = "served" /\ l \notin disconnected =>
        l \in lmeta

----------------------------------------------------------------------------
(* What a comment says and the code does not keep *)

\* "We disconnect clients that have fallen too far behind on their buffers": after a
\* poll none of them is left.
BehindAreGone == [][Poll => behind' = {}]_vars
=============================================================================

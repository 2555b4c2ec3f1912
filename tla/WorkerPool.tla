------------------------------ MODULE WorkerPool ------------------------------
(***************************************************************************)
(* The clustered slave: a process that accepts connections and keeps a     *)
(* pool of worker processes (SlaveMode, WorkerPool and Worker of           *)
(* modes/slave_backup), and the workers themselves (slave/slave_worker     *)
(* with the shutdown, ejection and landing of slave/index).  The process   *)
(* is also either end of a slave's live restart: what it gets from the     *)
(* process before it arrives with ServerSocket and Comes, and after        *)
(* SendHandoff its listeners go to the process after it.                   *)
(*                                                                         *)
(* A process's messages reach the other side later; a worker's exit event  *)
(* follows its messages.  A listener is one connection: where it is says   *)
(* which process holds its socket.                                         *)
(***************************************************************************)
EXTENDS Naturals, FiniteSets

CONSTANTS Listeners, \* connections; not those whose output skips a handoff
          Size,      \* the number of workers the pool is to have
          MaxTroubles \* bound: workers that crash, errors in setting one up,
                      \* single workers asked to shut down; loads cut

ASSUME SizeAssumption == Size \in Nat \ {0}

VARIABLES
  nextId,    \* _nextId
  forked,    \* ids of the forked processes whose exit event has not come
  workers,   \* keys of pool.workers
  ready,     \* ids with _loaded
  shutdown,  \* pool._shutdown
  toGo,      \* workers whose end the shutdown of the pool still awaits
  watched,   \* <<worker, asker>>: exit handlers of shutdownWorker
  accept,    \* the server: "listening", or the steps of _acceptHandoff
  inHandoff, \* _inHandoff is set
  over,      \* the process has exited

  made,      \* workers that have created their Slave
  leaving,   \* <<worker, asker>>: whose Slave has _shuttingDown, at whose request
  enqueued,  \* <<worker, listener>>: _enqueued
  stuck,     \* workers whose ejection waits for an answer that is lost
  finished,  \* workers that answered and will exit
  cut,       \* workers whose rewinds nothing obliges to be loaded any more
  mail,      \* <<worker, "loaded" or "exit">>: from the workers to the pool
  asks,      \* <<worker, asker>>: shutdown requests on their way

  place,     \* where each listener is
  missed,    \* listeners of a leaving worker its ejection knows nothing of
  faults, asked

poolVars == <<nextId, forked, workers, ready>>
endVars == <<shutdown, toGo, watched, over>>
slaveVars == <<made, leaving, enqueued, stuck, finished, cut>>
mailVars == <<mail, asks>>
vars == <<poolVars, endVars, accept, inHandoff, slaveVars, mailVars,
          place, missed, faults, asked>>

Askers == {"one", "pool"}
At(k, w) == [k |-> k, w |-> w, from |-> 0]
Landing(w, v) == [k |-> "landing", w |-> w, from |-> v]

Dead == {w \in forked : <<w, "exit">> \in mail}
Alive == forked \ Dead
Leaving == {p[1] : p \in leaving}
coming == forked \ ready
Loaded == workers \cap ready

\* MUTANT: the worker that is leaving is not excluded.
getWorker_All(exclude) == Loaded

\* Any loaded worker but the one to exclude
getWorker(exclude) == Loaded \ {exclude}
waiting == {l \in Listeners : place[l].k = "waiting"}
\* A worker's Output objects that the stream lists (_lmeta)
Listed(w) == {l \in Listeners : place[l] = At("listed", w)}
Holds(w) == {l \in Listeners : place[l].k \in {"new", "listed"} /\ place[l].w = w}

TypeOK ==
  /\ nextId \in Nat \ {0}
  /\ forked \subseteq 1..(nextId - 1)
  /\ workers \subseteq forked /\ ready \subseteq forked
  /\ shutdown \in BOOLEAN /\ inHandoff \in BOOLEAN /\ over \in BOOLEAN
  /\ accept \in {"listening", "asking", "taken"}

\* The constructors: one worker is forked; with "handoff" the server waits
\* for the socket of the process before
Init ==
  /\ nextId = 2 /\ forked = {1} /\ workers = {} /\ ready = {}
  /\ shutdown = FALSE /\ toGo = {} /\ watched = {} /\ over = FALSE
  /\ accept \in {"listening", "asking"} /\ inHandoff = FALSE
  /\ made = {} /\ leaving = {} /\ enqueued = {} /\ stuck = {}
  /\ finished = {} /\ cut = {} /\ mail = {} /\ asks = {}
  /\ place = [l \in Listeners |-> At("out", 0)]
  /\ missed = {} /\ faults = 0 /\ asked = 0

-----------------------------------------------------------------------------
(* The pool *)

\* MUTANT: the worker to be forked counts too.
Spawn_CountsTheNew(set, old) ==
  IF Cardinality(set) + 1 >= Size
  THEN forked' = old /\ UNCHANGED nextId
  ELSE forked' = old \cup {nextId} /\ nextId' = nextId + 1

\* _spawn, when the pool holds set and old are the processes left
Spawn(set, old) ==
  IF Cardinality(set) >= Size
  THEN forked' = old /\ UNCHANGED nextId
  ELSE forked' = old \cup {nextId} /\ nextId' = nextId + 1

\* The process ends: "exit" kills the workers the pool knows; what the
\* workers and the process held is closed
Ends ==
  /\ over' = TRUE
  /\ place' = [l \in Listeners |-> IF place[l].k \in {"out", "away", "gone"}
                                   THEN place[l] ELSE At("lost", 0)]

\* The channel to a new worker is set up
SetUp(w) ==
  /\ ~over /\ w \in Alive \ workers
  /\ workers' = workers \cup {w}
  /\ UNCHANGED <<nextId, forked, ready, endVars, accept, inHandoff, slaveVars,
                 mailVars, place, missed, faults, asked>>

\* ... or not: the callback names a variable that does not exist, throws,
\* and nothing catches it
SetUpFails(w) ==
  /\ ~over /\ w \in forked \ workers /\ faults + asked < MaxTroubles
  /\ faults' = faults + 1 /\ Ends
  /\ UNCHANGED <<poolVars, shutdown, toGo, watched, accept, inHandoff,
                 slaveVars, mailVars, missed, asked>>

\* MUTANT: connections that wait are not looked at again.
Distribute_Once(loaded) == UNCHANGED place

\* The connections that wait for "worker_loaded" go to one of the loaded
Distribute(loaded) ==
  \E to \in [waiting -> loaded] :
    place' = [l \in Listeners |-> IF l \in waiting THEN At("sent", to[l])
                                  ELSE place[l]]

\* rewinds_loaded: connections that wait are distributed, then the pool sees
\* whether it needs more.
\* Whether the pool is shutting down is not asked.
WorkerLoaded(w) ==
  /\ ~over /\ <<w, "loaded">> \in mail /\ w \in workers
  /\ ready' = ready \cup {w}
  /\ mail' = mail \ {<<w, "loaded">>}
  /\ Distribute(workers \cap ready')
  /\ Spawn(workers, forked)
  /\ UNCHANGED <<workers, endVars, accept, inHandoff, slaveVars, asks,
                 missed, faults, asked>>

\* The exit event, which comes after the worker's messages.  Requests that
\* were on their way to the worker are never answered.
WorkerExits(w) ==
  LET unheard == {l \in Listeners : place[l].k \in {"sent", "landing"}
                                    /\ place[l].w = w}
  IN /\ ~over /\ <<w, "exit">> \in mail
     /\ <<w, "loaded">> \notin mail
     /\ mail' = mail \ {<<w, "exit">>}
     /\ asks' = {a \in asks : a[1] # w}
     /\ workers' = workers \ {w} /\ ready' = ready \ {w}
     /\ watched' = {a \in watched : a[1] # w}
     /\ toGo' = IF <<w, "pool">> \in watched THEN toGo \ {w} ELSE toGo
     /\ stuck' = (stuck \cup {place[l].from : l \in {x \in unheard :
                                          place[x].k = "landing"}}) \cap (forked \ {w})
     /\ made' = made \ {w} /\ finished' = finished \ {w} /\ cut' = cut \ {w}
     /\ leaving' = {p \in leaving : p[1] # w}
     /\ enqueued' = {p \in enqueued : p[1] # w}
     /\ IF <<w, "pool">> \in watched /\ toGo' = {}
        THEN Ends
        ELSE /\ UNCHANGED over
             /\ place' = [l \in Listeners |-> IF l \in unheard THEN At("lost", 0)
                                              ELSE place[l]]
     /\ IF shutdown THEN forked' = forked \ {w} /\ UNCHANGED nextId
                    ELSE Spawn(workers \ {w}, forked \ {w})
     /\ UNCHANGED <<shutdown, accept, inHandoff, missed, faults, asked>>

\* shutdownWorker of one worker
ShutdownWorker(w) ==
  /\ ~over /\ w \in workers /\ faults + asked < MaxTroubles /\ <<w, "one">> \notin asks
  /\ asked' = asked + 1
  /\ asks' = asks \cup {<<w, "one">>}
  /\ UNCHANGED <<poolVars, endVars, accept, inHandoff, slaveVars, mail, place,
                 missed, faults>>

\* shutdown of the whole pool, on SIGTERM or at the end of _sendHandoff
ShutdownPool ==
  /\ ~over /\ ~shutdown
  /\ shutdown' = TRUE /\ toGo' = workers
  /\ asks' = asks \cup (workers \X {"pool"})
  /\ IF workers = {} THEN Ends ELSE UNCHANGED <<over, place>>
  /\ UNCHANGED <<poolVars, watched, accept, inHandoff, slaveVars, mail,
                 missed, faults, asked>>

-----------------------------------------------------------------------------
(* Live restart of the slave process *)

\* server_socket from the process before: the server listens.  The answer, at
\* "full_strength", only lets the sender go on before its five seconds are
\* over: its listeners may come at any time from now on.
ServerSocket ==
  /\ ~over /\ accept = "asking" /\ accept' = "taken"
  /\ UNCHANGED <<poolVars, endVars, inHandoff, slaveVars, mailVars, place,
                 missed, faults, asked>>

\* stream_listener: the process before hands a listener over
Comes(l) ==
  /\ ~over /\ accept = "taken" /\ place[l].k = "out"
  /\ IF Loaded = {} THEN place' = [place EXCEPT ![l] = At("lost", 0)]
     ELSE \E w \in Loaded : place' = [place EXCEPT ![l] = Landing(w, 0)]
  /\ UNCHANGED <<poolVars, endVars, accept, inHandoff, slaveVars, mailVars,
                 missed, faults, asked>>

\* _sendHandoff: from here on listeners go to the process after; its
\* ShutdownPool follows.  The process is asked to stop or to hand over once.
SendHandoff ==
  /\ ~over /\ ~inHandoff /\ ~shutdown /\ inHandoff' = TRUE
  /\ UNCHANGED <<poolVars, endVars, accept, slaveVars, mailVars, place,
                 missed, faults, asked>>

-----------------------------------------------------------------------------
(* Connections *)

\* _distributeConnection
Connect(l) ==
  /\ ~over /\ accept # "asking" /\ place[l].k = "out"
  /\ IF Loaded = {} THEN place' = [place EXCEPT ![l] = At("waiting", 0)]
     ELSE \E w \in Loaded : place' = [place EXCEPT ![l] = At("sent", w)]
  /\ UNCHANGED <<poolVars, endVars, accept, inHandoff, slaveVars, mailVars,
                 missed, faults, asked>>

\* The worker's "connection" calls a method its Server does not have: the
\* exception is logged, the connection is kept open and never served
Connection(l) ==
  /\ ~over /\ place[l].k = "sent" /\ place[l].w \in Alive
  /\ place' = [place EXCEPT ![l] = At("lost", 0)]
  /\ UNCHANGED <<poolVars, endVars, accept, inHandoff, slaveVars, mailVars,
                 missed, faults, asked>>

\* land_listener: a new output, unless the listener left in flight, and the
\* answer to the worker it came from
LandListener(l) ==
  /\ ~over /\ place[l].k = "landing" /\ place[l].w \in Alive
  /\ \/ /\ place' = [place EXCEPT ![l] = At("new", place[l].w)]
        /\ missed' = IF place[l].w \in Leaving \cup finished /\ place[l].from # place[l].w
                     THEN missed \cup {l} ELSE missed
     \/ place' = [place EXCEPT ![l] = At("gone", 0)] /\ UNCHANGED missed
  /\ UNCHANGED <<poolVars, endVars, accept, inHandoff, slaveVars, mailVars,
                 faults, asked>>

\* The output is listed once its stream has given it a rewinder
Listen(l) ==
  /\ ~over /\ place[l].k = "new" /\ place[l].w \in Alive
  /\ place' = [place EXCEPT ![l] = At("listed", place[l].w)]
  /\ UNCHANGED <<poolVars, endVars, accept, inHandoff, slaveVars, mailVars,
                 missed, faults, asked>>

\* A listener goes: its socket is destroyed
Leave(l) ==
  /\ ~over /\ place[l].k \in {"waiting", "new", "listed"}
  /\ place' = [place EXCEPT ![l] = At("gone", 0)]
  /\ missed' = missed \ {l}
  /\ UNCHANGED <<poolVars, endVars, accept, inHandoff, slaveVars, mailVars,
                 faults, asked>>

-----------------------------------------------------------------------------
(* The workers *)

\* "config" is answered: the Slave is created
CreateSlave(w) ==
  /\ ~over /\ w \in (Alive \cap workers) \ made
  /\ made' = made \cup {w}
  /\ UNCHANGED <<poolVars, endVars, accept, inHandoff, leaving, enqueued,
                 stuck, finished, cut, mailVars, place, missed, faults, asked>>

\* What once_rewinds_loaded waits for need not come: the connection is lost in the
\* middle of a load or its stream is removed (SlaveStream), the master sends no
\* configuration, or one without streams.  Nothing in the worker notices.
LoadCut(w) ==
  /\ ~over /\ w \in (Alive \cap made) \ (ready \cup cut) /\ <<w, "loaded">> \notin mail
  /\ Cardinality(cut) < MaxTroubles
  /\ cut' = cut \cup {w}
  /\ UNCHANGED <<poolVars, endVars, accept, inHandoff, made, leaving, enqueued,
                 stuck, finished, mailVars, place, missed, faults, asked>>

\* once_rewinds_loaded, which a configuration may still bring about for a worker
\* that was cut
RewindsLoaded(w) ==
  /\ ~over /\ w \in (Alive \cap made) \ ready /\ <<w, "loaded">> \notin mail
  /\ mail' = mail \cup {<<w, "loaded">>}
  /\ cut' = cut \ {w}
  /\ UNCHANGED <<poolVars, endVars, accept, inHandoff, made, leaving, enqueued,
                 stuck, finished, asks, place, missed, faults, asked>>

\* The worker's answer, which comes before its exit: the exit is awaited
Answer(w, who) == watched' = watched \cup {<<w, who>>} /\ finished' = finished \cup {w}

\* MUTANT: only a slave that was made counts as empty.
NobodyToEject_Slave(w) == w \in made /\ Listed(w) = {}

NobodyToEject(w) == w \notin made \/ Listed(w) = {}

\* "shutdown" reaches the worker.  While one is under way it is refused, which
\* drops the callback of shutdownWorker; it is answered at once if there is no
\* Slave or nobody to eject; else the listeners that are listed are enqueued.
Shutdown(w, who) ==
  /\ ~over /\ w \in Alive /\ <<w, who>> \in asks
  /\ asks' = asks \ {<<w, who>>}
  /\ IF w \notin Leaving /\ NobodyToEject(w)
     THEN Answer(w, who) ELSE UNCHANGED <<watched, finished>>
  /\ IF w \in Leaving \/ w \notin made
     THEN UNCHANGED <<leaving, enqueued, missed>>
     ELSE /\ leaving' = leaving \cup {<<w, who>>}
          /\ enqueued' = enqueued \cup ({w} \X Listed(w))
          /\ missed' = missed \cup (Holds(w) \ Listed(w))
  /\ UNCHANGED <<poolVars, shutdown, toGo, over, accept, inHandoff, made, stuck,
                 cut, mail, place, faults, asked>>

\* The requests for which the worker ejects, still unanswered
Ejecting(w) == {l \in Listeners : \/ place[l] = At("moving", w)
                                  \/ place[l].k = "landing" /\ place[l].from = w}

\* The next one of the ejection: skipped if it has perished, else its socket
\* goes to the pool
EjectNext(w, l) ==
  /\ ~over /\ w \in Alive \ stuck /\ <<w, l>> \in enqueued /\ Ejecting(w) = {}
  /\ enqueued' = enqueued \ {<<w, l>>}
  /\ IF place[l] # At("listed", w)
     THEN UNCHANGED place
     ELSE place' = [place EXCEPT ![l] = At("moving", w)]
  /\ UNCHANGED <<poolVars, endVars, accept, inHandoff, made, leaving,
                 stuck, finished, cut, mailVars, missed, faults, asked>>

\* send_listener in the pool: to the process after, which may have no worker
\* for it, or to another loaded worker; an error is ignored by the sender
ListenerFromWorker(l) ==
  LET w == place[l].w IN
  /\ ~over /\ place[l].k = "moving"
  /\ IF inHandoff
     THEN \E k \in {"away", "lost"} : place' = [place EXCEPT ![l] = At(k, 0)]
     ELSE IF getWorker(w) = {} THEN place' = [place EXCEPT ![l] = At("lost", 0)]
     ELSE \E v \in getWorker(w) : place' = [place EXCEPT ![l] = Landing(v, w)]
  /\ UNCHANGED <<poolVars, endVars, accept, inHandoff, slaveVars, mailVars,
                 missed, faults, asked>>

\* All are ejected: the worker answers
Ejected(w, who) ==
  /\ ~over /\ w \in Alive \ (finished \cup stuck) /\ <<w, who>> \in leaving
  /\ \A l \in Listeners : <<w, l>> \notin enqueued
  /\ Ejecting(w) = {}
  /\ Answer(w, who)
  /\ UNCHANGED <<poolVars, shutdown, toGo, over, accept, inHandoff, made, leaving,
                 enqueued, stuck, cut, mailVars, place, missed, faults, asked>>

\* The process of a worker is gone, with the sockets it holds
Gone(w) ==
  /\ mail' = mail \cup {<<w, "exit">>}
  /\ place' = [l \in Listeners |-> IF l \in Holds(w) THEN At("lost", 0)
                                   ELSE place[l]]
  /\ missed' = missed \ Holds(w)
  /\ UNCHANGED <<poolVars, endVars, accept, inHandoff, slaveVars, asks,
                 asked>>

Exit(w) == ~over /\ w \in Alive \cap finished /\ Gone(w) /\ UNCHANGED faults

Crash(w) ==
  /\ ~over /\ w \in Alive /\ faults + asked < MaxTroubles
  /\ faults' = faults + 1 /\ Gone(w)

-----------------------------------------------------------------------------
PoolStep(w) ==
  \/ SetUp(w) \/ SetUpFails(w) \/ WorkerLoaded(w) \/ WorkerExits(w)
  \/ ShutdownWorker(w)

WorkerStep(w) ==
  \/ CreateSlave(w) \/ LoadCut(w) \/ RewindsLoaded(w) \/ Exit(w) \/ Crash(w)
  \/ \E who \in Askers : Shutdown(w, who) \/ Ejected(w, who)
  \/ \E l \in Listeners : EjectNext(w, l)

ListenerStep(l) ==
  \/ Comes(l) \/ Connect(l) \/ Connection(l) \/ LandListener(l) \/ Listen(l)
  \/ ListenerFromWorker(l) \/ Leave(l)

Next == \/ ShutdownPool \/ ServerSocket \/ SendHandoff
        \/ \E w \in forked : PoolStep(w) \/ WorkerStep(w)
        \/ \E l \in Listeners : ListenerStep(l)

Spec == Init /\ [][Next]_vars

\* Messages arrive, the workers' code runs, their streams load unless the load is
\* cut (a source that does not come has a time limit), and exits are noticed: a
\* process with work to do does some of it, and each of these steps is taken
\* finitely often, so that none is passed over.  Whether anybody connects, leaves,
\* asks for a shutdown or crashes is left open.
Progress ==
  \/ \E w \in forked :
       \/ SetUp(w) \/ CreateSlave(w) \/ WorkerLoaded(w)
       \/ w \notin cut /\ RewindsLoaded(w)
       \/ Exit(w) \/ WorkerExits(w)
       \/ \E who \in Askers : Shutdown(w, who) \/ Ejected(w, who)
       \/ \E l \in Listeners : EjectNext(w, l)
  \/ \E l \in Listeners : ListenerFromWorker(l) \/ LandListener(l)

FairSpec == Spec /\ WF_vars(Progress)

-----------------------------------------------------------------------------
(* Properties *)

\* As long as the pool is not shutting down it holds as many workers as it is
\* to have, or another one is on its way that will make it look again: no
\* sequence of loads, exits and failures leaves it short with nothing under way.
\* And who waits for a worker has one to wait for (_spawn, "worker_loaded").  A
\* worker whose load was cut counts as on its way, as it does in the code, and may
\* be so for ever.
SomeoneIsComing ==
  ~shutdown /\ ~over =>
    /\ Cardinality(workers) >= Size \/ coming # {}
    /\ waiting # {} => coming # {}

\* A listener is lost only for a reason nobody in the pool could have met: the
\* process or its worker failed, the process ended, it came to a worker that was leaving already or was not listed when
\* that began, no other worker was there for it, it was handed to a worker
\* that had exited, or it was a connection, which no worker serves.  Shutting a
\* worker down loses no other (ejectListeners, landListener, getWorker).
LostForAReason ==
  [][\A l \in Listeners : place'[l].k = "lost" /\ place[l].k # "lost" =>
       \/ faults' # faults \/ over'
       \/ l \in missed
       \/ place[l].k = "moving" /\ (inHandoff \/ Loaded \subseteq {place[l].w})
       \/ place[l].k = "landing" /\ place[l].w \in Dead
       \/ place[l].k \in {"out", "waiting", "sent"}]_vars

\* A connection that waits for a worker is handed to one, or leaves, unless
\* the pool is shut down under it or the load of every worker it could get was
\* cut, which the code answers with nothing (_distributeConnection,
\* _once_source_loaded).
WaitingAreHandedOn ==
  \A l \in Listeners :
    place[l].k = "waiting" ~>
        \/ place[l].k # "waiting" \/ shutdown \/ over
        \/ coming # {} /\ coming \subseteq cut

\* A slave that hands over ends: every worker it knew ejects its listeners and
\* exits, unless one fails or was being shut down by itself (whose refusal
\* drops the callback).
HandoffEnds ==
  (shutdown /\ inHandoff) ~> (over \/ faults > 0 \/ asked > 0)
=============================================================================

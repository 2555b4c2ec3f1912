-------------------------- MODULE WorkerPoolProofs --------------------------
(***************************************************************************)
(* For any pool size, any number of listeners and any bound on troubles:   *)
(* the pool is at its strength or a worker is on its way, whoever waits    *)
(* for a worker has one to wait for, and no listener is lost without a     *)
(* reason.                                                                 *)
(***************************************************************************)
EXTENDS WorkerPool, FiniteSetTheorems, TLAPS

Ids == /\ nextId \in Nat \ {0}
       /\ forked \subseteq 1..(nextId - 1)
       /\ workers \subseteq forked
       /\ ready \subseteq workers

\* What a worker's exit or load may not leave behind
AtStrength == ~shutdown => Cardinality(workers) >= Size \/ coming # {}

Waits == ~over => (waiting # {} => Loaded = {})

IInv == Ids /\ DOMAIN place = Listeners /\ AtStrength /\ Waits

LEMMA WorkersFinite == ASSUME Ids PROVE IsFiniteSet(workers)
  <1>1. IsFiniteSet(1..(nextId - 1))
    BY FS_Interval DEF Ids
  <1>2. workers \subseteq 1..(nextId - 1)
    BY DEF Ids
  <1> QED BY <1>1, <1>2, FS_Subset

\* _spawn leaves the pool at strength or a worker on its way
LEMMA SpawnFills ==
  ASSUME NEW set, NEW old, set \subseteq old, old \subseteq 1..(nextId - 1),
         nextId \in Nat \ {0}, ready' \subseteq set, Spawn(set, old),
         workers' = set
  PROVE  /\ Ids'
         /\ AtStrength'
  <1>2. CASE Cardinality(set) >= Size
    <2>1. forked' = old /\ nextId' = nextId
      BY <1>2 DEF Spawn
    <2> QED BY <1>2, <2>1 DEF Ids, AtStrength
  <1>3. CASE ~(Cardinality(set) >= Size)
    <2>1. forked' = old \cup {nextId} /\ nextId' = nextId + 1
      BY <1>3 DEF Spawn
    <2>2. nextId \notin old /\ old \cup {nextId} \subseteq 1..nextId
      OBVIOUS
    <2>3. Ids'
      <3>1. nextId + 1 - 1 = nextId /\ nextId + 1 \in Nat \ {0}
        OBVIOUS
      <3> QED BY <2>1, <2>2, <3>1 DEF Ids
    <2>4. AtStrength'
      BY <2>1, <2>2 DEF AtStrength, coming
    <2> QED BY <2>3, <2>4
  <1> QED BY <1>2, <1>3

\* What a step does that leaves the pool's sets alone and makes nobody wait
\* who has a worker
Alone == /\ UNCHANGED <<nextId, forked, workers, ready>>
         /\ shutdown => shutdown'
         /\ DOMAIN place' = Listeners
         /\ ~over' => /\ ~over
                      /\ \/ Loaded = {}
                         \/ \A l \in Listeners : place'[l].k = "waiting"
                                                 => place[l].k = "waiting"

LEMMA PoolAlone == ASSUME IInv, Alone PROVE IInv'
  <1>0. UNCHANGED <<nextId, forked, workers, ready>>
    BY DEF Alone
  <1>1. Ids'
    BY <1>0 DEF IInv, Ids
  <1>2. AtStrength'
    BY <1>0 DEF IInv, AtStrength, coming, Alone
  <1>3. Waits'
    <2>1. Loaded' = Loaded
      BY <1>0 DEF Loaded
    <2> QED BY <2>1 DEF IInv, Waits, Alone, waiting
  <1> QED BY <1>1, <1>2, <1>3 DEF IInv, Alone

LEMMA GoneAlone ==
  ASSUME IInv, ~over, NEW w \in forked, Gone(w)
  PROVE  Alone
  BY DEF IInv, Gone, At, Alone, poolVars, endVars

LEMMA ListenersAlone ==
  ASSUME IInv, NEW l \in Listeners, ListenerStep(l)
  PROVE  Alone
  <1> USE DEF IInv, Alone, poolVars, endVars
  <1>1. CASE Comes(l)
    <2>1. CASE Loaded = {}
      BY <1>1, <2>1 DEF Comes, At
    <2>2. CASE Loaded # {}
      <3>1. PICK w \in Loaded : place' = [place EXCEPT ![l] = Landing(w, 0)]
        BY <1>1, <2>2 DEF Comes
      <3> QED BY <1>1, <3>1 DEF Comes, Landing
    <2> QED BY <2>1, <2>2
  <1>2. CASE Connect(l)
    <2>1. CASE Loaded = {}
      BY <1>2, <2>1 DEF Connect, At
    <2>2. CASE Loaded # {}
      <3>1. PICK w \in Loaded : place' = [place EXCEPT ![l] = At("sent", w)]
        BY <1>2, <2>2 DEF Connect
      <3> QED BY <1>2, <3>1 DEF Connect, At
    <2> QED BY <2>1, <2>2
  <1>3. CASE Connection(l)
    BY <1>3 DEF Connection, At
  <1>4. CASE LandListener(l)
    <2>1. CASE place' = [place EXCEPT ![l] = At("new", place[l].w)]
      BY <1>4, <2>1 DEF LandListener, At
    <2>2. CASE place' = [place EXCEPT ![l] = At("gone", 0)]
      BY <1>4, <2>2 DEF LandListener, At
    <2> QED BY <1>4, <2>1, <2>2 DEF LandListener
  <1>5. CASE Listen(l)
    BY <1>5 DEF Listen, At
  <1>6. CASE ListenerFromWorker(l)
    <2>1. PICK x : place' = [place EXCEPT ![l] = x] /\ x.k # "waiting"
      BY <1>6 DEF ListenerFromWorker, At, Landing
    <2> QED BY <1>6, <2>1 DEF ListenerFromWorker
  <1>7. CASE Leave(l)
    BY <1>7 DEF Leave, At
  <1> QED
    BY <1>1, <1>2, <1>3, <1>4, <1>5, <1>6, <1>7 DEF ListenerStep

LEMMA WorkersAlone ==
  ASSUME IInv, NEW w \in forked, WorkerStep(w)
  PROVE  Alone
  <1> USE DEF IInv, Alone, poolVars, endVars
  <1>1. CASE CreateSlave(w)
    BY <1>1 DEF CreateSlave
  <1>2. CASE LoadCut(w) \/ RewindsLoaded(w)
    BY <1>2 DEF LoadCut, RewindsLoaded
  <1>3. CASE Exit(w)
    BY <1>3, GoneAlone DEF Exit
  <1>4. CASE Crash(w)
    BY <1>4, GoneAlone DEF Crash
  <1>5. ASSUME NEW who \in Askers, Shutdown(w, who) PROVE Alone
    BY <1>5 DEF Shutdown
  <1>6. ASSUME NEW who \in Askers, Ejected(w, who) PROVE Alone
    BY <1>6 DEF Ejected
  <1>7. ASSUME NEW l \in Listeners, EjectNext(w, l) PROVE Alone
    BY <1>7 DEF EjectNext, At
  <1> QED
    BY <1>1, <1>2, <1>3, <1>4, <1>5, <1>6, <1>7 DEF WorkerStep

LEMMA PoolFills ==
  ASSUME IInv, NEW w \in forked, PoolStep(w)
  PROVE  IInv'
  <1> USE DEF IInv
  <1>1. CASE SetUp(w)
    <2>1. Ids' /\ Loaded' = Loaded /\ waiting' = waiting
      BY <1>1 DEF SetUp, Ids, Loaded, waiting, Alive
    <2>2. Cardinality(workers') = Cardinality(workers) + 1
          /\ Cardinality(workers) \in Nat
      BY <1>1, WorkersFinite, FS_AddElement, FS_CardinalityType DEF SetUp
    <2>3. AtStrength'
      BY <1>1, <2>2, SizeAssumption DEF SetUp, AtStrength, coming, endVars
    <2>4. Waits' /\ DOMAIN place' = Listeners
      BY <1>1, <2>1 DEF SetUp, Waits, endVars
    <2> QED BY <2>1, <2>3, <2>4
  <1>2. CASE SetUpFails(w)
    BY <1>2, PoolAlone DEF SetUpFails, Ends, Alone, poolVars
  <1>3. CASE WorkerLoaded(w)
    <2>1. Ids' /\ AtStrength'
      BY <1>3, SpawnFills DEF WorkerLoaded, Ids
    <2>2. PICK to \in [waiting -> workers \cap ready'] :
            place' = [l \in Listeners |-> IF l \in waiting THEN At("sent", to[l])
                                          ELSE place[l]]
      BY <1>3 DEF WorkerLoaded, Distribute
    <2>3. DOMAIN place' = Listeners
      BY <2>2 DEF Ids, At
    <2>4. waiting' = {}
      BY <2>2 DEF waiting, At
    <2> QED BY <2>1, <2>3, <2>4 DEF Waits
  <1>4. CASE WorkerExits(w)
    <2>1. Ids' /\ AtStrength'
      <3>1. CASE shutdown
        BY <1>4, <3>1 DEF WorkerExits, Ids, AtStrength
      <3>2. CASE ~shutdown
        <4>1. Spawn(workers \ {w}, forked \ {w}) /\ workers' = workers \ {w}
              /\ ready' = ready \ {w}
          BY <1>4, <3>2 DEF WorkerExits
        <4> QED BY <4>1, SpawnFills DEF Ids
      <3> QED BY <3>1, <3>2
    <2>2. DOMAIN place' = Listeners
      BY <1>4 DEF WorkerExits, Ends
    <2>3. over' \/ (Loaded' \subseteq Loaded /\ ~over
                     /\ \A l \in Listeners : place'[l].k = "waiting"
                                             => place[l].k = "waiting")
      BY <1>4 DEF WorkerExits, Ends, Loaded, At
    <2> QED BY <2>1, <2>2, <2>3 DEF Waits, waiting
  <1>5. CASE ShutdownWorker(w)
    BY <1>5, PoolAlone DEF ShutdownWorker, Alone, poolVars, endVars
  <1> QED BY <1>1, <1>2, <1>3, <1>4, <1>5 DEF PoolStep

LEMMA Initially == Init => IInv
  <1> SUFFICES ASSUME Init PROVE IInv
    OBVIOUS
  <1>1. Ids
    BY DEF Init, Ids
  <1>2. AtStrength
    BY DEF Init, AtStrength, coming
  <1>3. Waits /\ DOMAIN place = Listeners
    BY DEF Init, Waits, Loaded, At
  <1> QED BY <1>1, <1>2, <1>3 DEF IInv

LEMMA Inductive == IInv /\ [Next]_vars => IInv'
  <1> SUFFICES ASSUME IInv, [Next]_vars PROVE IInv'
    OBVIOUS
  <1>1. CASE ShutdownPool
    BY <1>1, PoolAlone DEF ShutdownPool, Ends, IInv, Alone, poolVars
  <1>2. CASE ServerSocket
    BY <1>2, PoolAlone DEF ServerSocket, IInv, Alone, poolVars, endVars
  <1>3. CASE SendHandoff
    BY <1>3, PoolAlone DEF SendHandoff, IInv, Alone, poolVars, endVars
  <1>4. CASE UNCHANGED vars
    BY <1>4 DEF vars, poolVars, endVars, IInv, Ids, AtStrength, coming, Waits,
                waiting, Loaded
  <1>5. ASSUME NEW w \in forked, PoolStep(w) \/ WorkerStep(w) PROVE IInv'
    BY <1>5, PoolFills, WorkersAlone, PoolAlone
  <1>6. ASSUME NEW l \in Listeners, ListenerStep(l) PROVE IInv'
    BY <1>6, ListenersAlone, PoolAlone
  <1> QED
    BY <1>1, <1>2, <1>3, <1>4, <1>5, <1>6 DEF Next

LEMMA Implied == IInv => SomeoneIsComing
  <1> SUFFICES ASSUME IInv, ~shutdown, ~over
               PROVE  /\ Cardinality(workers) >= Size \/ coming # {}
                      /\ waiting # {} => coming # {}
    BY DEF SomeoneIsComing
  <1>1. Cardinality(workers) >= Size \/ coming # {}
    BY DEF IInv, AtStrength
  <1>2. ASSUME waiting # {}, coming = {} PROVE FALSE
    <2>1. Cardinality(workers) >= Size
      BY <1>1, <1>2
    <2>2. workers # {}
      BY <2>1, SizeAssumption, FS_EmptySet
    <2>3. workers \cap ready = {}
      BY <1>2 DEF IInv, Waits, Loaded
    <2> QED BY <1>2, <2>2, <2>3 DEF coming, IInv, Ids
  <1> QED BY <1>1, <1>2

\* The pool is never short for good, and nobody waits for nothing: for any
\* number of workers, listeners and troubles.
THEOREM PoolRecovers == Spec => []SomeoneIsComing
  <1>1. Init => IInv
    BY Initially
  <1>2. IInv /\ [Next]_vars => IInv'
    BY Inductive
  <1>3. IInv => SomeoneIsComing
    BY Implied
  <1> QED BY <1>1, <1>2, <1>3, PTL DEF Spec

-----------------------------------------------------------------------------
(* Who is lost *)

Held == {"new", "listed"}

\* A worker that holds listeners, or is sent some, has a slave; one that leaves has
\* enqueued each listener it holds, which is listed, or has missed it; one that has
\* answered holds none that it has not missed.
Known ==
  /\ faults \in Nat
  /\ ready \subseteq made
  /\ \A w : <<w, "loaded">> \in mail => w \in made
  /\ \A l \in Listeners :
       /\ place[l].k = "landing" =>
            place[l].w \in forked \cap made /\ place[l].from # place[l].w
       /\ place[l].k \in Held =>
            /\ place[l].w \in Alive \cap made
            /\ l \notin missed =>
                 /\ place[l].w \notin finished
                 /\ place[l].w \in Leaving =>
                      place[l] = At("listed", place[l].w) /\ <<place[l].w, l>> \in enqueued

\* What a step does that moves listeners to where nobody holds them, if any, and
\* tells no worker to leave
Quiet ==
  /\ \A l \in Listeners :
       \/ place'[l] = place[l] /\ (l \in missed => l \in missed')
       \/ place'[l].k \notin Held \cup {"landing"}
  /\ forked \subseteq forked' /\ made \subseteq made' /\ ready' \subseteq made'
  /\ \A w : <<w, "exit">> \in mail' => <<w, "exit">> \in mail
  /\ \A w : <<w, "loaded">> \in mail' => w \in made'
  /\ UNCHANGED <<leaving, enqueued, finished>> /\ faults' \in Nat

LEMMA QuietKeeps == ASSUME Known, Quiet PROVE Known'
  <1>1. Alive \subseteq Alive' /\ Leaving' = Leaving
    BY DEF Quiet, Alive, Dead, Leaving
  <1> QED BY <1>1 DEF Known, Quiet, Held

LEMMA EndsQuietly ==
  ASSUME Ends
  PROVE  \A l \in Listeners : \/ place'[l] = place[l] /\ place[l].k \in {"out", "away", "gone"}
                              \/ place'[l].k \notin Held \cup {"landing"}
  BY DEF Ends, At, Held

LEMMA OnItsWay ==
  ASSUME IInv, Known, NEW l \in Listeners, NEW w \in Loaded, NEW v, v # w,
         place' = [place EXCEPT ![l] = Landing(w, v)],
         UNCHANGED <<poolVars, slaveVars, mail, missed, faults>>
  PROVE  Known'
  <1>1. \A x \in Listeners : place'[x] = IF x = l THEN Landing(w, v) ELSE place[x]
    BY DEF IInv
  <1>2. Landing(w, v).k = "landing" /\ Landing(w, v).w = w /\ Landing(w, v).from = v
    BY DEF Landing
  <1>3. w \in forked \cap made
    BY DEF IInv, Ids, Known, Loaded
  <1>4. Alive' = Alive /\ Leaving' = Leaving
    BY DEF poolVars, slaveVars, Alive, Dead, Leaving
  <1> QED BY <1>1, <1>2, <1>3, <1>4 DEF Known, Held, poolVars, slaveVars

LEMMA LandedKnown ==
  ASSUME IInv, Known, NEW l \in Listeners, LandListener(l)
  PROVE  Known'
  <1>1. CASE place' = [place EXCEPT ![l] = At("gone", 0)] /\ UNCHANGED missed
    <2>1. Quiet
      BY <1>1 DEF LandListener, IInv, Known, Quiet, At, Held, poolVars, slaveVars, mailVars
    <2> QED BY <2>1, QuietKeeps
  <1>2. CASE /\ place' = [place EXCEPT ![l] = At("new", place[l].w)]
             /\ missed' = IF place[l].w \in Leaving \cup finished
                             /\ place[l].from # place[l].w
                          THEN missed \cup {l} ELSE missed
    <2> DEFINE w == place[l].w
    <2>1. /\ place[l].k = "landing" /\ w \in Alive
          /\ UNCHANGED <<forked, ready, made, mail, leaving, enqueued, finished, faults>>
      BY <1>2 DEF LandListener, poolVars, slaveVars, mailVars
    <2>2. w \in made /\ place[l].from # w
      BY <2>1 DEF Known
    <2>3. \A x \in Listeners : place'[x] = IF x = l THEN At("new", w) ELSE place[x]
      BY <1>2 DEF IInv
    <2>4. At("new", w).k = "new" /\ At("new", w).w = w
      BY DEF At
    <2>5. Alive' = Alive /\ Leaving' = Leaving
      BY <2>1 DEF Alive, Dead, Leaving
    <2>6. w \in Leaving \cup finished => l \in missed'
      BY <1>2, <2>2
    <2>7. missed \subseteq missed'
      BY <1>2
    <2> HIDE DEF w
    <2> QED BY <2>1, <2>2, <2>3, <2>4, <2>5, <2>6, <2>7 DEF Known, Held
  <1> QED BY <1>1, <1>2 DEF LandListener

LEMMA ListedKnown ==
  ASSUME IInv, Known, NEW l \in Listeners, Listen(l)
  PROVE  Known'
  <1> DEFINE w == place[l].w
  <1>1. /\ place[l].k = "new" /\ w \in Alive
        /\ UNCHANGED <<forked, ready, made, mail, leaving, enqueued, finished, missed, faults>>
    BY DEF Listen, poolVars, slaveVars, mailVars
  <1>2. w \in made /\ (w \in Leaving \cup finished => l \in missed)
    <2>1. place[l] # At("listed", w)
      BY <1>1 DEF At
    <2> QED BY <1>1, <2>1 DEF Known, Held
  <1>3. \A x \in Listeners : place'[x] = IF x = l THEN At("listed", w) ELSE place[x]
    BY DEF IInv, Listen
  <1>4. At("listed", w).k = "listed" /\ At("listed", w).w = w
    BY DEF At
  <1>5. Alive' = Alive /\ Leaving' = Leaving
    BY <1>1 DEF Alive, Dead, Leaving
  <1> HIDE DEF w
  <1> QED BY <1>1, <1>2, <1>3, <1>4, <1>5 DEF Known, Held

LEMMA ListenerKnown ==
  ASSUME IInv, Known, NEW l \in Listeners, ListenerStep(l)
  PROVE  Known'
  <1> USE DEF poolVars, slaveVars, mailVars
  <1>1. CASE Comes(l)
    <2>1. CASE Loaded = {}
      <3>1. Quiet
        BY <1>1, <2>1 DEF Comes, Quiet, IInv, Known, At, Held
      <3> QED BY <3>1, QuietKeeps
    <2>2. CASE Loaded # {}
      <3>1. PICK w \in Loaded : place' = [place EXCEPT ![l] = Landing(w, 0)]
        BY <1>1, <2>2 DEF Comes
      <3>2. 0 # w
        BY <3>1 DEF IInv, Ids, Loaded
      <3> QED BY <1>1, <3>1, <3>2, OnItsWay DEF Comes
    <2> QED BY <2>1, <2>2
  <1>2. CASE Connect(l) \/ Connection(l) \/ Leave(l)
    <2>1. \E k \in {"waiting", "sent", "lost", "gone"} : \E w :
            place' = [place EXCEPT ![l] = At(k, w)]
      BY <1>2 DEF Connect, Connection, Leave
    <2>2. PICK k \in {"waiting", "sent", "lost", "gone"} : \E w :
            place' = [place EXCEPT ![l] = At(k, w)]
      BY <2>1
    <2>3. PICK w : place' = [place EXCEPT ![l] = At(k, w)]
      BY <2>2
    <2>4. \A x \in Listeners : place'[x] = IF x = l THEN At(k, w) ELSE place[x]
      BY <2>3 DEF IInv
    <2>5. At(k, w).k \notin Held \cup {"landing"}
      BY DEF At, Held
    <2>6. Quiet
      BY <1>2, <2>4, <2>5 DEF Connect, Connection, Leave, Quiet, Known
    <2> QED BY <2>6, QuietKeeps
  <1>3. CASE LandListener(l)
    BY <1>3, LandedKnown
  <1>4. CASE Listen(l)
    BY <1>4, ListedKnown
  <1>5. CASE ListenerFromWorker(l)
    <2>1. UNCHANGED <<poolVars, slaveVars, mailVars, missed, faults>>
      BY <1>5 DEF ListenerFromWorker
    <2>2. CASE \E k \in {"away", "lost"} : place' = [place EXCEPT ![l] = At(k, 0)]
      <3>1. PICK k \in {"away", "lost"} : place' = [place EXCEPT ![l] = At(k, 0)]
        BY <2>2
      <3>2. Quiet
        BY <2>1, <3>1 DEF Quiet, IInv, Known, At, Held
      <3> QED BY <3>2, QuietKeeps
    <2>3. CASE \E v \in getWorker(place[l].w) :
                 place' = [place EXCEPT ![l] = Landing(v, place[l].w)]
      BY <2>1, <2>3, OnItsWay DEF getWorker
    <2> QED BY <1>5, <2>2, <2>3 DEF ListenerFromWorker
  <1> QED BY <1>1, <1>2, <1>3, <1>4, <1>5 DEF ListenerStep

LEMMA GoneKnown ==
  ASSUME IInv, Known, NEW w, Gone(w), faults' \in Nat
  PROVE  Known'
  <1>1. /\ mail' = mail \cup {<<w, "exit">>} /\ missed' = missed \ Holds(w)
        /\ UNCHANGED <<forked, ready, made, leaving, enqueued, finished>>
    BY DEF Gone, poolVars, slaveVars
  <1>2. \A l \in Listeners : IF l \in Holds(w) THEN place'[l].k \notin Held \cup {"landing"}
                             ELSE place'[l] = place[l]
    BY DEF Gone, At, Held
  <1>3. Alive' = Alive \ {w} /\ Leaving' = Leaving
    BY <1>1 DEF Alive, Dead, Leaving
  <1>4. \A l \in Listeners : l \in Holds(w) <=> place[l].k \in Held /\ place[l].w = w
    BY DEF Holds, Held
  <1>5. \A v : <<v, "loaded">> \in mail' => v \in made'
    BY <1>1 DEF Known
  <1> QED BY <1>1, <1>2, <1>3, <1>4, <1>5 DEF Known

LEMMA ShutdownKnown ==
  ASSUME IInv, Known, NEW w, NEW who, Shutdown(w, who)
  PROVE  Known'
  <1>1. UNCHANGED <<forked, ready, made, mail, place, faults>>
    BY DEF Shutdown, poolVars
  <1>2. Alive' = Alive /\ missed \subseteq missed' /\ enqueued \subseteq enqueued'
    BY <1>1 DEF Shutdown, Alive, Dead
  <1>3. \A l \in Listeners : l \in Holds(w) <=> place[l].k \in Held /\ place[l].w = w
    BY DEF Holds, Held
  <1>4. CASE w \in Leaving
    <2>1. UNCHANGED <<leaving, enqueued, missed, finished>>
      BY <1>4 DEF Shutdown
    <2> QED BY <1>1, <1>2, <2>1 DEF Known, Leaving
  <1>5. CASE w \notin Leaving /\ w \notin made
    <2>1. UNCHANGED <<leaving, enqueued, missed>> /\ finished' = finished \cup {w}
      BY <1>5 DEF Shutdown, NobodyToEject, Answer
    <2>2. Leaving' = Leaving
      BY <2>1 DEF Leaving
    <2> QED BY <1>1, <1>2, <1>5, <2>1, <2>2 DEF Known
  <1>6. CASE w \notin Leaving /\ w \in made
    <2>1. /\ enqueued' = enqueued \cup ({w} \X Listed(w))
          /\ missed' = missed \cup (Holds(w) \ Listed(w))
          /\ leaving' = leaving \cup {<<w, who>>}
          /\ finished' = IF Listed(w) = {} THEN finished \cup {w} ELSE finished
      BY <1>6 DEF Shutdown, NobodyToEject, Answer
    <2>2. Leaving' = Leaving \cup {w}
      <3>1. <<w, who>>[1] = w
        OBVIOUS
      <3> QED BY <2>1, <3>1 DEF Leaving
    <2>3. ASSUME NEW l \in Listeners, place[l].k \in Held, place[l].w = w, l \notin missed'
          PROVE  /\ place[l] = At("listed", w) /\ <<w, l>> \in enqueued' /\ Listed(w) # {}
      BY <1>3, <2>1, <2>3 DEF Listed
    <2> QED BY <1>1, <1>2, <2>1, <2>2, <2>3 DEF Known
  <1> QED BY <1>4, <1>5, <1>6

LEMMA EjectKnown ==
  ASSUME IInv, Known, NEW w, NEW l \in Listeners, EjectNext(w, l)
  PROVE  Known'
  <1>1. /\ enqueued' = enqueued \ {<<w, l>>}
        /\ UNCHANGED <<forked, ready, made, mail, leaving, finished, missed, faults>>
    BY DEF EjectNext, poolVars, mailVars
  <1>2. Alive' = Alive /\ Leaving' = Leaving
    BY <1>1 DEF Alive, Dead, Leaving
  <1>3. CASE place[l] # At("listed", w)
    <2>1. place' = place
      BY <1>3 DEF EjectNext
    <2> QED BY <1>1, <1>2, <1>3, <2>1 DEF Known
  <1>4. CASE place[l] = At("listed", w)
    <2>1. \A x \in Listeners : place'[x] = IF x = l THEN At("moving", w) ELSE place[x]
      BY <1>4 DEF EjectNext, IInv
    <2>2. At("moving", w).k = "moving"
      BY DEF At
    <2> QED BY <1>1, <1>2, <2>1, <2>2 DEF Known, Held
  <1> QED BY <1>3, <1>4

LEMMA EjectedKnown ==
  ASSUME IInv, Known, NEW w, NEW who, Ejected(w, who)
  PROVE  Known'
  <1>1. /\ finished' = finished \cup {w}
        /\ \A l \in Listeners : <<w, l>> \notin enqueued
        /\ UNCHANGED <<forked, ready, made, mail, leaving, enqueued, place, missed, faults>>
    BY DEF Ejected, Answer, poolVars, mailVars
  <1>3. w \in Leaving
    <2>1. <<w, who>> \in leaving /\ <<w, who>>[1] = w
      BY DEF Ejected
    <2> QED BY <2>1 DEF Leaving
  <1>2. Alive' = Alive /\ Leaving' = Leaving
    BY <1>1 DEF Alive, Dead, Leaving
  <1> QED BY <1>1, <1>2, <1>3 DEF Known

LEMMA WorkerKnown ==
  ASSUME IInv, Known, NEW w \in forked, WorkerStep(w)
  PROVE  Known'
  <1>1. CASE CreateSlave(w)
    <2>1. Quiet
      BY <1>1 DEF CreateSlave, Quiet, Known, poolVars, mailVars
    <2> QED BY <2>1, QuietKeeps
  <1>2. CASE LoadCut(w) \/ RewindsLoaded(w)
    <2>1. Quiet
      BY <1>2 DEF LoadCut, RewindsLoaded, Quiet, Known, poolVars, mailVars
    <2> QED BY <2>1, QuietKeeps
  <1>3. CASE Exit(w) \/ Crash(w)
    <2>1. Gone(w) /\ faults' \in Nat
      BY <1>3 DEF Exit, Crash, Known
    <2> QED BY <2>1, GoneKnown
  <1> QED
    BY <1>1, <1>2, <1>3, ShutdownKnown, EjectKnown, EjectedKnown DEF WorkerStep

LEMMA ExitKnown ==
  ASSUME IInv, Known, NEW w \in forked, WorkerExits(w)
  PROVE  Known'
  <1>1. /\ <<w, "exit">> \in mail /\ <<w, "loaded">> \notin mail
        /\ mail' = mail \ {<<w, "exit">>}
        /\ ready' = ready \ {w} /\ made' = made \ {w} /\ finished' = finished \ {w}
        /\ leaving' = {p \in leaving : p[1] # w} /\ enqueued' = {p \in enqueued : p[1] # w}
        /\ UNCHANGED <<missed, faults>>
    BY DEF WorkerExits
  <1>2. forked \ {w} \subseteq forked'
    BY DEF WorkerExits, Spawn
  <1>3. w \in Dead
    BY <1>1 DEF Dead
  <1>4. ASSUME NEW l \in Listeners
        PROVE  \/ place'[l] = place[l] /\ (place[l].k = "landing" => place[l].w # w)
               \/ place'[l].k \notin Held \cup {"landing"}
    <2>1. CASE Ends
      BY <2>1, EndsQuietly
    <2>2. CASE ~Ends
      <3> DEFINE unheard == {x \in Listeners : place[x].k \in {"sent", "landing"}
                                                 /\ place[x].w = w}
      <3>1. place' = [x \in Listeners |-> IF x \in unheard THEN At("lost", 0) ELSE place[x]]
        BY <2>2 DEF WorkerExits
      <3>2. l \in unheard <=> place[l].k \in {"sent", "landing"} /\ place[l].w = w
        OBVIOUS
      <3> HIDE DEF unheard
      <3>3. CASE l \in unheard
        BY <3>1, <3>3 DEF At, Held
      <3>4. CASE l \notin unheard
        BY <3>1, <3>2, <3>4
      <3> QED BY <3>3, <3>4
    <2> QED BY <2>1, <2>2
  <1>5. \A l \in Listeners : place[l].k \in Held => place[l].w # w
    BY <1>3 DEF Known, Alive
  <1>6. Alive \ {w} \subseteq Alive' /\ Leaving' \subseteq Leaving
    BY <1>1, <1>2 DEF Alive, Dead, Leaving
  <1>7. \A v : <<v, "loaded">> \in mail' => v \in made'
    BY <1>1 DEF Known
  <1>8. \A v, l : v # w /\ <<v, l>> \in enqueued => <<v, l>> \in enqueued'
    BY <1>1
  <1> QED BY <1>1, <1>2, <1>4, <1>5, <1>6, <1>7, <1>8 DEF Known, Held

LEMMA PoolKnown ==
  ASSUME IInv, Known, NEW w \in forked, PoolStep(w)
  PROVE  Known'
  <1>1. CASE SetUp(w) \/ ShutdownWorker(w)
    <2>1. UNCHANGED <<forked, ready, slaveVars, mail, place, missed, faults>>
      BY <1>1 DEF SetUp, ShutdownWorker, poolVars, mailVars
    <2>2. Quiet
      BY <2>1 DEF Quiet, Known, slaveVars
    <2> QED BY <2>2, QuietKeeps
  <1>2. CASE SetUpFails(w)
    <2>1. Quiet
      BY <1>2, EndsQuietly DEF SetUpFails, Quiet, Known, poolVars, slaveVars, mailVars
    <2> QED BY <2>1, QuietKeeps
  <1>3. CASE WorkerLoaded(w)
    <2>1. \A l \in Listeners : place'[l] = place[l] \/ place'[l].k \notin Held \cup {"landing"}
      BY <1>3 DEF WorkerLoaded, Distribute, At, Held
    <2>2. forked \subseteq forked'
      BY <1>3 DEF WorkerLoaded, Spawn
    <2>3. Quiet
      BY <1>3, <2>1, <2>2 DEF WorkerLoaded, Quiet, Known, slaveVars
    <2> QED BY <2>3, QuietKeeps
  <1>4. CASE WorkerExits(w)
    BY <1>4, ExitKnown
  <1> QED BY <1>1, <1>2, <1>3, <1>4 DEF PoolStep

LEMMA KnownKept == IInv /\ Known /\ [Next]_vars => Known'
  <1> SUFFICES ASSUME IInv, Known, [Next]_vars PROVE Known'
    OBVIOUS
  <1>1. CASE ShutdownPool
    <2>1. Quiet
      BY <1>1, EndsQuietly DEF ShutdownPool, Quiet, Known, poolVars, slaveVars, mailVars
    <2> QED BY <2>1, QuietKeeps
  <1>2. CASE ServerSocket \/ SendHandoff \/ UNCHANGED vars
    <2>1. Quiet
      BY <1>2 DEF ServerSocket, SendHandoff, vars, Quiet, Known, poolVars, slaveVars, mailVars
    <2> QED BY <2>1, QuietKeeps
  <1>3. ASSUME NEW w \in forked, PoolStep(w) \/ WorkerStep(w) PROVE Known'
    BY <1>3, PoolKnown, WorkerKnown
  <1>4. ASSUME NEW l \in Listeners, ListenerStep(l) PROVE Known'
    BY <1>4, ListenerKnown
  <1> QED BY <1>1, <1>2, <1>3, <1>4 DEF Next

\* A worker that answers has handed on or missed all it holds: only then may its
\* exit lose anybody.
LEMMA ExitLosesTheMissed ==
  ASSUME IInv, Known, NEW w, Exit(w), NEW l \in Listeners,
         place'[l].k = "lost", place[l].k # "lost"
  PROVE  l \in missed
  <1>1. l \in Holds(w) /\ w \in finished
    BY DEF Exit, Gone
  <1> QED BY <1>1 DEF Holds, Known, Held

\* Who is lost, and why, step by step
Excused(l) ==
  \/ faults' # faults \/ over'
  \/ l \in missed
  \/ place[l].k = "moving" /\ (inHandoff \/ Loaded \subseteq {place[l].w})
  \/ place[l].k = "landing" /\ place[l].w \in Dead
  \/ place[l].k \in {"out", "waiting", "sent"}

LEMMA ListenerExcused ==
  ASSUME IInv, Known, NEW x \in Listeners, ListenerStep(x),
         NEW l \in Listeners, place'[l].k = "lost", place[l].k # "lost"
  PROVE  Excused(l)
  <1>1. CASE Comes(x) \/ Connect(x) \/ Connection(x)
    <2>1. \/ place[x].k \in {"out", "sent"} /\ \E r : place' = [place EXCEPT ![x] = r]
      BY <1>1 DEF Comes, Connect, Connection
    <2>2. l = x
      BY <2>1 DEF IInv
    <2> QED BY <2>1, <2>2 DEF Excused
  <1>2. CASE LandListener(x) \/ Listen(x) \/ Leave(x)
    BY <1>2 DEF LandListener, Listen, Leave, IInv, At
  <1>3. CASE ListenerFromWorker(x)
    <2> DEFINE w == place[x].w
    <2>1. /\ place[x].k = "moving"
          /\ IF inHandoff
             THEN \E k \in {"away", "lost"} : place' = [place EXCEPT ![x] = At(k, 0)]
             ELSE IF getWorker(w) = {} THEN place' = [place EXCEPT ![x] = At("lost", 0)]
             ELSE \E v \in getWorker(w) : place' = [place EXCEPT ![x] = Landing(v, w)]
      BY <1>3 DEF ListenerFromWorker
    <2>2. l = x
      <3>1. \E r : place' = [place EXCEPT ![x] = r]
        BY <2>1
      <3> QED BY <3>1 DEF IInv
    <2>3. CASE getWorker(w) = {}
      BY <2>1, <2>2, <2>3 DEF Excused, getWorker
    <2>4. CASE inHandoff
      BY <2>1, <2>2, <2>4 DEF Excused
    <2>5. CASE ~inHandoff /\ getWorker(w) # {}
      <3>1. PICK v : place' = [place EXCEPT ![x] = Landing(v, w)]
        BY <2>1, <2>5
      <3>2. place'[l].k = "landing"
        BY <2>2, <3>1 DEF IInv, Landing
      <3> QED BY <3>2
    <2> QED BY <2>3, <2>4, <2>5
  <1> QED BY <1>1, <1>2, <1>3 DEF ListenerStep

LEMMA WorkerExcused ==
  ASSUME IInv, Known, NEW w \in forked, PoolStep(w) \/ WorkerStep(w),
         NEW l \in Listeners, place'[l].k = "lost", place[l].k # "lost"
  PROVE  Excused(l)
  <1>1. CASE Exit(w)
    BY <1>1, ExitLosesTheMissed DEF Excused
  <1>2. CASE Crash(w) \/ SetUpFails(w)
    <2>1. faults' = faults + 1 /\ faults \in Nat
      BY <1>2 DEF Crash, SetUpFails, Known
    <2>2. faults' # faults
      BY <2>1
    <2> QED BY <2>2 DEF Excused
  <1>3. CASE WorkerLoaded(w)
    BY <1>3 DEF WorkerLoaded, Distribute, At
  <1>4. CASE WorkerExits(w)
    <2>1. CASE Ends
      BY <2>1 DEF Ends, Excused
    <2>2. CASE ~Ends
      <3>1. place' = [x \in Listeners |->
                        IF x \in {y \in Listeners : place[y].k \in {"sent", "landing"}
                                                      /\ place[y].w = w}
                        THEN At("lost", 0) ELSE place[x]]
        BY <1>4, <2>2 DEF WorkerExits
      <3>2. place[l].k \in {"sent", "landing"} /\ place[l].w = w
        BY <3>1
      <3>3. w \in Dead
        BY <1>4 DEF WorkerExits, Dead
      <3> QED BY <3>2, <3>3 DEF Excused
    <2> QED BY <2>1, <2>2
  <1>5. ASSUME NEW x \in Listeners, EjectNext(w, x)
        PROVE  place'[l].k # "lost"
    BY <1>5 DEF EjectNext, IInv, At
  <1>6. CASE place' = place
    BY <1>6
  <1>7. SetUp(w) \/ ShutdownWorker(w) \/ CreateSlave(w) \/ LoadCut(w) \/ RewindsLoaded(w)
            => place' = place
    BY DEF SetUp, ShutdownWorker, CreateSlave, LoadCut, RewindsLoaded
  <1>8. ASSUME NEW who, Shutdown(w, who) \/ Ejected(w, who)
        PROVE  place' = place
    BY <1>8 DEF Shutdown, Ejected
  <1> QED BY <1>1, <1>2, <1>3, <1>4, <1>5, <1>6, <1>7, <1>8 DEF PoolStep, WorkerStep

\* No listener is lost unless something failed, the process ended, it was missed by
\* a worker that was leaving already, nobody else was there for it or it is a
\* connection: for any number of workers and listeners and however leaves, landings
\* and exits overlap (ejectListeners, landListener, shutdown).
THEOREM LostOnlyForAReason == Spec => LostForAReason
  <1>1. Init => IInv /\ Known
    <2> SUFFICES ASSUME Init PROVE Known
      BY Initially
    <2> QED BY DEF Init, Known, At, Held
  <1>2. IInv /\ Known /\ [Next]_vars => IInv' /\ Known'
    BY Inductive, KnownKept
  <1>3. IInv /\ Known /\ [Next]_vars =>
          [\A l \in Listeners : place'[l].k = "lost" /\ place[l].k # "lost" =>
             \/ faults' # faults \/ over'
             \/ l \in missed
             \/ place[l].k = "moving" /\ (inHandoff \/ Loaded \subseteq {place[l].w})
             \/ place[l].k = "landing" /\ place[l].w \in Dead
             \/ place[l].k \in {"out", "waiting", "sent"}]_vars
    <2> SUFFICES ASSUME IInv, Known, Next, NEW l \in Listeners,
                        place'[l].k = "lost", place[l].k # "lost"
                 PROVE  Excused(l)
      BY DEF Excused
    <2>1. CASE ShutdownPool
      BY <2>1 DEF ShutdownPool, Ends, Excused
    <2>2. CASE ServerSocket \/ SendHandoff
      BY <2>2 DEF ServerSocket, SendHandoff
    <2> QED BY <2>1, <2>2, WorkerExcused, ListenerExcused DEF Next
  <1> QED BY <1>1, <1>2, <1>3, PTL DEF Spec, LostForAReason
=============================================================================

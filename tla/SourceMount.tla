---------------------------- MODULE SourceMount ----------------------------
(***************************************************************************)
(* A source mount: the ordered list of the sources that feed one mount     *)
(* point, the one of them that is active, and the switch-over between      *)
(* them (master/source_mount.coffee, with the source side of the switch    *)
(* from sources/base.coffee, sources/icecast.coffee, sources/proxy.coffee).*)
(*                                                                         *)
(* Node runs one callback at a time.  What interleaves is everything that  *)
(* waits for a later callback: useSource waits for the new source's first  *)
(* header ("vitals") with an alarm running beside it, the source may       *)
(* disconnect, other sources connect, an operator promotes another one.    *)
(* The steps of one callback that cannot be interrupted are separate       *)
(* actions held together by the variables firing, closing and ticks: no    *)
(* new callback starts before they are empty (Idle).                       *)
(***************************************************************************)
EXTENDS Naturals, Sequences

CONSTANTS
    Source,        \* the source objects that may ever be added
    Proxy,         \* the fallback ProxySources: isFallback, no "disconnect" event
    Parsed,        \* sources whose header was parsed before they are added
    MayDieEarly,   \* sources whose connection may be lost before their header
    MaxAttempts,   \* bound on the calls of useSource
    MaxVitals,     \* bound on the headers a proxy sends over its reconnects
    None           \* no source

ASSUME SourceAssumption ==
    /\ Proxy \subseteq Source
    /\ Parsed \subseteq Source \ Proxy
    /\ MayDieEarly \subseteq Source \ Proxy
    /\ None \notin Source
    /\ MaxAttempts \in Nat
    /\ MaxVitals \in Nat \ {0}

VARIABLES
    life,       \* a source is "idle" until added, "up", and "gone" once it disconnected
    vit,        \* the version of a source's _vitals, 0 before its first header
    waiting,    \* a source's once("vitals") listeners: the useSource calls waiting for it
    hooks,      \* how often the mount's dataFunc and vitalsFunc listen to a source
    sources,    \* @sources
    source,     \* @source, the active source
    mvitals,    \* @_vitals of the mount
    announced,  \* the source of the last "source" event the mount emitted
    ticks,      \* the process.nextTick callbacks queued by useSource
    made,       \* how many calls of useSource there were; a call is known by its number
    old,        \* old_source of each call
    alarms,     \* the calls whose five second alarm is set
    answers,    \* what each call's callback was called with, in order
    firing,     \* the source whose "vitals" event is being delivered, or None
    closing,    \* the sources destroy has still to disconnect
    destroyed   \* the mount removed its listeners

mountVars == <<sources, source, mvitals, announced, ticks>>
callVars  == <<made, old, alarms, answers>>
vars == <<life, vit, waiting, hooks, mountVars, callVars, firing, closing, destroyed>>

Call == 1 .. MaxAttempts
Answer == {"ok", "changed", "failed"}

\* The list without s.  It holds a source at most once, so dropping the one
\* occurrence is what _.without does.
Without(list, s) ==
    IF \E i \in DOMAIN list : list[i] = s
    THEN LET i == CHOOSE i \in DOMAIN list : list[i] = s
         IN  [j \in 1 .. (Len(list) - 1) |-> IF j < i THEN list[j] ELSE list[j + 1]]
    ELSE list

\* The sources of a list
Members(list) == {list[i] : i \in DOMAIN list}

\* removeListener: takes one registration away, if there is one
Unhook(h, s) ==
    IF s = None THEN h ELSE [h EXCEPT ![s] = IF @ = 0 THEN 0 ELSE @ - 1]

\* No callback is running and nothing is left in the nextTick queue
Idle == firing = None /\ closing = <<>> /\ ticks = <<>>

Init ==
    /\ life = [s \in Source |-> "idle"]
    /\ vit = [s \in Source |-> IF s \in Parsed THEN 1 ELSE 0]
    /\ waiting = [s \in Source |-> <<>>]
    /\ hooks = [s \in Source |-> 0]
    /\ sources = <<>>
    /\ source = None
    /\ mvitals = 0
    /\ announced = None
    /\ ticks = <<>>
    /\ made = 0
    /\ old = [n \in Call |-> None]
    /\ alarms = {}
    /\ answers = [n \in Call |-> <<>>]
    /\ firing = None
    /\ closing = <<>>
    /\ destroyed = FALSE

----------------------------------------------------------------------------
(* useSource *)

\* MUTANT: the new source jumps ahead without leaving its old place.
SwitchTo_Copies(s, prev, list, h) ==
    /\ source' = s
    /\ hooks' = [Unhook(h, prev) EXCEPT ![s] = @ + 1]
    /\ sources' = <<s>> \o list
    /\ ticks' = Append(ticks, s)
    /\ UNCHANGED <<mvitals, announced>>

\* MUTANT: the new source keeps its place in the list.
SwitchTo_InPlace(s, prev, list, h) ==
    /\ source' = s
    /\ hooks' = [Unhook(h, prev) EXCEPT ![s] = @ + 1]
    /\ sources' = list
    /\ ticks' = Append(ticks, s)
    /\ UNCHANGED <<mvitals, announced>>

\* The switch itself, once the vitals are there: unhook the source the call
\* found active, hook the new one, move it to the front, queue the announcement.
SwitchTo(s, prev, list, h) ==
    /\ source' = s
    /\ hooks' = [Unhook(h, prev) EXCEPT ![s] = @ + 1]
    /\ sources' = <<s>> \o Without(list, s)
    /\ ticks' = Append(ticks, s)
    /\ UNCHANGED <<mvitals, announced>>

\* MUTANT: no alarm for a call that has to wait.
UseSource_NoAlarm(s, list, h, w) ==
    /\ made < MaxAttempts
    /\ made' = made + 1
    /\ old' = [old EXCEPT ![made + 1] = source]
    /\ alarms' = alarms
    /\ \/ /\ vit[s] # 0
          /\ SwitchTo(s, source, list, h)
          /\ waiting' = w
          /\ answers' = [answers EXCEPT ![made + 1] = <<"ok">>]
       \/ /\ vit[s] = 0
          /\ waiting' = [w EXCEPT ![s] = Append(@, made + 1)]
          /\ sources' = list
          /\ hooks' = h
          /\ UNCHANGED <<source, mvitals, announced, ticks, answers>>

\* useSource(s), called with the list, the hooks and the waiting listeners as
\* the calling handler has left them.  A source that has its vitals calls back
\* at once: nothing can have changed, and the alarm is set and cleared.
UseSource(s, list, h, w) ==
    /\ made < MaxAttempts
    /\ made' = made + 1
    /\ old' = [old EXCEPT ![made + 1] = source]
    /\ \/ /\ vit[s] # 0
          /\ SwitchTo(s, source, list, h)
          /\ waiting' = w
          /\ answers' = [answers EXCEPT ![made + 1] = <<"ok">>]
          /\ alarms' = alarms
       \/ /\ vit[s] = 0
          /\ waiting' = [w EXCEPT ![s] = Append(@, made + 1)]
          /\ alarms' = alarms \cup {made + 1}
          /\ sources' = list
          /\ hooks' = h
          /\ UNCHANGED <<source, mvitals, announced, ticks, answers>>

\* MUTANT: switches without looking whether the source changed meanwhile.
FireVitals_Unchecked ==
    /\ firing # None
    /\ LET n == Head(waiting[firing])
       IN  /\ waiting' = [waiting EXCEPT ![firing] = Tail(@)]
           /\ firing' = IF Len(waiting[firing]) = 1 THEN None ELSE firing
           /\ SwitchTo(firing, old[n], sources, hooks)
           /\ alarms' = alarms \ {n}
           /\ answers' = [answers EXCEPT ![n] = Append(@, "ok")]
    /\ UNCHANGED <<life, vit, made, old, closing, destroyed>>

\* The vitals callback of the first call still waiting for the source whose
\* vitals event is being delivered.
FireVitals ==
    /\ firing # None
    /\ LET n == Head(waiting[firing])
           changed == source # None /\ old[n] # source
       IN  /\ waiting' = [waiting EXCEPT ![firing] = Tail(@)]
           /\ firing' = IF Len(waiting[firing]) = 1 THEN None ELSE firing
           /\ \/ /\ changed
                 /\ answers' = [answers EXCEPT ![n] = Append(@, "changed")]
                 /\ UNCHANGED <<hooks, mountVars, alarms>>
              \/ /\ ~changed
                 /\ SwitchTo(firing, old[n], sources, hooks)
                 /\ alarms' = alarms \ {n}
                 /\ answers' = [answers EXCEPT ![n] = Append(@, "ok")]
    /\ UNCHANGED <<life, vit, made, old, closing, destroyed>>

\* MUTANT: announces the source without handing its vitals on.
Tick_NoVitals ==
    /\ firing = None /\ closing = <<>> /\ ticks # <<>>
    /\ announced' = IF destroyed THEN announced ELSE Head(ticks)
    /\ ticks' = Tail(ticks)
    /\ UNCHANGED <<life, vit, waiting, hooks, sources, source, mvitals, callVars,
                   firing, closing, destroyed>>

\* The nextTick callback of a switch: emit "source", then hand the vitals on.
\* After destroy nobody listens to the mount any more.
Tick ==
    /\ firing = None /\ closing = <<>> /\ ticks # <<>>
    /\ announced' = IF destroyed THEN announced ELSE Head(ticks)
    /\ mvitals' = vit[Head(ticks)]
    /\ ticks' = Tail(ticks)
    /\ UNCHANGED <<life, vit, waiting, hooks, sources, source, callVars, firing, closing, destroyed>>

\* The five second alarm of a call.  An Icecast source that has no vitals
\* after three seconds disconnects itself, so only a proxy is still silent then.
Alarm(n) ==
    /\ Idle
    /\ n \in alarms
    /\ \A s \in Source \ Proxy : n \notin Members(waiting[s])
    /\ alarms' = alarms \ {n}
    /\ answers' = [answers EXCEPT ![n] = Append(@, "failed")]
    /\ UNCHANGED <<life, vit, waiting, hooks, mountVars, made, old, firing, closing, destroyed>>

----------------------------------------------------------------------------
(* The sources *)

\* A source's parser found a header: its first, or a proxy's next one after it
\* reconnected.  The mount's vitalsFunc hears it if hooked; the calls waiting for
\* it are then called back in order.
EmitVitals(s) ==
    /\ Idle
    /\ life[s] = "up"
    /\ vit[s] = 0 \/ s \in Proxy
    /\ vit[s] < MaxVitals
    /\ vit' = [vit EXCEPT ![s] = @ + 1]
    /\ mvitals' = IF hooks[s] > 0 THEN vit[s] + 1 ELSE mvitals
    /\ firing' = IF waiting[s] = <<>> THEN None ELSE s
    /\ UNCHANGED <<life, waiting, hooks, sources, source, announced, ticks,
                   callVars, closing, destroyed>>

\* addSource
AddSource(s) ==
    /\ Idle
    /\ ~destroyed
    /\ life[s] = "idle"
    /\ life' = [life EXCEPT ![s] = "up"]
    /\ LET list  == Append(sources, s)
           first == Head(list)
       IN  \/ /\ first = s \/ first \in Proxy
              /\ UseSource(s, list, hooks, waiting)
           \/ /\ first # s /\ first \notin Proxy
              /\ sources' = list
              /\ UNCHANGED <<waiting, hooks, source, mvitals, announced, ticks, callVars>>
    /\ UNCHANGED <<vit, firing, closing, destroyed>>

\* MUTANT: gives the active source up even if others are connected.
Leave_GivesUp(s) ==
    /\ life' = [life EXCEPT ![s] = "gone"]
    /\ source' = IF source = s THEN None ELSE source
    /\ sources' = Without(sources, s)
    /\ hooks' = [hooks EXCEPT ![s] = 0]
    /\ waiting' = [waiting EXCEPT ![s] = <<>>]
    /\ UNCHANGED <<mvitals, announced, ticks, callVars>>

\* MUTANT: takes the source off the list and promotes nobody.
Leave_NoPromotion(s) ==
    /\ life' = [life EXCEPT ![s] = "gone"]
    /\ sources' = Without(sources, s)
    /\ source' = IF source = s /\ sources' = <<>> THEN None ELSE source
    /\ hooks' = [hooks EXCEPT ![s] = 0]
    /\ waiting' = [waiting EXCEPT ![s] = <<>>]
    /\ UNCHANGED <<mvitals, announced, ticks, callVars>>

\* The disconnect of a source: the handler addSource put on its "disconnect"
\* event, after which the source removes all its listeners.
Leave(s) ==
    LET list == Without(sources, s)
        h    == [hooks EXCEPT ![s] = 0]
        w    == [waiting EXCEPT ![s] = <<>>]
    IN  /\ life' = [life EXCEPT ![s] = "gone"]
        /\ \/ /\ source = s /\ list # <<>>
              /\ UseSource(Head(list), list, h, w)
           \/ /\ source = s /\ list = <<>>
              /\ source' = None
              /\ sources' = list /\ hooks' = h /\ waiting' = w
              /\ UNCHANGED <<mvitals, announced, ticks, callVars>>
           \/ /\ source # s
              /\ sources' = list /\ hooks' = h /\ waiting' = w
              /\ UNCHANGED <<source, mvitals, announced, ticks, callVars>>

\* The connection of a source closes, its data stops, or its three seconds for
\* a first header are over.
Disconnect(s) ==
    /\ Idle
    /\ life[s] = "up"
    /\ s \notin Proxy
    /\ vit[s] # 0 \/ s \in MayDieEarly
    /\ Leave(s)
    /\ UNCHANGED <<vit, firing, closing, destroyed>>

----------------------------------------------------------------------------
(* Operators of the admin API and the removal of the mount *)

\* promoteSource of a source that is not the first of the list
PromoteSource(s) ==
    /\ Idle
    /\ ~destroyed
    /\ s \in Members(sources)
    /\ s # Head(sources)
    /\ UseSource(s, sources, hooks, waiting)
    /\ UNCHANGED <<life, vit, firing, closing, destroyed>>

\* promoteSource answers "Source is already active" and does nothing
SaysAlreadyActive(s) ==
    /\ s \in Members(sources)
    /\ s = Head(sources)

\* destroy: disconnects the sources the list holds when it is called, one
\* after the other; a disconnect may make the next one active on the way (so
\* there must be calls left under the bound for each).
Destroy ==
    /\ Idle
    /\ ~destroyed
    /\ made + Len(sources) <= MaxAttempts
    /\ destroyed' = TRUE
    /\ closing' = sources
    /\ UNCHANGED <<life, vit, waiting, hooks, mountVars, callVars, firing>>

\* A proxy's disconnect emits no event and leaves the mount as it is.
CloseNext ==
    /\ closing # <<>>
    /\ closing' = Tail(closing)
    /\ \/ /\ Head(closing) \in Proxy
          /\ UNCHANGED <<life, waiting, hooks, mountVars, callVars>>
       \/ /\ Head(closing) \notin Proxy
          /\ Leave(Head(closing))
    /\ UNCHANGED <<vit, firing, destroyed>>

Next ==
    \/ \E s \in Source : AddSource(s)
    \/ \E s \in Source : EmitVitals(s)
    \/ \E s \in Source : Disconnect(s)
    \/ \E s \in Source : PromoteSource(s)
    \/ FireVitals
    \/ Tick
    \/ \E n \in Call : Alarm(n)
    \/ Destroy
    \/ CloseNext

Spec == Init /\ [][Next]_vars

\* A running callback runs to its end and the nextTick queue drains; a timer
\* that is set expires; a source that is up sends its header.
Fairness ==
    /\ WF_vars(FireVitals)
    /\ WF_vars(Tick)
    /\ WF_vars(CloseNext)
    /\ \A n \in Call : WF_vars(Alarm(n))
    /\ \A s \in Source : WF_vars(vit[s] = 0 /\ EmitVitals(s))

FairSpec == Spec /\ Fairness

----------------------------------------------------------------------------
(* Properties *)

TypeOK ==
    /\ life \in [Source -> {"idle", "up", "gone"}]
    /\ vit \in [Source -> 0 .. MaxVitals]
    /\ waiting \in [Source -> Seq(Call)]
    /\ hooks \in [Source -> Nat]
    /\ sources \in Seq(Source)
    /\ source \in Source \cup {None}
    /\ mvitals \in 0 .. MaxVitals
    /\ announced \in Source \cup {None}
    /\ ticks \in Seq(Source)
    /\ made \in 0 .. MaxAttempts
    /\ old \in [Call -> Source \cup {None}]
    /\ alarms \in SUBSET Call
    /\ answers \in [Call -> Seq(Answer)]
    /\ firing \in Source \cup {None}
    /\ closing \in Seq(Source)
    /\ destroyed \in BOOLEAN

\* Exactly the active source, while it is connected, is hooked to the mount, and
\* it is hooked once: listeners never get chunks of two sources, nor a chunk
\* twice, whatever adds, promotions and disconnects overlap.
OneFeed ==
    \A s \in Source : hooks[s] = IF s = source /\ life[s] = "up" THEN 1 ELSE 0

\* The list holds the connected sources, each once.
ListsTheConnected ==
    /\ \A i, j \in DOMAIN sources : sources[i] = sources[j] => i = j
    /\ Members(sources) = {s \in Source : life[s] = "up"}

\* A connected active source is the first of the list, where addSource looks for
\* a fallback, promoteSource for the active source and a reader of status for
\* the order of succession.
ActiveLeads ==
    source # None /\ life[source] = "up" => sources # <<>> /\ Head(sources) = source

\* The list of a mount, through every overlap of adds, promotions and
\* disconnects: who is connected, once each, the active source first.
ListInOrder == ListsTheConnected /\ ActiveLeads

\* Between callbacks, what the mount told its listeners agrees with what is so:
\* the last source it announced is the active one and its cached vitals are
\* that source's, proxies that came back with another header included.
ToldTheTruth ==
    Idle /\ ~destroyed /\ source # None => announced = source /\ mvitals = vit[source]

\* The mount keeps the promise of ActiveFeed: it changes only to a connected
\* source, and one that has a source is without one again only when the last
\* that was connected leaves: it keeps a source it lost until another takes over.
\* That a connected source takes over at all is another matter (SecondTakesOver).
Feed == INSTANCE ActiveFeed WITH
            connected <- {s \in Source : life[s] = "up"},
            active    <- source
FeedSpec == Feed!FeedSpec

\* Every call of useSource gets an answer: ok, "Source changed" or, when the
\* source is lost while it waits and drops the waiting listener, the alarm's.
EveryCallIsAnswered ==
    \A n \in Call : (made >= n) ~> (answers[n] # <<>>)

\* A mount that has sources ends up fed by a connected one, unless a source was
\* lost before its first header (those who were to follow it are not promoted).
LostEarly == \E s \in Source : life[s] = "gone" /\ vit[s] = 0

SourcesFeed ==
    (sources # <<>> /\ ~destroyed) ~>
        \/ sources = <<>> \/ destroyed \/ LostEarly
        \/ source # None /\ life[source] = "up"

\* test/master/source_mount.coffee: "switches to the second source if the first
\* disconnects", at least to one that has its header.
SecondTakesOver ==
    [][\A s \in Source :
            /\ sources # <<>> /\ Head(sources) = s /\ Len(sources) > 1
            /\ life[s] = "up" /\ life'[s] = "gone"
            /\ vit[sources[2]] # 0
            => source' = sources[2]]_vars

\* The comment in promoteSource, and its answer "Source is already active": the
\* source it says this of is the active one.
AlreadyActiveIsActive ==
    \A s \in Source : SaysAlreadyActive(s) => source = s
=============================================================================

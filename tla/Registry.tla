------------------------------- MODULE Registry -------------------------------
(***************************************************************************)
(* The master's registry of streams and source mounts (master/index,       *)
(* Stream of master/stream), what it saves to Redis (redis_config), and    *)
(* what its slaves are told (master_io, slave_io, configureStreams of      *)
(* slave/index).                                                           *)
(*                                                                         *)
(* A stream and a mount are objects of their own: the registry leads to    *)
(* them by keys, and each keeps its key, which is not always the one it    *)
(* is registered under.  Keys that are null or undefined are NoKey.  Each  *)
(* handler of the master runs to its end; messages to slaves and to Redis  *)
(* arrive later and in order.                                              *)
(***************************************************************************)
EXTENDS Naturals, Sequences, FiniteSets, FiniteSetsExt

CONSTANTS Keys,       \* keys of streams and mounts
          Configured, \* those among them that may have been saved before
          Slaves,
          NoKey, Unset,
          MaxChanges, \* bound: operations of the admin API, and a handoff's
          MaxMishaps  \* bound: crashes of the master, connections lost by slaves

ASSUME RegistryAssumption ==
  /\ IsFiniteSet(Keys) /\ Configured \subseteq Keys /\ NoKey \notin Keys
  /\ MaxChanges \in Nat /\ MaxMishaps \in Nat

VARIABLES
  streams, mounts, proxies, \* streams, source_mounts and proxies of Master,
  obj, mnt, \* and the objects they lead to: streams and mounts
  reply,   \* what Redis answers with at the start: one configuration or none
  loaded,  \* it came: the "config" event of RedisConfig
  cached,  \* _config of MasterIO: streams
  update,  \* the debounced "config_update" of MasterIO is pending
  saves,   \* configurations on their way to Redis
  saved,   \* what Redis holds: one configuration or none
  strayed, \* the registry has been changed without Redis knowing
  conn,    \* slaves: "off", "connected", "registered" (in slaves of MasterIO)
  mail,    \* "config" messages on their way to each slave
  runs,    \* the streams each slave runs
  changes, mishaps

saveVars == <<reply, loaded, saves, saved, strayed>>
slaveVars == <<conn, mail, runs>>
regVars == <<streams, mounts, proxies, obj, mnt>>
registryVars == <<regVars, cached, update, saveVars, slaveVars, changes, mishaps>>

With(f, k, v) == [x \in DOMAIN f \cup {k} |-> IF x = k THEN v ELSE f[x]]
Without(f, k) == [x \in DOMAIN f \ {k} |-> f[x]]
RangeOf(f) == {f[x] : x \in DOMAIN f}

Nobody == [k \in {} |-> Unset]
Nothing == [streams |-> Nobody, mounts |-> Nobody, proxies |-> Nobody,
            obj |-> <<>>, mnt |-> <<>>]

\* The registry as one value, and its change to another
reg == [streams |-> streams, mounts |-> mounts, proxies |-> proxies, obj |-> obj, mnt |-> mnt]
Becomes(r) ==
  /\ streams' = r.streams /\ mounts' = r.mounts /\ proxies' = r.proxies
  /\ obj' = r.obj /\ mnt' = r.mnt

RegistryTypeOK ==
  /\ DOMAIN reg.streams \subseteq Keys
  /\ RangeOf(reg.streams) \subseteq DOMAIN reg.obj
  /\ RangeOf(reg.mounts) \subseteq DOMAIN reg.mnt
  /\ \A id \in DOMAIN reg.obj : reg.obj[id].key \in Keys \cup {NoKey}

-----------------------------------------------------------------------------
(* The registry: functions from one to the next *)

\* config().  Streams give their options, mounts theirs
Config(r) ==
  [streams |-> [k \in DOMAIN r.streams |-> r.obj[r.streams[k]].opts],
   sources |-> [k \in DOMAIN r.mounts |-> r.mnt[r.mounts[k]].okey]]

\* _startSourceMount; okey is the key among its options, if any
NewMount(r, k, okey) ==
  [r EXCEPT !.mnt = Append(@, [key |-> k, okey |-> okey]),
            !.mounts = With(@, k, Len(r.mnt) + 1)]

\* The key of the mount a stream's options ask for, which is started if there is none
MountOf(k, o) == IF o.source = NoKey THEN k ELSE o.source
Mounted(r, k, o) ==
  IF MountOf(k, o) \in DOMAIN r.mounts THEN r ELSE NewMount(r, MountOf(k, o), NoKey)

\* _startStream and _attachIOProxy: a proxy unless one is left under the key, and
\* a handler for the stream's end
NewStream(r, k, o) ==
  LET r1 == Mounted(r, k, o)
      id == Len(r.obj) + 1
      proxied == k \notin DOMAIN r.proxies
  IN [r1 EXCEPT !.obj = Append(@, [key |-> k, opts |-> o, hooked |-> proxied,
                                   mount |-> r1.mounts[MountOf(k, o)], live |-> TRUE]),
                !.streams = With(@, k, id),
                !.proxies = IF proxied THEN With(@, k, id) ELSE @]

\* configure of a stream: the options, then the key that is among them, which
\* the streams of a configuration file do not have
Reconfigure(r, id, o) ==
  LET okey == IF o.okey = NoKey THEN r.obj[id].opts.okey ELSE o.okey
  IN [r EXCEPT !.obj[id].opts = [@ EXCEPT !.okey = okey, !.at = o.at],
               !.obj[id].key = okey]

\* destroy of a stream: the handler of _attachIOProxy goes by its key
Destroy(r, id) ==
  [r EXCEPT !.obj[id].live = FALSE, !.obj[id].hooked = FALSE,
            !.proxies = IF r.obj[id].hooked THEN Without(@, r.obj[id].key) ELSE @]

\* configure of a mount: a key is not one of the options it takes over
MountConfigured(r, m) == [r EXCEPT !.mnt[m].key = r.mnt[m].okey]

Each(Do(_, _), r, keys) == FoldSet(LAMBDA k, x : Do(x, k), r, keys)

\* configure, up to the streams new to it: mounts, then streams that are no
\* longer there, then those that are, which keep the mount they have
Kept(r, c) ==
  LET Source(x, k) == IF k \in DOMAIN x.mounts THEN MountConfigured(x, x.mounts[k])
                      ELSE NewMount(x, k, c.sources[k])
      Gone(x, k) == [Destroy(x, x.streams[k]) EXCEPT !.streams = Without(@, k)]
      Stay(x, k) == Reconfigure(Mounted(x, k, c.streams[k]), x.streams[k], c.streams[k])
      known == DOMAIN r.streams
  IN Each(Stay, Each(Gone, Each(Source, r, DOMAIN c.sources), known \ DOMAIN c.streams),
          known \cap DOMAIN c.streams)
Started(r, c, keys) ==
  LET Start(x, k) == NewStream(x, k, c.streams[k]) IN Each(Start, r, keys)

-----------------------------------------------------------------------------
(* What the master tells of it *)

Send(m, c) == [s \in Slaves |-> IF conn[s] = "registered" THEN Append(m[s], c)
                                ELSE m[s]]

\* The "streams" event: updateConfig of MasterIO
Streams(r, m) ==
  /\ cached' = Config(r).streams
  /\ mail' = Send(m, cached')

\* The "config_update" event: Redis gets it at once, the slaves in a while
Updated(r) == update' = TRUE /\ saves' = Append(saves, Config(r))

\* MUTANT: the slaves are told, Redis is not.
Announced_Streams(r) == Streams(r, mail) /\ UNCHANGED <<update, saves>>

\* Both events, as most operations emit them
Announced(r) == Updated(r) /\ Streams(r, mail)

\* configure.  Each stream that stays emits both events, as some of the new
\* ones are started and others not yet; in the end only "streams" is emitted.
Configure(c) ==
  LET kept == Kept(reg, c)
      new == DOMAIN c.streams \ DOMAIN reg.streams
      whole == Started(kept, c, new)
  IN /\ Becomes(whole)
     /\ IF DOMAIN c.streams \subseteq new
        THEN Streams(whole, mail) /\ UNCHANGED <<update, saves>>
        ELSE \E early \in SUBSET new :
               LET part == Started(kept, c, early)
               IN /\ Updated(part)
                  /\ Streams(whole, Send(mail, Config(part).streams))

-----------------------------------------------------------------------------
RegistryInit ==
  /\ saved \in SUBSET
       {[streams |-> [k \in Configured |-> [okey |-> NoKey, source |-> NoKey, at |-> 0]],
         sources |-> [k \in Configured |-> NoKey]]}
  /\ streams = Nobody /\ mounts = Nobody /\ proxies = Nobody /\ obj = <<>> /\ mnt = <<>>
  /\ reply = saved /\ loaded = FALSE
  /\ cached = Unset /\ update = FALSE /\ saves = <<>> /\ strayed = FALSE
  /\ conn = [s \in Slaves |-> "off"] /\ mail = [s \in Slaves |-> <<>>]
  /\ runs = [s \in Slaves |-> Nobody]
  /\ changes = 0 /\ mishaps = 0

\* The "config" event of RedisConfig.  The master has listened all the while:
\* streams created before are destroyed, as they are not in what was saved.
Load ==
  /\ ~loaded /\ loaded' = TRUE /\ reply' = {}
  /\ IF reply = {} THEN UNCHANGED <<regVars, cached, update, saves, mail, strayed>>
     ELSE \E c \in reply :
            /\ Configure(c)
            /\ strayed' = (strayed \/ Config(reg').streams # c.streams \/ saves' # saves)
  /\ UNCHANGED <<saved, conn, runs, changes, mishaps>>

Changes == changes < MaxChanges /\ changes' = changes + 1
Others == UNCHANGED <<reply, loaded, saved, conn, runs, mishaps>>
\* A change before Redis has answered
Strays == strayed' = (strayed \/ ~loaded)

CreateStream(k, source) ==
  /\ Changes /\ k \notin DOMAIN reg.streams
  /\ Becomes(NewStream(reg, k, [okey |-> k, source |-> source, at |-> changes']))
  /\ Announced(reg') /\ Strays /\ Others

\* updateStream of the stream registered under k, with the key new, if any
UpdateStream(k, new) ==
  LET id == reg.streams[k]
      old == reg.obj[id].key
      moved == IF new \in {NoKey, old} THEN reg
               ELSE [reg EXCEPT !.streams = With(Without(@, old), new, id)]
  IN /\ Changes
     /\ new \in {NoKey, old} \/ new \notin DOMAIN reg.streams
     /\ Becomes(Reconfigure(moved, id, [okey |-> new, at |-> changes']))
     /\ Announced(reg') /\ Strays /\ Others

RemoveStream(k) ==
  LET id == reg.streams[k] IN
  /\ Changes
  /\ Becomes(Destroy([reg EXCEPT !.streams = Without(@, reg.obj[id].key)], id))
  /\ Announced(reg') /\ Strays /\ Others

CreateMount(k) ==
  /\ Changes /\ k \notin DOMAIN reg.mounts
  /\ Becomes(NewMount(reg, k, k))
  /\ Updated(reg') /\ Strays /\ Others /\ UNCHANGED <<cached, mail>>

\* updateMount: the mount's "config" event is nobody's
UpdateMount(k, new) ==
  LET m == reg.mounts[k]
      old == reg.mnt[m].key
      moved == IF new \in {NoKey, old} THEN reg
               ELSE [reg EXCEPT !.mounts = With(Without(@, old), new, m)]
  IN /\ Changes
     /\ new \in {NoKey, old} \/ new \notin DOMAIN reg.mounts
     /\ Becomes(MountConfigured(moved, m))
     /\ Strays /\ Others /\ UNCHANGED <<cached, mail, update, saves>>

\* The streams that listen to the "data" of a mount
DataOf(m) == {id \in DOMAIN reg.obj : reg.obj[id].live /\ reg.obj[id].mount = m}

\* MUTANT: only registered streams are asked.
InUse_Registered(m) ==
  \E k \in DOMAIN reg.mounts \cap DOMAIN reg.streams : reg.mounts[k] = m

InUse(m) == DataOf(m) # {}

RemoveMount(k) ==
  LET m == reg.mounts[k] IN
  /\ Changes /\ ~InUse(m)
  /\ Becomes([reg EXCEPT !.mounts = Without(@, reg.mnt[m].key)])
  /\ Updated(reg') /\ Strays /\ Others /\ UNCHANGED <<cached, mail>>

\* A handoff: before it listens, the new process gets the old one's
\* configuration over its own.  Keys may be missing among the options.
HandoffConfigure(keys, keyed) ==
  /\ loaded /\ cached # Unset /\ changes = 0 /\ mishaps = 0 /\ Changes
  /\ \A s \in Slaves : conn[s] = "off"
  /\ Configure([streams |-> [k \in keys |-> [okey |-> IF keyed THEN k ELSE NoKey,
                                             source |-> NoKey, at |-> changes']],
                sources |-> [k \in keys |-> NoKey]])
  /\ strayed' = TRUE /\ Others

\* 200 ms without another "config_update"
SendUpdate ==
  /\ update /\ update' = FALSE
  /\ mail' = Send(mail, Config(reg).streams)
  /\ UNCHANGED <<regVars, cached, saveVars, conn, runs, changes, mishaps>>

\* Redis gets the next configuration
Saved ==
  /\ saves # <<>>
  /\ saved' = {Head(saves)} /\ saves' = Tail(saves)
  /\ UNCHANGED <<regVars, cached, update, reply, loaded, strayed, slaveVars, changes,
                 mishaps>>

\* The master dies and starts anew
MasterCrash ==
  /\ mishaps < MaxMishaps /\ mishaps' = mishaps + 1
  /\ Becomes(Nothing) /\ reply' = saved /\ loaded' = FALSE
  /\ cached' = Unset /\ update' = FALSE /\ saves' = <<>> /\ strayed' = FALSE
  /\ conn' = [s \in Slaves |-> "off"] /\ mail' = [s \in Slaves |-> <<>>]
  /\ UNCHANGED <<saved, runs, changes>>

-----------------------------------------------------------------------------
(* The slaves *)

SlaveOthers == UNCHANGED <<regVars, cached, update, saveVars, changes>>

\* "connect": the slave sends "ok"
Connect(s) ==
  /\ conn[s] = "off" /\ conn' = [conn EXCEPT ![s] = "connected"]
  /\ SlaveOthers /\ UNCHANGED <<mail, runs, mishaps>>

\* MUTANT: a slave that says ok is not sent what is cached.
Ok_Unanswered(s) == UNCHANGED mail

\* "ok" reaches the master, which answers, sends the configuration it keeps
\* and registers the slave
Ok(s) == mail' = IF cached = Unset THEN mail ELSE [mail EXCEPT ![s] = Append(@, cached)]
Register(s) ==
  /\ conn[s] = "connected" /\ conn' = [conn EXCEPT ![s] = "registered"]
  /\ Ok(s)
  /\ SlaveOthers /\ UNCHANGED <<runs, mishaps>>

\* "config": configureStreams
Receive(s) ==
  /\ mail[s] # <<>>
  /\ runs' = [runs EXCEPT ![s] = Head(mail[s])]
  /\ mail' = [mail EXCEPT ![s] = Tail(@)]
  /\ SlaveOthers /\ UNCHANGED <<conn, mishaps>>

Lose(s) ==
  /\ mishaps < MaxMishaps /\ mishaps' = mishaps + 1
  /\ conn[s] # "off" /\ conn' = [conn EXCEPT ![s] = "off"]
  /\ mail' = [mail EXCEPT ![s] = <<>>]
  /\ SlaveOthers /\ UNCHANGED runs

-----------------------------------------------------------------------------
MasterStep ==
  \/ Load \/ SendUpdate \/ Saved \/ MasterCrash
  \/ \E k \in Keys : \/ \E source \in (Keys \ {k}) \cup {NoKey} : CreateStream(k, source)
                     \/ CreateMount(k)
  \/ \E k \in DOMAIN reg.streams :
       RemoveStream(k) \/ \E new \in Keys \cup {NoKey} : UpdateStream(k, new)
  \/ \E k \in DOMAIN reg.mounts :
       RemoveMount(k) \/ \E new \in Keys \cup {NoKey} : UpdateMount(k, new)
  \/ \E keys \in SUBSET Keys, keyed \in BOOLEAN : HandoffConfigure(keys, keyed)

SlaveStep(s) == Connect(s) \/ Register(s) \/ Receive(s) \/ Lose(s)

RegistryNext == MasterStep \/ \E s \in Slaves : SlaveStep(s)

RegistrySpec == RegistryInit /\ [][RegistryNext]_registryVars

-----------------------------------------------------------------------------
(* Properties *)

InStep(s) == runs[s] = Config(reg).streams

\* A registered slave with nothing on its way to it runs the streams of the
\* registry with their latest options, whatever was changed, lost or restarted
\* before, once the master has been configured ("ok", updateConfig).
SlavesInStep ==
  \A s \in Slaves : conn[s] = "registered" /\ mail[s] = <<>> /\ cached # Unset
                      => InStep(s)

\* With no save under way Redis holds the registry's streams, so that a restart
\* finds them, unless the registry was changed before Redis answered or by a
\* handoff.
StoredIsCurrent ==
  loaded /\ saves = <<>> /\ ~strayed =>
    IF saved = {} THEN DOMAIN streams = {}
    ELSE \A c \in saved : c.streams = Config(reg).streams

\* A mount that a stream listens to stays in the registry, as long as no mount
\* is registered under a key that is not its own (removeMount, updateMount).
MountsStay ==
  [][(\A k \in DOMAIN reg.mounts : reg.mnt[reg.mounts[k]].key \in {k, NoKey}) =>
     \A m \in RangeOf(reg.mounts) :
       DataOf(m) # {} /\ mishaps' = mishaps => m \in RangeOf(reg'.mounts)]_registryVars

\* Every stream of the registry is broadcast to the slaves under the key they
\* know it by, and no other is.
StreamsAreProxied ==
  \A k \in DOMAIN reg.streams :
    k \in DOMAIN reg.proxies /\ reg.proxies[k] = reg.streams[k]
=============================================================================

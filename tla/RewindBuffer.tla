---------------------------- MODULE RewindBuffer ---------------------------
(***************************************************************************)
(* The rewind buffer of a stream (rewind_buffer.coffee) with its store and *)
(* the listeners on it (rewind/rewinder.coffee).                           *)
(*                                                                         *)
(* Live chunks arrive from the source it is hooked to; a load (from the    *)
(* master, a dump on disk or a handoff) delivers older chunks, newest      *)
(* first, in between.  A listener is placed some chunks behind the newest  *)
(* one, may get a burst at once, and from then on is handed the chunk at   *)
(* its offset whenever a live chunk comes in.  Timestamps count chunks,    *)
(* and a chunk lasts a second, so seconds and chunks are one unit.         *)
(***************************************************************************)
EXTENDS MemoryStore, Naturals

CONSTANTS
    Source,     \* the sources the stream may be connected to, one after the other
    Key,        \* stream keys (format, rate and bitrate)
    KeyOf,      \* the stream key of each source
    LoadKey,    \* the stream keys a loaded buffer may have
    Secs,       \* the buffer lengths that may be configured (0: unlimited)
    Client,     \* listeners
    Offset,     \* the offsets a listener may ask for
    Burst,      \* how much a listener may ask to be pumped at once, 0 for nothing
    Skew,       \* how far the clock of a source may fall back
    MaxTs,      \* bound on the timestamps
    None

ASSUME RewindAssumption ==
    /\ KeyOf \in [Source -> Key]
    /\ LoadKey \subseteq Key
    /\ Secs \subseteq Nat
    /\ Offset \subseteq Int
    /\ Burst \subseteq Nat
    /\ Skew \in Nat
    /\ MaxTs \in Nat
    /\ None \notin Source \cup Key

VARIABLES
    buffer,     \* @_rbuffer.buffer
    key,        \* @_rstreamKey
    secs,       \* @_rsecs
    rsource,    \* @_rsource, the source it is hooked to
    connecting, \* the source whose vitals it waits for, or None
    used,       \* the sources it was handed
    now,        \* the timestamp of the newest chunk any source sent
    missed,     \* timestamps of live chunks sent while no source was hooked
    load,       \* "none" before a load, then its key and next timestamp; 0: ended
    offset,     \* _offset of each client in @_rlisteners, -1 if it is not there
    pumped,     \* what a client was handed when it was created
    heard,      \* what it was handed by live chunks
    crashed,    \* _insert was handed undefined and threw
    steady      \* (history) clocks ran on, and the stream key and the length stayed

source == <<rsource, connecting, used>>
clients == <<offset, pumped, heard>>
vars == <<buffer, key, secs, source, now, missed, load, clients, crashed, steady>>

Time == 1 .. MaxTs
Chunk == [ts : Time, key : Key]

\* @max_length: set once the length of a chunk is known
Max == IF key = None THEN 0 ELSE secs

Init ==
    /\ buffer = <<>>
    /\ key = None
    /\ secs \in Secs
    /\ rsource = None /\ connecting = None /\ used = {}
    /\ now = 0
    /\ missed = {}
    /\ load = [state |-> "none", key |-> None, next |-> 0]
    /\ offset = [c \in Client |-> -1]
    /\ pumped = [c \in Client |-> <<>>]
    /\ heard = [c \in Client |-> <<>>]
    /\ crashed = FALSE
    /\ steady = TRUE

----------------------------------------------------------------------------
(* Source and settings *)

\* MUTANT: the buffer is wiped whatever the stream key was.
RChunkLength_Wipes(k) ==
    /\ key' = k
    /\ buffer' = IF key # None THEN <<>> ELSE Truncate(buffer, secs)
    /\ steady' = (steady /\ key \in {None, k})

\* _rChunkLength: a first stream key fixes the maximum; another one than
\* before wipes the buffer.
RChunkLength(k) ==
    /\ key' = k
    /\ buffer' = IF key # None /\ key # k THEN <<>>
                 ELSE IF key = None THEN Truncate(buffer, secs) ELSE buffer
    /\ steady' = (steady /\ key \in {None, k})

\* _rConnectSource up to the vitals: the old source is let go.  Its callers hand
\* over a source once, and the next one after the vitals of the last have come.
ConnectSource(s) ==
    /\ ~crashed
    /\ connecting = None
    /\ s \notin used
    /\ used' = used \cup {s}
    /\ connecting' = s
    /\ rsource' = None
    /\ UNCHANGED <<buffer, key, secs, now, missed, load, clients, crashed, steady>>

\* The vitals callback of _rConnectSource.
SourceVitals ==
    /\ ~crashed
    /\ connecting # None
    /\ RChunkLength(KeyOf[connecting])
    /\ rsource' = connecting
    /\ connecting' = None
    /\ UNCHANGED <<secs, used, now, missed, load, clients, crashed>>

\* setRewind
SetRewind(n) ==
    /\ ~crashed
    /\ secs' = n
    /\ buffer' = Truncate(buffer, IF key = None THEN 0 ELSE n)
    /\ steady' = (steady /\ n = secs)
    /\ UNCHANGED <<key, source, now, missed, load, clients, crashed>>

----------------------------------------------------------------------------
(* Chunks *)

\* MUTANT: listeners get nothing while a buffer is loading.
RData_NotLoading(c) ==
    LET buf == Insert(buffer, c, Max)
        on == {l \in Client : offset[l] >= 0 /\ load.state # "loading"}
    IN  /\ buffer' = buf
        /\ heard' = [l \in Client |->
                        IF l \in on THEN Append(heard[l], At(buf, offset[l])) ELSE heard[l]]
        /\ crashed' = (\E l \in on : At(buf, offset[l]) = Nothing)

\* _rdataFunc: insert, then hand every listener the chunk at its offset.
RData(c) ==
    LET buf == Insert(buffer, c, Max)
        on == {l \in Client : offset[l] >= 0}
    IN  /\ buffer' = buf
        /\ heard' = [l \in Client |->
                        IF l \in on THEN Append(heard[l], At(buf, offset[l])) ELSE heard[l]]
        /\ crashed' = (\E l \in on : At(buf, offset[l]) = Nothing)

\* A live chunk of the hooked source.  After a change of sources its clock may
\* be behind what the last one sent.
Live ==
    /\ ~crashed
    /\ rsource # None
    /\ \E ts \in (now + 1 - Skew) .. (now + 1) :
            /\ ts \in Time
            /\ RData([ts |-> ts, key |-> KeyOf[rsource]])
            /\ now' = IF ts > now THEN ts ELSE now
            /\ steady' = (steady /\ ts > now)
    /\ UNCHANGED <<key, secs, source, missed, load, offset, pumped>>

\* A chunk goes by while no source is hooked.
Miss ==
    /\ ~crashed
    /\ rsource = None
    /\ now < MaxTs
    /\ now' = now + 1
    /\ missed' = missed \cup {now + 1}
    /\ UNCHANGED <<buffer, key, secs, source, load, clients, crashed, steady>>

\* loadBuffer reads the header: chunks of stream key k up to some moment.  A
\* load is asked for once, before any source or when the first one connects.
LoadHeader(k, from) ==
    /\ ~crashed
    /\ load.state = "none"
    /\ \A s, t \in used : s = t
    /\ load' = [state |-> "loading", key |-> k, next |-> from]
    /\ RChunkLength(k)
    /\ UNCHANGED <<secs, source, now, missed, clients, crashed>>

\* loadBuffer reads the next older chunk.
LoadChunk ==
    /\ ~crashed
    /\ load.state = "loading" /\ load.next > 0
    /\ buffer' = Insert(buffer, [ts |-> load.next, key |-> load.key], Max)
    /\ load' = [load EXCEPT !.next = @ - 1]
    /\ UNCHANGED <<key, secs, source, now, missed, clients, crashed, steady>>

\* The loaded stream ends, possibly early.
LoadEnd ==
    /\ ~crashed
    /\ load.state = "loading"
    /\ load' = [load EXCEPT !.state = "ended"]
    /\ UNCHANGED <<buffer, key, secs, source, now, missed, clients, crashed, steady>>

----------------------------------------------------------------------------
(* Listeners *)

\* checkOffset
CheckOffset(o) ==
    CASE o < 0 -> 0
      [] o >= 0 /\ o <= Len(buffer) -> o
      [] OTHER -> Len(buffer) - 1

\* pumpFrom
PumpFrom(o, length) == IF o = 0 \/ length = 0 THEN <<>> ELSE Span(buffer, o, length)

\* pumpSeconds: what it hands over when asked for n seconds
PumpSeconds(n) == LET f == CheckOffset(n) IN PumpFrom(f, f)

\* MUTANT: the listener stays at the offset its burst started from.
BurstFrom_Stays(o, n) ==
    LET b == CheckOffset(n)
    IN  IF o > b THEN [chunks |-> PumpFrom(o, b), offset |-> o]
                 ELSE [chunks |-> PumpFrom(o, o), offset |-> o]

\* burstFrom: what it hands over, and the offset it leaves the listener at
BurstFrom(o, n) ==
    LET b == CheckOffset(n)
    IN  IF o > b THEN [chunks |-> PumpFrom(o, b), offset |-> o - b]
                 ELSE [chunks |-> PumpFrom(o, o), offset |-> 0]

\* getRewinder, which creates the Rewinder and adds it to the listeners (an
\* offset of -1, given out by an empty buffer, keeps it off the list).
GetRewinder(c, ask, burst) ==
    /\ ~crashed
    /\ offset[c] = -1 /\ heard[c] = <<>> /\ pumped[c] = <<>>
    /\ LET o == IF ask = 0 THEN 0 ELSE CheckOffset(ask)
           start == CASE burst = 0 -> [chunks |-> <<>>, offset |-> o]
                      [] burst > 0 /\ o = 0 -> [chunks |-> PumpSeconds(burst), offset |-> 0]
                      [] OTHER -> BurstFrom(o, burst)
       IN  /\ offset' = [offset EXCEPT ![c] = start.offset]
           /\ pumped' = [pumped EXCEPT ![c] = start.chunks]
    /\ UNCHANGED <<buffer, key, secs, source, now, missed, load, heard, crashed, steady>>

\* A client that only wants to be pumped gets its chunks and is never listed.
PumpOnly(c, ask, burst) ==
    /\ ~crashed
    /\ offset[c] = -1 /\ heard[c] = <<>> /\ pumped[c] = <<>>
    /\ LET o == IF ask = 0 THEN 0 ELSE CheckOffset(ask)
       IN  pumped' = [pumped EXCEPT ![c] = PumpFrom(o, burst)]
    /\ UNCHANGED <<buffer, key, secs, source, now, missed, load, offset, heard, crashed, steady>>

\* disconnect of a Rewinder
Disconnect(c) ==
    /\ ~crashed
    /\ offset[c] >= 0
    /\ offset' = [offset EXCEPT ![c] = -1]
    /\ UNCHANGED <<buffer, key, secs, source, now, missed, load, pumped, heard, crashed, steady>>

Next ==
    \/ \E s \in Source : ConnectSource(s)
    \/ SourceVitals
    \/ \E n \in Secs : SetRewind(n)
    \/ Live
    \/ Miss
    \/ \E k \in LoadKey, from \in 0 .. now : LoadHeader(k, from)
    \/ LoadChunk
    \/ LoadEnd
    \/ \E c \in Client, ask \in Offset, burst \in Burst : GetRewinder(c, ask, burst)
    \/ \E c \in Client, ask \in Offset, burst \in Burst : PumpOnly(c, ask, burst)
    \/ \E c \in Client : Disconnect(c)

Spec == Init /\ [][Next]_vars

----------------------------------------------------------------------------
(* Properties *)

TypeOK ==
    /\ buffer \in Seq(Chunk)
    /\ key \in Key \cup {None}
    /\ secs \in Secs
    /\ rsource \in Source \cup {None}
    /\ connecting \in Source \cup {None}
    /\ used \in SUBSET Source
    /\ now \in 0 .. MaxTs
    /\ missed \in SUBSET Time
    /\ load \in [state : {"none", "loading", "ended"}, key : Key \cup {None}, next : 0 .. MaxTs]
    /\ offset \in [Client -> Int]
    /\ pumped \in [Client -> Seq(Chunk)]
    /\ heard \in [Client -> Seq(Chunk \cup {Nothing})]
    /\ crashed \in BOOLEAN
    /\ steady \in BOOLEAN

\* Whatever order live and loaded chunks come in, with clocks that fall back,
\* resets and changes of the length between them, the buffer is ordered by
\* timestamp and holds none twice: the binary search and every offset rely on it.
Ordered ==
    \A i, j \in 1 .. Len(buffer) : i < j => buffer[i].ts < buffer[j].ts

\* The buffer keeps to the configured length, however it was filled.
Bounded == key # None /\ secs > 0 => Len(buffer) <= secs

\* The store's shape, however live and loaded chunks, resets and changes of the
\* length are mixed (insert, _truncate, setMax).
InShape == Ordered /\ Bounded

\* Nothing is absent between the oldest and the newest chunk but what came by
\* while no source was hooked: a load that runs beside live chunks leaves no hole
\* of its own.
NoHole ==
    buffer # <<>> =>
        \A ts \in Oldest(buffer).ts .. Newest(buffer).ts :
            ts \in missed \/ \E i \in 1 .. Len(buffer) : buffer[i].ts = ts

\* A listener is never handed a chunk again, nor an older one than before,
\* from its burst on.
NoReplay ==
    \A c \in Client :
        LET all == pumped[c] \o heard[c]
        IN  \A i \in 1 .. Len(all) - 1 : all[i].ts < all[i + 1].ts

\* The times between two chunks that were not missed
Passed(a, b) == {ts \in (a.ts + 1) .. (b.ts - 1) : ts \notin missed}

\* From its burst on a listener is handed the next chunk of the stream: it skips only
\* what nobody received, and one more chunk between its burst and the live feed, the
\* one behind its burst (range leaves out the newest chunk, the next live one is
\* handed on from the place after it).
NoSkip ==
    \A c \in Client :
        LET all == pumped[c] \o heard[c]
        IN  \A i \in 1 .. Len(all) - 1 :
                \/ Passed(all[i], all[i + 1]) = {}
                \/ i = Len(pumped[c]) /\ \E ts \in Time : Passed(all[i], all[i + 1]) = {ts}

\* As long as clocks ran on and neither the stream key nor the length changed, a
\* buffer has no hole, and from its burst on a listener hears the stream in order,
\* nothing twice, and all of it but the one chunk where its burst ends (insert,
\* burstFrom, the handler of the source's data).  A listener that was handed
\* undefined hears nothing more (NoUndefined).
HearsAllOnce == steady /\ ~crashed => NoHole /\ NoReplay /\ NoSkip

\* A chunk leaves the buffer only because it is full, shortened or wiped for
\* another stream key: the newest one never goes.
NewestStays ==
    [][buffer # <<>> /\ key' = key
            => buffer' # <<>> /\ Newest(buffer').ts >= Newest(buffer).ts]_vars

----------------------------------------------------------------------------
(* The store against reference definitions, for every buffer there is *)

\* A second is three units here, and a chunk may last for less than its second.
Unit == 3

Lasting(d) == [i \in 1 .. Len(buffer) |-> [ts |-> Unit * buffer[i].ts, duration |-> d[i]]]

\* How far a time is from a chunk
Distance(c, t) ==
    CASE t < c.ts -> c.ts - t
      [] t >= c.ts + c.duration -> t - (c.ts + c.duration)
      [] OTHER -> 0

\* A search of buf by time finds a chunk no other is nearer to.
IsNearest(buf, t) ==
    LET o == FindTimestampOffset(buf, t)
        c == buf[Len(buf) - o]
    IN  /\ o \in 0 .. (Len(buf) - 1)
        /\ \A i \in 1 .. Len(buf) : Distance(c, t) <= Distance(buf[i], t)

\* The search by timestamp (HLS segments are cut out of the buffer with it)
\* finds the nearest chunk for every time up to the end of the newest chunk and
\* whatever gaps there are.
FindsNearest ==
    buffer # <<>> =>
        \A d \in [1 .. Len(buffer) -> {1, Unit}] :
            LET buf == Lasting(d)
            IN  \A t \in 0 .. (Newest(buf).ts + Newest(buf).duration - 1) : IsNearest(buf, t)

\* What loading buf, newest chunk first, makes of a store
Loaded(store, buf, max) ==
    LET after[i \in 0 .. Len(buf)] ==
            IF i = 0 THEN store ELSE Insert(after[i - 1], buf[Len(buf) + 1 - i], max)
    IN  after[Len(buf)]

\* A dump, newest chunk first, loaded into a store of any maximum leaves the
\* newest chunks there in order, whichever live chunks had come in before.
RestoresDump ==
    \A max \in 0 .. MaxTs, live \in 0 .. Len(buffer) :
        LET before == SubSeq(buffer, Len(buffer) - live + 1, Len(buffer))
        IN  Loaded(Truncate(before, max), buffer, max) = Truncate(buffer, max)

----------------------------------------------------------------------------
(* What the code's own words say and the runs refute *)

\* rewinder.coffee: "This shouldn't happen...", a chunk shifted off a
\* listener's queue that is not there.
NoUndefined == ~crashed

\* rewind_buffer.coffee, pumpSeconds: "pump the most recent X seconds".  A client that
\* is pumped the last n chunks gets them up to the newest one.
PumpsMostRecent ==
    \A n \in 1 .. Len(buffer) - 1 :
        PumpSeconds(n) = SubSeq(buffer, Len(buffer) - n + 1, Len(buffer))

\* rewind_buffer.coffee, _rChunkLength: "we're reconnecting, but didn't match
\* rate...  we should wipe out the old buffer".
OneKey == \A i \in 1 .. Len(buffer) : buffer[i].key = key
=============================================================================

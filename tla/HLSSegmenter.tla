---------------------------- MODULE HLSSegmenter ---------------------------
(***************************************************************************)
(* The segmenter of a rewind buffer (rewind/hls_segmenter.coffee): chunks  *)
(* come in forward from the source and, after a restart, backward from a   *)
(* dump.  The injector collects the chunks of a window of time and pushes  *)
(* a segment when the chunks leave its window; the finalizer numbers the   *)
(* segments, from the dump's map if it has them, and keeps the list.       *)
(*                                                                         *)
(* Chunks last one unit of time and are named by it; a segment object is   *)
(* named by its window, since every life of the process makes at most one. *)
(* What the injector pushes is written to the finalizer at once, or waits  *)
(* for it to be created.                                                   *)
(***************************************************************************)
EXTENDS Integers, Sequences, FiniteSets, SequencesExt, FiniteSetsExt

CONSTANTS
    Length,         \* segment_length, in chunks
    Tolerance,      \* how late the audio of a segment may begin in its window
    MaxPTS,         \* MAX_PTS, in chunks
    Capacity,       \* chunks the rewind buffer holds
    HeaderTime,     \* the longest until the header of a dump is read
    MaxTime,        \* bound on time
    MaxRestart,     \* bound on restarts
    Unset

ASSUME SegmenterAssumption ==
    /\ Length \in Nat \ {0} /\ MaxPTS \in Nat /\ MaxPTS > Length
    /\ Tolerance \in Nat /\ Capacity \in Nat \ {0}
    /\ HeaderTime \in Nat
    /\ MaxTime \in Nat /\ MaxRestart \in Nat
    /\ Unset \notin Int /\ \A S \in SUBSET (0 .. MaxTime) : S # Unset

VARIABLES
    now,        \* when the next chunk of the source begins
    chunks,     \* the rewind buffer's
    audio,      \* the chunks put into each window's segment
    first,      \* the injector's first_seg, by its window
    last,       \* and its last_seg
    queue,      \* segments pushed while there is no finalizer
    fin,        \* the finalizer, with what became of the segments written to it
    toLoad,     \* chunks of the dump that are not loaded; Unset without a load
    header,     \* the dump's header while it is unread, or Unset
    readBy,     \* when its header is read at the latest
    settling,   \* _rewindLoading
    restarts,
    dump,       \* the last dump that was written: chunks, the finalizer's map,
                \* and what the history below had of it
    astray,     \* (history) a map was loaded that has a segment under another time than
                \* the begin of its window
    crowded,    \* (history) a chunk of the source made another go during a load
    group,      \* "none", or a group, whose minimum other bitrates may have "moved"
    listed      \* (history) what was ever listed: number, window, PTS

segmenter == <<audio, first, last, queue, fin>>
loading == <<toLoad, header, readBy, settling>>
lives == <<restarts, dump, astray, crowded>>
segmenterVars == <<now, chunks, segmenter, loading, lives, group, listed>>

Window == 0 .. (MaxTime \div Length)
Of(t) == t \div Length          \* the window of a chunk
Start(w) == w * Length
End(w) == w * Length + Length

NoMap == <<>>                   \* a function with an empty domain

\* Without a map the numbers begin at 0.  Of the map's nextSegment, a date, JSON makes
\* a string and Number(...) NaN, which counts as unset: it has no part in what follows.
Finalizer(map) ==
    [seq |-> IF map = Unset THEN 0 ELSE map.seq,
     dseq |-> IF map = Unset THEN 0 ELSE map.dseq,
     dseqR |-> IF map = Unset THEN 0 ELSE map.dseq,
     pts |-> IF map = Unset THEN 0 ELSE IF map.pts = 0 THEN map.seq * Length ELSE map.pts,
     map |-> IF map = Unset THEN NoMap ELSE map.ids,
     min |-> Unset,
     list |-> <<>>,
     spent |-> {},              \* windows whose segments have lost their buffers
     dropped |-> {},            \* windows thrown out for want of a number
     failed |-> FALSE]          \* a segment's buffers were needed and gone

DumpMap(f) ==
    [seq |-> f.seq, dseq |-> f.dseq, pts |-> f.pts,
     ids |-> [ts \in {s.ts : s \in ToSet(f.list)} |->
                 (CHOOSE s \in ToSet(f.list) : s.ts = ts).id]]

SegmenterInit ==
    /\ now = Length
    /\ chunks = {}
    /\ audio = [w \in Window |-> {}]
    /\ first = Unset /\ last = Unset
    /\ queue = <<>>
    /\ fin = Unset
    /\ toLoad = Unset /\ header = Unset /\ readBy = 0 /\ settling = FALSE
    /\ restarts = 0 /\ astray = FALSE /\ crowded = FALSE
    /\ dump = [chunks |-> {}, map |-> Unset, listed |-> {}, astray |-> FALSE]
    /\ group \in {"none", "own"}
    /\ listed = {}

----------------------------------------------------------------------------
(* The finalizer *)

\* expire: segments at the front go as long as they begin at ts or before.
Expired(list, ts) == {i \in 1 .. Len(list) : \A j \in 1 .. i : list[j].ts <= ts}
Expire(f, ts) == [f EXCEPT !.list = SubSeq(@, Cardinality(Expired(@, ts)) + 1, Len(@))]

\* MUTANT: 0 is no number.
Numbered_NotZero(f, w) == Start(w) \in DOMAIN f.map /\ f.map[Start(w)] # 0

Numbered(f, w) == Start(w) \in DOMAIN f.map

\* A segment the map numbers is kept unless it ends before the minimum.
BelowMin(f, w) == f.min # Unset /\ End(w) < f.min

\* MUTANT: one without a number is kept anywhere.
After_Anywhere(f, w) == TRUE

\* One without a number is kept after all others.
After(f, w) == f.list = <<>> \/ Start(w) > Last(f.list).ts

\* What is finalized of window w's segment: its begin is that of its audio if that
\* comes late in the window.
Timed(w, parts) ==
    LET begin == Min(parts)
    IN  [w |-> w, end |-> End(w), dur |-> Cardinality(parts),
         ts |-> IF begin - Start(w) > Tolerance THEN begin ELSE Start(w)]

Listed(s, id, dseq, pts) ==
    [w |-> s.w, ts |-> s.ts, end |-> s.end, dur |-> s.dur, id |-> id, dseq |-> dseq, pts |-> pts]

\* MUTANT: rolls over without carrying the rest.
Rolled_ToZero(pts) == IF pts > MaxPTS THEN 0 ELSE pts

Rolled(pts) == IF pts > MaxPTS THEN pts - MaxPTS ELSE pts

\* MUTANT: a segment at the end is compared to the first one.
Forward_Gap(f, s, id) ==
    LET dseq == IF f.list = <<>> \/ s.ts = Head(f.list).end THEN f.dseq ELSE f.dseq + 1
    IN  [f EXCEPT !.dseq = dseq, !.pts = Rolled(f.pts + s.dur),
                  !.list = Append(@, Listed(s, id, dseq, f.pts))]

\* A segment at the end: a gap before it is a discontinuity.
Forward(f, s, id) ==
    LET dseq == IF f.list = <<>> \/ s.ts = Last(f.list).end THEN f.dseq ELSE f.dseq + 1
    IN  [f EXCEPT !.dseq = dseq, !.pts = Rolled(f.pts + s.dur),
                  !.list = Append(@, Listed(s, id, dseq, f.pts))]

\* A segment at the front: a gap after it is one.
Backward(f, s, id) ==
    LET head == Head(f.list)
        dseq == IF s.end = head.ts THEN f.dseqR ELSE f.dseqR - 1
        pts == IF head.pts > s.dur THEN head.pts - s.dur ELSE MaxPTS - s.dur + head.pts
    IN  [f EXCEPT !.dseqR = dseq, !.list = <<Listed(s, id, dseq, pts)>> \o @]

\* _write of the segment of window w, whose chunks are parts.  A segment that fits
\* neither end is not listed, but numbered.
Write(f, w, parts) ==
    CASE Numbered(f, w) /\ BelowMin(f, w) -> f
      [] ~Numbered(f, w) /\ ~After(f, w) -> [f EXCEPT !.dropped = @ \cup ({w} \ f.spent)]
      [] w \in f.spent /\ (Numbered(f, w) \/ After(f, w)) -> [f EXCEPT !.failed = TRUE]
      [] OTHER ->
            LET s == Timed(w, parts)
                id == IF Numbered(f, w) THEN f.map[Start(w)] ELSE f.seq
                g == [f EXCEPT !.seq = IF Numbered(f, w) THEN @ ELSE @ + 1,
                               !.spent = @ \cup {w}]
            IN  CASE f.list = <<>> \/ s.ts > Last(f.list).ts -> Forward(g, s, id)
                  [] f.list # <<>> /\ s.ts < Head(f.list).ts -> Backward(g, s, id)
                  [] OTHER -> g

\* The segments pushed, in order, with the audio they hold
WriteAll(f, pushed, held) ==
    LET written[n \in 0 .. Len(pushed)] ==
            IF n = 0 THEN f ELSE Write(written[n - 1], pushed[n], held[pushed[n]])
    IN  written[Len(pushed)]

----------------------------------------------------------------------------
(* The injector *)

\* What _transform makes of the injector's segments for a chunk, and what it pushes.
\* The first segment is held until a chunk goes behind it.
Injected(t) ==
    LET w == Of(t)
    IN  CASE w \in {first, last} -> [first |-> first, last |-> last, push |-> <<>>]
          [] last = Unset -> [first |-> Unset, last |-> w, push |-> <<>>]
          [] last # Unset /\ w > last ->
                IF first = Unset THEN [first |-> last, last |-> w, push |-> <<>>]
                ELSE [first |-> first, last |-> w, push |-> <<last>>]
          [] OTHER -> [first |-> w, last |-> last, push |-> IF first = Unset THEN <<>> ELSE <<first>>]

\* What is pushed goes to the finalizer, if there is one.
Pushed(pushed, held) ==
    IF fin = Unset THEN queue' = queue \o pushed /\ UNCHANGED fin
    ELSE fin' = WriteAll(fin, pushed, held) /\ UNCHANGED queue

\* The group's minimum follows the first segment of the list after a removal, and
\* comes back to it as a minimum.
Synced(f, removed) ==
    IF group # "none" /\ removed /\ ~settling /\ f.list # <<>> /\ (f.min = Unset \/ Head(f.list).ts > f.min)
    THEN [f EXCEPT !.min = Head(f.list).ts] ELSE f

\* A chunk the buffer takes is written to the injector; the chunk it then removes
\* expires segments.
Insert(t) ==
    LET taken == chunks = {} \/ t > Max(chunks) \/ t < Min(chunks)
        all == IF taken THEN chunks \cup {t} ELSE chunks
        over == Cardinality(all) > Capacity
        in == Injected(t)
        held == [audio EXCEPT ![Of(t)] = @ \cup {t}]
        f == WriteAll(fin, in.push, held)
        g == IF Of(t) \in f.spent /\ Of(t) \in {first, last} THEN [f EXCEPT !.failed = TRUE] ELSE f
        e == IF over THEN Synced(Expire(g, Min(all)), Expire(g, Min(all)).list # g.list) ELSE g
    IN  /\ chunks' = IF over THEN all \ {Min(all)} ELSE all
        /\ IF taken
           THEN /\ audio' = held
                /\ first' = in.first /\ last' = in.last
                /\ IF fin = Unset THEN queue' = queue \o in.push /\ UNCHANGED fin
                   ELSE fin' = e /\ UNCHANGED queue
           ELSE UNCHANGED segmenter

\* The history of what is listed, as long as no other bitrate has a say
Record ==
    listed' = listed \cup (IF fin' = Unset \/ group = "moved" THEN {}
                           ELSE {<<s.id, s.w, s.pts>> : s \in ToSet(fin'.list)})

Alive == fin # Unset => ~fin.failed

----------------------------------------------------------------------------
(* Steps *)

Passing == now < MaxTime /\ (header # Unset => now < readBy)

\* The source delivers a chunk,
Chunk ==
    /\ Alive /\ Passing
    /\ now' = now + 1
    /\ Insert(now)
    /\ crowded' = (crowded \/ (toLoad # Unset /\ Cardinality(chunks \cup {now}) > Capacity))
    /\ Record
    /\ UNCHANGED <<loading, restarts, dump, astray, group>>

\* or is silent.
Silence ==
    /\ Alive /\ Passing
    /\ now' = now + 1
    /\ UNCHANGED <<chunks, segmenter, loading, lives, group, listed>>

\* _createFinalizer, the first time
Create(map) ==
    /\ fin = Unset
    /\ fin' = WriteAll(Finalizer(map), queue, audio)
    /\ queue' = <<>>
    /\ UNCHANGED <<audio, first, last>>

\* A segment was pushed and the wait for a map is over.
NoMapCame ==
    /\ queue # <<>>
    /\ Create(Unset)
    /\ Record
    /\ UNCHANGED <<now, chunks, loading, lives, group>>

\* The dump's header is read: it comes first.
LoadHeader ==
    /\ Alive /\ header # Unset
    /\ header' = Unset
    /\ IF header.map # Unset /\ fin = Unset THEN Create(header.map) ELSE UNCHANGED segmenter
    /\ Record
    /\ UNCHANGED <<now, chunks, toLoad, readBy, settling, lives, group>>

\* Its chunks follow, the newest first.
LoadChunk ==
    /\ Alive /\ header = Unset /\ toLoad # Unset
    /\ \E t \in toLoad :
        /\ \A u \in toLoad : u <= t
        /\ toLoad' = toLoad \ {t}
        /\ Insert(t)
    /\ Record
    /\ UNCHANGED <<now, header, readBy, settling, lives, group>>

Complete(w) == w # Unset /\ Cardinality(audio[w]) >= Length

\* _flush
Flush == (IF Complete(first) THEN <<first>> ELSE <<>>) \o (IF Complete(last) THEN <<last>> ELSE <<>>)

\* The load is over.
Loaded ==
    /\ Alive /\ header = Unset
    /\ toLoad = {}
    /\ toLoad' = Unset
    /\ Pushed(Flush, audio)
    /\ Record
    /\ UNCHANGED <<now, chunks, audio, first, last, header, readBy, settling, lives, group>>

\* The snapshot after a load: the group learns of the first segment.
Settle ==
    /\ Alive /\ settling /\ toLoad = Unset
    /\ settling' = FALSE
    /\ fin # Unset
    /\ fin' = IF group # "none" /\ fin.list # <<>> /\ (fin.min = Unset \/ Head(fin.list).ts > fin.min)
              THEN [fin EXCEPT !.min = Head(fin.list).ts] ELSE fin
    /\ UNCHANGED <<now, chunks, audio, first, last, queue, toLoad, header, readBy, lives, group, listed>>

\* Another bitrate of the group moves the minimum to the begin of one of its segments.
GroupMin ==
    /\ Alive /\ group # "none" /\ fin # Unset
    /\ group' = "moved"
    /\ \E w \in Window :
           /\ Start(w) < now
           /\ fin.min # Unset => Start(w) > fin.min
           /\ LET f == Expire([fin EXCEPT !.min = Start(w)], Start(w) - 1)
              IN  fin' = Synced(f, f.list # fin.list)
    /\ UNCHANGED <<now, chunks, audio, first, last, queue, loading, lives, listed>>

\* A map that has a segment under the begin of its audio, where no window begins
Misplaced(map) == map # Unset /\ \E ts \in DOMAIN map.ids : Start(Of(ts)) # ts

\* The buffer is dumped: from time to time, or for the process that takes over.
Dump ==
    /\ Alive /\ toLoad = Unset /\ restarts < MaxRestart
    /\ LET map == IF fin = Unset THEN Unset ELSE DumpMap(fin)
       IN  dump' = [chunks |-> chunks, map |-> map, listed |-> listed,
                    astray |-> astray \/ Misplaced(map)]
    /\ UNCHANGED <<now, chunks, segmenter, loading, restarts, astray, crowded, group, listed>>

\* The process ends, and a new one loads the last dump: the numbers given since are
\* given anew.
Restart ==
    /\ restarts < MaxRestart
    /\ restarts' = restarts + 1
    /\ toLoad' = dump.chunks
    /\ header' = IF dump.chunks = {} THEN Unset ELSE [map |-> dump.map]
    /\ readBy' = now + HeaderTime
    /\ settling' = TRUE
    /\ chunks' = {}
    /\ audio' = [w \in Window |-> {}]
    /\ first' = Unset /\ last' = Unset
    /\ queue' = <<>>
    /\ fin' = Unset
    /\ listed' = dump.listed /\ astray' = dump.astray
    /\ UNCHANGED <<now, dump, crowded, group>>

SegmenterNext ==
    \/ Chunk \/ Silence \/ NoMapCame \/ GroupMin
    \/ LoadHeader \/ LoadChunk \/ Loaded \/ Settle
    \/ Dump \/ Restart

SegmenterSpec == SegmenterInit /\ [][SegmenterNext]_segmenterVars

----------------------------------------------------------------------------
(* Properties *)

List == IF fin = Unset THEN <<>> ELSE fin.list

\* The types.  The injector's segments are in order and the finalizer's list has what
\* was written to it.
SegmenterTypeOK ==
    /\ now \in Length .. MaxTime
    /\ chunks \subseteq 0 .. MaxTime /\ Cardinality(chunks) <= Capacity
    /\ audio \in [Window -> SUBSET (0 .. MaxTime)]
    /\ last = Unset => first = Unset
    /\ first # Unset => first \in Window /\ last \in Window /\ first < last
    /\ fin = Unset \/ {s.w : s \in ToSet(fin.list)} \subseteq fin.spent
    /\ restarts \in 0 .. MaxRestart
    /\ group \in {"none", "own", "moved"}

\* The playlist counts from the number of its first segment: numbers go up by one
\* and segments follow each other in time, whatever was loaded, discarded or lost.
\* Three things are excepted, for the code breaks it then: another bitrate has moved the
\* minimum, a map was loaded with a segment that began late, and chunks have gone from a
\* full buffer while it was loading.
NumberingIntact ==
    group # "moved" /\ ~astray /\ ~crowded => \A i \in 1 .. Len(List) - 1 :
        List[i + 1].id = List[i].id + 1 /\ List[i + 1].ts >= List[i].end

\* A number names one segment for good and a segment keeps its number, over restarts too.
NumbersKept ==
    group # "moved" /\ ~astray /\ ~crowded => \A a, b \in listed : a[1] = b[1] <=> a[2] = b[2]

\* What a player relies on: both, over late segments, restarts from a dump of any age and
\* loads of any length (Finalizer._write, dumpMap).
NumbersHold == NumberingIntact /\ NumbersKept

\* The discontinuity sequence goes up exactly where a segment does not begin with the
\* end of the window before it (lines 390-428), whichever end segments were added at:
\* where windows are without audio, and where audio begins late.  Where audio ends
\* early is not seen (GapsAreTold).
DiscontinuityAtGaps == ~crowded =>
    \A i \in 1 .. Len(List) - 1 :
        List[i + 1].dseq = List[i].dseq + (IF List[i + 1].ts = List[i].end THEN 0 ELSE 1)

\* From one segment to the next the PTS goes on by the duration, modulo the roll-over,
\* whichever end they were added at.
PTSAddsUp ==
    \A i \in 1 .. Len(List) - 1 : (List[i + 1].pts - List[i].pts - List[i].dur) % MaxPTS = 0

\* "We don't need the actual data any more": no segment that was finalized is written
\* to again.
DataNotNeeded == Alive

\* "creates a discontinuity when given a gap": where the audio of a listed segment ends
\* too early in its window, the next one is a discontinuity.
GapsAreTold ==
    \A i \in 1 .. Len(List) - 1 :
        End(List[i].w) - (Max(audio[List[i].w]) + 1) > Tolerance =>
            List[i + 1].dseq > List[i].dseq

\* "We're checking to make sure that our snapshot numbering is intact": numbers go up by
\* one after the load of a map in which a segment began late,
NumbersFollow == \A i \in 1 .. Len(List) - 1 : List[i + 1].id = List[i].id + 1
IntactAfterLate == group # "moved" /\ ~crowded => NumbersFollow

\* and after a load during which chunks went from the buffer.
IntactAfterCrowding == group # "moved" /\ ~astray => NumbersFollow

\* "We shouldn't get here if it isn't": no segment without a number comes before one
\* that is listed.
NoneOutOfPlace == fin # Unset => fin.dropped = {}

\* "Both RewindBuffers should have the correct first segment": none is listed from
\* below the group's minimum.
NoneBelowMin == fin # Unset /\ fin.min # Unset => \A s \in ToSet(List) : s.ts >= fin.min

\* "For forward-facing segments, PTS is fetched from the finalizer": a segment that
\* was listed before a restart keeps its PTS.
PTSKept == \A a, b \in listed : a[2] = b[2] => a[3] = b[3]
=============================================================================

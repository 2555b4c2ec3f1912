---------------------------- MODULE MemoryStore ----------------------------
(***************************************************************************)
(* The store of a rewind buffer (rewind/memory_store.coffee): a sequence   *)
(* of chunks, oldest first, addressed by the offset from the newest one.   *)
(* Chunks are records with a timestamp ts and, where a search by time      *)
(* needs it, a duration.                                                   *)
(***************************************************************************)
EXTENDS Integers, Sequences

CONSTANT Nothing    \* JavaScript's undefined: no chunk at that place

Oldest(buf) == buf[1]
Newest(buf) == buf[Len(buf)]

\* MUTANT: drops one chunk too few.
Truncate_OneOver(buf, max) ==
    IF max > 0 /\ Len(buf) > max + 1 THEN SubSeq(buf, Len(buf) - max, Len(buf)) ELSE buf

\* _truncate: the oldest go until the maximum holds; a maximum of 0 is none.
Truncate(buf, max) ==
    IF max > 0 /\ Len(buf) > max
    THEN SubSeq(buf, Len(buf) - max + 1, Len(buf))
    ELSE buf

\* MUTANT: a chunk that is not newer than the last goes in front.
Insert_AnyOlder(buf, c, max) ==
    Truncate(IF buf = <<>> \/ c.ts > Newest(buf).ts THEN Append(buf, c) ELSE <<c>> \o buf, max)

\* MUTANT: a chunk that is older than all is dropped.
Insert_OnlyForward(buf, c, max) ==
    Truncate(IF buf = <<>> \/ c.ts > Newest(buf).ts THEN Append(buf, c) ELSE buf, max)

\* insert: a newer chunk goes to the end, one older than all to the front;
\* one that belongs in between, or is there already, is dropped.
Insert(buf, c, max) ==
    Truncate(IF buf = <<>> \/ c.ts > Newest(buf).ts THEN Append(buf, c)
             ELSE IF c.ts < Oldest(buf).ts THEN <<c>> \o buf
             ELSE buf,
             max)

\* How at and range read an offset: too far back means the oldest chunk.  An
\* offset equal to the length passes and points before the first chunk.
Clamp(buf, offset) ==
    CASE offset > Len(buf) -> Len(buf) - 1
      [] offset < 0 -> 0
      [] OTHER -> offset

At(buf, offset) ==
    LET i == Len(buf) - Clamp(buf, offset)
    IN  IF i \in 1 .. Len(buf) THEN buf[i] ELSE Nothing

\* JavaScript's buf.slice(from, to): negative places count from the end.
Slice(buf, from, to) ==
    LET place(i) == IF i < 0 THEN (IF Len(buf) + i < 0 THEN 0 ELSE Len(buf) + i) ELSE i
    IN  SubSeq(buf, place(from) + 1, IF place(to) > Len(buf) THEN Len(buf) ELSE place(to))

\* range: at most length chunks from the one at offset on.
Span(buf, offset, length) ==
    LET o == Clamp(buf, offset)
        n == IF length > o THEN o ELSE length
        start == Len(buf) - 1 - o
    IN  Slice(buf, start, start + n)

----------------------------------------------------------------------------
(* The search by timestamp *)

Abs(x) == IF x < 0 THEN -x ELSE x

\* The place of the first chunk that is not older than ts, as the
\* binary-search package finds it in an ordered buffer.
Place(buf, ts) ==
    CHOOSE k \in 1 .. Len(buf) + 1 :
        /\ k <= Len(buf) => buf[k].ts >= ts
        /\ \A i \in 1 .. k - 1 : buf[i].ts < ts

\* MUTANT: a time within chunk a is given to the chunk after it.
FindTimestampOffset_Next(buf, ts) ==
    LET k == Place(buf, ts)
    IN  CASE k <= Len(buf) /\ buf[k].ts = ts -> Len(buf) - k
          [] k = 1 -> Len(buf) - 1
          [] OTHER -> IF k <= Len(buf) THEN Len(buf) - k ELSE 0

\* _findTimestampOffset: the chunk with this very timestamp; else the first one
\* for a time before all; else the chunk a the time falls in, or the nearer of
\* the end of a and the start of the next.
FindTimestampOffset(buf, ts) ==
    LET k == Place(buf, ts)
    IN  CASE k <= Len(buf) /\ buf[k].ts = ts -> Len(buf) - k
          [] k = 1 -> Len(buf) - 1
          [] OTHER ->
                LET a == buf[k - 1]
                    da == Abs(a.ts + a.duration - ts)
                    db == Abs(buf[k].ts - ts)
                IN  IF a.ts <= ts /\ ts < a.ts + a.duration THEN Len(buf) - k + 1
                    ELSE IF da > db THEN Len(buf) - k ELSE Len(buf) - k + 1
=============================================================================

------------------------ MODULE SegmenterInvariants ------------------------
(***************************************************************************)
(* What holds in every state of HLSSegmenter, beyond the properties that   *)
(* are checked of it: the invariants that are inductive, and the           *)
(* conditions under which they are.  SourceMountProofs proves them.        *)
(***************************************************************************)
EXTENDS HLSSegmenter

(* The timeline *)

\* All a finalizer has
Fields(f) ==
    f = [seq |-> f.seq, dseq |-> f.dseq, dseqR |-> f.dseqR, pts |-> f.pts, map |-> f.map,
         min |-> f.min, list |-> f.list, spent |-> f.spent, dropped |-> f.dropped,
         failed |-> f.failed]

\* b is the PTS at the end of segment s, or that rolled over once.
GoesOn(s, b) == b - s.pts - s.dur \in {0, -MaxPTS}

\* Each segment of a list goes on where the one before it ended.
Timeline(list) ==
    /\ \E V : list \in Seq(V)
    /\ \A i \in 1 .. Len(list) : list[i].pts \in Int /\ list[i].dur \in Nat
    /\ \A i \in 1 .. Len(list) - 1 : GoesOn(list[i], list[i + 1].pts)

\* The segments that are listed, and the PTS the one after them will have
InTime(f) ==
    /\ Fields(f) /\ f.seq \in Nat /\ f.pts \in Int
    /\ Timeline(f.list)
    /\ f.list # <<>> => GoesOn(f.list[Len(f.list)], f.pts)

\* No chunk is newer than the run is long.
Times == 0 .. MaxTime

\* The last dump is one of such a state.
DumpInTime ==
    /\ dump.chunks \subseteq Times
    /\ dump.map # Unset => dump.map.seq \in Nat /\ dump.map.pts \in Int

\* What every step keeps, whatever the constants
SegmenterInv ==
    /\ now \in Nat /\ chunks \subseteq Times
    /\ toLoad # Unset => toLoad \subseteq Times
    /\ audio = [w \in Window |-> audio[w]] /\ \A w \in Window : IsFiniteSet(audio[w])
    /\ first # Unset => first \in Window
    /\ last # Unset => last \in Window
    /\ queue \in Seq(Window)
    /\ fin # Unset => InTime(fin)
    /\ header # Unset /\ header.map # Unset => header.map.seq \in Nat /\ header.map.pts \in Int
    /\ DumpInTime

-----------------------------------------------------------------------------
(* The discontinuities *)

\* A listed segment
Segment == [w : Window, ts : Int, end : Int, dur : Nat, id : Nat, dseq : Int, pts : Int]

\* Neighbours in q are related by R, and any two segments are in the order of their windows.
Neighbours(q, R) == \A i \in 1 .. Len(q) - 1 : <<q[i], q[i + 1]>> \in R
InOrderOfTime(q) == \A i, j \in 1 .. Len(q) : i < j => q[i].w < q[j].w

\* Types of a finalizer
Typed(f) ==
    /\ Fields(f) /\ f.seq \in Nat /\ f.dseq \in Int /\ f.dseqR \in Int /\ f.pts \in Int
    /\ DOMAIN f.map \subseteq Int /\ \A k \in DOMAIN f.map : f.map[k] \in Nat
    /\ f.min = Unset \/ f.min \in Int
    /\ f.list \in Seq(Segment) /\ f.spent \subseteq Window

\* The sequence goes up by one where a segment does not begin where the last one ended.
Gapped == {p \in Segment \X Segment :
              p[2].dseq = p[1].dseq + (IF p[2].ts = p[1].end THEN 0 ELSE 1)}

\* A finalizer whose list is in order, its discontinuities at gaps, and which has
\* taken the audio of what it lists
Consistent(f) ==
    /\ Typed(f)
    /\ InOrderOfTime(f.list) /\ Neighbours(f.list, Gapped)
    /\ \A s \in ToSet(f.list) :
          /\ s.w \in f.spent /\ s.end = End(s.w) /\ Start(s.w) <= s.ts /\ s.ts < s.end
          /\ Tolerance >= Length - 1 => s.ts = Start(s.w)
    /\ f.list # <<>> => f.list[Len(f.list)].dseq = f.dseq

\* The sequence of discontinuities kept for the front is that of the front.
Whole(f) == f.dseqR = IF f.list = <<>> THEN f.dseq ELSE f.list[1].dseq

\* A dump's header is read before a segment's worth of chunks came.
HeaderInTime == HeaderTime <= Length

\* The chunks that were pushed into a segment
All == UNION {audio[w] : w \in Window}

\* The injector's segments are in order and hold chunks of their windows; the chunks
\* that are not loaded are older than all it has.
Placed ==
    /\ last = Unset => first = Unset
    /\ last # Unset => audio[last] # {}
    /\ first # Unset => first < last /\ audio[first] # {}
    /\ \A w \in Window : \A a \in audio[w] :
          /\ a \in Nat /\ Of(a) = w /\ a < now /\ last # Unset
          /\ w = last \/ (first # Unset /\ first <= w /\ w < last)
    /\ chunks \subseteq All
    /\ toLoad # Unset => \A t \in toLoad : t \in Nat /\ t < now /\ \A a \in All : t < a

\* A window whose segment was pushed: during a load it is neither the first nor the last.
Between(w) ==
    /\ last # Unset /\ w <= last
    /\ toLoad # Unset => first # Unset /\ first < w /\ w < last

\* What waits for a finalizer was pushed.
Queued == \A i \in 1 .. Len(queue) : audio[queue[i]] # {} /\ Between(queue[i])

\* While a header is unread, too little came for a segment to be pushed if it is read in time.
Loads ==
    /\ toLoad = Unset => header = Unset
    /\ Cardinality(chunks) <= Capacity
    /\ header # Unset /\ HeaderInTime =>
         /\ fin = Unset /\ queue = <<>>
         /\ readBy \in Int /\ now <= readBy /\ readBy - HeaderTime <= now
         /\ \A a \in All : readBy - HeaderTime <= a

\* The map of a header that is not yet read
HeaderTyped ==
    header # Unset /\ header.map # Unset =>
        /\ header.map.seq \in Nat /\ header.map.dseq \in Int /\ header.map.pts \in Int
        /\ DOMAIN header.map.ids \subseteq Int
        /\ \A k \in DOMAIN header.map.ids : header.map.ids[k] \in Nat

\* The group's minimum is past the segments the injector holds at the front.
Cut(f) == first # Unset /\ f.min # Unset /\ End(first) < f.min

\* The finalizer can tell the gap at the front, or nothing is put there.
Fits(f) == f.map = NoMap \/ Whole(f) \/ Cut(f) \/ toLoad = Unset

\* What is listed was pushed.
ListPlaced(f) == \A s \in ToSet(f.list) : Between(s.w)

\* The last dump
DumpTyped ==
    /\ \A t \in dump.chunks : t < now
    /\ dump.map # Unset =>
         /\ dump.map.seq \in Nat /\ dump.map.dseq \in Int /\ dump.map.pts \in Int
         /\ DOMAIN dump.map.ids \subseteq Int
         /\ \A k \in DOMAIN dump.map.ids : dump.map.ids[k] \in Nat

\* All of it is inductive.
GapInv ==
    /\ SegmenterInv /\ Placed /\ Queued /\ Loads /\ HeaderTyped /\ DumpTyped
    /\ fin # Unset => Consistent(fin) /\ ListPlaced(fin) /\ Fits(fin)

-----------------------------------------------------------------------------
(* The numbers *)

\* The finalizer, or the one the header that is not yet read will make
Current ==
    IF fin # Unset THEN fin
    ELSE IF header # Unset /\ header.map # Unset THEN Finalizer(header.map) ELSE Unset

\* The numbers that were given, with their windows
Given == {<<a[1], a[2]>> : a \in listed}
Seen == {p[2] : p \in Given}
Notes(f) == {<<s.id, s.w>> : s \in ToSet(f.list)}
Windows(f) == {s.w : s \in ToSet(f.list)}
Shown == IF fin = Unset THEN {} ELSE Windows(fin)
Loading == toLoad # Unset

\* The chunks that are in the buffer, or will be if nothing more comes
Left == IF Loading THEN All \cup toLoad ELSE chunks

\* A window may have chunks before it, none after it, or all of its own.
Span(w) == Start(w) .. End(w) - 1
Passed(w) == \E c \in Left : c < Start(w)
OnTop(w) == \A c \in Left : Of(c) <= w
InFull(w) == (\E c \in Left : Of(c) = w) /\ (Passed(w) \/ Span(w) \subseteq Left)

\* The numbers of what was listed are those before the next one, in the order of time; the
\* list and the map have the number that was given.
Numbers(f, P) ==
    /\ P \subseteq Nat \X Window
    /\ \A p \in P : p[1] < f.seq
    /\ \A n \in 0 .. f.seq - 1 : \E p \in P : p[1] = n
    /\ \A p, q \in P : (p[2] < q[2] => p[1] < q[1]) /\ (p[2] = q[2] => p[1] = q[1])
    /\ Notes(f) \subseteq P
    /\ \A k \in DOMAIN f.map : \E p \in P : k = Start(p[2]) /\ f.map[k] = p[1]

\* What is in the map or listed, with its number, was given it; and the numbers are given densely.
Numbering == IF Current = Unset THEN Given = {} ELSE Numbers(Current, Given)

\* The list has all from its first segment on, but for the last, while a load goes on.
Contiguous == \A u \in Shown, s \in Seen : u < s => s \in Shown \/ (Loading /\ s = last)

\* The group's minimum is not past the last segment.
MinPlaced ==
    /\ Loading => settling
    /\ fin # Unset /\ fin.min # Unset => ~settling /\ last # Unset /\ fin.min < End(last)

\* What is numbered, or waits for its number, is over.
InPast ==
    /\ \A s \in Seen : End(s) <= now
    /\ \A i \in 1 .. Len(queue) : End(queue[i]) <= now

\* The buffer has the newest of the chunks, and is full when it has not all of them.
Newest ==
    /\ \A c \in chunks, a \in All : c <= a => a \in chunks
    /\ All # {} => chunks # {}
    /\ chunks = All \/ Cardinality(chunks) >= Capacity

\* Segments that have lost their buffers have audio; a load has yet to write its first and its last.
Used == fin # Unset => \A w \in fin.spent : /\ audio[w] # {}
                                            /\ Loading => first # Unset /\ first < w /\ w < last

\* There is a chunk that belongs to what was listed, or to what comes after it.
Reached == \A s \in Seen : \E c \in Left : s <= Of(c)

\* A segment that has a number and is not listed has gone out of the buffer, or waits to be
\* listed again.
Gone(s) == ~Passed(s) /\ ~(Span(s) \subseteq Left)
Waits(s) ==
    /\ Loading /\ Current # Unset /\ Start(s) \in DOMAIN Current.map
    /\ \E c \in Left : Of(c) = s
    /\ first = Unset \/ s <= first \/ s = last
Accounted == \A s \in Seen \ Shown : Gone(s) \/ Waits(s)

\* The last segment, if it has a number, has all its chunks.
LastIsFull == ~Loading /\ first # Unset /\ last \in Seen => last \in fin.spent /\ Complete(last)
TopIsFull == Loading => \A s \in Seen : OnTop(s) /\ Passed(s) => Span(s) \subseteq Left

\* Between the first and the last segment of a load all have a number, or one comes after them.
Middle ==
    Loading /\ first # Unset =>
        \A w \in Window : first < w /\ w < last /\ audio[w] # {} =>
            IF fin = Unset THEN \E i \in 1 .. Len(queue) : queue[i] = w
            ELSE w \in Seen \/ \E v \in Seen : w < v /\ v < last

\* So have all that the buffer has in full before the last of them.
Below ==
    \A x \in Seen : OnTop(x) =>
        \A w \in Window : w < x /\ w \notin Seen /\ InFull(w) => \E v \in Seen : w < v /\ v < x
LastQueued ==
    fin = Unset /\ ~Loading =>
        \A j \in 1 .. Len(queue) : queue[j] = last =>
            /\ Complete(last)
            /\ \A w \in Window : w < last /\ InFull(w) => \E i \in 1 .. j - 1 : queue[i] = w

\* All of it is inductive, given GapInv, until another bitrate moves the minimum.
NumberParts ==
    /\ Numbering /\ Contiguous /\ MinPlaced /\ InPast /\ Newest /\ Used /\ Reached
    /\ Accounted /\ LastIsFull /\ TopIsFull /\ Middle /\ Below /\ LastQueued
NumberInv == group # "moved" /\ ~astray => NumberParts

\* The same of the last dump, as it is when it begins to be loaded
DumpGiven == {<<a[1], a[2]>> : a \in dump.listed}
DumpSeen == {p[2] : p \in DumpGiven}
DumpPassed(w) == \E c \in dump.chunks : c < Start(w)
DumpOnTop(w) == \A c \in dump.chunks : Of(c) <= w
DumpInFull(w) ==
    (\E c \in dump.chunks : Of(c) = w) /\ (DumpPassed(w) \/ Span(w) \subseteq dump.chunks)
DumpGone(s) == ~DumpPassed(s) /\ ~(Span(s) \subseteq dump.chunks)
DumpWaits(s) ==
    dump.map # Unset /\ Start(s) \in DOMAIN dump.map.ids /\ \E c \in dump.chunks : Of(c) = s
DumpHolds ==
    /\ IF dump.map = Unset THEN DumpGiven = {} ELSE Numbers(Finalizer(dump.map), DumpGiven)
    /\ \A s \in DumpSeen :
          /\ End(s) <= now /\ \E c \in dump.chunks : s <= Of(c)
          /\ DumpGone(s) \/ DumpWaits(s)
          /\ DumpOnTop(s) /\ DumpPassed(s) => Span(s) \subseteq dump.chunks
    /\ \A x \in DumpSeen : DumpOnTop(x) =>
          \A w \in Window : w < x /\ w \notin DumpSeen /\ DumpInFull(w) =>
              \E v \in DumpSeen : w < v /\ v < x
DumpInv == group # "moved" /\ ~dump.astray => DumpHolds

\* Unset is none of the records that are told from it.
UnsetIsNoRecord ==
    /\ \A f : Fields(f) => f # Unset
    /\ \A m : [map |-> m] # Unset
    /\ \A f : DumpMap(f) # Unset
=============================================================================

------------------------------ MODULE HLSIndex ------------------------------
(***************************************************************************)
(* A slave's playlists of a stream (rewind/hls_index), made of snapshots   *)
(* of the list of segments its master keeps.  The slave lives on when the  *)
(* master restarts.                                                        *)
(*                                                                         *)
(* The master is as HLSSegmenter has it, as long as no other bitrate moves *)
(* the group's minimum: numbers are dense, and the discontinuity sequence  *)
(* goes up at gaps.  A snapshot is delayed (_snapDebounce) and may miss    *)
(* the slave: it arrives at any moment or not at all.  The seconds of a    *)
(* short playlist are a whole number of segments.                          *)
(***************************************************************************)
EXTENDS Integers, Sequences, SequencesExt

CONSTANTS Short,      \* segments of a short playlist, 120 seconds in the code
          MaxSegment, \* bound: segments there are
          MaxList,    \* bound: segments the master keeps
          MaxRestart, \* bound: restarts of the master
          None

ASSUME IndexAssumption ==
  Short \in Nat /\ MaxSegment \in Nat /\ MaxList \in Nat /\ MaxRestart \in Nat

VARIABLES
  made,       \* how many segments the source has filled: the last one's name
  gaps,       \* the segments that follow a gap
  list,       \* the master's segments
  seq, dseq,  \* its segmentSeq, discontinuitySeq
  dseqR,      \* and discontinuitySeqR
  toLoad,     \* segments of a dump still to be loaded, with their numbers
  restarts,

  segments,   \* the slave's _segments
  cache,      \* _segment_idx: the entries by number
  header,     \* the number _header begins with
  index,      \* _index
  shortHeader, shortIndex,

  told,       \* (history) entries that were in a playlist and whose numbers were in
              \* every snapshot since
  renumbered  \* (history) a restart went back to numbers that were in use

masterVars == <<made, gaps, list, seq, dseq, dseqR, toLoad, restarts>>
playlists == <<segments, cache, header, index, shortHeader, shortIndex>>
indexVars == <<masterVars, playlists, told, renumbered>>

Segment(w, id, d) == [w |-> w, id |-> id, dseq |-> d]

IndexInit ==
  /\ made = 0 /\ gaps = {} /\ list = <<>> /\ toLoad = <<>> /\ restarts = 0
  /\ seq = 0 /\ dseq = 0 /\ dseqR = 0
  /\ segments = <<>> /\ cache = <<>>
  /\ header = None /\ index = None /\ shortHeader = None /\ shortIndex = None
  /\ told = {} /\ renumbered = FALSE

-----------------------------------------------------------------------------
(* The master *)

\* A segment at the end of the list, after a gap or not
Add(gap) ==
  /\ made < MaxSegment /\ Len(list) < MaxList
  /\ made' = made + 1
  /\ gaps' = IF gap THEN gaps \cup {made'} ELSE gaps
  /\ dseq' = IF gap /\ list # <<>> THEN dseq + 1 ELSE dseq
  /\ list' = Append(list, Segment(made', seq, dseq'))
  /\ seq' = seq + 1
  /\ UNCHANGED <<dseqR, toLoad, restarts, playlists, told, renumbered>>

\* One whose audio is dropped from the front: nothing older can be loaded then
Expire ==
  /\ list # <<>>
  /\ list' = Tail(list) /\ toLoad' = <<>>
  /\ UNCHANGED <<made, gaps, seq, dseq, dseqR, restarts, playlists, told, renumbered>>

\* A segment of the dump, the newest first: at the front of those there are
LoadSegment ==
  /\ toLoad # <<>> /\ Len(list) < MaxList
  /\ toLoad' = Front(toLoad)
  /\ dseqR' = IF list # <<>> /\ Head(list).w \in gaps THEN dseqR - 1 ELSE dseqR
  /\ LET s == Last(toLoad) IN list' = <<Segment(s.w, s.id, dseqR')>> \o list
  /\ UNCHANGED <<made, gaps, seq, dseq, restarts, playlists, told, renumbered>>

\* The segments there were when the next number was n: numbers are dense
Before(n) == IF list = <<>> THEN <<>> ELSE SubSeq(list, 1, n - Head(list).id)

\* A new master starts from the state when the next number was n: that of now
\* in a handoff, an earlier one after a crash
Restart(n) ==
  /\ restarts < MaxRestart /\ toLoad = <<>>
  /\ restarts' = restarts + 1
  /\ toLoad' = Before(n) /\ list' = <<>>
  /\ seq' = n
  /\ dseq' = IF toLoad' = <<>> THEN dseq ELSE Last(toLoad').dseq
  /\ dseqR' = dseq'
  /\ renumbered' = (renumbered \/ n # seq)
  /\ UNCHANGED <<made, gaps, playlists, told>>

-----------------------------------------------------------------------------
(* The slave *)

Ids(s) == {s[i].id : i \in 1 .. Len(s)}

\* MUTANT: the first one listed has none before it.
FollowsGap_Listed(s, i) == i > 3 /\ s[i].dseq # s[i - 1].dseq

\* Is the segment where the one before it ends?
FollowsGap(s, i) == s[i].dseq # s[i - 1].dseq

\* Playlists begin with the third segment.  An entry is made once, and found by its
\* number from then on.
Entry(s, i) ==
  IF s[i].id \in DOMAIN cache THEN cache[s[i].id]
  ELSE [w |-> s[i].w, id |-> s[i].id, disc |-> FollowsGap(s, i)]
Entries(s) == [i \in 1 .. Len(s) - 2 |-> Entry(s, i + 2)]

\* MUTANT: entries go when they are not listed any more.
Kept_Listed(s) == {s[i].id : i \in 3 .. Len(s)}

\* Numbers whose entries stay: those of all segments
Kept(s) == Ids(s)

\* The first segment of the short playlist, in the code's counting from 0
ShortStart(s) == IF Len(s) - 1 - Short < 2 THEN 2 ELSE Len(s) - 1 - Short

\* _runIndex.  With less than three segments it takes the index away and leaves
\* the headers: the code sets "header".  The short playlist is cut from the entries
\* by a position that counts segments.
RunIndex(s) ==
  IF Len(s) < 3 THEN index' = None /\ UNCHANGED <<cache, header, shortHeader, shortIndex>>
  ELSE
    LET es == Entries(s)
        new == {i \in 1 .. Len(es) : es[i].id \notin DOMAIN cache}
        ids == DOMAIN cache \cup Ids(es)
    IN /\ header' = s[3].id /\ index' = es
       /\ shortHeader' = s[ShortStart(s) + 1].id
       /\ shortIndex' = SubSeq(es, ShortStart(s) + 1, Len(es))
       /\ cache' = [id \in ids \cap Kept(s) |->
                      IF id \in DOMAIN cache THEN cache[id]
                      ELSE es[CHOOSE i \in new : es[i].id = id]]

\* loadSnapshot
LoadSnapshot ==
  /\ segments' = list
  /\ RunIndex(list)
  /\ told' = {e \in told : e.id \in Ids(list)}
               \cup (IF index' = None THEN {} ELSE ToSet(index'))
  /\ UNCHANGED <<masterVars, renumbered>>

IndexNext ==
  \/ Add(TRUE) \/ Add(FALSE) \/ Expire \/ LoadSegment
  \/ \E n \in 0 .. seq : Restart(n)
  \/ LoadSnapshot

IndexSpec == IndexInit /\ [][IndexNext]_indexVars

-----------------------------------------------------------------------------
(* Properties *)

IndexTypeOK ==
  /\ DOMAIN cache \subseteq Nat
  /\ \A id \in DOMAIN cache : cache[id].id = id
  /\ header \in Nat \cup {None}
  /\ index = None \/ \A i \in DOMAIN index : index[i].w \in 1 .. made

\* A playlist counts from the number in its header, and tells of a gap exactly
\* where the source had one, although entries are made once and segments are
\* loaded, expire and get other sequence numbers after that.
PlaylistIsTrue ==
  index # None => \A i \in 1 .. Len(index) :
    index[i].id = header + i - 1 /\ (index[i].disc <=> index[i].w \in gaps)

\* A segment that was in a playlist is found under its number as long as no
\* snapshot comes without it (pumpSegment).
ToldAreFound ==
  \A e \in told : e.id \in DOMAIN cache /\ cache[e.id].w = e.w

\* Both hold while the master's numbers do: for a client that plays from the
\* slave, restarts by handoff go unnoticed (_runIndex, pumpSegment).
ClientsAreServed == ~renumbered => PlaylistIsTrue /\ ToldAreFound

\* After a crash too a playlist lists the segments the master has.
ListedAreCurrent ==
  index # None => \A i \in 1 .. Len(index) : index[i].w = segments[i + 2].w

\* A short playlist begins with the segment whose number its header has.
ShortIsTrue ==
  shortHeader # None => shortIndex # <<>> /\ shortIndex[1].id = shortHeader

\* "Not enough buffer for a playlist yet": no header without an index
NoHeaderAlone == index = None => header = None
=============================================================================

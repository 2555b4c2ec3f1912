--------------------------- MODULE DumpRestoreProofs --------------------------
(***************************************************************************)
(* Proofs about DumpRestore, for any streams, faults and bounds: dumps run *)
(* one at a time, each that succeeds is whole and recent, and what was on  *)
(* disk when the process died comes back unless dumps outrun the load.     *)
(***************************************************************************)
EXTENDS DumpRestore, WellFoundedInduction, TLAPS

Phase == {"idle", "opening", "writing", "written", "failed", "stuck"}
Busy == {"opening", "writing", "written"}

\* What is in a file, or in what a dump wrote
Bytes(f) == IF f = NoFile THEN {} ELSE f

\* No chunk has a number that is yet to come.
Numbered ==
    /\ \A s \in Stream : \A c \in live[s] \cup Bytes(file[s]) \cup Bytes(out[s]) : c <= last
    /\ \A c \in left : c <= last

\* A dump at work knows of the states the buffer was in since it began; what it
\* writes, or wrote, is one of them.
Recent ==
    \A s \in Stream :
        /\ phase[s] # "idle" => live[s] \in since[s]
        /\ phase[s] = "writing" => out[s] \in since[s] /\ out[s] # NoFile
        /\ phase[s] = "written" => Bytes(out[s]) \in since[s]

\* The files are read one after the other, in the order of the streams.
InTurn ==
    /\ \A i, j \in 1 .. Len(toLoad) : toLoad[i] = toLoad[j] => i = j
    /\ loadState # "running" => toLoad = <<>>
    /\ \A s \in Stream : loading[s] => toLoad # <<>> /\ s = toLoad[1]

\* What is yet to be read of a stream's dump
ToRead(s) == loadState = "waiting" \/ \E i \in 1 .. Len(toLoad) : toLoad[i] = s
Unread(s) == IF loading[s] THEN left ELSE IF ToRead(s) THEN Bytes(file[s]) ELSE {}

\* As long as no dump has been made before all is loaded: what was on disk is in
\* the buffer or yet to be read, and older than what is in the buffer, so that it
\* goes in at its end.
ComesBack ==
    ~early => \A s \in Stream :
        /\ saved[s] \subseteq live[s] \cup Unread(s)
        /\ \A c \in Unread(s), d \in live[s] : c < d
        /\ loadState # "done" => phase[s] = "idle" /\ saved[s] \subseteq Bytes(file[s])

IInv == TypeOK /\ OneAtATime /\ Numbered /\ Recent /\ InTurn /\ ComesBack

-----------------------------------------------------------------------------
(* Numbers *)

LEMMA Least ==
    ASSUME NEW S \in SUBSET Nat, S # {}
    PROVE  \E n \in S : \A m \in S : n <= m
<1> DEFINE R == OpToRel(<, Nat)
<1>1. IsWellFoundedOn(R, Nat)
  BY NatLessThanWellFounded
<1>2. PICK n \in S : \A m \in S : ~(<<m, n>> \in R)
  <2> HIDE DEF R
  <2> QED BY <1>1, WFMin, Zenon
<1>3. \A m \in S : ~(m < n)
  <2> SUFFICES ASSUME NEW m \in S, m < n PROVE <<m, n>> \in R
    BY <1>2
  <2> QED BY DEF OpToRel
<1>4. \A m \in S : m \in Nat /\ n \in Nat
  OBVIOUS
<1> QED BY <1>3, <1>4

LEMMA Greatest ==
    ASSUME NEW N \in Nat, NEW S \in SUBSET (1 .. N), S # {}
    PROVE  \E n \in S : \A m \in S : m <= n
<1> DEFINE T == {N - n : n \in S}
<1>1. PICK t \in T : \A u \in T : t <= u
  <2>1. T \in SUBSET Nat
    <3> SUFFICES ASSUME NEW n \in S PROVE N - n \in Nat
      OBVIOUS
    <3>1. n \in 1 .. N
      OBVIOUS
    <3> QED BY <3>1
  <2>2. T # {}
    <3>1. PICK n \in S : TRUE
      OBVIOUS
    <3>2. N - n \in T
      OBVIOUS
    <3> QED BY <3>2
  <2> HIDE DEF T
  <2> QED BY <2>1, <2>2, Least
<1>2. PICK n \in S : t = N - n
  OBVIOUS
<1>3. \A m \in S : N - n <= N - m
  BY <1>1, <1>2
<1>4. ASSUME NEW m \in S
      PROVE  m \in 1 .. N /\ n \in 1 .. N /\ N - n <= N - m
  BY <1>3
<1> HIDE DEF T
<1>5. \A m \in S : m <= n
  BY <1>4
<1> QED BY <1>5

-----------------------------------------------------------------------------
(* The queue *)

\* Work lets the first that accepts begin its dump, if any does, and leaves every
\* other alone; it never leaves the queue waiting for nobody.
LEMMA Worked ==
    ASSUME NEW q \in Seq(Stream), NEW ph \in [Stream -> Phase], TypeOK,
           Work(q, ph)
    PROVE  /\ queue' \in Seq(Stream) /\ working' \in BOOLEAN
           /\ phase' \in [Stream -> Phase] /\ since' \in [Stream -> SUBSET SUBSET Chunk]
           /\ \/ /\ phase' = ph /\ since' = since /\ ~working' /\ queue' = <<>>
              \/ \E s \in Stream :
                   /\ ph[s] = "idle" /\ ~loading[s] /\ working'
                   /\ phase' = [ph EXCEPT ![s] = "opening"]
                   /\ since' = [since EXCEPT ![s] = {live[s]}]
<1> DEFINE accepting == {i \in DOMAIN q : Accepts(q[i], ph)}
           i == CHOOSE n \in accepting : \A m \in accepting : n <= m
<1>1. CASE accepting = {}
  <2>1. queue' = <<>> /\ working' = FALSE /\ phase' = ph /\ since' = since
    BY <1>1 DEF Work
  <2>2. since \in [Stream -> SUBSET SUBSET Chunk] /\ <<>> \in Seq(Stream)
    BY DEF TypeOK
  <2> QED BY <2>1, <2>2
<1>2. CASE accepting # {}
  <2>1. DOMAIN q = 1 .. Len(q) /\ Len(q) \in Nat
    OBVIOUS
  <2>2. accepting \in SUBSET Nat
    BY <2>1
  <2>3. \E n \in accepting : \A m \in accepting : n <= m
    <3> HIDE DEF accepting
    <3> QED BY <1>2, <2>2, Least
  <2>4. i \in accepting
    <3> HIDE DEF accepting
    <3> QED BY <2>3
  <2>5. queue' = SubSeq(q, i + 1, Len(q)) /\ working' = TRUE /\ Start(q[i], ph)
    BY <1>2 DEF Work
  <2> HIDE DEF i
  <2>6. i \in 1 .. Len(q) /\ q[i] \in Stream /\ ph[q[i]] = "idle" /\ ~loading[q[i]]
    BY <2>1, <2>4 DEF Accepts
  <2>7. queue' \in Seq(Stream)
    BY <2>1, <2>5, <2>6
  <2>8. /\ phase' = [ph EXCEPT ![q[i]] = "opening"]
        /\ since' = [since EXCEPT ![q[i]] = {live[q[i]]}]
    BY <2>5 DEF Start
  <2>9. phase' \in [Stream -> Phase] /\ since' \in [Stream -> SUBSET SUBSET Chunk]
    BY <2>6, <2>8 DEF TypeOK, Phase
  <2> QED BY <2>5, <2>6, <2>7, <2>8, <2>9
<1> QED BY <1>1, <1>2

\* From nobody at work, it leaves at most one dump at work.
LEMMA WorkedOne ==
    ASSUME NEW q \in Seq(Stream), NEW ph \in [Stream -> Phase], TypeOK,
           \A s \in Stream : ph[s] \notin Busy, Work(q, ph)
    PROVE  /\ working' <=> AtWork' # {}
           /\ \A s, t \in AtWork' : s = t
           /\ ~working' => queue' = <<>>
<1>1. AtWork' = {s \in Stream : phase'[s] \in Busy}
  BY DEF AtWork, Busy
<1>2. CASE phase' = ph /\ since' = since /\ ~working' /\ queue' = <<>>
  BY <1>1, <1>2
<1>3. ASSUME NEW s \in Stream, phase' = [ph EXCEPT ![s] = "opening"], working'
      PROVE  /\ working' <=> AtWork' # {}
             /\ \A t, u \in AtWork' : t = u
             /\ ~working' => queue' = <<>>
  <2>1. AtWork' = {s}
    BY <1>1, <1>3 DEF Busy
  <2> QED BY <1>3, <2>1
<1>4. CASE \E s \in Stream : working' /\ phase' = [ph EXCEPT ![s] = "opening"]
  BY <1>3, <1>4
<1> QED BY <1>2, <1>4, Worked

-----------------------------------------------------------------------------
(* The buffers *)

LEMMA BytesTyped ==
    ASSUME DumpAssumption, NEW f \in {NoFile} \cup SUBSET Chunk
    PROVE  Bytes(f) \in SUBSET Chunk
  BY DEF Bytes

LEMMA ChunkIsNat ==
    ASSUME DumpAssumption
    PROVE  Chunk \in SUBSET Nat /\ MaxChunk \in Nat
  BY DEF DumpAssumption, Chunk

\* A buffer that changes while a dump is on is known to that dump.
LEMMA Changed ==
    ASSUME TypeOK, Recent, NEW s \in Stream, NEW chunks \in SUBSET Chunk,
           SetLive(s, chunks), UNCHANGED <<phase, out>>
    PROVE  /\ live' = [live EXCEPT ![s] = chunks]
           /\ live' \in [Stream -> SUBSET Chunk]
           /\ since' \in [Stream -> SUBSET SUBSET Chunk]
           /\ Recent'
<1>1. /\ live' = [live EXCEPT ![s] = chunks]
      /\ since' = [since EXCEPT ![s] = IF phase[s] = "idle" THEN since[s]
                                       ELSE since[s] \cup {chunks}]
  BY DEF SetLive
<1>2. live \in [Stream -> SUBSET Chunk] /\ since \in [Stream -> SUBSET SUBSET Chunk]
  BY DEF TypeOK
<1>3. live' \in [Stream -> SUBSET Chunk]
  BY <1>1, <1>2
<1>4. since' \in [Stream -> SUBSET SUBSET Chunk]
  <2>1. since[s] \in SUBSET SUBSET Chunk
    BY <1>2
  <2> QED BY <1>1, <1>2, <2>1
<1>5. ASSUME NEW t \in Stream
      PROVE  /\ since[t] \subseteq since'[t]
             /\ phase[t] # "idle" /\ t = s => chunks \in since'[t]
             /\ live'[t] = IF t = s THEN chunks ELSE live[t]
  BY <1>1, <1>2
<1>6. Recent'
  BY <1>5 DEF Recent
<1> QED BY <1>1, <1>3, <1>4, <1>6

LEMMA DeliverStep ==
    ASSUME DumpAssumption, IInv, NEW s \in Stream, Deliver(s)
    PROVE  IInv'
<1> DEFINE chunks == Inserted(live[s], last + 1)
<1> USE DEF IInv
<1>1. /\ last < MaxChunk /\ last' = last + 1 /\ SetLive(s, chunks)
      /\ UNCHANGED <<loading, file, dumps, loads, triggers, crashes, saved, early>>
  BY DEF Deliver
<1>2. last \in 0 .. MaxChunk /\ live[s] \in SUBSET Chunk
  BY DEF TypeOK
<1>3. /\ live[s] \subseteq chunks /\ chunks \subseteq live[s] \cup {last + 1}
      /\ chunks \in SUBSET Chunk /\ last' \in 0 .. MaxChunk
  BY <1>1, <1>2, ChunkIsNat DEF Inserted, Chunk
<1> HIDE DEF chunks
<1>4. /\ live' = [live EXCEPT ![s] = chunks]
      /\ live' \in [Stream -> SUBSET Chunk]
      /\ since' \in [Stream -> SUBSET SUBSET Chunk]
      /\ Recent'
  BY <1>1, <1>3, Changed DEF dumps
<1>5. TypeOK'
  BY <1>1, <1>3, <1>4 DEF TypeOK, dumps, loads
<1>6. OneAtATime'
  BY <1>1, <1>5 DEF OneAtATime, AtWork, dumps
<1>7. live \in [Stream -> SUBSET Chunk]
  BY DEF TypeOK
<1>8. ASSUME NEW t \in Stream
      PROVE  live[t] \subseteq live'[t] /\ live'[t] \subseteq live[t] \cup {last + 1}
  BY <1>3, <1>4, <1>7
<1>9. Numbered'
  <2>1. \A t \in Stream : \A c \in live[t] \cup Bytes(file[t]) \cup Bytes(out[t]) :
           c \in Nat /\ c <= last
    <3>1. \A t \in Stream : live[t] \cup Bytes(file[t]) \cup Bytes(out[t]) \subseteq Chunk
      BY BytesTyped DEF TypeOK
    <3> QED BY <3>1, ChunkIsNat DEF Numbered
  <2>2. \A c \in left : c \in Nat /\ c <= last
    BY ChunkIsNat DEF Numbered, TypeOK
  <2>3. last \in Nat
    BY <1>2
  <2>4. \A t \in Stream : \A c \in live'[t] : c <= last + 1
    BY <1>8, <2>1, <2>3
  <2>5. \A t \in Stream : \A c \in Bytes(file[t]) \cup Bytes(out[t]) : c <= last + 1
    BY <2>1, <2>3
  <2>6. \A c \in left : c <= last + 1
    BY <2>2, <2>3
  <2> QED BY <1>1, <2>4, <2>5, <2>6 DEF Numbered, dumps, loads
<1>10. InTurn'
  BY <1>1 DEF InTurn, loads
<1>11. ComesBack'
  <2> SUFFICES ASSUME ~early, NEW t \in Stream
               PROVE  /\ saved[t] \subseteq live'[t] \cup Unread(t)
                      /\ \A c \in Unread(t), d \in live'[t] : c < d
                      /\ loadState # "done" => phase[t] = "idle" /\ saved[t] \subseteq Bytes(file[t])
    BY <1>1 DEF ComesBack, Unread, ToRead, dumps, loads
  <2>1. /\ saved[t] \subseteq live[t] \cup Unread(t)
        /\ \A c \in Unread(t), d \in live[t] : c < d
        /\ loadState # "done" => phase[t] = "idle" /\ saved[t] \subseteq Bytes(file[t])
    BY DEF ComesBack
  <2>2. \A c \in Unread(t) : c \in Nat /\ c <= last
    <3>1. Unread(t) \subseteq Chunk
      BY BytesTyped DEF Unread, TypeOK
    <3> QED BY <3>1, ChunkIsNat DEF Numbered, Unread
  <2>3. \A c \in Unread(t) : c < last + 1
    BY <2>2, <1>2
  <2> QED BY <1>8, <2>1, <2>3
<1> QED BY <1>4, <1>5, <1>6, <1>9, <1>10, <1>11

LEMMA ResetStep ==
    ASSUME DumpAssumption, IInv, NEW s \in Stream, ResetRewind(s)
    PROVE  IInv'
<1> USE DEF IInv
<1>1. /\ SetLive(s, {}) /\ saved' = [saved EXCEPT ![s] = {}]
      /\ UNCHANGED <<loading, last, file, dumps, loads, triggers, crashes, early>>
  BY DEF ResetRewind
<1>2. /\ live' = [live EXCEPT ![s] = {}]
      /\ live' \in [Stream -> SUBSET Chunk]
      /\ since' \in [Stream -> SUBSET SUBSET Chunk]
      /\ Recent'
  BY <1>1, Changed DEF dumps
<1>3. saved \in [Stream -> SUBSET Chunk] /\ live \in [Stream -> SUBSET Chunk]
  BY DEF TypeOK
<1>4. TypeOK'
  BY <1>1, <1>2, <1>3 DEF TypeOK, dumps, loads
<1>5. OneAtATime'
  BY <1>1, <1>4 DEF OneAtATime, AtWork, dumps
<1>6. ASSUME NEW t \in Stream
      PROVE  /\ live'[t] = IF t = s THEN {} ELSE live[t]
             /\ saved'[t] = IF t = s THEN {} ELSE saved[t]
  BY <1>1, <1>2, <1>3
<1>7. Numbered'
  BY <1>1, <1>6 DEF Numbered, dumps, loads
<1>8. InTurn'
  BY <1>1 DEF InTurn, loads
<1>9. ComesBack'
  <2>1. \A t \in Stream : Unread(t)' = Unread(t)
    BY <1>1 DEF Unread, ToRead, loads
  <2> QED BY <1>1, <1>6, <2>1 DEF ComesBack, dumps, loads
<1> QED BY <1>2, <1>4, <1>5, <1>7, <1>8, <1>9

-----------------------------------------------------------------------------
(* The dumps *)

\* Dumps are only made once all is loaded, or too early.
LEMMA LoadedByThen ==
    ASSUME IInv, UNCHANGED <<live, loading, loads, saved>>,
           ~early' => ~early /\ loadState = "done"
    PROVE  InTurn' /\ ComesBack'
<1> USE DEF IInv
<1>1. InTurn'
  BY DEF InTurn, loads
<1>2. ASSUME ~early', NEW s \in Stream
      PROVE  Unread(s) = {} /\ Unread(s)' = {}
  <2>1. ~loading[s] /\ toLoad = <<>>
    BY <1>2 DEF InTurn
  <2> QED BY <1>2, <2>1 DEF Unread, ToRead, loads
<1>3. ComesBack'
  <2> SUFFICES ASSUME ~early', NEW s \in Stream
               PROVE  saved[s] \subseteq live[s]
    BY <1>2 DEF ComesBack, loads
  <2>1. saved[s] \subseteq live[s] \cup Unread(s)
    BY DEF ComesBack
  <2> QED BY <1>2, <2>1
<1> QED BY <1>1, <1>3

LEMMA DumpsWait ==
    ASSUME IInv, NEW s \in Stream, phase[s] # "idle", ~early
    PROVE  loadState = "done"
  BY DEF IInv, ComesBack

\* When the queue goes on, whoever was at work before is not any more, and what
\* the others know is as recent as it was.
LEMMA GoesOn ==
    ASSUME DumpAssumption, IInv, NEW q \in Seq(Stream), NEW ph \in [Stream -> Phase], Work(q, ph),
           \A t \in Stream : ph[t] \notin Busy,
           \A t \in Stream : ph[t] \in {phase[t], "idle"} \/ phase[t] # "idle",
           UNCHANGED live
    PROVE  /\ queue' \in Seq(Stream) /\ working' \in BOOLEAN
           /\ phase' \in [Stream -> Phase] /\ since' \in [Stream -> SUBSET SUBSET Chunk]
           /\ working' <=> AtWork' # {}
           /\ \A s, t \in AtWork' : s = t
           /\ ~working' => queue' = <<>>
           /\ Recent'
<1>1. /\ queue' \in Seq(Stream) /\ working' \in BOOLEAN
      /\ phase' \in [Stream -> Phase] /\ since' \in [Stream -> SUBSET SUBSET Chunk]
      /\ \/ /\ phase' = ph /\ since' = since /\ ~working' /\ queue' = <<>>
         \/ \E s \in Stream :
              /\ ph[s] = "idle" /\ ~loading[s] /\ working'
              /\ phase' = [ph EXCEPT ![s] = "opening"]
              /\ since' = [since EXCEPT ![s] = {live[s]}]
  BY Worked DEF IInv
<1>2. /\ working' <=> AtWork' # {}
      /\ \A s, t \in AtWork' : s = t
      /\ ~working' => queue' = <<>>
  BY WorkedOne DEF IInv
<1>3. since \in [Stream -> SUBSET SUBSET Chunk]
  BY DEF IInv, TypeOK
<1>4. ASSUME NEW t \in Stream
      PROVE  \/ phase'[t] = ph[t] /\ since'[t] = since[t]
             \/ phase'[t] = "opening" /\ since'[t] = {live[t]}
  BY <1>1, <1>3
<1>5. Recent'
  BY <1>4 DEF Recent, IInv, Busy
<1> QED BY <1>1, <1>2, <1>5

\* The dump at work is the only one.
LEMMA Alone ==
    ASSUME IInv, NEW s \in Stream, phase[s] \in Busy, NEW next \in Phase \ Busy
    PROVE  /\ [phase EXCEPT ![s] = next] \in [Stream -> Phase]
           /\ \A t \in Stream : [phase EXCEPT ![s] = next][t] \notin Busy
           /\ \A t \in Stream : [phase EXCEPT ![s] = next][t] \in {phase[t], "idle"}
                                  \/ phase[t] # "idle"
<1>1. phase \in [Stream -> Phase]
  BY DEF IInv, TypeOK, Phase
<1>2. \A t \in Stream : phase[t] \in Busy => t = s
  BY DEF IInv, OneAtATime, AtWork, Busy
<1> QED BY <1>1, <1>2 DEF Busy

LEMMA OpenStep ==
    ASSUME DumpAssumption, IInv, NEW s \in Stream, Open(s)
    PROVE  IInv'
<1> USE DEF IInv
<1>1. /\ phase[s] = "opening" /\ phase' = [phase EXCEPT ![s] = "writing"]
      /\ out' = [out EXCEPT ![s] = live[s]]
      /\ UNCHANGED <<buffers, file, queue, working, loads, triggers, crashes, history>>
  BY DEF Open
<1>2. /\ phase \in [Stream -> Phase] /\ out \in [Stream -> {NoFile} \cup SUBSET Chunk]
      /\ live[s] \in SUBSET Chunk
  BY DEF TypeOK, Phase
<1>3. TypeOK'
  BY <1>1, <1>2 DEF TypeOK, Phase, buffers, loads, history
<1>4. ASSUME NEW t \in Stream
      PROVE  /\ phase'[t] = IF t = s THEN "writing" ELSE phase[t]
             /\ out'[t] = IF t = s THEN live[s] ELSE out[t]
  BY <1>1, <1>2
<1>5. OneAtATime'
  <2>1. AtWork' = AtWork
    BY <1>1, <1>4 DEF AtWork
  <2> QED BY <1>1, <1>3, <2>1 DEF OneAtATime
<1>6. live[s] # NoFile
  BY <1>2 DEF DumpAssumption, Chunk
<1>7. Numbered'
  BY <1>1, <1>4, <1>6 DEF Numbered, Bytes, buffers, loads
<1>8. Recent'
  BY <1>1, <1>4, <1>6 DEF Recent, buffers, history
<1>9. InTurn' /\ ComesBack'
  BY <1>1, DumpsWait, LoadedByThen DEF buffers, history
<1> QED BY <1>3, <1>5, <1>7, <1>8, <1>9

LEMMA WriteStep ==
    ASSUME DumpAssumption, IInv, NEW s \in Stream, Write(s)
    PROVE  IInv'
<1> USE DEF IInv
<1>1. /\ phase[s] = "writing" /\ phase' = [phase EXCEPT ![s] = "written"]
      /\ out' = [out EXCEPT ![s] = IF out[s] = {} THEN NoFile ELSE out[s]]
      /\ UNCHANGED <<buffers, file, queue, working, loads, triggers, crashes, history>>
  BY DEF Write
<1>2. /\ phase \in [Stream -> Phase] /\ out \in [Stream -> {NoFile} \cup SUBSET Chunk]
      /\ out[s] \in {NoFile} \cup SUBSET Chunk
  BY DEF TypeOK, Phase
<1>3. TypeOK'
  BY <1>1, <1>2 DEF TypeOK, Phase, buffers, loads, history
<1>4. ASSUME NEW t \in Stream
      PROVE  /\ phase'[t] = IF t = s THEN "written" ELSE phase[t]
             /\ Bytes(out'[t]) = Bytes(out[t]) /\ (t # s => out'[t] = out[t])
  BY <1>1, <1>2 DEF Bytes
<1>5. OneAtATime'
  <2>1. AtWork' = AtWork
    BY <1>1, <1>4 DEF AtWork
  <2> QED BY <1>1, <1>3, <2>1 DEF OneAtATime
<1>6. Numbered'
  BY <1>1, <1>4 DEF Numbered, buffers, loads
<1>7. Recent'
  <2>1. Bytes(out[s]) = out[s]
    BY <1>1 DEF Recent, Bytes
  <2> QED BY <1>1, <1>4, <2>1 DEF Recent, buffers, history
<1>8. InTurn' /\ ComesBack'
  BY <1>1, DumpsWait, LoadedByThen DEF buffers, history
<1> QED BY <1>3, <1>5, <1>6, <1>7, <1>8

LEMMA OpenFailsStep ==
    ASSUME DumpAssumption, IInv, NEW s \in Stream, OpenFails(s)
    PROVE  IInv'
<1> USE DEF IInv
<1>1. /\ phase[s] = "opening" /\ Work(queue, [phase EXCEPT ![s] = "stuck"])
      /\ UNCHANGED <<buffers, file, out, loads, triggers, crashes, saved, early>>
  BY DEF OpenFails
<1>2. queue \in Seq(Stream)
  BY DEF TypeOK
<1> DEFINE ph == [phase EXCEPT ![s] = "stuck"]
<1>3. /\ ph \in [Stream -> Phase]
      /\ \A t \in Stream : ph[t] \notin Busy
      /\ \A t \in Stream : ph[t] \in {phase[t], "idle"} \/ phase[t] # "idle"
  BY <1>1, Alone DEF Phase, Busy
<1> HIDE DEF ph
<1>4. /\ queue' \in Seq(Stream) /\ working' \in BOOLEAN
      /\ phase' \in [Stream -> Phase] /\ since' \in [Stream -> SUBSET SUBSET Chunk]
      /\ working' <=> AtWork' # {}
      /\ \A t, u \in AtWork' : t = u
      /\ ~working' => queue' = <<>>
      /\ Recent'
  BY <1>1, <1>2, <1>3, GoesOn DEF ph, buffers
<1>5. TypeOK'
  BY <1>1, <1>4 DEF TypeOK, Phase, buffers, loads
<1>6. Numbered'
  BY <1>1 DEF Numbered, buffers, loads
<1>7. InTurn' /\ ComesBack'
  BY <1>1, DumpsWait, LoadedByThen DEF buffers
<1> QED BY <1>4, <1>5, <1>6, <1>7 DEF OneAtATime

LEMMA WriteFailsStep ==
    ASSUME DumpAssumption, IInv, NEW s \in Stream, WriteFails(s)
    PROVE  IInv'
<1> USE DEF IInv
<1>1. /\ phase[s] = "writing" /\ Work(queue, [phase EXCEPT ![s] = "failed"])
      /\ UNCHANGED <<buffers, file, loads, triggers, crashes, saved, early>>
  BY DEF WriteFails
<1>2. PICK part \in {NoFile} \cup (SUBSET out[s] \ {out[s]}) : out' = [out EXCEPT ![s] = part]
  BY DEF WriteFails
<1>3. queue \in Seq(Stream) /\ out \in [Stream -> {NoFile} \cup SUBSET Chunk]
  BY DEF TypeOK
<1>4. out[s] \in SUBSET Chunk /\ out[s] # NoFile
  BY <1>1, <1>3 DEF Recent
<1> DEFINE ph == [phase EXCEPT ![s] = "failed"]
<1>5. /\ ph \in [Stream -> Phase]
      /\ \A t \in Stream : ph[t] \notin Busy
      /\ \A t \in Stream : ph[t] \in {phase[t], "idle"} \/ phase[t] # "idle"
  BY <1>1, Alone DEF Phase, Busy
<1> HIDE DEF ph
<1>6. /\ queue' \in Seq(Stream) /\ working' \in BOOLEAN
      /\ phase' \in [Stream -> Phase] /\ since' \in [Stream -> SUBSET SUBSET Chunk]
      /\ working' <=> AtWork' # {}
      /\ \A t, u \in AtWork' : t = u
      /\ ~working' => queue' = <<>>
      /\ Recent'
  BY <1>1, <1>3, <1>5, GoesOn DEF ph, buffers
<1>7. out' \in [Stream -> {NoFile} \cup SUBSET Chunk]
  BY <1>2, <1>3, <1>4
<1>8. TypeOK'
  BY <1>1, <1>6, <1>7 DEF TypeOK, Phase, buffers, loads
<1>9. \A t \in Stream : Bytes(out'[t]) \subseteq Bytes(out[t])
  BY <1>2, <1>3, <1>4 DEF Bytes
<1>10. Numbered'
  BY <1>1, <1>9 DEF Numbered, buffers, loads
<1>11. InTurn' /\ ComesBack'
  BY <1>1, DumpsWait, LoadedByThen DEF buffers
<1> QED BY <1>6, <1>8, <1>10, <1>11 DEF OneAtATime

\* A dump that called back before ends without the queue noticing.
LEMMA EndsUnnoticed ==
    ASSUME IInv, NEW s \in Stream, phase[s] = "failed", NEW next \in {"idle", "stuck"},
           phase' = [phase EXCEPT ![s] = next], UNCHANGED <<queue, working, since, live, out>>
    PROVE  /\ phase' \in [Stream -> Phase]
           /\ working' <=> AtWork' # {}
           /\ \A t, u \in AtWork' : t = u
           /\ ~working' => queue' = <<>>
           /\ Recent'
<1>1. phase \in [Stream -> Phase]
  BY DEF IInv, TypeOK, Phase
<1>2. phase' \in [Stream -> Phase]
  BY <1>1 DEF Phase
<1>3. \A t \in Stream : phase'[t] = IF t = s THEN next ELSE phase[t]
  BY <1>1
<1>4. AtWork' = AtWork
  BY <1>3 DEF AtWork
<1>5. Recent'
  BY <1>3 DEF Recent, IInv
<1> QED BY <1>2, <1>4, <1>5 DEF IInv, OneAtATime

LEMMA EndStep ==
    ASSUME DumpAssumption, IInv, NEW s \in Stream, Close(s) \/ RenameFails(s)
    PROVE  IInv'
<1> USE DEF IInv
<1>1. PICK next \in {"idle", "stuck"} :
        IF phase[s] = "written" THEN Work(queue, [phase EXCEPT ![s] = next])
        ELSE phase' = [phase EXCEPT ![s] = next] /\ UNCHANGED <<queue, working, since>>
  BY DEF Close, RenameFails
<1>2. /\ phase[s] \in {"written", "failed"}
      /\ UNCHANGED <<buffers, out, loads, triggers, crashes, saved, early>>
      /\ file' = [file EXCEPT ![s] = out[s]] \/ UNCHANGED file
  BY DEF Close, RenameFails
<1>3. /\ queue' \in Seq(Stream) /\ working' \in BOOLEAN
      /\ phase' \in [Stream -> Phase] /\ since' \in [Stream -> SUBSET SUBSET Chunk]
      /\ working' <=> AtWork' # {}
      /\ \A t, u \in AtWork' : t = u
      /\ ~working' => queue' = <<>>
      /\ Recent'
  <2>1. /\ queue \in Seq(Stream) /\ working \in BOOLEAN
        /\ since \in [Stream -> SUBSET SUBSET Chunk]
    BY DEF TypeOK
  <2>2. CASE phase[s] = "written"
    <3> DEFINE ph == [phase EXCEPT ![s] = next]
    <3>1. /\ ph \in [Stream -> Phase]
          /\ \A t \in Stream : ph[t] \notin Busy
          /\ \A t \in Stream : ph[t] \in {phase[t], "idle"} \/ phase[t] # "idle"
      BY <2>2, Alone DEF Phase, Busy
    <3>2. Work(queue, ph)
      BY <1>1, <2>2
    <3> HIDE DEF ph
    <3> QED BY <1>2, <2>1, <3>1, <3>2, GoesOn DEF buffers
  <2>3. CASE phase[s] = "failed"
    <3>1. phase' = [phase EXCEPT ![s] = next] /\ UNCHANGED <<queue, working, since>>
      BY <1>1, <2>3
    <3> QED BY <1>2, <2>1, <2>3, <3>1, EndsUnnoticed DEF buffers
  <2> QED BY <1>2, <2>2, <2>3
<1>4. /\ file \in [Stream -> {NoFile} \cup SUBSET Chunk]
      /\ out \in [Stream -> {NoFile} \cup SUBSET Chunk]
  BY DEF TypeOK
<1>5. file' \in [Stream -> {NoFile} \cup SUBSET Chunk]
  BY <1>2, <1>4
<1>6. TypeOK'
  BY <1>2, <1>3, <1>5 DEF TypeOK, Phase, buffers, loads
<1>7. \A t \in Stream : Bytes(file'[t]) \subseteq Bytes(file[t]) \cup Bytes(out[t])
  BY <1>2, <1>4 DEF Bytes
<1>8. Numbered'
  BY <1>2, <1>7 DEF Numbered, buffers, loads
<1>9. InTurn' /\ ComesBack'
  BY <1>2, DumpsWait, LoadedByThen DEF buffers
<1> QED BY <1>3, <1>6, <1>8, <1>9 DEF OneAtATime

LEMMA TriggerStep ==
    ASSUME DumpAssumption, IInv, Trigger
    PROVE  IInv'
<1> USE DEF IInv
<1>1. /\ triggers < MaxTrigger /\ triggers' = triggers + 1
      /\ early' = (early \/ loadState # "done")
      /\ UNCHANGED <<buffers, file, out, loads, crashes, saved>>
  BY DEF Trigger
<1>2. /\ queue \in Seq(Stream) /\ Order \in Seq(Stream) /\ phase \in [Stream -> Phase]
      /\ working \in BOOLEAN /\ since \in [Stream -> SUBSET SUBSET Chunk]
  BY DEF TypeOK, DumpAssumption, Phase
<1>3. queue \o Order \in Seq(Stream)
  BY <1>2
<1>4. /\ queue' \in Seq(Stream) /\ working' \in BOOLEAN
      /\ phase' \in [Stream -> Phase] /\ since' \in [Stream -> SUBSET SUBSET Chunk]
      /\ working' <=> AtWork' # {}
      /\ \A t, u \in AtWork' : t = u
      /\ ~working' => queue' = <<>>
      /\ Recent'
  <2>1. CASE working
    <3>1. queue' = queue \o Order /\ UNCHANGED <<working, phase, since>>
      BY <2>1 DEF Trigger
    <3>2. AtWork' = AtWork
      BY <3>1 DEF AtWork
    <3>3. Recent'
      BY <1>1, <3>1 DEF Recent, buffers
    <3> QED BY <1>2, <1>3, <2>1, <3>1, <3>2, <3>3 DEF OneAtATime
  <2>2. CASE ~working
    <3>1. Work(queue \o Order, phase)
      BY <2>2 DEF Trigger
    <3>2. \A t \in Stream : phase[t] \notin Busy
      BY <2>2 DEF OneAtATime, AtWork, Busy
    <3> QED BY <1>1, <1>2, <1>3, <3>1, <3>2, GoesOn DEF buffers
  <2> QED BY <2>1, <2>2
<1>5. TypeOK'
  <2>1. triggers' \in 0 .. MaxTrigger /\ early' \in BOOLEAN
    BY <1>1 DEF TypeOK, DumpAssumption
  <2> QED BY <1>1, <1>4, <2>1 DEF TypeOK, Phase, buffers, loads
<1>6. Numbered'
  BY <1>1 DEF Numbered, buffers, loads
<1>7. InTurn' /\ ComesBack'
  BY <1>1, LoadedByThen DEF buffers
<1> QED BY <1>4, <1>5, <1>6, <1>7 DEF OneAtATime

-----------------------------------------------------------------------------
(* The load *)

\* The next stream's turn: one less is yet to be read.
LEMMA NextInTurn ==
    ASSUME TypeOK, InTurn, toLoad # <<>>, toLoad' = Tail(toLoad),
           loadState = "running", loadState' = "running"
    PROVE  /\ toLoad[1] \in Stream /\ toLoad' \in Seq(Stream)
           /\ \A i, j \in 1 .. Len(toLoad') : toLoad'[i] = toLoad'[j] => i = j
           /\ \A t : ToRead(t)' <=> ToRead(t) /\ t # toLoad[1]
<1>1. toLoad \in Seq(Stream)
  BY DEF TypeOK
<1>2. /\ toLoad' \in Seq(Stream) /\ toLoad[1] \in Stream
      /\ Len(toLoad) \in Nat /\ Len(toLoad) >= 1 /\ Len(toLoad') = Len(toLoad) - 1
      /\ \A i \in 1 .. Len(toLoad') : toLoad'[i] = toLoad[i + 1]
  BY <1>1
<1>3. \A i, j \in 1 .. Len(toLoad) : toLoad[i] = toLoad[j] => i = j
  BY DEF InTurn
<1>4. \A i, j \in 1 .. Len(toLoad') : toLoad'[i] = toLoad'[j] => i = j
  <2> SUFFICES ASSUME NEW i \in 1 .. Len(toLoad'), NEW j \in 1 .. Len(toLoad'),
                      toLoad'[i] = toLoad'[j]
               PROVE  i = j
    OBVIOUS
  <2>1. i + 1 \in 1 .. Len(toLoad) /\ j + 1 \in 1 .. Len(toLoad)
    BY <1>2
  <2>2. i + 1 = j + 1
    BY <1>2, <1>3, <2>1
  <2> QED BY <2>2
<1>5. ASSUME NEW t, ToRead(t)'
      PROVE  ToRead(t) /\ t # toLoad[1]
  <2>1. PICK i \in 1 .. Len(toLoad') : toLoad'[i] = t
    BY <1>5 DEF ToRead
  <2>2. i + 1 \in 1 .. Len(toLoad) /\ toLoad[i + 1] = t /\ 1 \in 1 .. Len(toLoad) /\ i + 1 # 1
    BY <1>2, <2>1
  <2> QED BY <1>3, <2>2 DEF ToRead
<1>6. ASSUME NEW t, ToRead(t), t # toLoad[1]
      PROVE  ToRead(t)'
  <2>1. PICK i \in 1 .. Len(toLoad) : toLoad[i] = t
    BY <1>6 DEF ToRead
  <2>2. i - 1 \in 1 .. Len(toLoad') /\ toLoad'[i - 1] = t
    <3>1. i # 1
      BY <1>6, <2>1
    <3>2. i - 1 \in 1 .. Len(toLoad') /\ (i - 1) + 1 = i
      BY <1>2, <3>1
    <3> QED BY <1>2, <2>1, <3>2
  <2> QED BY <2>2 DEF ToRead
<1> QED BY <1>2, <1>4, <1>5, <1>6

LEMMA LoadBegins ==
    ASSUME DumpAssumption, IInv, Load
    PROVE  IInv'
<1> USE DEF IInv
<1>1. /\ loadState = "waiting" /\ loadState' = "running" /\ toLoad' = Order
      /\ UNCHANGED <<buffers, file, dumps, left, triggers, crashes, history>>
  BY DEF Load
<1>2. /\ Order \in Seq(Stream) /\ DOMAIN Order = 1 .. Len(Order)
      /\ \A i, j \in 1 .. Len(Order) : Order[i] = Order[j] => i = j
  BY DEF DumpAssumption
<1>3. TypeOK'
  BY <1>1, <1>2 DEF TypeOK, buffers, dumps, history
<1>4. OneAtATime'
  BY <1>1, <1>3 DEF OneAtATime, AtWork, dumps
<1>5. Numbered' /\ Recent'
  BY <1>1 DEF Numbered, Recent, buffers, dumps, history
<1>6. \A s \in Stream : ~loading[s]
  BY <1>1 DEF InTurn
<1>7. InTurn'
  BY <1>1, <1>2, <1>6 DEF InTurn, buffers
<1>8. \A s \in Stream : ToRead(s) /\ ToRead(s)'
  BY <1>1, <1>2 DEF ToRead, Stream
<1>9. \A s \in Stream : Unread(s)' = Unread(s)
  BY <1>1, <1>8 DEF Unread, buffers
<1>10. ComesBack'
  BY <1>1, <1>9 DEF ComesBack, buffers, dumps, history
<1> QED BY <1>3, <1>4, <1>5, <1>7, <1>10

LEMMA LoadOpenStep ==
    ASSUME DumpAssumption, IInv, LoadOpen
    PROVE  IInv'
<1> USE DEF IInv
<1> DEFINE s == toLoad[1]
<1>1. /\ loadState = "running" /\ toLoad # <<>> /\ \A t \in Stream : ~loading[t]
      /\ UNCHANGED <<live, last, file, dumps, loadState, triggers, crashes, history>>
  BY DEF LoadOpen, Reading
<1>2. /\ toLoad \in Seq(Stream) /\ s \in Stream /\ loading \in [Stream -> BOOLEAN]
      /\ file \in [Stream -> {NoFile} \cup SUBSET Chunk]
  BY <1>1 DEF TypeOK
<1>3. OneAtATime' <=> TypeOK'
  BY <1>1 DEF OneAtATime, AtWork, dumps
<1>4. Recent'
  BY <1>1 DEF Recent, dumps, history
<1>5. CASE file[s] = NoFile
  <2>1. toLoad' = Tail(toLoad) /\ UNCHANGED <<left, loading>>
    BY <1>5 DEF LoadOpen
  <2>2. /\ toLoad' \in Seq(Stream)
        /\ \A i, j \in 1 .. Len(toLoad') : toLoad'[i] = toLoad'[j] => i = j
        /\ \A t : ToRead(t)' <=> ToRead(t) /\ t # s
    BY <1>1, <2>1, NextInTurn
  <2>3. TypeOK'
    BY <1>1, <2>1, <2>2 DEF TypeOK, dumps, history
  <2>4. Numbered'
    BY <1>1, <2>1 DEF Numbered, dumps
  <2>5. InTurn'
    BY <1>1, <2>1, <2>2 DEF InTurn
  <2>6. \A t \in Stream : Unread(t)' = Unread(t)
    BY <1>1, <1>5, <2>1, <2>2 DEF Unread, Bytes
  <2>7. ComesBack'
    BY <1>1, <2>6 DEF ComesBack, dumps, history
  <2> QED BY <1>3, <1>4, <2>3, <2>4, <2>5, <2>7
<1>6. CASE file[s] # NoFile
  <2>1. left' = file[s] /\ loading' = [loading EXCEPT ![s] = TRUE] /\ UNCHANGED toLoad
    BY <1>6 DEF LoadOpen
  <2>2. Bytes(file[s]) = file[s] /\ file[s] \in SUBSET Chunk
    BY <1>2, <1>6 DEF Bytes
  <2>3. TypeOK'
    BY <1>1, <1>2, <2>1, <2>2 DEF TypeOK, dumps, history
  <2>4. Numbered'
    BY <1>1, <1>2, <2>1, <2>2 DEF Numbered, dumps
  <2>5. \A t \in Stream : loading'[t] <=> t = s
    BY <1>1, <1>2, <2>1
  <2>6. InTurn'
    BY <1>1, <2>1, <2>5 DEF InTurn
  <2>7. ToRead(s)
    <3>1. 1 \in 1 .. Len(toLoad)
      BY <1>1, <1>2
    <3> QED BY <3>1 DEF ToRead
  <2>8. \A t \in Stream : Unread(t)' = Unread(t)
    BY <1>1, <2>1, <2>2, <2>5, <2>7 DEF Unread, ToRead
  <2>9. ComesBack'
    BY <1>1, <2>8 DEF ComesBack, dumps, history
  <2> QED BY <1>3, <1>4, <2>3, <2>4, <2>6, <2>9
<1> QED BY <1>5, <1>6

LEMMA LoadChunkStep ==
    ASSUME DumpAssumption, IInv, NEW s \in Stream, LoadChunk(s)
    PROVE  IInv'
<1> USE DEF IInv
<1> DEFINE c == CHOOSE n \in left : \A m \in left : m <= n
           chunks == Inserted(live[s], c)
<1>1. /\ loading[s] /\ left # {} /\ left' = left \ {c} /\ SetLive(s, chunks)
      /\ UNCHANGED <<loading, last, file, dumps, toLoad, loadState, triggers, crashes, saved, early>>
  BY DEF LoadChunk
<1>2. left \in SUBSET Chunk /\ live[s] \in SUBSET Chunk /\ live \in [Stream -> SUBSET Chunk]
  BY DEF TypeOK
<1>3. c \in left
  <2>1. \E n \in left : \A m \in left : m <= n
    BY <1>1, <1>2, ChunkIsNat, Greatest DEF Chunk
  <2> QED BY <2>1
<1> HIDE DEF c
<1>4. /\ chunks \in SUBSET Chunk /\ live[s] \subseteq chunks
      /\ chunks \subseteq live[s] \cup {c}
      /\ (\A d \in live[s] : d > c) => chunks = live[s] \cup {c}
  BY <1>2, <1>3 DEF Inserted
<1> HIDE DEF chunks
<1>5. /\ live' = [live EXCEPT ![s] = chunks]
      /\ live' \in [Stream -> SUBSET Chunk]
      /\ since' \in [Stream -> SUBSET SUBSET Chunk]
      /\ Recent'
  BY <1>1, <1>4, Changed DEF dumps
<1>6. TypeOK'
  BY <1>1, <1>2, <1>5 DEF TypeOK, dumps
<1>7. OneAtATime'
  BY <1>1, <1>6 DEF OneAtATime, AtWork, dumps
<1>8. \A t \in Stream : live'[t] = IF t = s THEN chunks ELSE live[t]
  BY <1>2, <1>5
<1>9. Numbered'
  BY <1>1, <1>3, <1>4, <1>8 DEF Numbered, dumps
<1>10. InTurn'
  BY <1>1 DEF InTurn
<1>11. \A t \in Stream : Unread(t)' = IF t = s THEN left \ {c} ELSE Unread(t)
  BY <1>1 DEF InTurn, Unread, ToRead
<1>12. ComesBack'
  <2> SUFFICES ASSUME ~early
               PROVE  /\ saved[s] \subseteq chunks \cup (left \ {c})
                      /\ \A n \in left \ {c}, d \in chunks : n < d
    BY <1>1, <1>8, <1>11 DEF ComesBack, dumps
  <2>1. saved[s] \subseteq live[s] \cup left /\ \A n \in left, d \in live[s] : n < d
    BY <1>1 DEF ComesBack, Unread
  <2>2. \A n \in left : n \in Nat
    BY <1>2, ChunkIsNat
  <2>3. \A n \in left \ {c} : n < c
    <3>1. \A n \in left : n <= c
      <4>1. \E n \in left : \A m \in left : m <= n
        BY <1>1, <1>2, ChunkIsNat, Greatest DEF Chunk
      <4> QED BY <4>1 DEF c
    <3> QED BY <1>3, <2>2, <3>1
  <2>4. \A d \in live[s] : d > c
    <3>1. \A d \in live[s] : d \in Nat
      BY <1>2, ChunkIsNat
    <3> QED BY <1>3, <2>1, <2>2, <3>1
  <2>5. chunks = live[s] \cup {c}
    BY <1>4, <2>4
  <2> QED BY <1>3, <2>1, <2>3, <2>5
<1> QED BY <1>5, <1>6, <1>7, <1>9, <1>10, <1>12

LEMMA LoadEndStep ==
    ASSUME DumpAssumption, IInv, NEW s \in Stream, LoadEnd(s)
    PROVE  IInv'
<1> USE DEF IInv
<1>1. /\ loading[s] /\ left = {} /\ loading' = [loading EXCEPT ![s] = FALSE]
      /\ toLoad' = Tail(toLoad)
      /\ UNCHANGED <<live, last, file, dumps, left, loadState, triggers, crashes, history>>
  BY DEF LoadEnd
<1>2. toLoad # <<>> /\ s = toLoad[1] /\ loadState = "running"
  BY <1>1 DEF InTurn
<1>3. /\ toLoad' \in Seq(Stream)
      /\ \A i, j \in 1 .. Len(toLoad') : toLoad'[i] = toLoad'[j] => i = j
      /\ \A t : ToRead(t)' <=> ToRead(t) /\ t # s
  BY <1>1, <1>2, NextInTurn
<1>4. loading \in [Stream -> BOOLEAN]
  BY DEF TypeOK
<1>5. \A t \in Stream : ~loading'[t] /\ (t # s => ~loading[t])
  BY <1>1, <1>2, <1>4 DEF InTurn
<1>6. TypeOK'
  BY <1>1, <1>3, <1>4 DEF TypeOK, dumps, history
<1>7. OneAtATime'
  BY <1>1, <1>6 DEF OneAtATime, AtWork, dumps
<1>8. Numbered' /\ Recent'
  BY <1>1 DEF Numbered, Recent, dumps, history
<1>9. InTurn'
  BY <1>1, <1>2, <1>3, <1>5 DEF InTurn
<1>10. \A t \in Stream : Unread(t)' = Unread(t)
  BY <1>1, <1>3, <1>5 DEF Unread
<1>11. ComesBack'
  BY <1>1, <1>10 DEF ComesBack, dumps, history
<1> QED BY <1>6, <1>7, <1>8, <1>9, <1>11

LEMMA LoadDoneStep ==
    ASSUME DumpAssumption, IInv, LoadDone
    PROVE  IInv'
<1> USE DEF IInv
<1>1. /\ loadState = "running" /\ toLoad = <<>> /\ loadState' = "done"
      /\ UNCHANGED <<buffers, file, dumps, toLoad, left, triggers, crashes, history>>
  BY DEF LoadDone
<1>2. TypeOK'
  BY <1>1 DEF TypeOK, buffers, dumps, history
<1>3. OneAtATime'
  BY <1>1, <1>2 DEF OneAtATime, AtWork, dumps
<1>4. Numbered' /\ Recent' /\ InTurn'
  BY <1>1 DEF Numbered, Recent, InTurn, buffers, dumps, history
<1>5. \A t \in Stream : Unread(t)' = Unread(t)
  BY <1>1 DEF Unread, ToRead, buffers
<1>6. ComesBack'
  BY <1>1, <1>5 DEF ComesBack, buffers, dumps, history
<1> QED BY <1>2, <1>3, <1>4, <1>6

LEMMA EmptyTyped ==
    /\ [s \in Stream |-> {}] \in [Stream -> SUBSET Chunk]
    /\ [s \in Stream |-> {}] \in [Stream -> SUBSET SUBSET Chunk]
    /\ [s \in Stream |-> NoFile] \in [Stream -> {NoFile} \cup SUBSET Chunk]
    /\ [s \in Stream |-> FALSE] \in [Stream -> BOOLEAN]
    /\ <<>> \in Seq(Stream)
  OBVIOUS

LEMMA CrashStep ==
    ASSUME DumpAssumption, IInv, Crash
    PROVE  IInv'
<1> USE DEF IInv
<1>1. /\ crashes < MaxCrash /\ crashes' = crashes + 1
      /\ saved' = [s \in Stream |-> Bytes(file[s])]
      /\ live' = [s \in Stream |-> {}] /\ loading' = [s \in Stream |-> FALSE]
      /\ queue' = <<>> /\ working' = FALSE /\ phase' = [s \in Stream |-> "idle"]
      /\ out' = [s \in Stream |-> NoFile]
      /\ toLoad' = <<>> /\ loadState' = "waiting" /\ left' = {} /\ triggers' = 0
      /\ since' = [s \in Stream |-> {}] /\ early' = FALSE
      /\ UNCHANGED <<last, file>>
  BY DEF Crash, Bytes
<1>2. /\ crashes' \in 0 .. MaxCrash /\ triggers' \in 0 .. MaxTrigger
      /\ saved' \in [Stream -> SUBSET Chunk]
  <2>1. crashes \in 0 .. MaxCrash /\ file \in [Stream -> {NoFile} \cup SUBSET Chunk]
    BY DEF TypeOK
  <2>2. MaxCrash \in Nat /\ MaxTrigger \in Nat
    BY DEF DumpAssumption
  <2>3. \A s \in Stream : Bytes(file[s]) \in SUBSET Chunk
    BY <2>1, BytesTyped
  <2>4. saved' \in [Stream -> SUBSET Chunk]
    BY <1>1, <2>3
  <2>5. crashes' \in 0 .. MaxCrash /\ triggers' \in 0 .. MaxTrigger
    BY <1>1, <2>1, <2>2
  <2> QED BY <2>4, <2>5
<1>3. TypeOK'
  BY <1>1, <1>2, EmptyTyped DEF TypeOK
<1>4. OneAtATime'
  <2>1. AtWork' = {}
    BY <1>1 DEF AtWork
  <2> QED BY <1>1, <1>3, <2>1 DEF OneAtATime
<1>5. Numbered' /\ Recent' /\ InTurn'
  BY <1>1 DEF Numbered, Recent, InTurn, Bytes
<1>6. \A s \in Stream : Unread(s)' = Bytes(file[s])
  BY <1>1 DEF Unread, ToRead
<1>7. ComesBack'
  BY <1>1, <1>6 DEF ComesBack
<1> QED BY <1>3, <1>4, <1>5, <1>7

-----------------------------------------------------------------------------
LEMMA Initially == DumpAssumption /\ Init => IInv
<1> SUFFICES ASSUME DumpAssumption, Init PROVE IInv
  OBVIOUS
<1>1. TypeOK
  <2>1. last \in 0 .. MaxChunk /\ triggers \in 0 .. MaxTrigger /\ crashes \in 0 .. MaxCrash
    BY DEF Init, DumpAssumption
  <2> QED BY <2>1, EmptyTyped DEF Init, TypeOK
<1>2. OneAtATime
  <2>1. AtWork = {}
    BY DEF Init, AtWork
  <2> QED BY <1>1, <2>1 DEF Init, OneAtATime
<1>3. Numbered /\ Recent /\ InTurn
  BY DEF Init, Numbered, Recent, InTurn, Bytes
<1>4. ComesBack
  BY DEF Init, ComesBack
<1> QED BY <1>1, <1>2, <1>3, <1>4 DEF IInv

LEMMA StepKeeps == DumpAssumption /\ IInv /\ [Next]_vars => IInv'
<1> SUFFICES ASSUME DumpAssumption, IInv, [Next]_vars PROVE IInv'
  OBVIOUS
<1>1. ASSUME NEW s \in Stream, Deliver(s) \/ ResetRewind(s)
      PROVE  IInv'
  BY <1>1, DeliverStep, ResetStep
<1>2. ASSUME NEW s \in Stream, DumpStep(s) \/ DumpFails(s)
      PROVE  IInv'
  BY <1>2, OpenStep, WriteStep, EndStep, OpenFailsStep, WriteFailsStep DEF DumpStep, DumpFails
<1>3. CASE Trigger
  BY <1>3, TriggerStep
<1>4. CASE Load \/ LoadStep
  BY <1>4, LoadBegins, LoadOpenStep, LoadDoneStep, LoadChunkStep, LoadEndStep DEF LoadStep
<1>5. CASE Crash
  BY <1>5, CrashStep
<1>6. CASE UNCHANGED vars
  <2>1. TypeOK' /\ OneAtATime'
    BY <1>6 DEF vars, buffers, dumps, loads, history, IInv, TypeOK, OneAtATime, AtWork
  <2>2. Numbered' /\ Recent' /\ InTurn'
    BY <1>6 DEF vars, buffers, dumps, loads, history, IInv, Numbered, Recent, InTurn
  <2>3. ComesBack'
    BY <1>6 DEF vars, buffers, dumps, loads, history, IInv, ComesBack, Unread, ToRead
  <2> QED BY <2>1, <2>2, <2>3 DEF IInv
<1> QED BY <1>1, <1>2, <1>3, <1>4, <1>5, <1>6 DEF Next

LEMMA Inductive == Spec => []IInv
<1> QED BY DumpAssumption, Initially, StepKeeps, PTL DEF Spec

\* Every reachable state is well typed, the queue is worked on by one dump at a time
\* and knows whether it is, and nothing waits in it otherwise (_dump of
\* RewindDumpRestore).  Loads and dumps that have failed are not part of this.
THEOREM DumpsRunOneAtATime == Spec => []OneAtATime
<1>1. IInv => OneAtATime
  BY DEF IInv
<1> QED BY <1>1, Inductive, PTL

\* Whatever fails and whenever the process dies, a dump file holds a state the
\* buffer was in as a whole since its dump began, or what a failed dump left
\* (_dump of Dumper, dumpBuffer of RewindBuffer).
THEOREM DumpsAreFresh == Spec => DumpIsFresh
<1>1. IInv /\ [Next]_vars =>
        [\A s \in Stream : file'[s] # file[s] => Whole(s) \/ phase[s] = "failed"]_vars
  <2> SUFFICES ASSUME IInv, Next, NEW s \in Stream, file'[s] # file[s], phase[s] # "failed"
               PROVE  Whole(s)
    OBVIOUS
  <2>1. PICK t \in Stream : Close(t)
    BY DEF Next, Deliver, ResetRewind, DumpStep, DumpFails, Trigger, Load, LoadStep, Crash, Open,
           Write, OpenFails, WriteFails, RenameFails, LoadOpen, LoadDone, LoadChunk, LoadEnd
  <2>2. /\ file' = [file EXCEPT ![t] = out[t]] /\ phase[t] \in {"written", "failed"}
        /\ file \in [Stream -> {NoFile} \cup SUBSET Chunk]
    BY <2>1 DEF Close, IInv, TypeOK
  <2>3. t = s /\ file'[s] = out[s] /\ phase[s] = "written"
    BY <2>2
  <2>4. Bytes(out[s]) \in since[s]
    BY <2>3 DEF IInv, Recent
  <2> QED BY <2>3, <2>4 DEF Whole, Bytes
<1> QED BY <1>1, Inductive, PTL DEF Spec, DumpIsFresh

\* What was on disk when the process died is on disk or back in the buffer until
\* it is reset, however often sources deliver and dumps run or fail afterwards, if
\* the timer does not run off before the load is over (load of RewindDumpRestore).
THEOREM NothingIsLost == Spec => []NothingLost
<1>1. IInv => NothingLost
  <2> SUFFICES ASSUME IInv, ~early, NEW s \in Stream
               PROVE  saved[s] \subseteq live[s] \cup Bytes(file[s])
    BY DEF NothingLost, OnDiskOrLive, Bytes
  <2>1. CASE loadState # "done"
    BY <2>1 DEF IInv, ComesBack
  <2>2. CASE loadState = "done"
    <3>1. Unread(s) = {}
      BY <2>2 DEF IInv, InTurn, Unread, ToRead
    <3> QED BY <3>1 DEF IInv, ComesBack
  <2> QED BY <2>1, <2>2
<1> QED BY <1>1, Inductive, PTL
=============================================================================

------------------------- MODULE RewindBufferProofs ------------------------
(***************************************************************************)
(* Proofs about RewindBuffer for every set of sources, keys, lengths,      *)
(* listeners and every bound.                                              *)
(*                                                                         *)
(* What inserting and truncating do to an ordered buffer is stated once,   *)
(* in the lemmas on the store; every step of the buffer is one of them, a  *)
(* wipe or leaves the buffer alone.                                        *)
(***************************************************************************)
EXTENDS RewindBuffer, SequenceTheorems, WellFoundedInduction, TLAPS

\* A load that runs has read its header.
LoadHasKey == load.state = "loading" => load.key \in Key

IInv == TypeOK /\ LoadHasKey /\ Ordered /\ Bounded

InOrder(buf) == \A i, j \in 1 .. Len(buf) : i < j => buf[i].ts < buf[j].ts

----------------------------------------------------------------------------
(* The store *)

\* Truncating keeps the newest chunks: the order stays, the newest one stays,
\* and the maximum holds.
LEMMA TruncateKeeps ==
    ASSUME NEW buf \in Seq(Chunk), NEW max \in Nat, InOrder(buf)
    PROVE  /\ Truncate(buf, max) \in Seq(Chunk)
           /\ InOrder(Truncate(buf, max))
           /\ max > 0 => Len(Truncate(buf, max)) <= max
           /\ buf # <<>> => /\ Truncate(buf, max) # <<>>
                            /\ Newest(Truncate(buf, max)) = Newest(buf)
<1> DEFINE n == Len(buf)
           t == SubSeq(buf, n - max + 1, n)
<1>1. n \in Nat
  BY LenProperties
<1>2. CASE max > 0 /\ n > max
  <2>1. n - max + 1 \in 1 .. n
    BY <1>1, <1>2
  <2>2. \A i \in (n - max + 1) .. n : buf[i] \in Chunk
    BY <1>1, <2>1, ElementOfSeq
  <2>3. /\ t \in Seq(Chunk)
        /\ Len(t) = max
        /\ \A i \in 1 .. max : t[i] = buf[n - max + i]
    <3>1. /\ t \in Seq(Chunk)
          /\ Len(t) = IF n - max + 1 <= n THEN n - (n - max + 1) + 1 ELSE 0
          /\ \A i \in 1 .. n - (n - max + 1) + 1 : t[i] = buf[(n - max + 1) + i - 1]
      BY <1>1, <2>1, <2>2, SubSeqProperties
    <3> QED
      BY <1>1, <1>2, <3>1
  <2>4. InOrder(t)
    <3> SUFFICES ASSUME NEW i \in 1 .. max, NEW j \in 1 .. max, i < j
                 PROVE  t[i].ts < t[j].ts
      BY <2>3 DEF InOrder
    <3>1. /\ n - max + i \in 1 .. Len(buf)
          /\ n - max + j \in 1 .. Len(buf)
          /\ n - max + i < n - max + j
      BY <1>1, <1>2
    <3> QED
      BY <2>3, <3>1 DEF InOrder
  <2>5. t # <<>> /\ t[Len(t)] = buf[n]
    <3>1. max \in 1 .. max /\ n - max + max = n
      BY <1>1, <1>2
    <3>2. t[max] = buf[n]
      BY <2>3, <3>1
    <3>3. Len(t) # 0
      BY <1>2, <2>3
    <3>4. t # <<>>
      BY <3>3, Len(<<>>) = 0
    <3> QED
      BY <2>3, <3>2, <3>4
  <2>6. Truncate(buf, max) = t
    BY <1>2 DEF Truncate
  <2> QED
    BY <2>3, <2>4, <2>5, <2>6, <1>2 DEF Newest
<1>3. CASE ~(max > 0 /\ n > max)
  <2>1. Truncate(buf, max) = buf
    BY <1>3 DEF Truncate
  <2> QED
    BY <1>1, <1>3, <2>1
<1> QED
  BY <1>2, <1>3

\* A chunk of any time may be inserted: the order stays, the maximum holds, and
\* the newest chunk is the old one or a newer one.
LEMMA InsertKeeps ==
    ASSUME NEW buf \in Seq(Chunk), NEW c \in Chunk, NEW max \in Nat, InOrder(buf)
    PROVE  /\ Insert(buf, c, max) \in Seq(Chunk)
           /\ InOrder(Insert(buf, c, max))
           /\ max > 0 => Len(Insert(buf, c, max)) <= max
           /\ buf # <<>> => /\ Insert(buf, c, max) # <<>>
                            /\ Newest(Insert(buf, c, max)).ts >= Newest(buf).ts
<1> DEFINE n == Len(buf)
           pre == <<c>> \o buf
           app == Append(buf, c)
<1>1. n \in Nat
  BY LenProperties
<1>2. c.ts \in Int
  BY RewindAssumption DEF Chunk, Time
<1>3. \A i \in 1 .. n : buf[i].ts \in Int
  <2> SUFFICES ASSUME NEW i \in 1 .. n PROVE buf[i].ts \in Int
    OBVIOUS
  <2>1. buf[i] \in Chunk
    BY ElementOfSeq
  <2> QED
    BY <2>1, RewindAssumption DEF Chunk, Time
<1>4. buf = <<>> \/ n \in 1 .. n
  BY <1>1, EmptySeq
<1>5. CASE buf = <<>> \/ c.ts > Newest(buf).ts
  <2>1. /\ app \in Seq(Chunk)
        /\ app # <<>>
        /\ Len(app) = n + 1
        /\ \A i \in 1 .. n : app[i] = buf[i]
        /\ app[n + 1] = c
    BY AppendProperties
  <2>2. InOrder(app)
    <3> SUFFICES ASSUME NEW i \in 1 .. n + 1, NEW j \in 1 .. n + 1, i < j
                 PROVE  app[i].ts < app[j].ts
      BY <2>1 DEF InOrder
    <3>1. CASE j \in 1 .. n
      <4>1. i \in 1 .. n
        BY <1>1, <3>1
      <4> QED
        BY <2>1, <3>1, <4>1 DEF InOrder
    <3>2. CASE j = n + 1
      <4>1. i \in 1 .. n /\ n \in 1 .. n /\ (i = n \/ i < n)
        BY <1>1, <3>2
      <4>2. buf # <<>>
        BY <4>1, EmptySeq
      <4>3. buf[i].ts <= buf[n].ts
        BY <4>1, <1>3 DEF InOrder
      <4>4. buf[n].ts < c.ts
        BY <1>5, <1>2, <1>3, <4>1, <4>2 DEF Newest
      <4> QED
        BY <2>1, <3>2, <4>1, <4>3, <4>4, <1>2, <1>3
    <3> QED
      BY <1>1, <3>1, <3>2
  <2>3. Newest(app) = c
    BY <2>1 DEF Newest
  <2>4. Insert(buf, c, max) = Truncate(app, max)
    BY <1>5 DEF Insert
  <2>5. buf # <<>> => Newest(app).ts >= Newest(buf).ts
    BY <2>3, <1>5, <1>4, <1>2, <1>3 DEF Newest
  <2> QED
    BY <2>1, <2>2, <2>4, <2>5, TruncateKeeps
<1>6. CASE ~(buf = <<>> \/ c.ts > Newest(buf).ts) /\ c.ts < Oldest(buf).ts
  <2>1. /\ pre \in Seq(Chunk)
        /\ Len(pre) = n + 1
        /\ pre[1] = c
        /\ \A i \in 2 .. n + 1 : pre[i] = buf[i - 1]
    <3>1. /\ <<c>> \in Seq(Chunk)
          /\ Len(<<c>>) = 1
          /\ <<c>>[1] = c
      OBVIOUS
    <3>2. /\ pre \in Seq(Chunk)
          /\ Len(pre) = Len(<<c>>) + n
          /\ \A i \in 1 .. Len(<<c>>) + n :
                pre[i] = IF i <= Len(<<c>>) THEN <<c>>[i] ELSE buf[i - Len(<<c>>)]
      BY <3>1, ConcatProperties
    <3> QED
      BY <1>1, <3>1, <3>2
  <2>2. InOrder(pre)
    <3> SUFFICES ASSUME NEW i \in 1 .. n + 1, NEW j \in 1 .. n + 1, i < j
                 PROVE  pre[i].ts < pre[j].ts
      BY <2>1 DEF InOrder
    <3>1. /\ j \in 2 .. n + 1
          /\ j - 1 \in 1 .. n
          /\ pre[j] = buf[j - 1]
      BY <1>1, <2>1
    <3>2. CASE i = 1
      <4>1. 1 \in 1 .. n /\ (j - 1 = 1 \/ 1 < j - 1)
        BY <1>1, <3>1
      <4>2. buf[1].ts <= buf[j - 1].ts
        BY <4>1, <3>1, <1>3 DEF InOrder
      <4>3. c.ts < buf[1].ts
        BY <1>6 DEF Oldest
      <4> QED
        BY <2>1, <3>1, <3>2, <4>1, <4>2, <4>3, <1>2, <1>3
    <3>3. CASE i # 1
      <4>1. i - 1 \in 1 .. n /\ i - 1 < j - 1 /\ pre[i] = buf[i - 1]
        BY <1>1, <2>1, <3>3
      <4> QED
        BY <3>1, <4>1 DEF InOrder
    <3> QED
      BY <3>2, <3>3
  <2>3. pre # <<>> /\ Newest(pre) = Newest(buf)
    BY <2>1, <1>1, <1>4, <1>6, EmptySeq DEF Newest
  <2>4. Insert(buf, c, max) = Truncate(pre, max)
    BY <1>6 DEF Insert
  <2>5. Newest(buf).ts \in Int
    BY <1>3, <1>4, <1>6 DEF Newest
  <2>6. /\ Truncate(pre, max) \in Seq(Chunk)
        /\ InOrder(Truncate(pre, max))
        /\ max > 0 => Len(Truncate(pre, max)) <= max
        /\ Truncate(pre, max) # <<>>
        /\ Newest(Truncate(pre, max)) = Newest(buf)
    BY <2>1, <2>2, <2>3, TruncateKeeps
  <2> HIDE DEF n, app, pre
  <2> QED
    BY <2>4, <2>5, <2>6
<1>7. CASE ~(buf = <<>> \/ c.ts > Newest(buf).ts) /\ ~(c.ts < Oldest(buf).ts)
  <2>1. Insert(buf, c, max) = Truncate(buf, max)
    BY <1>7 DEF Insert
  <2>2. Newest(buf).ts \in Int
    BY <1>3, <1>4, <1>7 DEF Newest
  <2>3. /\ Truncate(buf, max) \in Seq(Chunk)
        /\ InOrder(Truncate(buf, max))
        /\ max > 0 => Len(Truncate(buf, max)) <= max
        /\ Truncate(buf, max) # <<>>
        /\ Newest(Truncate(buf, max)) = Newest(buf)
    BY <1>7, TruncateKeeps
  <2> HIDE DEF n, app, pre
  <2> QED
    BY <2>1, <2>2, <2>3
<1> QED
  BY <1>5, <1>6, <1>7

\* A place holds a chunk or nothing.
LEMMA AtType ==
    ASSUME NEW buf \in Seq(Chunk), NEW o \in Int
    PROVE  At(buf, o) \in Chunk \cup {Nothing}
  BY ElementOfSeq DEF At

\* Any slice of a buffer consists of its chunks.
LEMMA SliceType ==
    ASSUME NEW buf \in Seq(Chunk), NEW from \in Int, NEW to \in Int
    PROVE  Slice(buf, from, to) \in Seq(Chunk)
<1> DEFINE place(i) == IF i < 0 THEN (IF Len(buf) + i < 0 THEN 0 ELSE Len(buf) + i) ELSE i
           first == place(from) + 1
           last == IF place(to) > Len(buf) THEN Len(buf) ELSE place(to)
<1>1. Len(buf) \in Nat
  BY LenProperties
<1>2. first \in Int /\ first >= 1
  BY <1>1
<1>3. last \in Int /\ last <= Len(buf)
  BY <1>1
<1>4. Slice(buf, from, to) = SubSeq(buf, first, last)
  BY DEF Slice
<1> HIDE DEF first, last
<1>5. \A i \in first .. last : buf[i] \in Chunk
  <2> SUFFICES ASSUME NEW i \in first .. last PROVE buf[i] \in Chunk
    OBVIOUS
  <2>1. i \in 1 .. Len(buf)
    BY <1>1, <1>2, <1>3
  <2> QED
    BY <2>1, ElementOfSeq
<1> QED
  BY <1>2, <1>3, <1>4, <1>5, SubSeqProperties

\* So does what range hands out.
LEMMA SpanType ==
    ASSUME NEW buf \in Seq(Chunk), NEW o \in Int, NEW n \in Int
    PROVE  Span(buf, o, n) \in Seq(Chunk)
<1> DEFINE p == Clamp(buf, o)
           l == IF n > p THEN p ELSE n
           start == Len(buf) - 1 - p
<1>1. Len(buf) \in Nat
  BY LenProperties
<1>2. p \in Int
  BY <1>1 DEF Clamp
<1>3. start \in Int /\ start + l \in Int
  BY <1>1, <1>2
<1>4. Span(buf, o, n) = Slice(buf, start, start + l)
  BY DEF Span
<1> QED
  BY <1>3, <1>4, SliceType

----------------------------------------------------------------------------
(* What a listener is handed when it is created *)

\* checkOffset grants a number.
LEMMA CheckOffsetType ==
    ASSUME buffer \in Seq(Chunk), NEW o \in Int
    PROVE  CheckOffset(o) \in Int
<1>1. Len(buffer) \in Nat
  BY LenProperties
<1> QED
  BY <1>1 DEF CheckOffset

\* pumpFrom hands out chunks.
LEMMA PumpFromType ==
    ASSUME buffer \in Seq(Chunk), NEW o \in Int, NEW n \in Int
    PROVE  PumpFrom(o, n) \in Seq(Chunk)
<1>1. <<>> \in Seq(Chunk)
  BY EmptySeq
<1> QED
  BY <1>1, SpanType DEF PumpFrom

\* The burst of a listener and its place after it.
LEMMA BurstType ==
    ASSUME buffer \in Seq(Chunk), NEW o \in Int, NEW n \in Int
    PROVE  /\ PumpSeconds(n) \in Seq(Chunk)
           /\ BurstFrom(o, n).chunks \in Seq(Chunk)
           /\ BurstFrom(o, n).offset \in Int
<1> DEFINE b == CheckOffset(n)
<1>1. b \in Int
  BY CheckOffsetType
<1> HIDE DEF b
<1>2. /\ PumpFrom(b, b) \in Seq(Chunk)
      /\ PumpFrom(o, b) \in Seq(Chunk)
      /\ PumpFrom(o, o) \in Seq(Chunk)
  BY <1>1, PumpFromType
<1>3. PumpSeconds(n) = PumpFrom(b, b)
  BY DEF PumpSeconds, b
<1>4. BurstFrom(o, n) = IF o > b THEN [chunks |-> PumpFrom(o, b), offset |-> o - b]
                                 ELSE [chunks |-> PumpFrom(o, o), offset |-> 0]
  BY DEF BurstFrom, b
<1> QED
  BY <1>1, <1>2, <1>3, <1>4

----------------------------------------------------------------------------
(* Steps *)

\* The maximum is a number, and it holds.
LEMMA MaxHolds ==
    ASSUME IInv
    PROVE  /\ Max \in Nat
           /\ secs \in Nat
           /\ Len(buffer) \in Nat
           /\ InOrder(buffer)
           /\ Max > 0 => Len(buffer) <= Max
<1>1. secs \in Nat
  BY RewindAssumption DEF IInv, TypeOK
<1>2. Len(buffer) \in Nat
  BY LenProperties DEF IInv, TypeOK
<1> QED
  BY <1>1, <1>2 DEF IInv, Ordered, Bounded, InOrder, Max

\* Inserting a chunk keeps what the invariant says of the buffer.
LEMMA InsertStep ==
    ASSUME IInv, NEW c \in Chunk,
           buffer' = Insert(buffer, c, Max), key' = key, secs' = secs
    PROVE  buffer' \in Seq(Chunk) /\ Ordered' /\ Bounded'
<1>1. buffer \in Seq(Chunk)
  BY DEF IInv, TypeOK
<1>2. /\ buffer' \in Seq(Chunk)
      /\ InOrder(buffer')
      /\ Max > 0 => Len(buffer') <= Max
  BY <1>1, MaxHolds, InsertKeeps
<1> QED
  BY <1>2 DEF Ordered, Bounded, InOrder, Max

\* So does truncating it to the length configured once the key is known.
LEMMA TruncateStep ==
    ASSUME IInv, secs' \in Nat,
           buffer' = Truncate(buffer, IF key' = None THEN 0 ELSE secs')
    PROVE  buffer' \in Seq(Chunk) /\ Ordered' /\ Bounded'
<1> DEFINE max == IF key' = None THEN 0 ELSE secs'
<1>1. buffer \in Seq(Chunk) /\ max \in Nat
  BY DEF IInv, TypeOK
<1>2. /\ buffer' \in Seq(Chunk)
      /\ InOrder(buffer')
      /\ max > 0 => Len(buffer') <= max
  BY <1>1, MaxHolds, TruncateKeeps
<1> QED
  BY <1>2 DEF Ordered, Bounded, InOrder

\* And so does learning a stream key.
LEMMA KeyStep ==
    ASSUME IInv, NEW k \in Key, RChunkLength(k), secs' = secs
    PROVE  /\ buffer' \in Seq(Chunk) /\ key' \in Key /\ Ordered' /\ Bounded'
           /\ steady' \in BOOLEAN
<1>1. key' = k /\ k # None /\ steady' \in BOOLEAN
  BY RewindAssumption DEF RChunkLength
<1>2. CASE key # None /\ key # k
  <2>1. buffer' = <<>>
    BY <1>2 DEF RChunkLength
  <2>2. buffer' \in Seq(Chunk) /\ Len(buffer') = 0
    BY <2>1, EmptySeq
  <2> QED
    BY <1>1, <2>2, MaxHolds DEF Ordered, Bounded
<1>3. CASE key = None
  <2>1. buffer' = Truncate(buffer, IF key' = None THEN 0 ELSE secs')
    BY <1>1, <1>3 DEF RChunkLength
  <2> QED
    BY <1>1, <2>1, TruncateStep, MaxHolds
<1>4. CASE key = k
  <2>1. buffer' = buffer /\ key' = key
    BY <1>1, <1>4 DEF RChunkLength
  <2> QED
    BY <1>1, <2>1 DEF IInv, TypeOK, Ordered, Bounded
<1> QED
  BY <1>2, <1>3, <1>4

\* Every step keeps the invariant.
LEMMA StepKeeps ==
    ASSUME IInv, [Next]_vars
    PROVE  IInv'
<1> USE DEF IInv, LoadHasKey
<1>1. CASE UNCHANGED vars
  BY <1>1 DEF vars, source, clients, TypeOK, Ordered, Bounded
<1>2. ASSUME NEW s \in Source, ConnectSource(s) PROVE IInv'
  BY <1>2 DEF ConnectSource, clients, TypeOK, Ordered, Bounded
<1>3. CASE SourceVitals
  <2>1. connecting \in Source /\ KeyOf[connecting] \in Key
    BY <1>3, RewindAssumption DEF SourceVitals, TypeOK
  <2>2. PICK k \in Key : k = KeyOf[connecting]
    BY <2>1
  <2>3. RChunkLength(k) /\ secs' = secs
    BY <1>3, <2>2 DEF SourceVitals
  <2>4. /\ buffer' \in Seq(Chunk) /\ key' \in Key /\ Ordered' /\ Bounded'
        /\ steady' \in BOOLEAN
    BY <2>3, KeyStep
  <2> QED
    BY <1>3, <2>1, <2>4 DEF SourceVitals, clients, TypeOK
<1>4. ASSUME NEW n \in Secs, SetRewind(n) PROVE IInv'
  <2>1. secs' \in Nat /\ buffer' = Truncate(buffer, IF key' = None THEN 0 ELSE secs')
    BY <1>4, RewindAssumption DEF SetRewind
  <2>2. buffer' \in Seq(Chunk) /\ Ordered' /\ Bounded'
    BY <2>1, TruncateStep
  <2> QED
    BY <1>4, <2>2 DEF SetRewind, source, clients, TypeOK
<1>5. CASE Live
  <2>1. PICK ts \in Time :
            /\ RData([ts |-> ts, key |-> KeyOf[rsource]])
            /\ now' = IF ts > now THEN ts ELSE now
    BY <1>5 DEF Live
  <2>2. PICK c \in Chunk : c = [ts |-> ts, key |-> KeyOf[rsource]]
    BY <1>5, RewindAssumption DEF Live, Chunk, TypeOK
  <2>3. buffer' \in Seq(Chunk) /\ Ordered' /\ Bounded'
    BY <1>5, <2>1, <2>2, InsertStep DEF Live, RData
  <2>4. now' \in 0 .. MaxTs
    BY <2>1, RewindAssumption DEF Time, TypeOK
  <2>5. heard' \in [Client -> Seq(Chunk \cup {Nothing})]
    <3> SUFFICES ASSUME NEW l \in Client
                 PROVE  heard'[l] \in Seq(Chunk \cup {Nothing})
      BY <2>1, <2>2 DEF RData
    <3>1. At(buffer', offset[l]) \in Chunk \cup {Nothing}
      BY <2>3, AtType DEF TypeOK
    <3>2. heard[l] \in Seq(Chunk \cup {Nothing})
      BY DEF TypeOK
    <3>3. heard'[l] = heard[l] \/ heard'[l] = Append(heard[l], At(buffer', offset[l]))
      BY <2>1, <2>2 DEF RData
    <3> QED
      BY <3>1, <3>2, <3>3, AppendProperties
  <2>6. crashed' \in BOOLEAN
    BY <2>1 DEF RData
  <2> QED
    BY <1>5, <2>3, <2>4, <2>5, <2>6 DEF Live, source, TypeOK
<1>6. CASE Miss
  <2>1. now' \in 0 .. MaxTs /\ missed' \in SUBSET Time
    BY <1>6, RewindAssumption DEF Miss, Time, TypeOK
  <2> QED
    BY <1>6, <2>1 DEF Miss, source, clients, TypeOK, Ordered, Bounded
<1>7. ASSUME NEW k \in LoadKey, NEW from \in 0 .. now, LoadHeader(k, from) PROVE IInv'
  <2>1. k \in Key /\ from \in 0 .. MaxTs
    BY RewindAssumption DEF TypeOK
  <2>2. /\ buffer' \in Seq(Chunk) /\ key' \in Key /\ Ordered' /\ Bounded'
        /\ steady' \in BOOLEAN
    BY <1>7, <2>1, KeyStep DEF LoadHeader
  <2> QED
    BY <1>7, <2>1, <2>2 DEF LoadHeader, source, clients, TypeOK
<1>8. CASE LoadChunk
  <2>1. load.next \in Time /\ load.key \in Key
    BY <1>8, RewindAssumption DEF LoadChunk, Time, TypeOK
  <2>2. PICK c \in Chunk : c = [ts |-> load.next, key |-> load.key]
    BY <2>1 DEF Chunk
  <2>3. buffer' \in Seq(Chunk) /\ Ordered' /\ Bounded'
    BY <1>8, <2>2, InsertStep DEF LoadChunk
  <2>4. load' = [load EXCEPT !.next = load.next - 1]
    BY <1>8 DEF LoadChunk
  <2>5. load.next - 1 \in 0 .. MaxTs
    BY <2>1, RewindAssumption DEF Time
  <2>6. /\ load' \in [state : {"none", "loading", "ended"}, key : Key \cup {None}, next : 0 .. MaxTs]
        /\ load'.key \in Key
    BY <2>1, <2>4, <2>5 DEF TypeOK
  <2> QED
    BY <1>8, <2>3, <2>6 DEF LoadChunk, source, clients, TypeOK
<1>9. CASE LoadEnd
  BY <1>9 DEF LoadEnd, source, clients, TypeOK, Ordered, Bounded
<1>10. ASSUME NEW c \in Client, NEW ask \in Offset, NEW burst \in Burst,
              GetRewinder(c, ask, burst)
       PROVE  IInv'
  <2> DEFINE o == IF ask = 0 THEN 0 ELSE CheckOffset(ask)
             start == CASE burst = 0 -> [chunks |-> <<>>, offset |-> o]
                        [] burst > 0 /\ o = 0 -> [chunks |-> PumpSeconds(burst), offset |-> 0]
                        [] OTHER -> BurstFrom(o, burst)
  <2>1. ask \in Int /\ burst \in Int /\ buffer \in Seq(Chunk)
    BY RewindAssumption DEF TypeOK
  <2>2. o \in Int
    BY <2>1, CheckOffsetType
  <2>3. <<>> \in Seq(Chunk)
    BY EmptySeq
  <2>4. start.chunks \in Seq(Chunk) /\ start.offset \in Int
    <3> HIDE DEF o
    <3>1. /\ PumpSeconds(burst) \in Seq(Chunk)
          /\ BurstFrom(o, burst).chunks \in Seq(Chunk)
          /\ BurstFrom(o, burst).offset \in Int
      BY <2>1, <2>2, BurstType
    <3>2. CASE burst = 0
      <4>1. start = [chunks |-> <<>>, offset |-> o]
        BY <3>2
      <4> HIDE DEF start
      <4> QED
        BY <2>2, <2>3, <4>1
    <3>3. CASE burst > 0 /\ o = 0
      <4>1. start = [chunks |-> PumpSeconds(burst), offset |-> 0]
        BY <3>3
      <4> QED
        BY <3>1, <4>1
    <3>4. CASE burst > 0 /\ o # 0
      <4>1. start = BurstFrom(o, burst)
        BY <3>4
      <4> QED
        BY <3>1, <4>1
    <3>5. burst \in Nat
      BY RewindAssumption
    <3> QED
      BY <3>2, <3>3, <3>4, <3>5
  <2>5. /\ offset' = [offset EXCEPT ![c] = start.offset]
        /\ pumped' = [pumped EXCEPT ![c] = start.chunks]
    BY <1>10 DEF GetRewinder
  <2> HIDE DEF start
  <2>6. offset' \in [Client -> Int] /\ pumped' \in [Client -> Seq(Chunk)]
    BY <2>4, <2>5 DEF TypeOK
  <2> QED
    BY <1>10, <2>6 DEF GetRewinder, source, TypeOK, Ordered, Bounded
<1>11. ASSUME NEW c \in Client, NEW ask \in Offset, NEW burst \in Burst,
              PumpOnly(c, ask, burst)
       PROVE  IInv'
  <2> DEFINE o == IF ask = 0 THEN 0 ELSE CheckOffset(ask)
  <2>1. ask \in Int /\ burst \in Int /\ buffer \in Seq(Chunk)
    BY RewindAssumption DEF TypeOK
  <2>2. o \in Int
    BY <2>1, CheckOffsetType
  <2>3. pumped' = [pumped EXCEPT ![c] = PumpFrom(o, burst)]
    BY <1>11 DEF PumpOnly
  <2> HIDE DEF o
  <2>4. PumpFrom(o, burst) \in Seq(Chunk)
    BY <2>1, <2>2, PumpFromType
  <2>5. pumped' \in [Client -> Seq(Chunk)]
    BY <2>3, <2>4 DEF TypeOK
  <2> QED
    BY <1>11, <2>5 DEF PumpOnly, source, TypeOK, Ordered, Bounded
<1>12. ASSUME NEW c \in Client, Disconnect(c) PROVE IInv'
  <2>1. offset' \in [Client -> Int]
    BY <1>12 DEF Disconnect, TypeOK
  <2> QED
    BY <1>12, <2>1 DEF Disconnect, source, TypeOK, Ordered, Bounded
<1> QED
  BY <1>1, <1>2, <1>3, <1>4, <1>5, <1>6, <1>7, <1>8, <1>9, <1>10, <1>11, <1>12 DEF Next

----------------------------------------------------------------------------
(* Theorems *)

\* The inductive invariant: types, the key of a running load, order and bound.
THEOREM Invariance == Spec => []IInv
<1>1. Init => IInv
  <2> SUFFICES ASSUME Init PROVE IInv
    OBVIOUS
  <2>1. /\ buffer = <<>>
        /\ \A S : <<>> \in Seq(S)
        /\ Len(buffer) = 0
    BY EmptySeq DEF Init
  <2>2. /\ offset \in [Client -> Int]
        /\ pumped \in [Client -> Seq(Chunk)]
        /\ heard \in [Client -> Seq(Chunk \cup {Nothing})]
    <3>1. <<>> \in Seq(Chunk) /\ <<>> \in Seq(Chunk \cup {Nothing})
      BY <2>1
    <3> QED
      BY <3>1 DEF Init
  <2>3. load \in [state : {"none", "loading", "ended"}, key : Key \cup {None}, next : 0 .. MaxTs]
    BY RewindAssumption DEF Init
  <2>4. TypeOK
    BY <2>1, <2>2, <2>3, RewindAssumption DEF Init, TypeOK
  <2> QED
    BY <2>1, <2>4 DEF Init, IInv, LoadHasKey, Ordered, Bounded
<1>2. IInv /\ [Next]_vars => IInv'
  BY StepKeeps
<1> QED
  BY <1>1, <1>2, PTL DEF Spec

\* Every reachable state is well typed.
THEOREM TypeCorrect == Spec => []TypeOK
<1>1. IInv => TypeOK
  BY DEF IInv
<1> QED
  BY <1>1, Invariance, PTL

\* Whatever order live and loaded chunks come in, the buffer is ordered by
\* timestamp without repetition, as insert takes a chunk at either end only, and
\* keeps to the configured length.
THEOREM BufferInShape == Spec => []InShape
<1>1. IInv => InShape
  BY DEF IInv, InShape
<1> QED
  BY <1>1, Invariance, PTL

\* No step drops the newest chunk but a wipe for another stream key: what
\* _truncate removes is always the oldest.
THEOREM NewestIsKept == Spec => NewestStays
<1> DEFINE Kept == buffer # <<>> /\ key' = key
                     => buffer' # <<>> /\ Newest(buffer').ts >= Newest(buffer).ts
<1>1. IInv /\ [Next]_vars => [Kept]_vars
  <2> SUFFICES ASSUME IInv, Next, buffer # <<>>, key' = key
               PROVE  buffer' # <<>> /\ Newest(buffer').ts >= Newest(buffer).ts
    OBVIOUS
  <2>1. /\ buffer \in Seq(Chunk)
        /\ InOrder(buffer)
        /\ Max \in Nat
    BY MaxHolds DEF IInv, TypeOK
  <2>2. Newest(buffer).ts \in Int
    <3>1. Len(buffer) \in 1 .. Len(buffer)
      BY <2>1, EmptySeq, LenProperties
    <3>2. Newest(buffer) \in Chunk
      BY <2>1, <3>1, ElementOfSeq DEF Newest
    <3> QED
      BY <3>2, RewindAssumption DEF Chunk, Time
  <2>3. CASE buffer' = buffer
    BY <2>2, <2>3
  <2>4. ASSUME NEW max \in Nat, buffer' = Truncate(buffer, max)
        PROVE  buffer' # <<>> /\ Newest(buffer').ts >= Newest(buffer).ts
    BY <2>1, <2>2, <2>4, TruncateKeeps
  <2>5. ASSUME NEW c \in Chunk, buffer' = Insert(buffer, c, Max)
        PROVE  buffer' # <<>> /\ Newest(buffer').ts >= Newest(buffer).ts
    BY <2>1, <2>5, InsertKeeps
  <2>6. secs \in Nat /\ Secs \subseteq Nat
    BY RewindAssumption DEF IInv, TypeOK
  <2>7. ASSUME NEW k, RChunkLength(k)
        PROVE  buffer' # <<>> /\ Newest(buffer').ts >= Newest(buffer).ts
    <3>1. buffer' = buffer \/ buffer' = Truncate(buffer, secs)
      BY <2>7 DEF RChunkLength
    <3> QED
      BY <2>3, <2>4, <2>6, <3>1
  <2>8. CASE SourceVitals
    <3>1. PICK k : k = KeyOf[connecting]
      OBVIOUS
    <3> QED
      BY <2>7, <2>8, <3>1 DEF SourceVitals
  <2>9. CASE Live
    <3>1. PICK ts \in Time : RData([ts |-> ts, key |-> KeyOf[rsource]])
      BY <2>9 DEF Live
    <3>2. PICK c \in Chunk : c = [ts |-> ts, key |-> KeyOf[rsource]]
      BY <2>9, RewindAssumption DEF Live, Chunk, IInv, TypeOK
    <3> QED
      BY <2>5, <3>1, <3>2 DEF RData
  <2>10. CASE LoadChunk
    <3>1. PICK c \in Chunk : c = [ts |-> load.next, key |-> load.key]
      BY <2>10, RewindAssumption DEF LoadChunk, Chunk, Time, IInv, LoadHasKey, TypeOK
    <3> QED
      BY <2>5, <2>10, <3>1 DEF LoadChunk
  <2>11. ASSUME NEW n \in Secs, SetRewind(n)
         PROVE  buffer' # <<>> /\ Newest(buffer').ts >= Newest(buffer).ts
    BY <2>4, <2>6, <2>11 DEF SetRewind
  <2>12. ASSUME NEW k \in LoadKey, NEW from \in 0 .. now, LoadHeader(k, from)
         PROVE  buffer' # <<>> /\ Newest(buffer').ts >= Newest(buffer).ts
    BY <2>7, <2>12 DEF LoadHeader
  <2> QED
    BY <2>3, <2>8, <2>9, <2>10, <2>11, <2>12
    DEF Next, ConnectSource, Miss, LoadEnd, GetRewinder, PumpOnly, Disconnect
<1> QED
  BY <1>1, Invariance, PTL DEF Spec, NewestStays

----------------------------------------------------------------------------
(* A steady buffer: listeners hear every chunk once.  What the invariant   *)
(* says of a buffer, a load and the listeners is kept by steps of two      *)
(* shapes: a live chunk behind the newest one, which may push out the      *)
(* oldest, and a loaded chunk in front of the oldest one.                  *)

\* The times of live chunks are behind the clock, a stream key is known once there
\* may be any, and the sources it is hooked to or waits for were handed to it.
Clocks ==
    /\ ~crashed
    /\ buffer # <<>> => key # None
    /\ \A i \in 1 .. Len(buffer) : buffer[i].ts <= now
    /\ load.next <= now
    /\ load.state = "none" => load.next = 0
    /\ load.state = "loading" => key # None
    /\ rsource # None => rsource \in used /\ key # None
    /\ connecting # None => connecting \in used

Held(ts) == \E i \in 1 .. Len(buffer) : buffer[i].ts = ts

\* Every chunk was missed, or is in the buffer, or older than all that is.
Accounted ==
    \A ts \in 1 .. now :
        ts \in missed \/ Held(ts) \/ (buffer # <<>> /\ ts < Oldest(buffer).ts)

Full == Max > 0 /\ Len(buffer) = Max

\* A load is never ahead of the buffer, and between the next chunk it reads and
\* the oldest one there are only missed ones, unless the buffer is full.
LoadFills ==
    buffer # <<>> =>
        /\ load.state = "loading" => load.next <= Newest(buffer).ts
        /\ load.state # "ended" /\ ~Full =>
                \A ts \in 1 .. now :
                    load.next < ts /\ ts < Oldest(buffer).ts => ts \in missed

\* Until a load is asked for and with one source at most, the newest chunk sent
\* is in the buffer.
FirstSource ==
    load.state = "none" /\ (\A s, t \in used : s = t) /\ buffer # <<>>
        => rsource # None /\ Newest(buffer).ts = now

\* All a listener was handed so far
Handed(c) == pumped[c] \o heard[c]

\* The place in the buffer a listener has got to
Reached(c) == Len(buffer) - offset[c]

\* A listener's offset leads to the chunk it was handed last, or, as long as it was
\* handed no more than its burst, to the one behind that.
Follows(c) ==
    offset[c] >= 0 =>
        /\ Reached(c) >= 0
        /\ heard[c] = <<>> /\ pumped[c] # <<>> =>
                Reached(c) >= 2 /\ Newest(pumped[c]) = buffer[Reached(c) - 1]
        /\ heard[c] # <<>> => Reached(c) >= 1 /\ Newest(heard[c]) = buffer[Reached(c)]

Listeners ==
    \A c \in Client : heard[c] \in Seq(Chunk) /\ Follows(c)

\* What NoSkip says of two chunks, one handed on after the other (last: the first of
\* them ended a burst), when m is what was missed.
Joins(a, b, last, m) ==
    LET passed == {ts \in (a.ts + 1) .. (b.ts - 1) : ts \notin m}
    IN  \/ passed = {}
        \/ last /\ \E ts \in Time : passed = {ts}

SInv ==
    /\ IInv /\ Clocks /\ Accounted /\ LoadFills /\ FirstSource
    /\ Listeners /\ NoReplay /\ NoSkip

\* The number of the chunk's place moves by one when the oldest chunk goes.
Shifts(buf, c, max, d) ==
    /\ d \in {0, 1}
    /\ d = 1 => max > 0 /\ Len(buf) = max
    /\ Len(Insert(buf, c, max)) = Len(buf) + 1 - d
    /\ \A i \in 1 .. Len(buf) + 1 - d :
            Insert(buf, c, max)[i] = IF i + d = Len(buf) + 1 THEN c ELSE buf[i + d]

\* A chunk that is newer than all goes to the end; the oldest one makes room.
LEMMA InsertNewer ==
    ASSUME NEW buf \in Seq(Chunk), NEW c \in Chunk, NEW max \in Nat,
           max > 0 => Len(buf) <= max,
           buf = <<>> \/ c.ts > Newest(buf).ts
    PROVE  \E d \in {0, 1} : Shifts(buf, c, max, d)
<1> DEFINE n == Len(buf)
           app == Append(buf, c)
<1>1. n \in Nat
  BY LenProperties
<1>2. /\ app \in Seq(Chunk)
      /\ Len(app) = n + 1
      /\ \A i \in 1 .. n : app[i] = buf[i]
      /\ app[n + 1] = c
  BY AppendProperties
<1>3. Insert(buf, c, max) = Truncate(app, max)
  BY DEF Insert
<1>4. CASE max > 0 /\ n + 1 > max
  <2>1. n = max
    BY <1>1, <1>4
  <2>2. Truncate(app, max) = SubSeq(app, 2, n + 1)
    BY <1>1, <1>2, <1>4, <2>1 DEF Truncate
  <2>3. \A i \in 2 .. n + 1 : app[i] \in Chunk
    BY <1>1, <1>2, ElementOfSeq
  <2>4. /\ Len(SubSeq(app, 2, n + 1)) = n
        /\ \A i \in 1 .. n : SubSeq(app, 2, n + 1)[i] = app[i + 1]
    <3>1. /\ Len(SubSeq(app, 2, n + 1)) = IF 2 <= n + 1 THEN (n + 1) - 2 + 1 ELSE 0
          /\ \A i \in 1 .. (n + 1) - 2 + 1 : SubSeq(app, 2, n + 1)[i] = app[2 + i - 1]
      BY <1>1, <2>3, SubSeqProperties
    <3> QED
      BY <1>1, <1>4, <2>1, <3>1
  <2>5. Shifts(buf, c, max, 1)
    BY <1>1, <1>2, <1>3, <1>4, <2>1, <2>2, <2>4 DEF Shifts
  <2> QED
    BY <2>5
<1>5. CASE ~(max > 0 /\ n + 1 > max)
  <2>1. Truncate(app, max) = app
    BY <1>1, <1>2, <1>5 DEF Truncate
  <2>2. Shifts(buf, c, max, 0)
    BY <1>1, <1>2, <1>3, <2>1 DEF Shifts
  <2> QED
    BY <2>2
<1> QED
  BY <1>4, <1>5

\* A chunk that is not newer than the newest goes to the front, or nowhere.
Grows(buf, c, max, d) ==
    /\ d \in {0, 1}
    /\ d = 1 => (max = 0 \/ Len(buf) < max) /\ (buf = <<>> \/ c.ts < Oldest(buf).ts)
    /\ d = 0 => buf # <<>> /\ (c.ts >= Oldest(buf).ts \/ (max > 0 /\ Len(buf) = max))
    /\ Len(Insert(buf, c, max)) = Len(buf) + d
    /\ d = 1 => Insert(buf, c, max)[1] = c
    /\ \A i \in 1 .. Len(buf) : Insert(buf, c, max)[i + d] = buf[i]

LEMMA InsertOlder ==
    ASSUME NEW buf \in Seq(Chunk), NEW c \in Chunk, NEW max \in Nat,
           max > 0 => Len(buf) <= max,
           buf = <<>> \/ c.ts <= Newest(buf).ts
    PROVE  \E d \in {0, 1} : Grows(buf, c, max, d)
<1> DEFINE n == Len(buf)
           pre == <<c>> \o buf
<1>1. n \in Nat /\ (buf = <<>> => n = 0) /\ (n = 0 => buf = <<>>)
  BY LenProperties, EmptySeq
<1>2. c.ts \in Int
  BY RewindAssumption DEF Chunk, Time
<1>3. buf # <<>> => buf[n].ts \in Int /\ buf[1].ts \in Int
  <2>1. buf # <<>> => buf[n] \in Chunk /\ buf[1] \in Chunk
    <3>1. buf # <<>> => n \in 1 .. n /\ 1 \in 1 .. n
      BY <1>1
    <3> QED
      BY <3>1, ElementOfSeq
  <2> QED
    BY <2>1, RewindAssumption DEF Chunk, Time
<1>4. CASE buf = <<>>
  <2>1. PICK d \in {0, 1} : Shifts(buf, c, max, d)
    BY <1>4, InsertNewer
  <2>2. d = 0
    BY <1>1, <1>4, <2>1 DEF Shifts
  <2>3. Grows(buf, c, max, 1)
    BY <1>1, <1>4, <2>1, <2>2 DEF Shifts, Grows
  <2> QED
    BY <2>3
<1>5. CASE buf # <<>> /\ c.ts >= Oldest(buf).ts
  <2>1. ~(c.ts > Newest(buf).ts) /\ ~(c.ts < Oldest(buf).ts)
    BY <1>2, <1>3, <1>5 DEF Newest, Oldest
  <2>2. Insert(buf, c, max) = buf
    <3>1. Insert(buf, c, max) = Truncate(buf, max)
      BY <1>5, <2>1 DEF Insert
    <3>2. Truncate(buf, max) = buf
      BY <1>1 DEF Truncate
    <3> QED
      BY <3>1, <3>2
  <2>3. Grows(buf, c, max, 0)
    BY <1>1, <1>5, <2>2 DEF Grows
  <2> QED
    BY <2>3
<1>6. CASE buf # <<>> /\ c.ts < Oldest(buf).ts
  <2>1. /\ pre \in Seq(Chunk)
        /\ Len(pre) = n + 1
        /\ pre[1] = c
        /\ \A i \in 1 .. n : pre[i + 1] = buf[i]
    <3>1. /\ <<c>> \in Seq(Chunk)
          /\ Len(<<c>>) = 1
          /\ <<c>>[1] = c
      OBVIOUS
    <3>2. /\ pre \in Seq(Chunk)
          /\ Len(pre) = Len(<<c>>) + n
          /\ \A i \in 1 .. Len(<<c>>) + n :
                pre[i] = IF i <= Len(<<c>>) THEN <<c>>[i] ELSE buf[i - Len(<<c>>)]
      BY <3>1, ConcatProperties
    <3> QED
      BY <1>1, <3>1, <3>2
  <2>2. ~(c.ts > Newest(buf).ts)
    BY <1>2, <1>3, <1>6 DEF Newest
  <2>3. Insert(buf, c, max) = Truncate(pre, max)
    BY <1>6, <2>2 DEF Insert
  <2>4. CASE max > 0 /\ n + 1 > max
    <3>1. n = max
      BY <1>1, <2>4
    <3>2. Truncate(pre, max) = SubSeq(pre, 2, n + 1)
      BY <1>1, <2>1, <2>4, <3>1 DEF Truncate
    <3>3. \A i \in 2 .. n + 1 : pre[i] \in Chunk
      BY <1>1, <2>1, ElementOfSeq
    <3>4. /\ Len(SubSeq(pre, 2, n + 1)) = IF 2 <= n + 1 THEN (n + 1) - 2 + 1 ELSE 0
          /\ \A i \in 1 .. (n + 1) - 2 + 1 : SubSeq(pre, 2, n + 1)[i] = pre[2 + i - 1]
      BY <1>1, <3>3, SubSeqProperties
    <3> HIDE DEF pre
    <3>5. /\ Len(SubSeq(pre, 2, n + 1)) = n
          /\ \A i \in 1 .. n : SubSeq(pre, 2, n + 1)[i] = buf[i]
      BY <1>1, <2>1, <2>4, <3>1, <3>4
    <3>6. Grows(buf, c, max, 0)
      BY <1>1, <1>6, <2>3, <2>4, <3>1, <3>2, <3>5 DEF Grows
    <3> QED
      BY <3>6
  <2>5. CASE ~(max > 0 /\ n + 1 > max)
    <3>1. Truncate(pre, max) = pre
      BY <1>1, <2>1, <2>5 DEF Truncate
    <3> HIDE DEF pre
    <3>2. Grows(buf, c, max, 1)
      BY <1>1, <1>6, <2>1, <2>3, <2>5, <3>1 DEF Grows
    <3> QED
      BY <3>2
  <2> QED
    BY <2>4, <2>5
<1> QED
  BY <1>2, <1>3, <1>4, <1>5, <1>6 DEF Oldest

\* A slice between two places of the buffer, and one that wraps around because it
\* begins before the first.
LEMMA SliceIs ==
    ASSUME NEW buf, Len(buf) \in Nat, NEW from \in Int, NEW to \in 0 .. Len(buf)
    PROVE  /\ from >= 0 => Slice(buf, from, to) = SubSeq(buf, from + 1, to)
           /\ from = -1 /\ Len(buf) > 0 => Slice(buf, from, to) = SubSeq(buf, Len(buf), to)
<1> DEFINE place(i) == IF i < 0 THEN (IF Len(buf) + i < 0 THEN 0 ELSE Len(buf) + i) ELSE i
<1>1. Slice(buf, from, to)
        = SubSeq(buf, place(from) + 1, IF place(to) > Len(buf) THEN Len(buf) ELSE place(to))
  BY DEF Slice
<1>2. place(to) = to /\ ~(to > Len(buf))
  OBVIOUS
<1>3. from >= 0 => place(from) = from
  OBVIOUS
<1>4. from = -1 /\ Len(buf) > 0 => place(from) + 1 = Len(buf)
  OBVIOUS
<1> HIDE DEF place
<1> QED
  BY <1>1, <1>2, <1>3, <1>4

\* What pumpFrom hands out of an ordered buffer is ordered, and ends before the
\* place it leaves a listener at.
LEMMA PumpFromIs ==
    ASSUME buffer \in Seq(Chunk), Ordered, NEW o \in Int, NEW n \in Int,
           buffer = <<>> \/ (o \in 0 .. Len(buffer) /\ n >= 0)
    PROVE  LET r == PumpFrom(o, n)
               l == IF n > o THEN o ELSE n
           IN  /\ r \in Seq(Chunk)
               /\ \A i \in 1 .. Len(r) - 1 : r[i].ts < r[i + 1].ts
               /\ r # <<>> => /\ buffer # <<>> /\ l >= 1 /\ o < Len(buffer)
                              /\ Newest(r) = buffer[Len(buffer) - o - 1 + l] /\ Len(r) = l
                              /\ \A i \in 1 .. Len(r) : r[i] = buffer[Len(buffer) - o + i - 1]
<1> DEFINE r == PumpFrom(o, n)
           l == IF n > o THEN o ELSE n
           b == Len(buffer)
<1>1. b \in Nat /\ (buffer = <<>> => b = 0) /\ (b = 0 => buffer = <<>>)
  BY LenProperties, EmptySeq
<1>2. r \in Seq(Chunk)
  BY PumpFromType
<1>3. CASE r = <<>>
  <2>1. Len(r) = 0
    BY <1>3, EmptySeq
  <2> QED
    BY <1>2, <1>3, <2>1
<1>4. CASE r # <<>>
  <2>1. r = Span(buffer, o, n) /\ o # 0 /\ n # 0
    BY <1>4 DEF PumpFrom
  <2>2. buffer # <<>>
    <3> SUFFICES ASSUME buffer = <<>> PROVE FALSE
      OBVIOUS
    <3> DEFINE x == Clamp(buffer, o)
               y == IF n > x THEN x ELSE n
               f == b - 1 - x
               place(i) == IF i < 0 THEN (IF b + i < 0 THEN 0 ELSE b + i) ELSE i
    <3>1. b = 0 /\ x \in Int
      BY <1>1 DEF Clamp
    <3>2. r = SubSeq(buffer, place(f) + 1, IF place(f + y) > b THEN b ELSE place(f + y))
      BY <2>1 DEF Span, Slice
    <3>3. /\ place(f) + 1 \in Int /\ place(f) + 1 >= 1
          /\ (IF place(f + y) > b THEN b ELSE place(f + y)) \in Int
          /\ (IF place(f + y) > b THEN b ELSE place(f + y)) <= 0
      BY <3>1
    <3> HIDE DEF place, f, y
    <3>4. r = <<>>
      BY <3>2, <3>3, SubSeqEmpty
    <3> QED
      BY <1>4, <3>4
  <2>3. o \in 1 .. b /\ n >= 1 /\ l \in 1 .. o
    BY <1>1, <2>1, <2>2
  <2>4. Clamp(buffer, o) = o
    BY <1>1, <2>3 DEF Clamp
  <2>5. r = Slice(buffer, b - 1 - o, b - 1 - o + l)
    BY <2>1, <2>4 DEF Span
  <2> HIDE DEF l
  <2>6. o < b
    <3> SUFFICES ASSUME o = b PROVE FALSE
      BY <1>1, <2>3
    <3>1. r = SubSeq(buffer, b, l - 1)
      <4>1. b - 1 - o = -1 /\ b - 1 - o + l = l - 1 /\ l - 1 \in 0 .. b - 1
        BY <1>1, <2>3
      <4> QED
        BY <1>1, <2>3, <2>5, <4>1, SliceIs
    <3>2. l - 1 < b /\ l - 1 \in Int /\ b \in Int
      BY <1>1, <2>3
    <3>3. r = <<>>
      BY <3>1, <3>2, SubSeqEmpty
    <3> QED
      BY <1>4, <3>3
  <2>7. r = SubSeq(buffer, b - o, b - 1 - o + l)
    <3>1. /\ b - 1 - o \in Int /\ b - 1 - o >= 0 /\ b - 1 - o + 1 = b - o
          /\ b - 1 - o + l \in 0 .. b
      BY <1>1, <2>3, <2>6
    <3> QED
      BY <1>1, <2>5, <3>1, SliceIs
  <2>8. \A i \in b - o .. b - 1 - o + l : i \in 1 .. b
    BY <1>1, <2>3, <2>6
  <2>9. Len(r) = l /\ \A i \in 1 .. l : r[i] = buffer[b - o + i - 1]
    <3>1. \A i \in b - o .. b - 1 - o + l : buffer[i] \in Chunk
      BY <2>8, ElementOfSeq
    <3> DEFINE f == b - o
               t == b - 1 - o + l
    <3>2. f \in Int /\ t \in Int /\ t - f + 1 = l /\ f <= t
      BY <1>1, <2>3
    <3>3. r = SubSeq(buffer, f, t) /\ \A i \in f .. t : buffer[i] \in Chunk
      BY <2>7, <3>1
    <3> HIDE DEF t
    <3>4. /\ Len(SubSeq(buffer, f, t)) = IF f <= t THEN t - f + 1 ELSE 0
          /\ \A i \in 1 .. t - f + 1 : SubSeq(buffer, f, t)[i] = buffer[f + i - 1]
      <4> HIDE DEF f
      <4> QED
        BY <3>2, <3>3, SubSeqProperties
    <3> HIDE DEF r
    <3> QED
      BY <3>2, <3>3, <3>4
  <2>10. \A i \in 1 .. Len(r) - 1 : r[i].ts < r[i + 1].ts
    <3> SUFFICES ASSUME NEW i \in 1 .. l - 1 PROVE r[i].ts < r[i + 1].ts
      BY <2>9
    <3>1. /\ i \in 1 .. l /\ i + 1 \in 1 .. l
          /\ b - o + i - 1 \in 1 .. b /\ b - o + (i + 1) - 1 \in 1 .. b
          /\ b - o + i - 1 < b - o + (i + 1) - 1
      BY <1>1, <2>3, <2>6
    <3> QED
      BY <2>9, <3>1 DEF Ordered
  <2>11. Newest(r) = buffer[b - o - 1 + l]
    <3>1. l \in 1 .. l /\ b - o + l - 1 = b - o - 1 + l
      BY <1>1, <2>3
    <3> QED
      BY <2>9, <3>1 DEF Newest
  <2> QED
    BY <1>2, <2>2, <2>3, <2>6, <2>9, <2>10, <2>11 DEF l
<1> QED
  BY <1>3, <1>4

\* The numbers the steps below count with.
LEMMA Numbers ==
    ASSUME IInv
    PROVE  /\ Len(buffer) \in Nat
           /\ buffer = <<>> <=> Len(buffer) = 0
           /\ \A i \in 1 .. Len(buffer) : buffer[i] \in Chunk /\ buffer[i].ts \in 1 .. MaxTs
           /\ now \in Nat /\ load.next \in Nat /\ MaxTs \in Nat
           /\ Max \in Nat /\ (Max > 0 => Len(buffer) <= Max) /\ Max \in {0, secs}
           /\ offset \in [Client -> Int]
           /\ \A c \in Client : pumped[c] \in Seq(Chunk)
<1>1. Len(buffer) \in Nat /\ (buffer = <<>> <=> Len(buffer) = 0)
  BY LenProperties, EmptySeq DEF IInv, TypeOK
<1>2. \A i \in 1 .. Len(buffer) : buffer[i] \in Chunk
  BY ElementOfSeq DEF IInv, TypeOK
<1>3. \A i \in 1 .. Len(buffer) : buffer[i].ts \in 1 .. MaxTs
  BY <1>2 DEF Chunk, Time
<1>4. now \in Nat /\ load.next \in Nat /\ MaxTs \in Nat
  BY RewindAssumption DEF IInv, TypeOK
<1>5. Max \in Nat /\ (Max > 0 => Len(buffer) <= Max) /\ Max \in {0, secs}
  BY MaxHolds DEF Max
<1>6. offset \in [Client -> Int] /\ \A c \in Client : pumped[c] \in Seq(Chunk)
  BY DEF IInv, TypeOK
<1> QED
  BY <1>1, <1>2, <1>3, <1>4, <1>5, <1>6

\* A buffer that stays steady is not wiped for a stream key, which is the same.
LEMMA KeyLeaves ==
    ASSUME IInv, Clocks, NEW k \in Key, RChunkLength(k), steady'
    PROVE  /\ buffer' = buffer /\ key' \in Key
           /\ key # None => key' = key
<1>1. key # None => key = k
  BY DEF RChunkLength
<1>2. key' = k
  BY DEF RChunkLength
<1>3. CASE key # None
  BY <1>1, <1>2, <1>3 DEF RChunkLength
<1>4. CASE key = None
  <2>1. buffer = <<>> /\ Len(buffer) = 0
    BY <1>4, Numbers DEF Clocks
  <2>2. buffer' = Truncate(buffer, secs)
    BY <1>4 DEF RChunkLength
  <2>3. secs \in Nat
    BY MaxHolds
  <2>4. buffer' = buffer
    BY <2>1, <2>2, <2>3 DEF Truncate
  <2> QED
    BY <1>2, <1>4, <2>4
<1> QED
  BY <1>3, <1>4

\* Nor by a new length, as it is the old one.
LEMMA LengthLeaves ==
    ASSUME IInv, Clocks, NEW n \in Secs, SetRewind(n), steady'
    PROVE  buffer' = buffer /\ secs' = secs
<1>1. secs' = secs
  BY DEF SetRewind
<1>2. buffer' = Truncate(buffer, Max)
  BY <1>1 DEF SetRewind, Max
<1>3. buffer' = buffer
  BY <1>2, Numbers DEF Truncate
<1> QED
  BY <1>1, <1>3

\* NoSkip, two chunks at a time, before and after a step
LEMMA SkipsNone ==
    /\ NoSkip <=>
        \A c \in Client : \A i \in 1 .. Len(Handed(c)) - 1 :
            Joins(Handed(c)[i], Handed(c)[i + 1], i = Len(pumped[c]), missed)
    /\ NoSkip' <=>
        \A c \in Client : \A i \in 1 .. Len(Handed(c)') - 1 :
            Joins(Handed(c)'[i], Handed(c)'[i + 1], i = Len(pumped'[c]), missed')
  BY DEF NoSkip, Handed, Joins, Passed

\* More that was missed takes nothing back.
LEMMA JoinsStay ==
    ASSUME NEW a, NEW b, NEW last, NEW m, NEW more, m \subseteq more, Joins(a, b, last, m)
    PROVE  Joins(a, b, last, more)
<1> DEFINE passed == {ts \in (a.ts + 1) .. (b.ts - 1) : ts \notin m}
           still == {ts \in (a.ts + 1) .. (b.ts - 1) : ts \notin more}
<1>1. still \subseteq passed
  OBVIOUS
<1>2. passed = {} \/ (last /\ \E ts \in Time : passed = {ts})
  BY DEF Joins
<1> HIDE DEF passed
<1>3. still = {} \/ (last /\ \E ts \in Time : still = {ts})
  <2> HIDE DEF still
  <2> QED
    BY <1>1, <1>2
<1> QED
  BY <1>3 DEF Joins

\* What listeners have heard stands when nothing happens to the buffer and them.
LEMMA Quiet ==
    ASSUME Listeners, NoReplay, NoSkip,
           buffer' = buffer, secs' = secs, clients' = clients, missed \subseteq missed'
    PROVE  Listeners' /\ NoReplay' /\ NoSkip'
<1>1. offset' = offset /\ pumped' = pumped /\ heard' = heard
  BY DEF clients
<1>2. Listeners'
  BY <1>1 DEF Listeners, Follows, Handed, Reached
<1>3. NoReplay'
  BY <1>1 DEF NoReplay
<1>4. NoSkip'
  <2>1. \A c \in Client : Handed(c)' = Handed(c)
    BY <1>1 DEF Handed
  <2> QED
    BY <1>1, <2>1, SkipsNone, JoinsStay
<1> QED
  BY <1>2, <1>3, <1>4

\* A buffer with its clock and its load unchanged is accounted for as before.
LEMMA Unmoved ==
    ASSUME Accounted, buffer' = buffer, now' = now, missed' = missed
    PROVE  Accounted'
  BY DEF Accounted, Held

----------------------------------------------------------------------------
(* A live chunk *)

\* A live chunk of a steady buffer comes from a clock that runs on by one.
LEMMA LiveIs ==
    ASSUME IInv, Clocks, Live, steady'
    PROVE  \E c \in Chunk : c.ts = now + 1 /\ RData(c) /\ now' = now + 1
<1>1. PICK ts \in (now + 1 - Skew) .. (now + 1) :
            /\ ts \in Time
            /\ RData([ts |-> ts, key |-> KeyOf[rsource]])
            /\ now' = IF ts > now THEN ts ELSE now
            /\ ts > now
  BY DEF Live
<1>2. ts = now + 1
  <2>1. Skew \in Nat /\ now \in Nat
    BY Numbers, RewindAssumption
  <2> QED
    BY <1>1, <2>1
<1>3. PICK c \in Chunk : c = [ts |-> ts, key |-> KeyOf[rsource]]
  BY <1>1, RewindAssumption DEF Live, Chunk, IInv, TypeOK
<1>4. c.ts = now + 1 /\ RData(c) /\ now' = now + 1
  BY <1>1, <1>2, <1>3, Numbers
<1> QED
  BY <1>4

\* It goes to the end of the buffer.
LEMMA LiveShifts ==
    ASSUME IInv, Clocks, NEW c \in Chunk, c.ts = now + 1
    PROVE  \E d \in {0, 1} : Shifts(buffer, c, Max, d)
<1>1. buffer = <<>> \/ c.ts > Newest(buffer).ts
  <2>1. buffer # <<>> => Len(buffer) \in 1 .. Len(buffer)
    BY Numbers
  <2> QED
    BY <2>1, Numbers DEF Clocks, Newest
<1>2. buffer \in Seq(Chunk)
  BY DEF IInv, TypeOK
<1> QED
  BY <1>1, <1>2, Numbers, InsertNewer

\* The buffer and the load after it
LEMMA LiveKeepsBuffer ==
    ASSUME IInv, IInv', Clocks, Accounted, LoadFills, NEW c \in Chunk, c.ts = now + 1,
           buffer' = Insert(buffer, c, Max), now' = now + 1, missed' = missed,
           load' = load, key' = key, secs' = secs, NEW d \in {0, 1}, Shifts(buffer, c, Max, d)
    PROVE  /\ \A i \in 1 .. Len(buffer') : buffer'[i].ts <= now'
           /\ buffer' # <<>> /\ Newest(buffer') = c
           /\ Accounted' /\ LoadFills'
<1> DEFINE n == Len(buffer)
           m == Len(buffer')
<1>1. /\ n \in Nat /\ m = n + 1 - d
      /\ \A i \in 1 .. m : buffer'[i] = IF i + d = n + 1 THEN c ELSE buffer[i + d]
      /\ d = 1 => Max > 0 /\ n = Max
  BY Numbers DEF Shifts
<1>2. m \in 1 .. m /\ buffer'[m] = c
  <2>1. m >= 1
    BY <1>1
  <2> QED
    BY <1>1, <2>1
<1>3. buffer' # <<>> /\ Newest(buffer') = c
  <2>1. Len(buffer') # 0
    BY <1>2
  <2> QED
    BY <1>2, <2>1, EmptySeq DEF Newest
<1>4. \A i \in 1 .. m : buffer'[i].ts <= now'
  <2> SUFFICES ASSUME NEW i \in 1 .. m PROVE buffer'[i].ts <= now'
    OBVIOUS
  <2>1. CASE i + d = n + 1
    BY <1>1, <2>1, Numbers
  <2>2. CASE i + d # n + 1
    <3>1. i + d \in 1 .. n
      BY <1>1, <2>2
    <3>2. buffer[i + d].ts <= now
      BY <3>1 DEF Clocks
    <3> QED
      BY <1>1, <2>2, <3>1, <3>2, Numbers
  <2> QED
    BY <2>1, <2>2
<1>5. Accounted'
  <2> SUFFICES ASSUME NEW ts \in 1 .. now + 1
               PROVE  ts \in missed \/ Held(ts)' \/ ts < buffer'[1].ts
    BY <1>3, Numbers DEF Accounted, Oldest
  <2>1. CASE ts = now + 1
    BY <1>2, <2>1 DEF Held
  <2>2. CASE ts # now + 1
    <3>1. ts \in 1 .. now
      BY <2>2, Numbers
    <3>2. CASE ts \in missed
      BY <3>2
    <3>3. CASE Held(ts)
      <4>1. PICK i \in 1 .. n : buffer[i].ts = ts
        BY <3>3 DEF Held
      <4>2. CASE i - d \in 1 .. m
        <5>1. buffer'[i - d] = buffer[i]
          BY <1>1, <4>2
        <5> QED
          BY <4>1, <4>2, <5>1 DEF Held
      <4>3. CASE i - d \notin 1 .. m
        <5>1. d = 1 /\ i = 1 /\ m = n
          BY <1>1, <4>3
        <5>2. CASE n = 1
          BY <1>1, <5>1, <5>2, <2>2, <3>1, Numbers
        <5>3. CASE n # 1
          <6>1. 2 \in 1 .. n /\ 1 \in 1 .. n /\ buffer'[1] = buffer[2]
            BY <1>1, <5>1, <5>3
          <6>2. buffer[1].ts < buffer[2].ts
            BY <6>1 DEF IInv, Ordered
          <6> QED
            BY <4>1, <5>1, <6>1, <6>2
        <5> QED
          BY <5>2, <5>3
      <4> QED
        BY <4>2, <4>3
    <3>4. CASE buffer # <<>> /\ ts < Oldest(buffer).ts
      <4>1. 1 \in 1 .. n /\ 1 \in 1 .. m /\ 1 + d \in 1 .. n + 1
        BY <1>1, <1>2, <3>4, Numbers
      <4>2. buffer'[1] = IF 1 + d = n + 1 THEN c ELSE buffer[1 + d]
        BY <1>1, <4>1
      <4>3. CASE 1 + d = n + 1
        BY <3>1, <4>2, <4>3, Numbers
      <4>4. CASE 1 + d # n + 1
        <5>1. 1 + d \in 1 .. n /\ (1 + d = 1 \/ 1 < 1 + d)
          BY <1>1, <4>1, <4>4
        <5>2. buffer[1].ts <= buffer[1 + d].ts
          BY <4>1, <5>1, Numbers DEF IInv, Ordered
        <5> QED
          BY <3>1, <3>4, <4>1, <4>2, <4>4, <5>1, <5>2, Numbers DEF Oldest
      <4> QED
        BY <4>3, <4>4
    <3> QED
      BY <3>1, <3>2, <3>3, <3>4 DEF Accounted
  <2> QED
    BY <2>1, <2>2
<1>6. LoadFills'
  <2>1. load.state = "loading" => load.next <= Newest(buffer').ts
    BY <1>3, Numbers DEF Clocks
  <2>2. ASSUME load.state # "ended", ~Full', NEW ts \in 1 .. now + 1,
               load.next < ts, ts < Oldest(buffer').ts
        PROVE  ts \in missed
    <3>1. Max' = Max
      BY DEF Max
    <3>2. d = 0 /\ ~Full
      <4>1. Max > 0 => m <= Max
        BY <3>1 DEF IInv, Bounded, Max
      <4> QED
        BY <1>1, <2>2, <3>1, <4>1, Numbers DEF Full
    <3>3. 1 \in 1 .. m
      BY <1>2
    <3>4. buffer'[1] = IF n = 0 THEN c ELSE buffer[1]
      BY <1>1, <3>2, <3>3
    <3>5. CASE n = 0
      <4>1. buffer = <<>>
        BY <3>5, Numbers
      <4>2. ts \in 1 .. now
        BY <2>2, <3>4, <3>5, Numbers DEF Oldest
      <4>3. ~Held(ts)
        BY <3>5 DEF Held
      <4> QED
        BY <4>1, <4>2, <4>3 DEF Accounted
    <3>6. CASE n # 0
      <4>1. 1 \in 1 .. n /\ buffer # <<>> /\ buffer[1].ts \in Nat /\ buffer[1].ts <= now
        BY <1>1, <3>6, Numbers DEF Clocks
      <4>2. ts \in 1 .. now /\ ts < Oldest(buffer).ts
        BY <2>2, <3>4, <3>6, <4>1, Numbers DEF Oldest
      <4> QED
        BY <2>2, <3>2, <4>1, <4>2 DEF LoadFills
    <3> QED
      BY <3>5, <3>6
  <2> QED
    BY <2>1, <2>2 DEF LoadFills
<1> QED
  BY <1>3, <1>4, <1>5, <1>6

\* A listener is handed the chunk that follows the place it has reached.
LEMMA HandsNext ==
    ASSUME IInv, Clocks, NEW l \in Client, Follows(l), offset[l] >= 0,
           NEW c \in Chunk, c.ts = now + 1, NEW d \in {0, 1}, Shifts(buffer, c, Max, d),
           buffer' = Insert(buffer, c, Max), At(buffer', offset[l]) # Nothing
    PROVE  LET q == Len(buffer') - offset[l]
               next == IF Reached(l) = Len(buffer) THEN c ELSE buffer[Reached(l) + 1]
           IN  /\ q \in 1 .. Len(buffer')
               /\ Reached(l) \in 0 .. Len(buffer)
               /\ At(buffer', offset[l]) = next
               /\ buffer'[q] = next
               /\ next \in Chunk
               /\ Reached(l) >= 1 => buffer[Reached(l)].ts < next.ts
<1> DEFINE n == Len(buffer)
           m == Len(buffer')
           o == offset[l]
           p == Reached(l)
           q == m - o
           next == IF p = n THEN c ELSE buffer[p + 1]
<1>1. /\ n \in Nat /\ m = n + 1 - d
      /\ \A i \in 1 .. m : buffer'[i] = IF i + d = n + 1 THEN c ELSE buffer[i + d]
      /\ d = 1 => Max > 0 /\ n = Max
  BY Numbers DEF Shifts
<1>2. o \in Nat /\ p = n - o /\ p \in 0 .. n
  <2>1. o \in Int /\ o >= 0 /\ p = n - o /\ p >= 0
    BY Numbers DEF Follows, Reached
  <2> QED
    BY <1>1, <2>1
<1>3. d = 1 => p >= 1
  <2> SUFFICES ASSUME d = 1, p = 0 PROVE FALSE
    BY <1>1, <1>2
  <2>1. m = n /\ o = n
    BY <1>1, <1>2
  <2>2. Clamp(buffer', o) = o /\ m - o = 0
    BY <1>1, <1>2, <2>1 DEF Clamp
  <2>3. At(buffer', o) = Nothing
    BY <1>1, <2>2 DEF At
  <2> QED
    BY <2>3
<1>4. q = p + 1 - d /\ q \in 1 .. m
  BY <1>1, <1>2, <1>3
<1>5. buffer'[q] = next
  BY <1>1, <1>2, <1>4
<1>6. At(buffer', o) = buffer'[q]
  <2>1. Clamp(buffer', o) = o
    BY <1>1, <1>2, <1>4 DEF Clamp
  <2> QED
    BY <1>4, <2>1 DEF At
<1>7. next \in Chunk /\ (p >= 1 => buffer[p].ts < next.ts)
  <2>1. CASE p = n
    <3>1. p >= 1 => p \in 1 .. n
      BY <1>2
    <3> QED
      BY <2>1, <3>1, Numbers DEF Clocks
  <2>2. CASE p # n
    <3>1. p + 1 \in 1 .. n /\ (p >= 1 => p \in 1 .. n /\ p < p + 1)
      BY <1>1, <1>2, <2>2
    <3> QED
      BY <2>2, <3>1, Numbers DEF IInv, Ordered
  <2> QED
    BY <2>1, <2>2
<1> QED
  BY <1>2, <1>4, <1>5, <1>6, <1>7

\* Between a place of the buffer and the next one, or the clock, there is nothing but
\* what was missed.
LEMMA OnlyMissedBetween ==
    ASSUME IInv, Clocks, Accounted, NEW p \in 1 .. Len(buffer), NEW ts \in Int,
           buffer[p].ts < ts, IF p = Len(buffer) THEN ts <= now ELSE ts < buffer[p + 1].ts
    PROVE  ts \in missed
<1> DEFINE n == Len(buffer)
<1>1. n \in Nat /\ 1 \in 1 .. n /\ buffer[p].ts \in 1 .. MaxTs /\ buffer[p].ts <= now
  BY Numbers DEF Clocks
<1>2. ts \in 1 .. now
  <2>1. CASE p = n
    BY <1>1, <2>1, Numbers
  <2>2. CASE p # n
    <3>1. p + 1 \in 1 .. n
      BY <1>1, <2>2
    <3>2. buffer[p + 1].ts <= now /\ buffer[p + 1].ts \in 1 .. MaxTs
      BY <3>1, Numbers DEF Clocks
    <3> QED
      BY <1>1, <2>2, <3>2, Numbers
  <2> QED
    BY <2>1, <2>2
<1>3. ~Held(ts)
  <2> SUFFICES ASSUME NEW i \in 1 .. n, buffer[i].ts = ts PROVE FALSE
    BY DEF Held
  <2>1. CASE i <= p
    <3>1. buffer[i].ts <= buffer[p].ts
      BY <1>1, <2>1, Numbers DEF IInv, Ordered
    <3> QED
      BY <1>1, <1>2, <3>1
  <2>2. CASE i > p
    <3>1. p # n /\ p + 1 \in 1 .. n /\ p + 1 <= i
      BY <1>1, <2>2
    <3>2. buffer[p + 1].ts <= buffer[i].ts
      BY <3>1, Numbers DEF IInv, Ordered
    <3>3. buffer[p + 1].ts \in Int
      BY <3>1, Numbers
    <3> QED
      BY <1>2, <3>1, <3>2, <3>3
  <2> QED
    BY <1>1, <2>1, <2>2
<1>4. ~(ts < Oldest(buffer).ts)
  <2>1. buffer[1].ts <= buffer[p].ts /\ buffer[1].ts \in Int
    BY <1>1, Numbers DEF IInv, Ordered
  <2> QED
    BY <1>1, <1>2, <2>1 DEF Oldest
<1> QED
  BY <1>2, <1>3, <1>4 DEF Accounted

\* The same of a place and the live chunk that comes in behind the newest one.
LEMMA NothingBetween ==
    ASSUME IInv, Clocks, Accounted, NEW p \in 1 .. Len(buffer), NEW c \in Chunk, c.ts = now + 1,
           NEW ts \in Int, buffer[p].ts < ts,
           ts < (IF p = Len(buffer) THEN c ELSE buffer[p + 1]).ts
    PROVE  ts \in missed
<1>1. now \in Nat
  BY Numbers
<1>2. IF p = Len(buffer) THEN ts <= now ELSE ts < buffer[p + 1].ts
  BY <1>1
<1> QED
  BY <1>2, OnlyMissedBetween

\* One more chunk at the end of what a listener was handed
OneMore(a, b, x) ==
    /\ Append(b, x) \in Seq(Chunk)
    /\ a \o Append(b, x) # <<>> /\ Append(b, x) # <<>>
    /\ Newest(a \o Append(b, x)) = x /\ Newest(Append(b, x)) = x
    /\ Len(Append(b, x)) = Len(b) + 1
    /\ Len(a \o Append(b, x)) = Len(a \o b) + 1
    /\ \A i \in 1 .. Len(b) : Append(b, x)[i] = b[i]
    /\ \A i \in 1 .. Len(a \o b) : (a \o Append(b, x))[i] = (a \o b)[i]
    /\ Len(a \o b) \in Nat /\ Len(b) \in Nat
    /\ a \o b # <<>> <=> Len(a \o b) # 0
    /\ b # <<>> <=> Len(b) # 0

LEMMA HandedOneMore ==
    ASSUME NEW a \in Seq(Chunk), NEW b \in Seq(Chunk), NEW x \in Chunk
    PROVE  OneMore(a, b, x)
<1> DEFINE e == Append(b, x)
<1>1. /\ e \in Seq(Chunk) /\ e # <<>>
      /\ Len(e) = Len(b) + 1
      /\ \A i \in 1 .. Len(b) : e[i] = b[i]
      /\ e[Len(b) + 1] = x
  BY AppendProperties
<1>2. Len(a) \in Nat /\ Len(b) \in Nat
  BY LenProperties
<1> HIDE DEF e
<1>3. /\ a \o b \in Seq(Chunk) /\ Len(a \o b) = Len(a) + Len(b)
      /\ \A i \in 1 .. Len(a) + Len(b) : (a \o b)[i] = IF i <= Len(a) THEN a[i] ELSE b[i - Len(a)]
  BY ConcatProperties
<1>4. /\ a \o e \in Seq(Chunk) /\ Len(a \o e) = Len(a) + Len(e)
      /\ \A i \in 1 .. Len(a) + Len(e) : (a \o e)[i] = IF i <= Len(a) THEN a[i] ELSE e[i - Len(a)]
  BY <1>1, ConcatProperties
<1>5. Len(a \o e) = Len(a \o b) + 1 /\ Len(a \o e) \in Nat \ {0}
  BY <1>1, <1>2, <1>3, <1>4
<1>6. (a \o e)[Len(a \o e)] = x /\ e[Len(e)] = x
  BY <1>1, <1>2, <1>4
<1>7. \A i \in 1 .. Len(a \o b) : (a \o e)[i] = (a \o b)[i]
  BY <1>1, <1>2, <1>3, <1>4
<1>8. a \o e # <<>>
  BY <1>5, EmptySeq
<1>9. (a \o b # <<>> <=> Len(a \o b) # 0) /\ (b # <<>> <=> Len(b) # 0)
  BY <1>3, EmptySeq
<1>10. Newest(a \o e) = x /\ Newest(e) = x
  BY <1>6 DEF Newest
<1> QED
  BY <1>1, <1>2, <1>3, <1>5, <1>7, <1>8, <1>9, <1>10 DEF e, OneMore

LEMMA HandedEnds ==
    ASSUME NEW a \in Seq(Chunk), NEW b \in Seq(Chunk), b # <<>>
    PROVE  Newest(a \o b) = Newest(b)
<1>1. Len(a) \in Nat /\ Len(b) \in Nat \ {0}
  BY LenProperties, EmptySeq
<1>2. /\ Len(a \o b) = Len(a) + Len(b)
      /\ \A i \in 1 .. Len(a) + Len(b) : (a \o b)[i] = IF i <= Len(a) THEN a[i] ELSE b[i - Len(a)]
  BY ConcatProperties
<1>3. Len(a) + Len(b) \in 1 .. Len(a) + Len(b) /\ ~(Len(a) + Len(b) <= Len(a))
      /\ Len(a) + Len(b) - Len(a) = Len(b)
  BY <1>1
<1> QED
  BY <1>2, <1>3 DEF Newest

\* What holds of a listener's offset and of what it heard after a live chunk
LEMMA LiveKeepsListener ==
    ASSUME IInv, Clocks, Accounted, Listeners, NoReplay, NoSkip,
           NEW c \in Chunk, c.ts = now + 1, NEW d \in {0, 1}, Shifts(buffer, c, Max, d),
           RData(c), NEW l \in Client, offset[l] >= 0 => At(buffer', offset[l]) # Nothing,
           offset' = offset, pumped' = pumped, missed' = missed, secs' = secs
    PROVE  /\ heard'[l] \in Seq(Chunk) /\ Follows(l)'
           /\ \A i \in 1 .. Len(Handed(l)') - 1 : Handed(l)'[i].ts < Handed(l)'[i + 1].ts
           /\ \A i \in 1 .. Len(Handed(l)') - 1 :
                Joins(Handed(l)'[i], Handed(l)'[i + 1], i = Len(pumped'[l]), missed')
           /\ offset[l] >= 0 => At(buffer', offset[l]) \in Chunk
<1>1. Follows(l) /\ heard[l] \in Seq(Chunk) /\ pumped[l] \in Seq(Chunk)
  BY Numbers DEF Listeners
<1>2. /\ \A i \in 1 .. Len(Handed(l)) - 1 : Handed(l)[i].ts < Handed(l)[i + 1].ts
      /\ \A i \in 1 .. Len(Handed(l)) - 1 :
            Joins(Handed(l)[i], Handed(l)[i + 1], i = Len(pumped[l]), missed)
  BY SkipsNone DEF NoReplay, Handed
<1>3. CASE ~(offset[l] >= 0)
  <2>1. heard'[l] = heard[l] /\ pumped'[l] = pumped[l]
    BY <1>3 DEF RData
  <2>2. Handed(l)' = Handed(l) /\ Follows(l)'
    BY <1>3, <2>1 DEF Handed, Follows
  <2> QED
    BY <1>1, <1>2, <1>3, <2>1, <2>2
<1>4. CASE offset[l] >= 0
  <2> DEFINE p == Reached(l)
             next == IF p = Len(buffer) THEN c ELSE buffer[p + 1]
             q == Len(buffer') - offset[l]
  <2>1. buffer' = Insert(buffer, c, Max)
    BY DEF RData
  <2>2. /\ q \in 1 .. Len(buffer') /\ p \in 0 .. Len(buffer)
        /\ At(buffer', offset[l]) = next /\ buffer'[q] = next /\ next \in Chunk
        /\ p >= 1 => buffer[p].ts < next.ts
    BY <1>1, <1>4, <2>1, HandsNext
  <2>3. heard'[l] = Append(heard[l], next) /\ pumped'[l] = pumped[l]
    BY <1>4, <2>1, <2>2 DEF RData
  <2>4. \A ts \in Int : p >= 1 /\ buffer[p].ts < ts /\ ts < next.ts => ts \in missed
    <3> SUFFICES ASSUME NEW ts \in Int, p >= 1, buffer[p].ts < ts, ts < next.ts PROVE ts \in missed
      OBVIOUS
    <3>1. p \in 1 .. Len(buffer)
      BY <2>2, Numbers
    <3> QED
      BY <3>1, NothingBetween
  <2>5. /\ heard[l] = <<>> /\ pumped[l] # <<>> => p >= 2 /\ Newest(pumped[l]) = buffer[p - 1]
        /\ heard[l] # <<>> => p >= 1 /\ Newest(heard[l]) = buffer[p]
    BY <1>1, <1>4 DEF Follows
  <2>6. Reached(l)' = q /\ next.ts \in Int /\ p \in Int
    BY <2>2, Numbers, RewindAssumption DEF Reached, Chunk, Time
  <2>7. /\ p >= 1 => buffer[p].ts \in Time
        /\ p >= 2 => buffer[p - 1].ts \in Int /\ buffer[p - 1].ts < buffer[p].ts
    <3>1. p >= 2 => p - 1 \in 1 .. Len(buffer) /\ p \in 1 .. Len(buffer) /\ p - 1 < p
      BY <2>2, Numbers
    <3>2. p >= 1 => p \in 1 .. Len(buffer)
      BY <2>2, Numbers
    <3> QED
      BY <3>1, <3>2, Numbers DEF IInv, Ordered, Time
  <2>17. \A ts \in Int : p >= 2 /\ buffer[p - 1].ts < ts /\ ts < buffer[p].ts => ts \in missed
    <3> SUFFICES ASSUME NEW ts \in Int, p >= 2, buffer[p - 1].ts < ts, ts < buffer[p].ts
                 PROVE  ts \in missed
      OBVIOUS
    <3>0. p \in 0 .. Len(buffer) /\ Len(buffer) \in Nat
      BY <2>2, Numbers
    <3> HIDE DEF p
    <3>1. p - 1 \in 1 .. Len(buffer) /\ p - 1 # Len(buffer) /\ (p - 1) + 1 = p
      BY <3>0
    <3>2. buffer[(p - 1) + 1].ts = buffer[p].ts
      BY <3>1
    <3> QED
      BY <3>1, <3>2, OnlyMissedBetween
  <2> HIDE DEF next, q, p
  <2>8. OneMore(pumped[l], heard[l], next)
    BY <1>1, <2>2, HandedOneMore
  <2>9. /\ Handed(l)' = pumped[l] \o Append(heard[l], next)
        /\ Handed(l) = pumped[l] \o heard[l]
    BY <2>3 DEF Handed
  <2>10. /\ heard'[l] \in Seq(Chunk)
         /\ Handed(l)' # <<>> /\ heard'[l] # <<>>
         /\ Newest(Handed(l)') = next /\ Newest(heard'[l]) = next
    BY <2>3, <2>8, <2>9 DEF OneMore
  <2>11. /\ Len(heard[l]) \in Nat /\ (heard[l] # <<>> <=> Len(heard[l]) # 0)
         /\ Len(heard'[l]) = Len(heard[l]) + 1
         /\ \A i \in 1 .. Len(heard[l]) : heard'[l][i] = heard[l][i]
         /\ heard'[l][Len(heard[l]) + 1] = next
    BY <2>3, <2>8, <2>9 DEF OneMore, Newest
  <2>12. /\ Len(Handed(l)) \in Nat /\ (Handed(l) # <<>> <=> Len(Handed(l)) # 0)
         /\ Len(Handed(l)') = Len(Handed(l)) + 1
         /\ \A i \in 1 .. Len(Handed(l)) : Handed(l)'[i] = Handed(l)[i]
         /\ Handed(l)'[Len(Handed(l)) + 1] = next
    BY <2>3, <2>8, <2>9 DEF OneMore, Newest
  <2>13. Follows(l)'
    <3>1. q >= 1 /\ next.ts <= next.ts
      BY <2>2, <2>6
    <3> QED
      BY <2>2, <2>6, <2>10, <3>1 DEF Follows
  <2>18. LET k == Len(Handed(l))
         IN  k \in 1 .. k =>
                /\ p >= 1
                /\ \/ Handed(l)[k] = buffer[p]
                   \/ p >= 2 /\ Handed(l)[k] = buffer[p - 1] /\ k = Len(pumped[l])
    <3> DEFINE k == Len(Handed(l))
    <3> SUFFICES ASSUME k \in 1 .. k
                 PROVE  /\ p >= 1
                        /\ \/ Handed(l)[k] = buffer[p]
                           \/ p >= 2 /\ Handed(l)[k] = buffer[p - 1] /\ k = Len(pumped[l])
      OBVIOUS
    <3>1. CASE heard[l] # <<>>
      <4>1. Newest(Handed(l)) = Newest(heard[l])
        BY <1>1, <3>1, HandedEnds DEF Handed
      <4> QED
        BY <2>5, <3>1, <4>1 DEF Newest
    <3>2. CASE heard[l] = <<>>
      <4>1. Handed(l) = pumped[l]
        BY <1>1, <3>2, ConcatEmptySeq DEF Handed
      <4>2. pumped[l] # <<>>
        BY <2>12, <4>1
      <4> QED
        BY <2>5, <2>6, <3>2, <4>1, <4>2 DEF Newest
    <3> QED
      BY <3>1, <3>2
  <2>14. \A i \in 1 .. Len(Handed(l)') - 1 : Handed(l)'[i].ts < Handed(l)'[i + 1].ts
    <3> DEFINE h == Handed(l)
               k == Len(Handed(l))
    <3> SUFFICES ASSUME NEW i \in 1 .. k PROVE Handed(l)'[i].ts < Handed(l)'[i + 1].ts
      BY <2>12
    <3>1. CASE i = k
      <4>1. p >= 1 /\ (h[k] = buffer[p] \/ (p >= 2 /\ h[k] = buffer[p - 1]))
        BY <2>18, <3>1
      <4>2. h[k].ts <= buffer[p].ts /\ buffer[p].ts < next.ts
        <5>1. buffer[p].ts < next.ts /\ buffer[p].ts \in Int
          BY <2>2, <2>7, <4>1, RewindAssumption DEF p, Time
        <5> QED
          BY <2>7, <4>1, <5>1
      <4>3. h[k].ts < next.ts
        <5>1. h[k].ts \in Int
          <6>1. h \in Seq(Chunk) /\ k \in 1 .. k
            BY <1>1, <2>9, <2>12, <3>1, ConcatProperties
          <6>2. h[k] \in Chunk
            BY <6>1, ElementOfSeq
          <6> QED
            BY <6>2, RewindAssumption DEF Chunk, Time
        <5>2. buffer[p].ts \in Int
          BY <2>7, <4>1, RewindAssumption DEF Time
        <5> QED
          BY <2>6, <4>2, <5>1, <5>2
      <4> QED
        BY <2>12, <3>1, <4>3
    <3>2. CASE i # k
      <4>1. i \in 1 .. k - 1 /\ i + 1 \in 1 .. k
        BY <2>12, <3>2
      <4> QED
        BY <1>2, <2>12, <4>1
    <3> QED
      BY <3>1, <3>2
  <2>15. \A i \in 1 .. Len(Handed(l)') - 1 :
            Joins(Handed(l)'[i], Handed(l)'[i + 1], i = Len(pumped'[l]), missed')
    <3> DEFINE h == Handed(l)
               k == Len(Handed(l))
    <3> SUFFICES ASSUME NEW i \in 1 .. k
                 PROVE  Joins(Handed(l)'[i], Handed(l)'[i + 1], i = Len(pumped[l]), missed)
      BY <2>3, <2>12
    <3>1. CASE i = k
      <4>1. Handed(l)'[i] = h[k] /\ Handed(l)'[i + 1] = next
        BY <2>12, <3>1
      <4>2. CASE h[k] = buffer[p] /\ p >= 1
        <5>1. buffer[p].ts \in Int
          BY <2>7, <4>2, RewindAssumption DEF Time
        <5>2. \A ts \in (buffer[p].ts + 1) .. (next.ts - 1) : ts \in missed
          <6> SUFFICES ASSUME NEW ts \in (buffer[p].ts + 1) .. (next.ts - 1) PROVE ts \in missed
            OBVIOUS
          <6>1. ts \in Int /\ buffer[p].ts < ts /\ ts < next.ts
            BY <2>6, <5>1
          <6> QED
            BY <2>4, <4>2, <6>1 DEF p, next
        <5> QED
          BY <4>1, <4>2, <5>2 DEF Joins
      <4>3. CASE p >= 2 /\ h[k] = buffer[p - 1] /\ k = Len(pumped[l])
        <5> DEFINE t == buffer[p].ts
                   passed == {ts \in (buffer[p - 1].ts + 1) .. (next.ts - 1) : ts \notin missed}
        <5>1. p >= 1 /\ t \in Time /\ t \in Int
          BY <2>6, <2>7, <4>3, RewindAssumption DEF Time
        <5>2. \A ts \in Int : t < ts /\ ts < next.ts => ts \in missed
          BY <2>4, <5>1 DEF p, next
        <5>3. \A ts \in Int : buffer[p - 1].ts < ts /\ ts < t => ts \in missed
          BY <2>17, <4>3
        <5>4. passed \subseteq {t}
          BY <2>6, <2>7, <4>3, <5>1, <5>2, <5>3
        <5>5. passed = {} \/ passed = {t}
          BY <5>4
        <5> HIDE DEF passed, t
        <5>6. passed = {} \/ (i = Len(pumped[l]) /\ \E ts \in Time : passed = {ts})
          BY <3>1, <4>3, <5>1, <5>5
        <5>7. Joins(buffer[p - 1], next, i = Len(pumped[l]), missed)
          BY <5>6 DEF Joins, passed
        <5> QED
          BY <4>1, <4>3, <5>7
      <4> QED
        BY <2>18, <3>1, <4>2, <4>3
    <3>2. CASE i # k
      <4>1. i \in 1 .. k - 1 /\ i + 1 \in 1 .. k
        BY <2>12, <3>2
      <4> QED
        BY <1>2, <2>12, <4>1
    <3> QED
      BY <3>1, <3>2
  <2>16. At(buffer', offset[l]) \in Chunk
    BY <2>2
  <2> QED
    BY <2>10, <2>13, <2>14, <2>15, <2>16
<1> QED
  BY <1>3, <1>4

----------------------------------------------------------------------------
(* A loaded chunk *)

\* A load reads the chunk before the last it read, which goes to the front.
LEMMA LoadGrows ==
    ASSUME IInv, Clocks, LoadFills, LoadChunk
    PROVE  \E c \in Chunk, d \in {0, 1} :
                c.ts = load.next /\ buffer' = Insert(buffer, c, Max) /\ Grows(buffer, c, Max, d)
<1>1. load.next \in Time /\ load.key \in Key
  BY Numbers, RewindAssumption DEF LoadChunk, Time, IInv, LoadHasKey, TypeOK
<1>2. PICK c \in Chunk : c = [ts |-> load.next, key |-> load.key]
  BY <1>1 DEF Chunk
<1>3. c.ts = load.next /\ buffer' = Insert(buffer, c, Max)
  BY <1>2 DEF LoadChunk
<1>4. buffer = <<>> \/ c.ts <= Newest(buffer).ts
  BY <1>3 DEF LoadFills, LoadChunk
<1>5. buffer \in Seq(Chunk)
  BY DEF IInv, TypeOK
<1>6. \E d \in {0, 1} : Grows(buffer, c, Max, d)
  BY <1>4, <1>5, Numbers, InsertOlder
<1> QED
  BY <1>3, <1>6

\* The buffer and the load after it
LEMMA LoadKeepsBuffer ==
    ASSUME IInv, Clocks, Accounted, LoadFills, LoadChunk,
           NEW c \in Chunk, NEW d \in {0, 1}, c.ts = load.next,
           buffer' = Insert(buffer, c, Max), Grows(buffer, c, Max, d)
    PROVE  /\ \A i \in 1 .. Len(buffer') : buffer'[i].ts <= now'
           /\ Accounted' /\ LoadFills'
<1> DEFINE n == Len(buffer)
           m == Len(buffer')
<1>1. /\ n \in Nat /\ m = n + d
      /\ d = 1 => (Max = 0 \/ n < Max) /\ (n = 0 \/ c.ts < buffer[1].ts) /\ buffer'[1] = c
      /\ d = 0 => n # 0 /\ (c.ts >= buffer[1].ts \/ Full)
      /\ \A i \in 1 .. n : buffer'[i + d] = buffer[i]
  BY Numbers DEF Grows, Oldest, Full
<1>2. /\ load.state = "loading" /\ load.next > 0 /\ load' = [load EXCEPT !.next = load.next - 1]
      /\ now' = now /\ missed' = missed /\ key' = key /\ secs' = secs
  BY DEF LoadChunk
<1>3. load'.state = "loading" /\ load'.next = load.next - 1
  BY <1>2 DEF IInv, TypeOK
<1>4. /\ load.next \in Nat /\ load.next <= now /\ now \in Nat /\ c.ts \in Nat
      /\ \A i \in 1 .. n : buffer[i].ts \in Nat /\ buffer[i].ts <= now
  BY Numbers DEF Clocks
<1>5. m >= 1 /\ 1 \in 1 .. m /\ buffer' # <<>>
  <2>1. m >= 1
    BY <1>1
  <2>2. Len(buffer') # 0
    BY <2>1
  <2> QED
    BY <1>1, <2>1, <2>2, EmptySeq
<1>6. \A i \in 1 .. m : \/ d = 1 /\ i = 1 /\ buffer'[i] = c
                        \/ i - d \in 1 .. n /\ buffer'[i] = buffer[i - d]
  <2> SUFFICES ASSUME NEW i \in 1 .. m, ~(d = 1 /\ i = 1)
               PROVE  i - d \in 1 .. n /\ buffer'[i] = buffer[i - d]
    BY <1>1
  <2>1. i - d \in 1 .. n
    BY <1>1
  <2>2. buffer'[(i - d) + d] = buffer[i - d]
    BY <1>1, <2>1
  <2>3. (i - d) + d = i
    OBVIOUS
  <2> QED
    BY <2>1, <2>2, <2>3
<1>7. \A i \in 1 .. m : buffer'[i].ts <= now'
  BY <1>2, <1>4, <1>6
<1>8. (buffer'[1] = c /\ d = 1) \/ (n # 0 /\ d = 0 /\ buffer'[1] = buffer[1])
  BY <1>1, <1>5, <1>6
<1>9. Accounted'
  <2> SUFFICES ASSUME NEW ts \in 1 .. now
               PROVE  ts \in missed \/ Held(ts)' \/ ts < buffer'[1].ts
    BY <1>2, <1>5 DEF Accounted, Oldest
  <2>1. ASSUME Held(ts) PROVE Held(ts)'
    <3>1. PICK i \in 1 .. n : buffer[i].ts = ts
      BY <2>1 DEF Held
    <3>2. i + d \in 1 .. m /\ buffer'[i + d] = buffer[i]
      BY <1>1
    <3> QED
      BY <3>1, <3>2 DEF Held
  <2>2. CASE d = 0
    BY <1>8, <2>1, <2>2 DEF Accounted, Oldest
  <2>3. CASE d = 1
    <3>1. CASE ts < c.ts
      BY <1>8, <2>3, <3>1
    <3>2. CASE ts = c.ts
      BY <1>5, <1>8, <2>3, <3>2 DEF Held
    <3>3. CASE ts > c.ts /\ n # 0 /\ ts < buffer[1].ts
      <4>1. ~Full /\ buffer # <<>>
        BY <1>1, <2>3, <3>3, Numbers DEF Full
      <4> QED
        BY <1>2, <3>3, <4>1 DEF LoadFills, Oldest
    <3>4. CASE ts > c.ts /\ (n = 0 \/ ~(ts < buffer[1].ts))
      <4>1. ts \in missed \/ Held(ts)
        BY <3>4, Numbers DEF Accounted, Oldest
      <4> QED
        BY <2>1, <4>1
    <3> QED
      BY <1>4, <3>1, <3>2, <3>3, <3>4
  <2> QED
    BY <2>2, <2>3
<1>10. LoadFills'
  <2>1. load'.next <= Newest(buffer').ts
    <3>1. (m = 1 /\ d = 1) \/ (n # 0 /\ n \in 1 .. n /\ m = n + d)
      BY <1>1, <1>5
    <3>2. CASE m = 1 /\ d = 1
      BY <1>3, <1>4, <1>8, <3>2 DEF Newest
    <3>3. CASE n # 0 /\ n \in 1 .. n /\ m = n + d
      <4>1. Newest(buffer') = Newest(buffer) /\ buffer # <<>> /\ buffer[n].ts \in Nat
        BY <1>1, <1>4, <3>3, Numbers DEF Newest
      <4>2. load.next <= Newest(buffer).ts
        BY <1>2, <4>1 DEF LoadFills
      <4> QED
        BY <1>3, <1>4, <4>1, <4>2 DEF Newest
    <3> QED
      BY <3>1, <3>2, <3>3
  <2>2. ASSUME ~Full', NEW ts \in 1 .. now, load'.next < ts, ts < Oldest(buffer').ts
        PROVE  ts \in missed
    <3>1. Max' = Max
      BY <1>2 DEF Max
    <3>2. d = 0 => c.ts >= buffer[1].ts /\ n # 0
      BY <1>1, <2>2, <3>1, Numbers DEF Full
    <3>3. Oldest(buffer').ts <= c.ts
      <4>1. d = 0 => 1 \in 1 .. n
        BY <1>1
      <4> QED
        BY <1>4, <1>8, <3>2, <4>1 DEF Oldest
    <3>4. Oldest(buffer').ts \in Nat
      BY <1>1, <1>4, <1>8 DEF Oldest
    <3> QED
      BY <1>3, <1>4, <2>2, <3>3, <3>4
  <2> QED
    BY <1>2, <2>1, <2>2 DEF LoadFills
<1> QED
  BY <1>7, <1>9, <1>10

\* A listener's place moves with the chunks.
LEMMA LoadKeepsListeners ==
    ASSUME IInv, Listeners, LoadChunk, NEW c \in Chunk, NEW d \in {0, 1},
           buffer' = Insert(buffer, c, Max), Grows(buffer, c, Max, d)
    PROVE  Listeners'
<1> SUFFICES ASSUME NEW l \in Client, offset[l] >= 0
             PROVE  Follows(l)'
  BY DEF Listeners, LoadChunk, clients, Follows
<1>1. /\ offset' = offset /\ pumped' = pumped /\ heard' = heard /\ secs' = secs
      /\ Handed(l)' = Handed(l)
  BY DEF LoadChunk, clients, Handed
<1>2. /\ Len(buffer) \in Nat /\ Len(buffer') = Len(buffer) + d /\ offset[l] \in Int
      /\ \A i \in 1 .. Len(buffer) : buffer'[i + d] = buffer[i]
  BY Numbers DEF Grows
<1>3. Follows(l)
  BY DEF Listeners
<1>4. Reached(l)' = Reached(l) + d /\ Reached(l) \in 0 .. Len(buffer)
  BY <1>1, <1>2, <1>3 DEF Follows, Reached
<1>5. /\ Reached(l) >= 1 => buffer'[Reached(l)'] = buffer[Reached(l)]
      /\ Reached(l) >= 2 => buffer'[Reached(l)' - 1] = buffer[Reached(l) - 1]
  <2>1. Reached(l) >= 1 => buffer'[Reached(l)'] = buffer[Reached(l)]
    BY <1>2, <1>4
  <2>2. Reached(l) >= 2 => /\ Reached(l) - 1 \in 1 .. Len(buffer)
                          /\ Reached(l)' - 1 = (Reached(l) - 1) + d
    BY <1>2, <1>4
  <2> QED
    BY <1>2, <2>1, <2>2
<1> QED
  BY <1>1, <1>3, <1>4, <1>5 DEF Follows

----------------------------------------------------------------------------
(* A listener *)

\* What a new listener may have been handed, and where it is left.
Starts(r, o) ==
    /\ r \in Seq(Chunk)
    /\ \A i \in 1 .. Len(r) - 1 :
            /\ r[i].ts < r[i + 1].ts
            /\ \A ts \in (r[i].ts + 1) .. (r[i + 1].ts - 1) : ts \in missed
    /\ o >= 0 =>
        /\ o <= Len(buffer)
        /\ r # <<>> => Len(buffer) - o >= 2 /\ Newest(r) = buffer[Len(buffer) - o - 1]

\* checkOffset grants a place of the buffer, or the one before its first.
LEMMA Granted ==
    ASSUME IInv, Clocks, NEW o \in Int
    PROVE  /\ CheckOffset(o) \in Int /\ CheckOffset(o) <= Len(buffer)
           /\ CheckOffset(o) < 0 => buffer = <<>>
           /\ CheckOffset(0) = 0
<1>1. Len(buffer) \in Nat /\ (buffer = <<>> <=> Len(buffer) = 0)
  BY Numbers
<1> QED
  BY <1>1 DEF CheckOffset

\* A burst skips nothing, and ends right before the place it leaves the listener at.
LEMMA BurstStarts ==
    ASSUME IInv, Clocks, Accounted, NEW o \in Int, NEW n \in Int, NEW left \in Int,
           o <= Len(buffer), o < 0 => buffer = <<>>, n < 0 => buffer = <<>>,
           left >= 0 => left = o - (IF n > o THEN o ELSE n),
           left <= Len(buffer)
    PROVE  Starts(PumpFrom(o, n), left)
<1> DEFINE r == PumpFrom(o, n)
           l == IF n > o THEN o ELSE n
           b == Len(buffer)
<1>1. b \in Nat
  BY Numbers
<1>2. buffer = <<>> \/ (o \in 0 .. b /\ n >= 0)
  BY <1>1
<1>3. buffer \in Seq(Chunk) /\ Ordered
  BY DEF IInv, TypeOK
<1>4. /\ r \in Seq(Chunk)
      /\ \A i \in 1 .. Len(r) - 1 : r[i].ts < r[i + 1].ts
      /\ r # <<>> => /\ buffer # <<>> /\ l >= 1 /\ o < b
                     /\ Newest(r) = buffer[b - o - 1 + l] /\ Len(r) = l
                     /\ \A i \in 1 .. Len(r) : r[i] = buffer[b - o + i - 1]
  BY <1>2, <1>3, PumpFromIs
<1>5. left >= 0 /\ r # <<>> => b - left >= 2 /\ Newest(r) = buffer[b - left - 1]
  <2> SUFFICES ASSUME left >= 0, r # <<>>
               PROVE  b - left >= 2 /\ Newest(r) = buffer[b - left - 1]
    OBVIOUS
  <2> HIDE DEF r
  <2>1. l >= 1 /\ o < b /\ left = o - l /\ l \in Int
    BY <1>1, <1>4
  <2> HIDE DEF l
  <2>2. b - o - 1 + l = b - left - 1 /\ b - left >= 2
    BY <1>1, <2>1
  <2> QED
    BY <1>4, <2>2
<1>6. \A i \in 1 .. Len(r) - 1 : \A ts \in (r[i].ts + 1) .. (r[i + 1].ts - 1) : ts \in missed
  <2> HIDE DEF r
  <2> SUFFICES ASSUME NEW i \in 1 .. Len(r) - 1, NEW ts \in (r[i].ts + 1) .. (r[i + 1].ts - 1)
               PROVE  ts \in missed
    OBVIOUS
  <2>1. Len(r) \in Nat /\ i \in 1 .. Len(r) /\ i + 1 \in 1 .. Len(r)
    BY <1>4, LenProperties
  <2>2. r # <<>>
    BY <2>1, EmptySeq
  <2>3. l >= 1 /\ l <= o /\ o < b /\ Len(r) = l /\ l \in Int
    BY <1>1, <1>4, <2>2
  <2> DEFINE q == b - o + i - 1
  <2>4. /\ q \in 1 .. b /\ q # b /\ q + 1 \in 1 .. b
        /\ b - o + (i + 1) - 1 = q + 1
    BY <1>1, <2>1, <2>3
  <2>5. r[i] = buffer[q] /\ r[i + 1] = buffer[q + 1]
    <3>1. r[i] = buffer[b - o + i - 1] /\ r[i + 1] = buffer[b - o + (i + 1) - 1]
      BY <1>4, <2>1, <2>2
    <3> QED
      BY <2>4, <3>1
  <2> HIDE DEF q
  <2>6. buffer[q].ts \in Int /\ buffer[q + 1].ts \in Int
    BY <2>4, Numbers
  <2>7. ts \in Int /\ buffer[q].ts < ts /\ ts < buffer[q + 1].ts
    BY <2>5, <2>6
  <2> QED
    BY <2>4, <2>7, OnlyMissedBetween
<1> QED
  BY <1>4, <1>5, <1>6 DEF Starts

\* A listener that starts so keeps what is said of listeners.
LEMMA StartKeeps ==
    ASSUME IInv, Listeners, NoReplay, NoSkip, NEW c \in Client, NEW r, NEW o \in Int,
           Starts(r, o), heard[c] = <<>>,
           offset' = [offset EXCEPT ![c] = o], pumped' = [pumped EXCEPT ![c] = r],
           heard' = heard, buffer' = buffer, secs' = secs, missed' = missed
    PROVE  Listeners' /\ NoReplay' /\ NoSkip'
<1>1. /\ offset'[c] = o /\ pumped'[c] = r /\ heard'[c] = <<>>
      /\ \A l \in Client : l # c => offset'[l] = offset[l] /\ pumped'[l] = pumped[l]
  BY DEF IInv, TypeOK
<1>2. r \in Seq(Chunk) /\ r \o <<>> = r /\ Len(<<>>) = 0
  BY ConcatEmptySeq, EmptySeq DEF Starts
<1>3. Handed(c)' = r
  BY <1>1, <1>2 DEF Handed
<1>4. Listeners'
  <2> SUFFICES ASSUME NEW l \in Client PROVE heard'[l] \in Seq(Chunk) /\ Follows(l)'
    BY DEF Listeners
  <2>1. heard'[l] \in Seq(Chunk)
    BY DEF Listeners
  <2>2. CASE l # c
    BY <1>1, <2>1, <2>2 DEF Listeners, Follows, Handed, Reached
  <2>3. CASE l = c
    <3> SUFFICES ASSUME o >= 0 PROVE Follows(c)'
      BY <1>1, <2>1, <2>3 DEF Follows
    <3>1. Reached(c)' = Len(buffer) - o /\ Len(buffer) \in Nat
      BY <1>1, Numbers DEF Reached
    <3>2. /\ Len(buffer) - o >= 0
          /\ r # <<>> => Len(buffer) - o >= 2 /\ Newest(r) = buffer[Len(buffer) - o - 1]
      BY <3>1 DEF Starts
    <3> QED
      BY <1>1, <3>1, <3>2 DEF Follows
  <2> QED
    BY <2>2, <2>3
<1>5. NoReplay'
  <2> SUFFICES ASSUME NEW l \in Client
               PROVE  \A i \in 1 .. Len(Handed(l)') - 1 : Handed(l)'[i].ts < Handed(l)'[i + 1].ts
    BY DEF NoReplay, Handed
  <2>1. CASE l # c
    BY <1>1, <2>1 DEF NoReplay, Handed
  <2>2. CASE l = c
    BY <1>3, <2>2 DEF Starts
  <2> QED
    BY <2>1, <2>2
<1>6. NoSkip'
  <2> SUFFICES ASSUME NEW l \in Client, NEW i \in 1 .. Len(Handed(l)') - 1
               PROVE  Joins(Handed(l)'[i], Handed(l)'[i + 1], i = Len(pumped'[l]), missed')
    BY SkipsNone
  <2>1. CASE l # c
    <3>1. Handed(l)' = Handed(l) /\ pumped'[l] = pumped[l]
      BY <1>1, <2>1 DEF Handed
    <3> QED
      BY <3>1, SkipsNone
  <2>2. CASE l = c
    BY <1>3, <2>2 DEF Starts, Joins
  <2> QED
    BY <2>1, <2>2
<1> QED
  BY <1>4, <1>5, <1>6

\* getRewinder
LEMMA RewinderStarts ==
    ASSUME IInv, Clocks, Accounted, Listeners, NoReplay, NoSkip,
           NEW c \in Client, NEW ask \in Offset, NEW burst \in Burst, GetRewinder(c, ask, burst)
    PROVE  Listeners' /\ NoReplay' /\ NoSkip'
<1> DEFINE o == IF ask = 0 THEN 0 ELSE CheckOffset(ask)
           start == CASE burst = 0 -> [chunks |-> <<>>, offset |-> o]
                      [] burst > 0 /\ o = 0 -> [chunks |-> PumpSeconds(burst), offset |-> 0]
                      [] OTHER -> BurstFrom(o, burst)
           f == CheckOffset(burst)
<1>1. /\ ask \in Int /\ burst \in Nat
      /\ Len(buffer) \in Nat /\ (buffer = <<>> <=> Len(buffer) = 0)
  BY Numbers, RewindAssumption
<1>2. /\ o \in Int /\ o <= Len(buffer) /\ (o < 0 => buffer = <<>>)
  BY <1>1, Granted
<1>3. f \in Int /\ f <= Len(buffer) /\ (f < 0 => buffer = <<>> /\ burst > 0)
  BY <1>1 DEF CheckOffset
<1>4. Starts(start.chunks, start.offset) /\ start.offset \in Int
  <2> HIDE DEF o, f
  <2>1. CASE burst = 0
    <3>1. start = [chunks |-> <<>>, offset |-> o]
      BY <2>1
    <3>2. <<>> \in Seq(Chunk) /\ Len(<<>>) = 0
      BY EmptySeq
    <3> HIDE DEF start
    <3>3. start.chunks = <<>> /\ start.offset = o
      BY <3>1
    <3> QED
      BY <1>2, <3>2, <3>3 DEF Starts
  <2>2. CASE burst > 0 /\ o = 0
    <3>1. start = [chunks |-> PumpFrom(f, f), offset |-> 0]
      BY <2>2 DEF PumpSeconds, f
    <3>2. Starts(PumpFrom(f, f), 0)
      BY <1>1, <1>3, BurstStarts
    <3> HIDE DEF start
    <3> QED
      BY <3>1, <3>2
  <2>3. CASE burst > 0 /\ o # 0
    <3>1. start = IF o > f THEN [chunks |-> PumpFrom(o, f), offset |-> o - f]
                           ELSE [chunks |-> PumpFrom(o, o), offset |-> 0]
      BY <2>3 DEF BurstFrom, f
    <3> HIDE DEF start
    <3>2. CASE o > f
      <4>1. f >= 0
        BY <1>1, <1>2, <1>3, <2>3, <3>2 DEF f, CheckOffset
      <4>2. o - f \in Int /\ o - f <= Len(buffer)
        BY <1>1, <1>2, <1>3, <4>1
      <4>3. Starts(PumpFrom(o, f), o - f)
        BY <1>2, <1>3, <3>2, <4>1, <4>2, BurstStarts
      <4> QED
        BY <3>1, <3>2, <4>2, <4>3
    <3>3. CASE ~(o > f)
      <4>1. Starts(PumpFrom(o, o), 0)
        BY <1>1, <1>2, BurstStarts
      <4> QED
        BY <3>1, <3>3, <4>1
    <3> QED
      BY <3>2, <3>3
  <2> QED
    BY <1>1, <2>1, <2>2, <2>3
<1>5. /\ offset' = [offset EXCEPT ![c] = start.offset]
      /\ pumped' = [pumped EXCEPT ![c] = start.chunks]
      /\ heard[c] = <<>> /\ heard' = heard /\ buffer' = buffer /\ secs' = secs /\ missed' = missed
  BY DEF GetRewinder
<1> HIDE DEF start
<1> QED
  BY <1>4, <1>5, StartKeeps

\* A client that only is pumped
LEMMA PumpStarts ==
    ASSUME IInv, Clocks, Accounted, Listeners, NoReplay, NoSkip,
           NEW c \in Client, NEW ask \in Offset, NEW burst \in Burst, PumpOnly(c, ask, burst)
    PROVE  Listeners' /\ NoReplay' /\ NoSkip'
<1> DEFINE o == IF ask = 0 THEN 0 ELSE CheckOffset(ask)
<1>1. /\ ask \in Int /\ burst \in Nat
      /\ Len(buffer) \in Nat /\ (buffer = <<>> <=> Len(buffer) = 0)
  BY Numbers, RewindAssumption
<1>2. o \in Int /\ o <= Len(buffer) /\ (o < 0 => buffer = <<>>)
  BY <1>1, Granted
<1>3. /\ pumped' = [pumped EXCEPT ![c] = PumpFrom(o, burst)] /\ offset[c] = -1
      /\ heard[c] = <<>> /\ heard' = heard /\ buffer' = buffer /\ secs' = secs /\ missed' = missed
      /\ offset' = offset
  BY DEF PumpOnly
<1> HIDE DEF o
<1> SUFFICES ASSUME NEW left \in Int, left = -1 PROVE Listeners' /\ NoReplay' /\ NoSkip'
  OBVIOUS
<1>4. offset' = [offset EXCEPT ![c] = left]
  BY <1>3 DEF IInv, TypeOK
<1>5. Starts(PumpFrom(o, burst), left)
  BY <1>1, <1>2, BurstStarts
<1> QED
  BY <1>3, <1>4, <1>5, StartKeeps

----------------------------------------------------------------------------
(* All steps *)

\* What was not steady never is again, and what threw threw.
LEMMA SteadyStays ==
    ASSUME [Next]_vars, steady', ~crashed'
    PROVE  steady /\ ~crashed
<1>1. CASE UNCHANGED vars
  BY <1>1 DEF vars
<1>2. CASE Live
  <2>1. PICK ts \in (now + 1 - Skew) .. (now + 1) : steady' = (steady /\ ts > now)
    BY <1>2 DEF Live
  <2> QED
    BY <1>2, <2>1 DEF Live
<1>3. CASE SourceVitals
  <2>1. ~crashed /\ steady' = (steady /\ key \in {None, KeyOf[connecting]})
    BY <1>3 DEF SourceVitals, RChunkLength
  <2> QED
    BY <2>1
<1>4. ASSUME NEW k \in LoadKey, NEW from \in 0 .. now, LoadHeader(k, from)
      PROVE  steady /\ ~crashed
  <2>1. ~crashed /\ steady' = (steady /\ key \in {None, k})
    BY <1>4 DEF LoadHeader, RChunkLength
  <2> QED
    BY <2>1
<1>5. ASSUME NEW n \in Secs, SetRewind(n)
      PROVE  steady /\ ~crashed
  <2>1. ~crashed /\ steady' = (steady /\ n = secs)
    BY <1>5 DEF SetRewind
  <2> QED
    BY <2>1
<1>6. CASE \/ \E s \in Source : ConnectSource(s)
           \/ Miss \/ LoadChunk \/ LoadEnd
  BY <1>6 DEF ConnectSource, Miss, LoadChunk, LoadEnd
<1>7. CASE \/ \E c \in Client, ask \in Offset, burst \in Burst : GetRewinder(c, ask, burst)
           \/ \E c \in Client, ask \in Offset, burst \in Burst : PumpOnly(c, ask, burst)
           \/ \E c \in Client : Disconnect(c)
  BY <1>7 DEF GetRewinder, PumpOnly, Disconnect
<1> QED
  BY <1>1, <1>2, <1>3, <1>4, <1>5, <1>6, <1>7 DEF Next

\* Every step that leaves a buffer steady keeps the invariant, unless a listener is
\* handed undefined.
LEMMA SteadyKeeps ==
    ASSUME SInv, [Next]_vars, steady', ~crashed'
    PROVE  SInv'
<1> USE DEF SInv
<1>1. IInv'
  BY StepKeeps
<1>2. CASE UNCHANGED vars
  <2>1. buffer' = buffer /\ secs' = secs /\ clients' = clients /\ missed' = missed /\ now' = now
    BY <1>2 DEF vars
  <2>2. Listeners' /\ NoReplay' /\ NoSkip' /\ Accounted'
    BY <2>1, Quiet, Unmoved
  <2> QED
    BY <1>1, <1>2, <2>1, <2>2 DEF vars, source, Clocks, LoadFills, Full, Max, FirstSource
<1>3. ASSUME NEW s \in Source, ConnectSource(s) PROVE SInv'
  <2>1. /\ buffer' = buffer /\ secs' = secs /\ clients' = clients /\ missed' = missed
        /\ now' = now /\ key' = key /\ load' = load /\ crashed' = crashed
        /\ rsource' = None /\ connecting' = s /\ used' = used \cup {s} /\ s \notin used
    BY <1>3 DEF ConnectSource
  <2>2. Listeners' /\ NoReplay' /\ NoSkip' /\ Accounted'
    BY <2>1, Quiet, Unmoved
  <2>3. Clocks' /\ LoadFills'
    BY <2>1 DEF Clocks, LoadFills, Full, Max
  <2>4. FirstSource'
    <3> SUFFICES ASSUME load.state = "none", \A x, y \in used' : x = y, buffer # <<>> PROVE FALSE
      BY <2>1 DEF FirstSource
    <3>1. used = {}
      BY <2>1
    <3> QED
      BY <3>1 DEF FirstSource, Clocks
  <2> QED
    BY <1>1, <2>2, <2>3, <2>4
<1>4. CASE SourceVitals
  <2>1. KeyOf[connecting] \in Key /\ connecting # None /\ connecting \in used
    BY <1>4, RewindAssumption DEF SourceVitals, Clocks, IInv, TypeOK
  <2>2. PICK k \in Key : k = KeyOf[connecting]
    BY <2>1
  <2>3. RChunkLength(k)
    BY <1>4, <2>2 DEF SourceVitals
  <2>4. buffer' = buffer /\ key' \in Key /\ (key # None => key' = key)
    BY <2>3, KeyLeaves
  <2>5. /\ secs' = secs /\ clients' = clients /\ missed' = missed /\ used' = used
        /\ now' = now /\ load' = load /\ crashed' = crashed
        /\ rsource' = connecting /\ connecting' = None
    BY <1>4 DEF SourceVitals
  <2>6. Listeners' /\ NoReplay' /\ NoSkip' /\ Accounted'
    BY <2>4, <2>5, Quiet, Unmoved
  <2>7. Clocks' /\ FirstSource'
    BY <2>1, <2>4, <2>5, RewindAssumption DEF Clocks, FirstSource
  <2>8. LoadFills'
    <3>1. CASE key # None
      BY <2>4, <2>5, <3>1 DEF LoadFills, Full, Max
    <3>2. CASE key = None
      BY <2>4, <3>2 DEF LoadFills, Clocks
    <3> QED
      BY <3>1, <3>2
  <2> QED
    BY <1>1, <2>6, <2>7, <2>8
<1>5. ASSUME NEW n \in Secs, SetRewind(n) PROVE SInv'
  <2>1. buffer' = buffer /\ secs' = secs
    BY <1>5, LengthLeaves
  <2>2. /\ clients' = clients /\ missed' = missed /\ now' = now /\ key' = key /\ load' = load
        /\ crashed' = crashed /\ source' = source
    BY <1>5 DEF SetRewind
  <2>3. Listeners' /\ NoReplay' /\ NoSkip' /\ Accounted'
    BY <2>1, <2>2, Quiet, Unmoved
  <2> QED
    BY <1>1, <2>1, <2>2, <2>3 DEF source, Clocks, LoadFills, Full, Max, FirstSource
<1>6. CASE Live
  <2>1. PICK c \in Chunk : c.ts = now + 1 /\ RData(c) /\ now' = now + 1
    BY <1>6, LiveIs
  <2>2. PICK d \in {0, 1} : Shifts(buffer, c, Max, d)
    BY <2>1, LiveShifts
  <2>3. /\ rsource # None /\ ~crashed
        /\ buffer' = Insert(buffer, c, Max) /\ missed' = missed /\ load' = load
        /\ key' = key /\ secs' = secs /\ source' = source /\ offset' = offset /\ pumped' = pumped
    BY <1>6, <2>1 DEF Live, RData
  <2>4. /\ \A i \in 1 .. Len(buffer') : buffer'[i].ts <= now'
        /\ buffer' # <<>> /\ Newest(buffer') = c
        /\ Accounted' /\ LoadFills'
    BY <1>1, <2>1, <2>2, <2>3, LiveKeepsBuffer
  <2>5. \A l \in Client : offset[l] >= 0 => At(buffer', offset[l]) # Nothing
    BY <2>1, <2>3 DEF RData
  <2>6. \A l \in Client :
            /\ heard'[l] \in Seq(Chunk) /\ Follows(l)'
            /\ \A i \in 1 .. Len(Handed(l)') - 1 : Handed(l)'[i].ts < Handed(l)'[i + 1].ts
            /\ \A i \in 1 .. Len(Handed(l)') - 1 :
                Joins(Handed(l)'[i], Handed(l)'[i + 1], i = Len(pumped'[l]), missed')
            /\ offset[l] >= 0 => At(buffer', offset[l]) \in Chunk
    BY <2>1, <2>2, <2>3, <2>5, LiveKeepsListener
  <2>7. Listeners' /\ NoReplay' /\ NoSkip'
    BY <2>6, SkipsNone DEF Listeners, NoReplay, Handed
  <2>8. Clocks'
    BY <2>1, <2>3, <2>4, Numbers DEF Clocks, source
  <2>9. FirstSource'
    BY <2>1, <2>3, <2>4 DEF FirstSource, source
  <2> QED
    BY <1>1, <2>4, <2>7, <2>8, <2>9
<1>7. CASE Miss
  <2>1. /\ buffer' = buffer /\ secs' = secs /\ clients' = clients /\ key' = key /\ load' = load
        /\ crashed' = crashed /\ source' = source /\ rsource = None
        /\ now' = now + 1 /\ missed' = missed \cup {now + 1}
    BY <1>7 DEF Miss
  <2>2. Listeners' /\ NoReplay' /\ NoSkip'
    BY <2>1, Quiet
  <2>3. Accounted'
    <3> SUFFICES ASSUME NEW ts \in 1 .. now + 1, ts \notin missed'
                 PROVE  Held(ts) \/ (buffer # <<>> /\ ts < Oldest(buffer).ts)
      BY <2>1 DEF Accounted, Held
    <3>1. ts \in 1 .. now /\ ts \notin missed
      BY <2>1, Numbers
    <3> QED
      BY <3>1 DEF Accounted
  <2>4. LoadFills'
    <3> SUFFICES ASSUME buffer # <<>>, load.state # "ended", ~Full,
                        NEW ts \in 1 .. now + 1, load.next < ts, ts < Oldest(buffer).ts
                 PROVE  ts \in missed'
      BY <2>1 DEF LoadFills, Full, Max
    <3>1. ts = now + 1 \/ ts \in 1 .. now
      BY Numbers
    <3> QED
      BY <2>1, <3>1 DEF LoadFills
  <2>5. Clocks'
    BY <2>1, Numbers DEF Clocks, source
  <2>6. FirstSource'
    BY <2>1 DEF FirstSource, source
  <2> QED
    BY <1>1, <2>2, <2>3, <2>4, <2>5, <2>6
<1>8. ASSUME NEW k \in LoadKey, NEW from \in 0 .. now, LoadHeader(k, from) PROVE SInv'
  <2>1. /\ k \in Key /\ RChunkLength(k) /\ load.state = "none" /\ (\A s, t \in used : s = t)
        /\ load' = [state |-> "loading", key |-> k, next |-> from]
        /\ secs' = secs /\ clients' = clients /\ missed' = missed /\ now' = now
        /\ crashed' = crashed /\ source' = source
    BY <1>8, RewindAssumption DEF LoadHeader
  <2>2. buffer' = buffer /\ key' \in Key /\ (key # None => key' = key)
    BY <2>1, KeyLeaves
  <2>3. Listeners' /\ NoReplay' /\ NoSkip' /\ Accounted'
    BY <2>1, <2>2, Quiet, Unmoved
  <2>4. load'.state = "loading" /\ load'.next = from /\ from \in Nat /\ from <= now
    BY <2>1, Numbers
  <2>5. Clocks'
    BY <2>1, <2>2, <2>4, RewindAssumption DEF Clocks, source
  <2>6. FirstSource'
    BY <2>4 DEF FirstSource
  <2>7. LoadFills'
    <3> SUFFICES ASSUME buffer # <<>> PROVE LoadFills'
      BY <2>2 DEF LoadFills
    <3>1. Newest(buffer).ts = now /\ Full' = Full /\ load.next = 0
      BY <2>1, <2>2 DEF FirstSource, Clocks, Full, Max
    <3>2. ASSUME ~Full, NEW ts \in 1 .. now, ts < Oldest(buffer).ts PROVE ts \in missed
      BY <2>1, <3>1, <3>2, Numbers DEF LoadFills
    <3> QED
      BY <2>1, <2>2, <2>4, <3>1, <3>2 DEF LoadFills
  <2> QED
    BY <1>1, <2>3, <2>5, <2>6, <2>7
<1>9. CASE LoadChunk
  <2>1. PICK c \in Chunk, d \in {0, 1} :
            c.ts = load.next /\ buffer' = Insert(buffer, c, Max) /\ Grows(buffer, c, Max, d)
    BY <1>9, LoadGrows
  <2>2. /\ \A i \in 1 .. Len(buffer') : buffer'[i].ts <= now'
        /\ Accounted' /\ LoadFills'
    BY <1>9, <2>1, LoadKeepsBuffer
  <2>3. Listeners'
    BY <1>9, <2>1, LoadKeepsListeners
  <2>4. /\ load.state = "loading" /\ load' = [load EXCEPT !.next = load.next - 1]
        /\ key' = key /\ secs' = secs /\ source' = source /\ now' = now /\ missed' = missed
        /\ clients' = clients /\ crashed' = crashed
    BY <1>9 DEF LoadChunk
  <2>5. NoReplay' /\ NoSkip'
    BY <2>4 DEF NoReplay, NoSkip, Passed, clients
  <2>6. load'.state = "loading" /\ load'.next = load.next - 1
    BY <2>4 DEF IInv, TypeOK
  <2>7. Clocks'
    BY <2>2, <2>4, <2>6, Numbers DEF Clocks, source
  <2>8. FirstSource'
    BY <2>6 DEF FirstSource
  <2> QED
    BY <1>1, <2>2, <2>3, <2>5, <2>7, <2>8
<1>10. CASE LoadEnd
  <2>1. /\ buffer' = buffer /\ secs' = secs /\ clients' = clients /\ missed' = missed /\ now' = now
        /\ key' = key /\ crashed' = crashed /\ source' = source
        /\ load' = [load EXCEPT !.state = "ended"]
    BY <1>10 DEF LoadEnd
  <2>2. Listeners' /\ NoReplay' /\ NoSkip' /\ Accounted'
    BY <2>1, Quiet, Unmoved
  <2>3. load'.state = "ended" /\ load'.next = load.next
    BY <2>1 DEF IInv, TypeOK
  <2> QED
    BY <1>1, <2>1, <2>2, <2>3 DEF source, Clocks, LoadFills, FirstSource
<1>11. ASSUME NEW c \in Client, Listeners' /\ NoReplay' /\ NoSkip',
              UNCHANGED <<buffer, key, secs, source, now, missed, load, crashed>>
       PROVE  SInv'
  <2>1. Accounted'
    BY <1>11, Unmoved
  <2> QED
    BY <1>1, <1>11, <2>1 DEF source, Clocks, LoadFills, Full, Max, FirstSource
<1>12. ASSUME NEW c \in Client, NEW ask \in Offset, NEW burst \in Burst,
              GetRewinder(c, ask, burst)
       PROVE  SInv'
  <2>1. Listeners' /\ NoReplay' /\ NoSkip'
    BY <1>12, RewinderStarts
  <2> QED
    BY <1>11, <1>12, <2>1 DEF GetRewinder
<1>13. ASSUME NEW c \in Client, NEW ask \in Offset, NEW burst \in Burst,
              PumpOnly(c, ask, burst)
       PROVE  SInv'
  <2>1. Listeners' /\ NoReplay' /\ NoSkip'
    BY <1>13, PumpStarts
  <2> QED
    BY <1>11, <1>13, <2>1 DEF PumpOnly
<1>14. ASSUME NEW c \in Client, Disconnect(c) PROVE SInv'
  <2>1. /\ offset' = [offset EXCEPT ![c] = -1] /\ pumped' = pumped /\ heard' = heard
        /\ UNCHANGED <<buffer, key, secs, source, now, missed, load, crashed>>
    BY <1>14 DEF Disconnect
  <2>2. offset'[c] = -1 /\ \A l \in Client : l # c => offset'[l] = offset[l]
    BY <2>1 DEF IInv, TypeOK
  <2>3. Listeners'
    BY <2>1, <2>2 DEF Listeners, Follows, Handed, Reached
  <2>4. NoReplay'
    BY <2>1 DEF NoReplay
  <2>5. NoSkip'
    <3>1. \A l \in Client : Handed(l)' = Handed(l)
      BY <2>1 DEF Handed
    <3> QED
      BY <2>1, <3>1, SkipsNone
  <2> QED
    BY <1>11, <2>1, <2>3, <2>4, <2>5
<1> QED
  BY <1>2, <1>3, <1>4, <1>5, <1>6, <1>7, <1>8, <1>9, <1>10, <1>12, <1>13, <1>14 DEF Next

\* As long as clocks ran on and neither the stream key nor the length changed, the
\* buffer has no hole of its own making, however a load runs beside live chunks; and
\* a listener, wherever its offset or its burst put it, is handed the chunks from its
\* burst on in order, none twice, and skips none but one where its burst ends
\* (insert, loadBuffer, burstFrom, the handler of the source's data).
THEOREM AllIsHeardOnce == Spec => []HearsAllOnce
<1> DEFINE Inv == steady /\ ~crashed => SInv
<1>1. Init /\ IInv => Inv
  <2> SUFFICES ASSUME Init, IInv PROVE SInv
    OBVIOUS
  <2>1. /\ buffer = <<>> /\ now = 0 /\ \A c \in Client : heard[c] = <<>> /\ pumped[c] = <<>>
        /\ load = [state |-> "none", key |-> None, next |-> 0]
        /\ \A c \in Client : offset[c] = -1
    BY DEF Init
  <2>2. <<>> \in Seq(Chunk) /\ Len(<<>>) = 0 /\ <<>> \o <<>> = <<>>
    BY EmptySeq, ConcatEmptySeq
  <2>3. Clocks /\ LoadFills /\ FirstSource /\ Accounted
    BY <2>1, <2>2 DEF Init, Clocks, LoadFills, FirstSource, Accounted
  <2>4. Listeners
    <3> SUFFICES ASSUME NEW c \in Client PROVE heard[c] \in Seq(Chunk) /\ Follows(c)
      BY DEF Listeners
    <3>1. heard[c] = <<>> /\ ~(offset[c] >= 0)
      BY <2>1
    <3> QED
      BY <2>2, <3>1 DEF Follows
  <2>5. NoReplay /\ NoSkip
    <3>1. \A c \in Client : pumped[c] \o heard[c] = <<>> /\ heard[c] = <<>>
      <4> SUFFICES ASSUME NEW c \in Client
                   PROVE  pumped[c] \o heard[c] = <<>> /\ heard[c] = <<>>
        OBVIOUS
      <4>1. heard[c] = <<>> /\ pumped[c] = <<>>
        BY <2>1
      <4> QED
        BY <2>2, <4>1
    <3>2. 1 .. 0 - 1 = {}
      OBVIOUS
    <3>3. NoReplay
      <4> SUFFICES ASSUME NEW c \in Client, NEW i \in 1 .. Len(pumped[c] \o heard[c]) - 1
                   PROVE  FALSE
        BY DEF NoReplay
      <4> QED
        BY <2>2, <3>1, <3>2
    <3>4. NoSkip
      <4> SUFFICES ASSUME NEW c \in Client, NEW i \in 1 .. Len(pumped[c] \o heard[c]) - 1
                   PROVE  FALSE
        BY DEF NoSkip
      <4> QED
        BY <2>2, <3>1, <3>2
    <3> QED
      BY <3>3, <3>4
  <2> QED
    BY <2>3, <2>4, <2>5 DEF SInv
<1>2. Inv /\ [Next]_vars => Inv'
  <2> SUFFICES ASSUME Inv, [Next]_vars, steady', ~crashed' PROVE SInv'
    OBVIOUS
  <2>1. steady /\ ~crashed
    BY SteadyStays
  <2> QED
    BY <2>1, SteadyKeeps
<1>3. Inv => HearsAllOnce
  <2> SUFFICES ASSUME SInv PROVE NoHole
    BY DEF HearsAllOnce, SInv
  <2> SUFFICES ASSUME buffer # <<>>, NEW ts \in Oldest(buffer).ts .. Newest(buffer).ts
               PROVE  ts \in missed \/ Held(ts)
    BY DEF NoHole, Held
  <2>1. IInv /\ 1 \in 1 .. Len(buffer) /\ Len(buffer) \in 1 .. Len(buffer)
    BY Numbers DEF SInv
  <2>2. /\ Oldest(buffer).ts \in 1 .. MaxTs /\ Newest(buffer).ts \in 1 .. MaxTs
        /\ Newest(buffer).ts <= now /\ now \in Nat
    BY <2>1, Numbers DEF SInv, Clocks, Oldest, Newest
  <2>3. ts \in 1 .. now /\ ~(ts < Oldest(buffer).ts)
    BY <2>2
  <2> QED
    BY <2>3 DEF SInv, Accounted
<1> QED
  BY <1>1, <1>2, <1>3, Invariance, PTL DEF Spec

----------------------------------------------------------------------------
(* The search by time *)

LEMMA Least ==
    ASSUME NEW S \in SUBSET Nat, S # {}
    PROVE  \E n \in S : \A m \in S : n <= m
<1> DEFINE R == OpToRel(<, Nat)
<1>1. IsWellFoundedOn(R, Nat)
  BY NatLessThanWellFounded
<1>2. PICK n \in S : \A m \in S : ~(<<m, n>> \in R)
  <2> HIDE DEF R
  <2> QED
    BY <1>1, WFMin, Zenon
<1>3. ASSUME NEW m \in S, m < n PROVE FALSE
  <2>1. <<m, n>> \in R
    BY <1>3 DEF OpToRel
  <2> QED
    BY <1>2, <2>1
<1>4. \A m \in S : m \in Nat /\ n \in Nat
  OBVIOUS
<1> QED
  BY <1>3, <1>4

\* Chunks with a duration, each over when the next one begins
Apart(buf) ==
    /\ Len(buf) \in Nat \ {0}
    /\ \A i \in 1 .. Len(buf) : buf[i].ts \in Nat /\ buf[i].duration \in Nat \ {0}
    /\ \A i, j \in 1 .. Len(buf) : i < j => buf[i].ts + buf[i].duration <= buf[j].ts

\* There is a first place that is not older, be it the one behind the last.
LEMMA PlaceIs ==
    ASSUME NEW buf, Apart(buf), NEW t \in Nat
    PROVE  /\ Place(buf, t) \in 1 .. Len(buf) + 1
           /\ Place(buf, t) <= Len(buf) => buf[Place(buf, t)].ts >= t
           /\ \A i \in 1 .. Place(buf, t) - 1 : buf[i].ts < t
<1> DEFINE S == {k \in 1 .. Len(buf) + 1 : k <= Len(buf) => buf[k].ts >= t}
<1>1. Len(buf) \in Nat /\ Len(buf) + 1 \in S /\ S \in SUBSET Nat
  BY DEF Apart
<1>2. PICK n \in S : \A m \in S : n <= m
  <2> HIDE DEF S
  <2> QED
    BY <1>1, Least
<1>3. ASSUME NEW i \in 1 .. n - 1 PROVE buf[i].ts < t
  <2>1. i \in 1 .. Len(buf) /\ i < n /\ n \in Nat
    BY <1>1
  <2>2. i \notin S
    BY <1>2, <2>1
  <2> QED
    BY <2>1, <2>2 DEF Apart
<1> QED
  BY <1>2, <1>3 DEF Place

\* How far a time is from a chunk that has ended, is on, or is to come
LEMMA DistanceIs ==
    ASSUME NEW c, c.ts \in Nat, c.duration \in Nat \ {0}, NEW t \in Nat
    PROVE  /\ Distance(c, t) \in Nat
           /\ t < c.ts => Distance(c, t) = c.ts - t
           /\ t >= c.ts + c.duration => Distance(c, t) = t - (c.ts + c.duration)
           /\ c.ts <= t /\ t < c.ts + c.duration => Distance(c, t) = 0
  BY DEF Distance

LEMMA AbsIs ==
    ASSUME NEW x \in Int
    PROVE  Abs(x) = IF x < 0 THEN 0 - x ELSE x
  BY DEF Abs

\* Of chunks that do not overlap the search finds a nearest one, for any time
\* before the end of the newest.
LEMMA SearchFinds ==
    ASSUME NEW buf, Apart(buf), NEW t \in Nat, t < Newest(buf).ts + Newest(buf).duration
    PROVE  IsNearest(buf, t)
<1> DEFINE n == Len(buf)
           k == Place(buf, t)
           o == FindTimestampOffset(buf, t)
<1>1. /\ n \in Nat /\ n >= 1 /\ n \in 1 .. n /\ 1 \in 1 .. n
      /\ \A i \in 1 .. n : buf[i].ts \in Nat /\ buf[i].duration \in Nat \ {0}
      /\ \A i, j \in 1 .. n : i < j => buf[i].ts + buf[i].duration <= buf[j].ts
  BY DEF Apart
<1>2. /\ k \in 1 .. n + 1
      /\ k <= n => buf[k].ts >= t
      /\ \A i \in 1 .. k - 1 : buf[i].ts < t
  BY PlaceIs
<1> HIDE DEF k
<1>3. \A i \in 1 .. n :
        /\ Distance(buf[i], t) \in Nat
        /\ t < buf[i].ts => Distance(buf[i], t) = buf[i].ts - t
        /\ t >= buf[i].ts + buf[i].duration
             => Distance(buf[i], t) = t - (buf[i].ts + buf[i].duration)
        /\ buf[i].ts <= t /\ t < buf[i].ts + buf[i].duration => Distance(buf[i], t) = 0
  BY <1>1, DistanceIs
\* A place within the buffer whose chunk is nearest is what is asked for.
<1>4. ASSUME NEW p \in 1 .. n, o = n - p,
             \A i \in 1 .. n : Distance(buf[p], t) <= Distance(buf[i], t)
      PROVE  IsNearest(buf, t)
  <2>1. o \in 0 .. n - 1 /\ n - o = p
    BY <1>1, <1>4
  <2> QED
    BY <1>4, <2>1 DEF IsNearest
<1>5. CASE k <= n /\ buf[k].ts = t
  <2>1. o = n - k /\ k \in 1 .. n
    BY <1>2, <1>5 DEF FindTimestampOffset, k
  <2>2. Distance(buf[k], t) = 0
    BY <1>1, <1>3, <1>5, <2>1
  <2> QED
    BY <1>3, <1>4, <2>1, <2>2
<1>6. CASE ~(k <= n /\ buf[k].ts = t) /\ k = 1
  <2>1. o = n - 1
    BY <1>6 DEF FindTimestampOffset, k
  <2>2. t < buf[1].ts
    BY <1>1, <1>2, <1>6
  <2>3. ASSUME NEW i \in 1 .. n PROVE Distance(buf[1], t) <= Distance(buf[i], t)
    <3>1. buf[1].ts <= buf[i].ts
      BY <1>1
    <3> QED
      BY <1>1, <1>3, <2>2, <3>1
  <2> QED
    BY <1>1, <1>4, <2>1, <2>3
<1>7. CASE ~(k <= n /\ buf[k].ts = t) /\ k # 1
  <2> DEFINE a == buf[k - 1]
             da == Abs(a.ts + a.duration - t)
             db == Abs(buf[k].ts - t)
  <2>1. o = IF a.ts <= t /\ t < a.ts + a.duration THEN n - k + 1
            ELSE IF da > db THEN n - k ELSE n - k + 1
    BY <1>7 DEF FindTimestampOffset, k
  <2>2. k - 1 \in 1 .. n /\ a.ts < t /\ a.ts \in Nat /\ a.duration \in Nat \ {0}
    BY <1>1, <1>2, <1>7
  <2>3. CASE t < a.ts + a.duration
    <3>1. o = n - (k - 1)
      BY <2>1, <2>2, <2>3, <1>1, <1>2
    <3>2. Distance(a, t) = 0
      BY <1>3, <2>2, <2>3
    <3> QED
      BY <1>3, <1>4, <2>2, <3>1, <3>2
  <2>4. CASE ~(t < a.ts + a.duration)
    <3>1. k \in 1 .. n /\ t < buf[k].ts /\ buf[k].ts \in Nat
      <4>1. k # n + 1
        BY <1>1, <2>2, <2>4 DEF Newest
      <4>2. k \in 1 .. n
        BY <1>1, <1>2, <4>1
      <4> QED
        BY <1>1, <1>2, <1>7, <4>2
    <3>2. /\ da = t - (a.ts + a.duration) /\ db = buf[k].ts - t
          /\ Distance(a, t) = da /\ Distance(buf[k], t) = db
          /\ da \in Nat /\ db \in Nat
      <4>1. a.ts + a.duration \in Nat /\ t >= a.ts + a.duration
        BY <2>2, <2>4
      <4>2. da = t - (a.ts + a.duration) /\ da \in Nat
        <5>1. a.ts + a.duration - t \in Int /\ a.ts + a.duration - t <= 0
          BY <2>2, <4>1
        <5>2. da = 0 - (a.ts + a.duration - t)
          BY <5>1, AbsIs
        <5> QED
          BY <2>2, <4>1, <5>1, <5>2
      <4>3. db = buf[k].ts - t /\ db \in Nat
        BY <3>1 DEF Abs
      <4>4. Distance(a, t) = t - (a.ts + a.duration)
        BY <1>3, <2>2, <4>1
      <4>5. Distance(buf[k], t) = buf[k].ts - t
        BY <1>3, <3>1
      <4> QED
        BY <4>2, <4>3, <4>4, <4>5
    <3>3. ASSUME NEW i \in 1 .. n PROVE Distance(buf[i], t) >= IF da > db THEN db ELSE da
      <4>1. /\ buf[i].ts \in Nat /\ buf[i].duration \in Nat
            /\ a.ts + a.duration \in Nat /\ t >= a.ts + a.duration
        BY <1>1, <2>2, <2>4
      <4>2. CASE i >= k
        <5>1. buf[k].ts <= buf[i].ts
          <6>1. CASE i = k
            BY <3>1, <6>1
          <6>2. CASE k < i
            <7>1. buf[k].ts + buf[k].duration <= buf[i].ts /\ buf[k].duration \in Nat
              BY <1>1, <3>1, <6>2
            <7> QED
              BY <3>1, <4>1, <7>1
          <6> QED
            BY <1>1, <3>1, <4>2, <6>1, <6>2
        <5>2. Distance(buf[i], t) = buf[i].ts - t
          BY <1>3, <3>1, <4>1, <5>1
        <5> QED
          BY <3>1, <3>2, <4>1, <5>1, <5>2
      <4>3. CASE i < k
        <5>1. buf[i].ts + buf[i].duration <= a.ts + a.duration
          <6>1. CASE i = k - 1
            BY <4>1, <6>1
          <6>2. CASE i < k - 1
            <7>1. buf[i].ts + buf[i].duration <= a.ts
              BY <1>1, <2>2, <6>2
            <7> QED
              BY <2>2, <4>1, <7>1
          <6> QED
            BY <1>1, <1>2, <4>3, <6>1, <6>2
        <5>2. Distance(buf[i], t) = t - (buf[i].ts + buf[i].duration)
          <6>1. t >= buf[i].ts + buf[i].duration
            BY <4>1, <5>1
          <6> QED
            BY <1>3, <6>1
        <5> QED
          BY <3>2, <4>1, <5>1, <5>2
      <4> QED
        BY <1>1, <1>2, <4>2, <4>3
    <3>4. o = IF da > db THEN n - k ELSE n - (k - 1)
      BY <1>1, <1>2, <2>1, <2>2, <2>4
    <3>5. CASE da > db
      BY <1>4, <3>1, <3>2, <3>3, <3>4, <3>5
    <3>6. CASE ~(da > db)
      BY <1>4, <2>2, <3>2, <3>3, <3>4, <3>6
    <3> QED
      BY <3>5, <3>6
  <2> QED
    BY <2>3, <2>4
<1> QED
  BY <1>5, <1>6, <1>7

\* For every time up to the end of the newest chunk _findTimestampOffset finds a
\* chunk that no other one is nearer to, however long chunks last within their
\* second and wherever the buffer has gaps.
THEOREM SearchesFindTheNearest == Spec => []FindsNearest
<1>1. IInv => FindsNearest
  <2> SUFFICES ASSUME IInv, buffer # <<>>, NEW d \in [1 .. Len(buffer) -> {1, Unit}],
                      NEW t \in 0 .. (Newest(Lasting(d)).ts + Newest(Lasting(d)).duration - 1)
               PROVE  IsNearest(Lasting(d), t)
    BY DEF FindsNearest
  <2> DEFINE n == Len(buffer)
             buf == Lasting(d)
  <2>1. /\ n \in Nat \ {0}
        /\ \A i \in 1 .. n : buffer[i].ts \in Nat
        /\ \A i, j \in 1 .. n : i < j => buffer[i].ts < buffer[j].ts
    BY Numbers DEF IInv, Ordered
  <2>2. Len(buf) = n /\ \A i \in 1 .. n : buf[i].ts = 3 * buffer[i].ts /\ buf[i].duration = d[i]
    BY <2>1 DEF Lasting, Unit
  <2>3. \A i \in 1 .. n : d[i] \in {1, 3}
    BY DEF Unit
  <2> HIDE DEF buf
  <2>4. Apart(buf)
    <3>1. \A i \in 1 .. n : buf[i].ts \in Nat /\ buf[i].duration \in Nat \ {0}
      BY <2>1, <2>2, <2>3
    <3>2. ASSUME NEW i \in 1 .. n, NEW j \in 1 .. n, i < j
          PROVE  buf[i].ts + buf[i].duration <= buf[j].ts
      BY <2>1, <2>2, <2>3, <3>2
    <3> QED
      BY <2>1, <2>2, <3>1, <3>2 DEF Apart
  <2>5. Newest(buf).ts \in Nat /\ Newest(buf).duration \in Nat
    BY <2>4 DEF Apart, Newest
  <2>6. t \in Nat /\ t < Newest(buf).ts + Newest(buf).duration
    BY <2>5 DEF buf
  <2> QED
    BY <2>4, <2>6, SearchFinds DEF buf
<1> QED
  BY <1>1, Invariance, PTL

----------------------------------------------------------------------------
(* A dump that is loaded *)

\* The k newest chunks, and how many of k a maximum leaves
Tops(buf, k) == SubSeq(buf, Len(buf) - k + 1, Len(buf))
Left(k, max) == IF max > 0 /\ k > max THEN max ELSE k

LEMMA TopsAre ==
    ASSUME NEW buf \in Seq(Chunk), NEW k \in 0 .. Len(buf)
    PROVE  /\ Tops(buf, k) \in Seq(Chunk)
           /\ Len(Tops(buf, k)) = k
           /\ \A i \in 1 .. k : Tops(buf, k)[i] = buf[Len(buf) - k + i]
<1> DEFINE n == Len(buf)
           t == SubSeq(buf, n - k + 1, n)
<1>1. n \in Nat /\ n - k + 1 \in 1 .. n + 1
  BY LenProperties
<1>2. \A i \in (n - k + 1) .. n : buf[i] \in Chunk
  BY <1>1, ElementOfSeq
<1>3. /\ t \in Seq(Chunk)
      /\ Len(t) = IF n - k + 1 <= n THEN n - (n - k + 1) + 1 ELSE 0
      /\ \A i \in 1 .. n - (n - k + 1) + 1 : t[i] = buf[(n - k + 1) + i - 1]
  BY <1>1, <1>2, SubSeqProperties
<1> QED
  BY <1>1, <1>3 DEF Tops

\* All of a buffer, and a store that is truncated, are newest chunks again.
LEMMA TopsOfAll ==
    ASSUME NEW buf \in Seq(Chunk)
    PROVE  Tops(buf, Len(buf)) = buf
<1>1. Len(buf) \in Nat /\ Len(buf) \in 0 .. Len(buf)
  BY LenProperties
<1>2. /\ Tops(buf, Len(buf)) \in Seq(Chunk) /\ Len(Tops(buf, Len(buf))) = Len(buf)
      /\ \A i \in 1 .. Len(buf) : Tops(buf, Len(buf))[i] = buf[i]
  BY <1>1, TopsAre
<1> QED
  BY <1>2, SeqEqual

LEMMA TopsOfTops ==
    ASSUME NEW buf \in Seq(Chunk), NEW k \in 0 .. Len(buf), NEW m \in 0 .. k
    PROVE  Tops(Tops(buf, k), m) = Tops(buf, m)
<1> DEFINE s == Tops(buf, k)
<1>1. Len(buf) \in Nat /\ m \in 0 .. Len(buf)
  BY LenProperties
<1>2. /\ s \in Seq(Chunk) /\ Len(s) = k
      /\ \A i \in 1 .. k : s[i] = buf[Len(buf) - k + i]
  BY TopsAre
<1>3. /\ Tops(buf, m) \in Seq(Chunk) /\ Len(Tops(buf, m)) = m
      /\ \A i \in 1 .. m : Tops(buf, m)[i] = buf[Len(buf) - m + i]
  BY <1>1, TopsAre
<1> HIDE DEF s
<1>4. /\ Tops(s, m) \in Seq(Chunk) /\ Len(Tops(s, m)) = m
      /\ \A i \in 1 .. m : Tops(s, m)[i] = s[k - m + i]
  BY <1>2, TopsAre
<1>5. \A i \in 1 .. m : Tops(s, m)[i] = Tops(buf, m)[i]
  <2> SUFFICES ASSUME NEW i \in 1 .. m PROVE Tops(s, m)[i] = Tops(buf, m)[i]
    OBVIOUS
  <2>1. k - m + i \in 1 .. k /\ Len(buf) - k + (k - m + i) = Len(buf) - m + i
    BY <1>1
  <2> QED
    BY <1>2, <1>3, <1>4, <2>1
<1>6. Tops(s, m) = Tops(buf, m)
  BY <1>3, <1>4, <1>5, SeqEqual
<1> QED
  BY <1>6 DEF s

LEMMA TruncateTops ==
    ASSUME NEW buf \in Seq(Chunk), NEW k \in 0 .. Len(buf), NEW max \in Nat
    PROVE  Truncate(Tops(buf, k), max) = Tops(buf, Left(k, max))
<1>1. Len(buf) \in Nat /\ Len(Tops(buf, k)) = k
  BY TopsAre, LenProperties
<1>2. CASE max > 0 /\ k > max
  <2>1. Truncate(Tops(buf, k), max) = Tops(Tops(buf, k), max)
    BY <1>1, <1>2 DEF Truncate, Tops
  <2>2. max \in 0 .. k
    BY <1>2
  <2> QED
    BY <1>2, <2>1, <2>2, TopsOfTops DEF Left
<1>3. CASE ~(max > 0 /\ k > max)
  BY <1>1, <1>3 DEF Truncate, Left
<1> QED
  BY <1>2, <1>3

\* One more chunk in front makes one more of the newest.
LEMMA OneMoreTop ==
    ASSUME NEW buf \in Seq(Chunk), NEW k \in 0 .. Len(buf), k < Len(buf)
    PROVE  <<buf[Len(buf) - k]>> \o Tops(buf, k) = Tops(buf, k + 1)
<1> DEFINE n == Len(buf)
           c == buf[n - k]
           s == Tops(buf, k)
           t == Tops(buf, k + 1)
<1>1. n \in Nat /\ k + 1 \in 0 .. n /\ n - k \in 1 .. n
  BY LenProperties
<1>2. c \in Chunk
  BY <1>1, ElementOfSeq
<1>3. /\ s \in Seq(Chunk) /\ Len(s) = k
      /\ \A i \in 1 .. k : s[i] = buf[n - k + i]
  BY TopsAre
<1>4. /\ t \in Seq(Chunk) /\ Len(t) = k + 1
      /\ \A i \in 1 .. k + 1 : t[i] = buf[n - (k + 1) + i]
  BY <1>1, TopsAre
<1> HIDE DEF c, s, t
<1>5. <<c>> \in Seq(Chunk) /\ Len(<<c>>) = 1 /\ <<c>>[1] = c
  BY <1>2
<1>6. /\ <<c>> \o s \in Seq(Chunk) /\ Len(<<c>> \o s) = 1 + k
      /\ \A i \in 1 .. 1 + k : (<<c>> \o s)[i] = IF i <= 1 THEN <<c>>[i] ELSE s[i - 1]
  BY <1>3, <1>5, ConcatProperties
<1>7. \A i \in 1 .. k + 1 : (<<c>> \o s)[i] = t[i]
  <2> SUFFICES ASSUME NEW i \in 1 .. k + 1 PROVE (<<c>> \o s)[i] = t[i]
    OBVIOUS
  <2>1. CASE i = 1
    <3>1. t[1] = buf[n - (k + 1) + 1] /\ n - (k + 1) + 1 = n - k
      BY <1>1, <1>4, <2>1
    <3> QED
      BY <1>5, <1>6, <2>1, <3>1 DEF c
  <2>2. CASE i # 1
    <3>1. i - 1 \in 1 .. k /\ n - k + (i - 1) = n - (k + 1) + i /\ ~(i <= 1)
      BY <1>1, <2>2
    <3>2. i \in 1 .. 1 + k
      BY <1>1
    <3>3. (<<c>> \o s)[i] = s[i - 1]
      BY <1>6, <3>1, <3>2
    <3>4. s[i - 1] = buf[n - k + (i - 1)]
      BY <1>3, <3>1
    <3>5. t[i] = buf[n - (k + 1) + i]
      BY <1>4
    <3> QED
      BY <3>1, <3>3, <3>4, <3>5
  <2> QED
    BY <2>1, <2>2
<1>8. 1 + k = k + 1
  OBVIOUS
<1>9. <<c>> \o s = t
  BY <1>4, <1>6, <1>7, <1>8, SeqEqual
<1> QED
  BY <1>9 DEF c, s, t

\* With l live chunks before it, a load that has read i chunks has filled the store
\* with the l or i newest, whichever are more, as far as the maximum goes.
Reads(i, l) == IF l > i THEN l ELSE i

LEMMA LoadReads ==
    ASSUME NEW buf \in Seq(Chunk), InOrder(buf), NEW max \in Nat,
           NEW l \in 0 .. Len(buf), NEW i \in 1 .. Len(buf)
    PROVE  Insert(Tops(buf, Left(Reads(i - 1, l), max)), buf[Len(buf) + 1 - i], max)
             = Tops(buf, Left(Reads(i, l), max))
<1> DEFINE n == Len(buf)
           k == Reads(i - 1, l)
           m == Left(k, max)
           s == Tops(buf, m)
           c == buf[n + 1 - i]
<1>1. /\ n \in Nat /\ i \in 1 .. n /\ l \in 0 .. n
      /\ k = (IF l > i - 1 THEN l ELSE i - 1)
      /\ m = (IF max > 0 /\ k > max THEN max ELSE k)
  BY LenProperties DEF Reads, Left
<1> HIDE DEF k, m
<1>2. k \in 0 .. n /\ m \in 0 .. k /\ m \in 0 .. n
  BY <1>1
<1>3. /\ s \in Seq(Chunk) /\ Len(s) = m
      /\ \A j \in 1 .. m : s[j] = buf[n - m + j]
  BY <1>2, TopsAre
<1>4. \A j \in 1 .. n : buf[j] \in Chunk /\ buf[j].ts \in Int
  <2> SUFFICES ASSUME NEW j \in 1 .. n PROVE buf[j] \in Chunk /\ buf[j].ts \in Int
    OBVIOUS
  <2>1. buf[j] \in Chunk
    BY ElementOfSeq
  <2> QED
    BY <2>1, RewindAssumption DEF Chunk, Time
<1>5. n + 1 - i \in 1 .. n
  BY <1>1
<1> HIDE DEF s
<1>6. CASE m = 0
  <2>1. k = 0 /\ i = 1 /\ l = 0
    BY <1>1, <1>6
  <2>2. s = <<>>
    BY <1>3, <1>6, EmptySeq
  <2>3. <<buf[n - 0]>> \o Tops(buf, 0) = Tops(buf, 0 + 1)
    BY <1>1, OneMoreTop
  <2>4. c \in Chunk /\ n + 1 - i = n - 0 /\ 0 + 1 = 1 /\ 1 \in 0 .. n
    BY <1>1, <1>4, <1>5, <2>1
  <2>5. Append(s, c) = <<c>> \o s
    BY <2>2, <2>4
  <2>6. Append(s, c) = Tops(buf, 1)
    BY <1>6, <2>3, <2>4, <2>5 DEF s
  <2>7. Insert(s, c, max) = Truncate(Tops(buf, 1), max)
    BY <2>2, <2>6 DEF Insert
  <2>8. Reads(i, l) = 1
    BY <2>1 DEF Reads
  <2> QED
    BY <2>4, <2>7, <2>8, TruncateTops DEF s, m, k
<1>7. CASE m # 0
  <2>1. s # <<>> /\ 1 \in 1 .. m /\ m \in 1 .. m
    BY <1>2, <1>3, <1>7, EmptySeq
  <2>2. Newest(s) = buf[n] /\ n \in 1 .. n
    <3>1. n - m + m = n /\ n \in 1 .. n
      BY <1>1
    <3> QED
      BY <1>3, <2>1, <3>1 DEF Newest
  <2>3. Oldest(s) = buf[n - m + 1] /\ n - m + 1 \in 1 .. n
    BY <1>1, <1>2, <1>3, <2>1 DEF Oldest
  <2>4. ~(c.ts > Newest(s).ts)
    <3>1. n + 1 - i = n \/ n + 1 - i < n
      BY <1>1
    <3>2. c.ts <= buf[n].ts
      BY <1>4, <1>5, <2>2, <3>1 DEF InOrder
    <3> QED
      BY <1>4, <1>5, <2>2, <3>2
  <2>5. Insert(s, c, max) = Truncate(IF c.ts < Oldest(s).ts THEN <<c>> \o s ELSE s, max)
    BY <2>1, <2>4 DEF Insert
  <2>6. c.ts < Oldest(s).ts <=> i > m
    <3>1. CASE i > m
      <4>1. n + 1 - i < n - m + 1
        BY <1>1, <1>2, <3>1
      <4> QED
        BY <1>5, <2>3, <3>1, <4>1 DEF InOrder
    <3>2. CASE ~(i > m)
      <4>1. n + 1 - i = n - m + 1 \/ n - m + 1 < n + 1 - i
        BY <1>1, <1>2, <3>2
      <4>2. buf[n - m + 1].ts <= c.ts
        BY <1>4, <1>5, <2>3, <4>1 DEF InOrder
      <4> QED
        BY <1>4, <1>5, <2>3, <3>2, <4>2
    <3> QED
      BY <3>1, <3>2
  <2>7. CASE ~(i > m)
    <3>1. Insert(s, c, max) = Truncate(s, max)
      BY <2>5, <2>6, <2>7
    <3>2. Left(m, max) = m /\ Left(Reads(i, l), max) = m
      BY <1>1, <1>2, <2>7 DEF Left, Reads
    <3> QED
      BY <1>2, <3>1, <3>2, TruncateTops DEF s, m, k
  <2>8. CASE i > m
    <3>1. Insert(s, c, max) = Truncate(<<c>> \o s, max)
      BY <2>5, <2>6, <2>8
    <3>2. CASE m = k
      <4>1. k = i - 1 /\ Reads(i, l) = i
        BY <1>1, <1>2, <2>8, <3>2 DEF Reads
      <4>2. k < n /\ n + 1 - i = n - k /\ k + 1 = i /\ i \in 0 .. n
        BY <1>1, <4>1
      <4>3. <<c>> \o s = Tops(buf, i)
        BY <1>2, <3>2, <4>2, OneMoreTop DEF s
      <4> QED
        BY <3>1, <4>1, <4>2, <4>3, TruncateTops DEF s, m, k
    <3>3. CASE m # k
      <4>1. m = max /\ k > max /\ max > 0 /\ Left(Reads(i, l), max) = max
        BY <1>1, <3>3 DEF Left, Reads
      <4>2. <<c>> \in Seq(Chunk) /\ Len(<<c>>) = 1
        BY <1>4, <1>5
      <4> DEFINE r == <<c>> \o s
      <4>3. /\ r \in Seq(Chunk) /\ Len(r) = 1 + m
            /\ \A j \in 1 .. 1 + m : r[j] = IF j <= 1 THEN <<c>>[j] ELSE s[j - 1]
        BY <1>3, <4>2, ConcatProperties
      <4> HIDE DEF r
      <4>4. Truncate(r, max) = Tops(r, m) /\ m \in 0 .. Len(r)
        BY <1>2, <4>1, <4>3 DEF Truncate, Tops
      <4>5. /\ Tops(r, m) \in Seq(Chunk) /\ Len(Tops(r, m)) = m
            /\ \A j \in 1 .. m : Tops(r, m)[j] = r[Len(r) - m + j]
        BY <4>3, <4>4, TopsAre
      <4>6. \A j \in 1 .. m : Tops(r, m)[j] = s[j]
        <5> SUFFICES ASSUME NEW j \in 1 .. m PROVE Tops(r, m)[j] = s[j]
          OBVIOUS
        <5>1. Len(r) - m + j = j + 1 /\ j + 1 \in 1 .. 1 + m /\ ~(j + 1 <= 1) /\ j + 1 - 1 = j
          BY <1>2, <4>3
        <5> QED
          BY <4>3, <4>5, <5>1
      <4>7. Tops(r, m) = s
        BY <1>3, <4>5, <4>6, SeqEqual
      <4> QED
        BY <3>1, <4>1, <4>4, <4>7 DEF s, r, m, k
    <3> QED
      BY <3>2, <3>3
  <2> QED
    BY <2>7, <2>8
<1> QED
  BY <1>6, <1>7 DEF s, m, k

\* What a store is after each chunk of a load is settled by what it was before.
LEMMA LoadedIs ==
    ASSUME NEW buf \in Seq(Chunk), InOrder(buf), NEW max \in Nat, NEW l \in 0 .. Len(buf)
    PROVE  Loaded(Tops(buf, Left(l, max)), buf, max) = Tops(buf, Left(Len(buf), max))
<1> DEFINE n == Len(buf)
           store == Tops(buf, Left(l, max))
           Step(f) == [i \in 0 .. n |->
                         IF i = 0 THEN store ELSE Insert(f[i - 1], buf[n + 1 - i], max)]
           after == CHOOSE f : f = Step(f)
           g == [i \in 0 .. n |-> Tops(buf, Left(Reads(i, l), max))]
<1>1. n \in Nat
  BY LenProperties
<1>2. g = Step(g)
  <2> SUFFICES ASSUME NEW i \in 0 .. n PROVE g[i] = Step(g)[i]
    OBVIOUS
  <2>1. CASE i = 0
    <3>1. Reads(0, l) = l
      BY <1>1 DEF Reads
    <3> QED
      BY <2>1, <3>1
  <2>2. CASE i # 0
    <3>1. i \in 1 .. n /\ i - 1 \in 0 .. n
      BY <1>1, <2>2
    <3>2. g[i - 1] = Tops(buf, Left(Reads(i - 1, l), max))
      BY <3>1
    <3>3. Insert(g[i - 1], buf[n + 1 - i], max) = Tops(buf, Left(Reads(i, l), max))
      BY <3>1, <3>2, LoadReads
    <3> QED
      BY <2>2, <3>3
  <2> QED
    BY <2>1, <2>2
<1> HIDE DEF g
<1>3. after = Step(after)
  BY <1>2
<1>4. Loaded(store, buf, max) = after[n]
  BY DEF Loaded
<1> HIDE DEF after
<1>5. \A i \in 0 .. n : after[i] = g[i]
  <2> DEFINE S == {i \in 0 .. n : after[i] # g[i]}
  <2> SUFFICES ASSUME S # {} PROVE FALSE
    OBVIOUS
  <2>1. S \in SUBSET Nat
    OBVIOUS
  <2>2. PICK i \in S : \A j \in S : i <= j
    <3> HIDE DEF S
    <3> QED
      BY <2>1, Least
  <2>3. i \in 0 .. n /\ after[i] # g[i]
    OBVIOUS
  <2>4. /\ after[i] = IF i = 0 THEN store ELSE Insert(after[i - 1], buf[n + 1 - i], max)
        /\ g[i] = IF i = 0 THEN store ELSE Insert(g[i - 1], buf[n + 1 - i], max)
    BY <1>2, <1>3, <2>3
  <2>5. i # 0
    BY <2>3, <2>4
  <2>6. i - 1 \in 0 .. n /\ ~(i <= i - 1)
    BY <1>1, <2>3, <2>5
  <2>7. after[i - 1] = g[i - 1]
    BY <2>2, <2>6
  <2> QED
    BY <2>3, <2>4, <2>7
<1>6. g[n] = Tops(buf, Left(n, max))
  <2>1. Reads(n, l) = n /\ n \in 0 .. n
    BY <1>1 DEF Reads
  <2> QED
    BY <2>1 DEF g
<1>7. after[n] = g[n]
  BY <1>1, <1>5
<1> QED
  BY <1>4, <1>6, <1>7

\* A dump of the buffer, loaded newest chunk first into a store that keeps as many
\* chunks as it likes and had any of the newest live already, is the buffer again,
\* cut to the maximum (insert, loadBuffer, dumpBuffer).
THEOREM DumpsRestore == Spec => []RestoresDump
<1>1. IInv => RestoresDump
  <2> SUFFICES ASSUME IInv, NEW max \in 0 .. MaxTs, NEW live \in 0 .. Len(buffer)
               PROVE  Loaded(Truncate(Tops(buffer, live), max), buffer, max)
                        = Truncate(buffer, max)
    BY DEF RestoresDump, Tops
  <2>1. buffer \in Seq(Chunk) /\ InOrder(buffer) /\ max \in Nat /\ Len(buffer) \in 0 .. Len(buffer)
    BY Numbers DEF IInv, TypeOK, Ordered, InOrder
  <2>2. Truncate(Tops(buffer, live), max) = Tops(buffer, Left(live, max))
    BY <2>1, TruncateTops
  <2>3. Truncate(Tops(buffer, Len(buffer)), max) = Tops(buffer, Left(Len(buffer), max))
    BY <2>1, TruncateTops
  <2> QED
    BY <2>1, <2>2, <2>3, TopsOfAll, LoadedIs
<1> QED
  BY <1>1, Invariance, PTL
=============================================================================

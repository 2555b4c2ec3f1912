---------------------------- MODULE MasterProofs ----------------------------
(***************************************************************************)
(* Proofs about what a master keeps: its analytics and its registry.       *)
(*                                                                         *)
(* Analytics: for any sessions, batches, days and troubles, every row that *)
(* was logged is in one place, once, and no session of yesterday or today  *)
(* with listens that are not counted is forgotten.  The argument for the   *)
(* latter: as long as a session has rows that are not indexed, its timeout *)
(* is not due (Awake), which NothingForgotten, that looks at indexed rows, *)
(* does not say.                                                           *)
(*                                                                         *)
(* Registry: for any keys, slaves and bounds, what slaves run and what     *)
(* Redis holds are the registry's streams once nothing is on its way to    *)
(* them; no mount that a stream listens to leaves the registry while       *)
(* mounts are registered under their own keys.                             *)
(***************************************************************************)
EXTENDS Analytics, Registry, SequenceTheorems, FiniteSetTheorems,
        WellFoundedInduction, TLAPS

-----------------------------------------------------------------------------
(* Analytics: queues *)

\* No element of D is in q twice.
OnceIn(q, D) == \A i, j \in 1 .. Len(q) : q[i] = q[j] /\ q[i] \in D => i = j

LEMMA ElementsAre ==
    ASSUME NEW S, NEW q \in Seq(S)
    PROVE  /\ RangeOf(q) \subseteq S
           /\ \A x : x \in RangeOf(q) <=> \E i \in 1 .. Len(q) : q[i] = x
<1>1. DOMAIN q = 1 .. Len(q) /\ \A i \in 1 .. Len(q) : q[i] \in S
  BY LenProperties, ElementOfSeq
<1> QED
  BY <1>1 DEF RangeOf

LEMMA NoElements == RangeOf(<<>>) = {} /\ \A D : OnceIn(<<>>, D)
<1>1. <<>> \in Seq({}) /\ Len(<<>>) = 0
  BY EmptySeq
<1>2. \A i \in 1 .. Len(<<>>) : FALSE
  BY <1>1
<1>3. \A x : x \notin RangeOf(<<>>)
  BY <1>1, <1>2, ElementsAre
<1> QED
  BY <1>2, <1>3 DEF OnceIn

LEMMA Joined ==
    ASSUME NEW S, NEW p \in Seq(S), NEW q \in Seq(S)
    PROVE  /\ p \o q \in Seq(S)
           /\ RangeOf(p \o q) = RangeOf(p) \cup RangeOf(q)
           /\ \A D : OnceIn(p, D) /\ OnceIn(q, D) /\ RangeOf(p) \cap RangeOf(q) \cap D = {}
                       => OnceIn(p \o q, D)
<1> DEFINE r == p \o q
           m == Len(p)
           n == Len(q)
<1>1. /\ r \in Seq(S) /\ Len(r) = m + n
      /\ \A i \in 1 .. m + n : r[i] = IF i <= m THEN p[i] ELSE q[i - m]
  BY ConcatProperties
<1>2. m \in Nat /\ n \in Nat
  BY LenProperties
<1> HIDE DEF r
<1>3. \A x : x \in RangeOf(r) <=> x \in RangeOf(p) \cup RangeOf(q)
  <2> TAKE x
  <2>1. x \in RangeOf(r) => x \in RangeOf(p) \cup RangeOf(q)
    <3> SUFFICES ASSUME NEW i \in 1 .. m + n, r[i] = x PROVE x \in RangeOf(p) \cup RangeOf(q)
      BY <1>1, ElementsAre
    <3>1. CASE i <= m
      BY <1>1, <1>2, <3>1, ElementsAre
    <3>2. CASE ~(i <= m)
      <4>1. i - m \in 1 .. n /\ q[i - m] = x
        BY <1>1, <1>2, <3>2
      <4> QED
        BY <4>1, ElementsAre
    <3> QED
      BY <3>1, <3>2
  <2>2. x \in RangeOf(p) => x \in RangeOf(r)
    <3> SUFFICES ASSUME NEW i \in 1 .. m, p[i] = x PROVE x \in RangeOf(r)
      BY ElementsAre
    <3>1. i \in 1 .. m + n /\ i <= m
      BY <1>2
    <3> QED
      BY <1>1, <3>1, ElementsAre
  <2>3. x \in RangeOf(q) => x \in RangeOf(r)
    <3> SUFFICES ASSUME NEW i \in 1 .. n, q[i] = x PROVE x \in RangeOf(r)
      BY ElementsAre
    <3>1. i + m \in 1 .. m + n /\ ~(i + m <= m) /\ i + m - m = i
      BY <1>2
    <3>2. r[i + m] = x
      BY <1>1, <3>1
    <3> QED
      BY <1>1, <3>1, <3>2, ElementsAre
  <2> QED
    BY <2>1, <2>2, <2>3
<1>4. ASSUME NEW D, OnceIn(p, D), OnceIn(q, D), RangeOf(p) \cap RangeOf(q) \cap D = {}
      PROVE  OnceIn(r, D)
  <2> SUFFICES ASSUME NEW i \in 1 .. m + n, NEW j \in 1 .. m + n, r[i] = r[j], r[i] \in D
               PROVE  i = j
    BY <1>1 DEF OnceIn
  <2>1. \A k \in 1 .. m + n : /\ k <= m => k \in 1 .. m /\ r[k] = p[k] /\ p[k] \in RangeOf(p)
                              /\ ~(k <= m) => k - m \in 1 .. n /\ r[k] = q[k - m]
                                               /\ q[k - m] \in RangeOf(q)
    <3> SUFFICES ASSUME NEW k \in 1 .. m + n
                 PROVE /\ k <= m => k \in 1 .. m /\ r[k] = p[k] /\ p[k] \in RangeOf(p)
                       /\ ~(k <= m) => k - m \in 1 .. n /\ r[k] = q[k - m]
                                        /\ q[k - m] \in RangeOf(q)
      OBVIOUS
    <3>1. k <= m => k \in 1 .. m
      BY <1>2
    <3>2. ~(k <= m) => k - m \in 1 .. n
      BY <1>2
    <3> QED
      BY <1>1, <3>1, <3>2, ElementsAre
  <2>2. CASE i <= m /\ j <= m
    BY <1>4, <2>1, <2>2 DEF OnceIn
  <2>3. CASE ~(i <= m) /\ ~(j <= m)
    <3>1. i - m = j - m
      BY <1>4, <2>1, <2>3 DEF OnceIn
    <3> QED
      BY <1>2, <3>1
  <2>4. CASE (i <= m /\ ~(j <= m)) \/ (~(i <= m) /\ j <= m)
    BY <1>4, <2>1, <2>4
  <2> QED
    BY <2>2, <2>3, <2>4
<1> QED
  BY <1>1, <1>3, <1>4 DEF r

LEMMA Single ==
    ASSUME NEW x
    PROVE  RangeOf(<<x>>) = {x} /\ <<x>> \in Seq({x}) /\ \A D : OnceIn(<<x>>, D)
<1>1. <<x>> \in Seq({x}) /\ Len(<<x>>) = 1 /\ <<x>>[1] = x
  OBVIOUS
<1>2. 1 \in 1 .. Len(<<x>>) /\ \A i \in 1 .. Len(<<x>>) : i = 1
  BY <1>1
<1>3. \A y : y \in RangeOf(<<x>>) <=> y = x
  BY <1>1, <1>2, ElementsAre
<1> QED
  BY <1>1, <1>2, <1>3 DEF OnceIn

LEMMA AddedTo ==
    ASSUME NEW S, NEW q \in Seq(S), NEW x \in S
    PROVE  /\ Append(q, x) \in Seq(S) /\ Append(q, x) # <<>>
           /\ RangeOf(Append(q, x)) = RangeOf(q) \cup {x}
           /\ \A D : OnceIn(q, D) /\ (x \in D => x \notin RangeOf(q)) => OnceIn(Append(q, x), D)
<1>1. Append(q, x) = q \o <<x>> /\ Append(q, x) # <<>>
  BY AppendIsConcat, AppendProperties
<1>2. <<x>> \in Seq(S)
  OBVIOUS
<1>3. RangeOf(<<x>>) = {x} /\ \A D : OnceIn(<<x>>, D)
  BY Single
<1> HIDE DEF OnceIn
<1>4. /\ q \o <<x>> \in Seq(S)
      /\ RangeOf(q \o <<x>>) = RangeOf(q) \cup RangeOf(<<x>>)
      /\ \A D : OnceIn(q, D) /\ OnceIn(<<x>>, D) /\ RangeOf(q) \cap RangeOf(<<x>>) \cap D = {}
                  => OnceIn(q \o <<x>>, D)
  BY <1>2, Joined
<1>5. ASSUME NEW D, OnceIn(q, D), x \in D => x \notin RangeOf(q)
      PROVE  OnceIn(Append(q, x), D)
  <2>1. RangeOf(q) \cap RangeOf(<<x>>) \cap D = {}
    BY <1>3, <1>5
  <2> QED
    BY <1>1, <1>3, <1>4, <1>5, <2>1
<1> QED
  BY <1>1, <1>3, <1>4, <1>5

LEMMA TakenFrom ==
    ASSUME NEW S, NEW q \in Seq(S), q # <<>>
    PROVE  /\ Tail(q) \in Seq(S) /\ Head(q) \in S
           /\ RangeOf(q) = RangeOf(Tail(q)) \cup {Head(q)}
           /\ \A D : OnceIn(q, D) => /\ OnceIn(Tail(q), D)
                                     /\ Head(q) \in D => Head(q) \notin RangeOf(Tail(q))
<1> DEFINE t == Tail(q)
           h == Head(q)
           n == Len(q)
<1>1. /\ t \in Seq(S) /\ h \in S /\ Len(t) = n - 1
      /\ \A i \in 1 .. Len(t) : t[i] = q[i + 1]
  BY HeadTailProperties
<1>2. n \in Nat \ {0} /\ h = q[1]
  BY EmptySeq, LenProperties
<1> HIDE DEF t, h
<1>3. \A x : x \in RangeOf(q) <=> x \in RangeOf(t) \cup {h}
  <2> TAKE x
  <2>1. x \in RangeOf(q) => x \in RangeOf(t) \cup {h}
    <3> SUFFICES ASSUME NEW i \in 1 .. n, q[i] = x PROVE x \in RangeOf(t) \cup {h}
      BY ElementsAre
    <3>1. CASE i = 1
      BY <1>2, <3>1
    <3>2. CASE i # 1
      <4>1. i - 1 \in 1 .. Len(t) /\ i - 1 + 1 = i
        BY <1>1, <1>2, <3>2
      <4>2. t[i - 1] = x
        BY <1>1, <4>1
      <4> QED
        BY <1>1, <4>1, <4>2, ElementsAre
    <3> QED
      BY <3>1, <3>2
  <2>2. x \in RangeOf(t) => x \in RangeOf(q)
    <3> SUFFICES ASSUME NEW i \in 1 .. Len(t), t[i] = x PROVE x \in RangeOf(q)
      BY <1>1, ElementsAre
    <3>1. i + 1 \in 1 .. n
      BY <1>1, <1>2
    <3> QED
      BY <1>1, <3>1, ElementsAre
  <2>3. h \in RangeOf(q)
    <3>1. 1 \in 1 .. n
      BY <1>2
    <3> QED
      BY <1>2, <3>1, ElementsAre
  <2> QED
    BY <2>1, <2>2, <2>3
<1>4. ASSUME NEW D, OnceIn(q, D)
      PROVE  OnceIn(t, D) /\ (h \in D => h \notin RangeOf(t))
  <2>1. \A i \in 1 .. Len(t) : i + 1 \in 1 .. n /\ t[i] = q[i + 1] /\ i + 1 # 1
    BY <1>1, <1>2
  <2>2. 1 \in 1 .. n
    BY <1>2
  <2>3. OnceIn(t, D)
    <3> SUFFICES ASSUME NEW i \in 1 .. Len(t), NEW j \in 1 .. Len(t), t[i] = t[j], t[i] \in D
                 PROVE  i = j
      BY DEF OnceIn
    <3>1. i + 1 = j + 1
      BY <1>4, <2>1 DEF OnceIn
    <3> QED
      BY <3>1
  <2>4. h \in D => h \notin RangeOf(t)
    BY <1>1, <1>2, <1>4, <2>1, <2>2, ElementsAre DEF OnceIn
  <2> QED
    BY <2>3, <2>4
<1> QED
  BY <1>1, <1>3, <1>4 DEF t, h

-----------------------------------------------------------------------------
(* Analytics: rows *)

AnyRow == [session : Session, type : {"start", "listen"}, n : Nat, day : Nat]

\* Commands for Redis: those that count a row, and those about sessions' timeouts
Incrs == {Incr(r) : r \in AnyRow}
Timers == {Zadd(s) : s \in Session} \cup {Zrem(s) : s \in Session} \cup {Del(s) : s \in Session}
            \cup {FindDue}
Command == Incrs \cup Timers

Waiting == {r \in AnyRow : Incr(r) \in RangeOf(cmds)}
InBatches == UNION {RangeOf(batches[b]) : b \in 1 .. Len(batches)}
Held == RangeOf(queue) \cup InBatches

\* The queue and the batches have no row twice.
Flow ==
    /\ queue \in Seq(AnyRow) /\ OnceIn(queue, AnyRow)
    /\ batches \in Seq(Seq(AnyRow))
    /\ \A b \in 1 .. Len(batches) : OnceIn(batches[b], AnyRow)
    /\ \A b, c \in 1 .. Len(batches) :
         b # c => RangeOf(batches[b]) \cap RangeOf(batches[c]) = {}
    /\ RangeOf(queue) \cap InBatches = {}
    /\ queue # <<>> => latency

Commands == cmds \in Seq(Command) /\ OnceIn(cmds, Incrs)

\* The numbers of rows are used up.
Numbered ==
    /\ IsFiniteSet(logged) /\ logged \subseteq AnyRow
    /\ \A r \in logged : r.n <= Cardinality(logged)

\* Every row is at Redis, held, indexed or dropped, and in one of these only.
Shared ==
    /\ logged = UNION {Waiting, Held, index, dropped}
    /\ Waiting \cap Held = {} /\ Waiting \cap index = {} /\ Waiting \cap dropped = {}
    /\ Held \cap index = {} /\ Held \cap dropped = {} /\ index \cap dropped = {}

Swept == due \subseteq Session /\ IsFiniteSet(due)

RowsInv == Flow /\ Commands /\ Numbered /\ Shared /\ Swept

LEMMA CommandsDiffer ==
    /\ \A r, s : Incr(r) = Incr(s) => r = s
    /\ \A r, s : /\ Incr(r) # Zadd(s) /\ Incr(r) # Zrem(s) /\ Incr(r) # Del(s)
                 /\ Incr(r) # FindDue
    /\ \A c \in Command : c.op = "incrby" => c \in Incrs /\ c = Incr(c.of) /\ c.of \in AnyRow
    /\ \A c \in Command : c.op # "incrby" => c \in Timers /\ c \notin Incrs
    /\ \A c \in Timers : c \notin Incrs
    /\ \A c \in Command : /\ c.op = "zadd" => c = Zadd(c.of) /\ c.of \in Session
                          /\ c.op = "zrem" => c = Zrem(c.of) /\ c.of \in Session
                          /\ c.op = "del" => c = Del(c.of) /\ c.of \in Session
                          /\ c.op = "zrangebyscore" => c = FindDue
<1>1. \A r : Incr(r).op = "incrby" /\ Incr(r).of = r
  BY DEF Incr
<1>2. \A s : /\ Zadd(s).op = "zadd" /\ Zadd(s).of = s
            /\ Zrem(s).op = "zrem" /\ Zrem(s).of = s
            /\ Del(s).op = "del" /\ Del(s).of = s
  BY DEF Zadd, Zrem, Del
<1>3. FindDue.op = "zrangebyscore"
  BY DEF FindDue
<1>4. \A c \in Incrs : c.op = "incrby" /\ c = Incr(c.of) /\ c.of \in AnyRow
  BY <1>1 DEF Incrs
<1>5. \A c \in Timers : c.op # "incrby"
  BY <1>2, <1>3 DEF Timers
<1>6. \A r, s : Incr(r) = Incr(s) => r = s
  BY <1>1
<1>7. \A r, s : /\ Incr(r) # Zadd(s) /\ Incr(r) # Zrem(s) /\ Incr(r) # Del(s)
                /\ Incr(r) # FindDue
  BY <1>1, <1>2, <1>3
<1>8. \A c \in Timers : /\ c.op = "zadd" => c = Zadd(c.of) /\ c.of \in Session
                        /\ c.op = "zrem" => c = Zrem(c.of) /\ c.of \in Session
                        /\ c.op = "del" => c = Del(c.of) /\ c.of \in Session
                        /\ c.op = "zrangebyscore" => c = FindDue
  BY <1>2, <1>3 DEF Timers
<1>9. \A c \in Command : /\ c.op = "zadd" => c = Zadd(c.of) /\ c.of \in Session
                         /\ c.op = "zrem" => c = Zrem(c.of) /\ c.of \in Session
                         /\ c.op = "del" => c = Del(c.of) /\ c.of \in Session
                         /\ c.op = "zrangebyscore" => c = FindDue
  BY <1>4, <1>8 DEF Command
<1> QED
  BY <1>4, <1>5, <1>6, <1>7, <1>9 DEF Command

\* What a full queue, or the timer, puts among the batches
LEMMA WriteQueueFlows ==
    ASSUME NEW q \in Seq(AnyRow), OnceIn(q, AnyRow), Flow, RangeOf(q) \cap InBatches = {},
           WriteQueue(q)
    PROVE  Flow' /\ Held' = RangeOf(q) \cup InBatches
<1>1. queue' = <<>> /\ RangeOf(queue') = {} /\ queue' \in Seq(AnyRow) /\ OnceIn(queue', AnyRow)
  BY NoElements, EmptySeq DEF WriteQueue
<1>2. CASE q = <<>>
  <2>1. batches' = batches /\ RangeOf(q) = {} /\ InBatches' = InBatches
    BY <1>2, NoElements DEF WriteQueue, InBatches
  <2> QED
    BY <1>1, <2>1 DEF Flow, Held
<1>3. CASE q # <<>>
  <2> DEFINE n == Len(batches)
  <2>1. n \in Nat /\ \A b \in 1 .. n : batches[b] \in Seq(AnyRow)
    BY LenProperties, ElementOfSeq DEF Flow
  <2>2. /\ batches' = Append(batches, q) /\ batches' \in Seq(Seq(AnyRow))
        /\ Len(batches') = n + 1
        /\ \A b \in 1 .. n : batches'[b] = batches[b]
        /\ batches'[n + 1] = q
    BY <1>3, AppendProperties DEF WriteQueue, Flow
  <2>3. \A b \in 1 .. n + 1 : b \in 1 .. n \/ b = n + 1
    BY <2>1
  <2>4. \A b \in 1 .. n : b \in 1 .. n + 1
    BY <2>1
  <2>5. n + 1 \in 1 .. n + 1
    BY <2>1
  <2> HIDE DEF n
  <2>6. InBatches' = RangeOf(q) \cup InBatches
    <3>1. InBatches' = UNION {RangeOf(batches'[b]) : b \in 1 .. n + 1}
      BY <2>2 DEF InBatches
    <3>2. InBatches = UNION {RangeOf(batches[b]) : b \in 1 .. n}
      BY DEF InBatches, n
    <3>3. \A x : x \in InBatches' <=> \E b \in 1 .. n + 1 : x \in RangeOf(batches'[b])
      BY <3>1
    <3>4. \A x : x \in InBatches <=> \E b \in 1 .. n : x \in RangeOf(batches[b])
      BY <3>2
    <3> HIDE DEF InBatches
    <3>5. ASSUME NEW x PROVE x \in InBatches' <=> x \in RangeOf(q) \/ x \in InBatches
      BY <2>2, <2>3, <2>4, <2>5, <3>3, <3>4
    <3> QED
      BY <3>5
  <2>7. \A b \in 1 .. n : RangeOf(batches[b]) \cap RangeOf(q) = {}
    BY DEF InBatches, n
  <2>8. ASSUME NEW b \in 1 .. n + 1, NEW c \in 1 .. n + 1, b # c
        PROVE  RangeOf(batches'[b]) \cap RangeOf(batches'[c]) = {}
    <3>1. CASE b \in 1 .. n /\ c \in 1 .. n
      <4>1. RangeOf(batches[b]) \cap RangeOf(batches[c]) = {}
        BY <2>8, <3>1 DEF Flow, n
      <4> QED
        BY <2>2, <3>1, <4>1
    <3>2. CASE b \in 1 .. n /\ c = n + 1
      <4>1. RangeOf(batches[b]) \cap RangeOf(q) = {}
        BY <2>7, <3>2
      <4> QED
        BY <2>2, <3>2, <4>1
    <3>3. CASE b = n + 1 /\ c \in 1 .. n
      <4>1. RangeOf(batches[c]) \cap RangeOf(q) = {}
        BY <2>7, <3>3
      <4> QED
        BY <2>2, <3>3, <4>1
    <3> QED
      BY <2>3, <2>8, <3>1, <3>2, <3>3
  <2>9. \A b \in 1 .. n + 1 : OnceIn(batches'[b], AnyRow)
    BY <2>2, <2>3 DEF Flow, n
  <2> QED
    BY <1>1, <2>2, <2>6, <2>8, <2>9 DEF Flow, Held
<1> QED
  BY <1>2, <1>3

LEMMA TransformFlows ==
    ASSUME Flow, NEW row \in AnyRow, row \notin Held, Transform(row)
    PROVE  Flow' /\ Held' = Held \cup {row}
<1> DEFINE q == Append(queue, row)
<1>1. /\ q \in Seq(AnyRow) /\ OnceIn(q, AnyRow)
      /\ RangeOf(q) = RangeOf(queue) \cup {row} /\ RangeOf(q) \cap InBatches = {}
  BY AddedTo DEF Flow, Held
<1> HIDE DEF q
<1>2. CASE WriteQueue(q)
  BY <1>1, <1>2, WriteQueueFlows DEF Held
<1>3. CASE queue' = q /\ latency' = TRUE /\ UNCHANGED batches
  <2>1. InBatches' = InBatches
    BY <1>3 DEF InBatches
  <2> QED
    BY <1>1, <1>3, <2>1 DEF Flow, Held
<1> QED
  BY <1>2, <1>3 DEF Transform, q

\* The first batch is written, or fails.
LEMMA BatchLeaves ==
    ASSUME Flow, batches # <<>>, batches' = Tail(batches), UNCHANGED <<queue, latency>>
    PROVE  /\ Flow'
           /\ Held = Held' \cup RangeOf(Head(batches))
           /\ Held' \cap RangeOf(Head(batches)) = {}
<1> DEFINE n == Len(batches)
           h == Head(batches)
<1>1. /\ n \in Nat \ {0} /\ h = batches[1] /\ Len(batches') = n - 1
      /\ batches' \in Seq(Seq(AnyRow))
      /\ \A b \in 1 .. n - 1 : batches'[b] = batches[b + 1]
  BY EmptySeq, LenProperties, HeadTailProperties DEF Flow
<1>2. \A b \in 1 .. n - 1 : b + 1 \in 1 .. n /\ b + 1 # 1
  BY <1>1
<1>3. 1 \in 1 .. n /\ \A b \in 1 .. n : b = 1 \/ (b - 1 \in 1 .. n - 1 /\ b - 1 + 1 = b)
  BY <1>1
<1>4. \A b, c \in 1 .. n - 1 : b # c => b + 1 # c + 1
  BY <1>1
<1> HIDE DEF n, h
<1>5. \A x : x \in InBatches <=> \E b \in 1 .. n : x \in RangeOf(batches[b])
  BY DEF InBatches, n
<1>6. \A x : x \in InBatches' <=> \E b \in 1 .. n - 1 : x \in RangeOf(batches'[b])
  BY <1>1 DEF InBatches
<1>7. ASSUME NEW x PROVE x \in InBatches <=> x \in InBatches' \/ x \in RangeOf(h)
  <2>1. x \in InBatches => x \in InBatches' \/ x \in RangeOf(h)
    <3> SUFFICES ASSUME NEW b \in 1 .. n, x \in RangeOf(batches[b]), b # 1
                 PROVE  x \in InBatches'
      BY <1>1, <1>5
    <3>1. b - 1 \in 1 .. n - 1 /\ batches'[b - 1] = batches[b]
      BY <1>1, <1>3
    <3> QED
      BY <1>6, <3>1
  <2>2. x \in InBatches' => x \in InBatches
    BY <1>1, <1>2, <1>5, <1>6
  <2>3. x \in RangeOf(h) => x \in InBatches
    BY <1>1, <1>3, <1>5
  <2> QED
    BY <2>1, <2>2, <2>3
<1>8. ASSUME NEW x, x \in InBatches' PROVE x \notin RangeOf(h)
  <2>1. PICK b \in 1 .. n - 1 : x \in RangeOf(batches[b + 1])
    BY <1>1, <1>6, <1>8
  <2>2. RangeOf(batches[b + 1]) \cap RangeOf(batches[1]) = {}
    BY <1>2, <1>3 DEF Flow, n
  <2> QED
    BY <1>1, <2>1, <2>2
<1>9. \A b \in 1 .. n - 1 : OnceIn(batches'[b], AnyRow)
  BY <1>1, <1>2 DEF Flow, n
<1>10. ASSUME NEW b \in 1 .. n - 1, NEW c \in 1 .. n - 1, b # c
       PROVE  RangeOf(batches'[b]) \cap RangeOf(batches'[c]) = {}
  <2>1. b + 1 \in 1 .. n /\ c + 1 \in 1 .. n /\ b + 1 # c + 1
    BY <1>2, <1>4, <1>10
  <2>2. RangeOf(batches[b + 1]) \cap RangeOf(batches[c + 1]) = {}
    BY <2>1 DEF Flow, n
  <2> QED
    BY <1>1, <2>2
<1>11. Flow'
  BY <1>1, <1>7, <1>9, <1>10 DEF Flow
<1>12. Held = Held' \cup RangeOf(h)
  BY <1>7 DEF Held
<1>13. Held' \cap RangeOf(h) = {}
  BY <1>7, <1>8 DEF Held, Flow
<1> QED
  BY <1>11, <1>12, <1>13 DEF h

\* What is sent besides rows adds no row.
LEMMA Sending ==
    ASSUME NEW p \in Seq(Command), OnceIn(p, Incrs), NEW q \in Seq(Timers), cmds' = p \o q
    PROVE  /\ Commands'
           /\ RangeOf(cmds') = RangeOf(p) \cup RangeOf(q)
           /\ \A r : Incr(r) \in RangeOf(cmds') <=> Incr(r) \in RangeOf(p)
<1>1. q \in Seq(Command)
  BY SeqMonotonic DEF Command
<1>2. RangeOf(q) \subseteq Timers /\ RangeOf(q) \cap Incrs = {} /\ OnceIn(q, Incrs)
  <2>1. RangeOf(q) \subseteq Timers
    BY ElementsAre
  <2>2. \A i \in 1 .. Len(q) : q[i] \in Timers
    BY ElementOfSeq
  <2> QED
    BY <2>1, <2>2, CommandsDiffer DEF OnceIn
<1>3. p \o q \in Seq(Command) /\ RangeOf(p \o q) = RangeOf(p) \cup RangeOf(q)
  BY <1>1, Joined
<1>4. OnceIn(p \o q, Incrs)
  <2>1. RangeOf(p) \cap RangeOf(q) \cap Incrs = {}
    BY <1>2
  <2> HIDE DEF OnceIn
  <2> QED
    BY <1>1, <1>2, <2>1, Joined
<1>5. \A r : Incr(r) \notin Timers
  <2>1. \A c \in Timers : \A r : c # Incr(r)
    BY CommandsDiffer DEF Timers
  <2> QED
    BY <2>1
<1> QED
  BY <1>2, <1>3, <1>4, <1>5 DEF Commands

\* What Redis has answered is no longer under way.
LEMMA Taking ==
    ASSUME Commands, cmds # <<>>
    PROVE  /\ Tail(cmds) \in Seq(Command) /\ OnceIn(Tail(cmds), Incrs) /\ Head(cmds) \in Command
           /\ RangeOf(cmds) = RangeOf(Tail(cmds)) \cup {Head(cmds)}
           /\ Head(cmds) \in Incrs => Head(cmds) \notin RangeOf(Tail(cmds))
  BY TakenFrom DEF Commands

LEMMA FoundAre ==
    ASSUME Swept, NEW found \in SetToSeqs(due)
    PROVE  [i \in 1 .. Len(found) |-> Zrem(found[i])] \in Seq(Timers)
<1> DEFINE n == Cardinality(due)
<1>1. n \in Nat
  BY FS_CardinalityType DEF Swept
<1>4. found \in [1 .. n -> due]
  BY DEF SetToSeqs
<1>5. found \in Seq(due)
  BY <1>1, <1>4, SeqDef
<1>6. \A i \in 1 .. Len(found) : found[i] \in Session
  BY <1>5, ElementOfSeq DEF Swept
<1>7. \A i \in 1 .. Len(found) : Zrem(found[i]) \in Timers
  BY <1>6 DEF Timers
<1>8. Len(found) \in Nat
  BY <1>5, LenProperties
<1>9. [i \in 1 .. Len(found) |-> Zrem(found[i])] \in [1 .. Len(found) -> Timers]
  BY <1>7
<1>10. [i \in 1 .. Len(found) |-> Zrem(found[i])] \in Seq(Timers)
  BY <1>8, <1>9, SeqDef
<1> QED
  BY <1>10

LEMMA OneMore ==
    ASSUME NEW c \in Timers
    PROVE  <<c>> \in Seq(Timers) /\ RangeOf(<<c>>) = {c}
<1>1. <<c>> \in Seq(Timers)
  OBVIOUS
<1> QED
  BY <1>1, Single

LEMMA RowsInit == Init => RowsInv
<1> SUFFICES ASSUME Init PROVE RowsInv
  OBVIOUS
<1>1. RangeOf(<<>>) = {} /\ (\A D : OnceIn(<<>>, D)) /\ Len(<<>>) = 0
  BY NoElements
<1>2. InBatches = {} /\ Waiting = {} /\ Held = {}
  BY <1>1 DEF Init, InBatches, Waiting, Held
<1>3. Flow
  BY <1>1, <1>2 DEF Init, Flow
<1>4. Commands
  BY <1>1 DEF Init, Commands
<1>5. Numbered /\ Swept
  BY FS_EmptySet DEF Init, Numbered, Swept
<1>6. Shared
  BY <1>2 DEF Init, Shared
<1> QED
  BY <1>3, <1>4, <1>5, <1>6 DEF RowsInv

\* A step that leaves rows alone may send other commands.
LEMMA RowsStay ==
    ASSUME RowsInv, UNCHANGED rowVars, Commands', Waiting' = Waiting, Swept'
    PROVE  RowsInv'
<1>1. InBatches' = InBatches
  BY DEF rowVars, InBatches
<1>2. Held' = Held
  BY <1>1 DEF rowVars, Held
<1>3. Flow'
  BY <1>1 DEF RowsInv, rowVars, Flow
<1>4. Numbered' /\ Shared'
  BY <1>2 DEF RowsInv, rowVars, Numbered, Shared
<1> QED
  BY <1>3, <1>4 DEF RowsInv

\* Days are counted.
Dated == day \in Nat

LEMMA DayInit == Init => Dated
BY DEF Init, Dated

LEMMA DayStep == Dated /\ [Next]_vars => Dated' /\ day <= day'
<1> SUFFICES ASSUME day \in Nat, [Next]_vars PROVE day' \in Nat /\ day <= day'
  BY DEF Dated
<1>1. CASE Midnight
  BY <1>1 DEF Midnight
<1>2. CASE Crash
  <2>1. day' \in day .. MaxDay
    BY <1>2 DEF Crash
  <2> QED
    BY <2>1
<1>3. CASE UNCHANGED vars
  BY <1>3 DEF vars
<1>4. CASE LatencyTimer \/ Bulk \/ BulkFails
  BY <1>4 DEF LatencyTimer, Bulk, BulkFails, RowsUntouched
<1>5. CASE Sweep \/ OnIncr \/ OnZadd \/ OnRange \/ OnZrem \/ ScrubDone
  BY <1>5 DEF Sweep, OnIncr, OnZadd, OnRange, OnZrem, ScrubDone, Answered
<1>6. CASE \E s \in Session : TimerFires(s) \/ Elapses(s)
  BY <1>6 DEF TimerFires, Elapses
<1>7. CASE \E f \in fin : \/ PreviousSession(f) \/ SessionStart(f) \/ ListenTotals(f) \/ Store(f)
                          \/ RequestFails(f)
  BY <1>7 DEF PreviousSession, SessionStart, ListenTotals, Store, FinOthers, RequestFails
<1>8. CASE \E s \in Session, type \in {"start", "listen"} : Log(s, type)
  BY <1>8 DEF Log
<1> QED
  BY <1>1, <1>2, <1>3, <1>4, <1>5, <1>6, <1>7, <1>8 DEF Next, Progress, Finalizing

LEMMA RowsLogged ==
    ASSUME Dated, RowsInv, NEW s \in Session, NEW type \in {"start", "listen"}, Log(s, type)
    PROVE  /\ RowsInv' /\ RangeOf(cmds) \subseteq RangeOf(cmds')
           /\ redis => Zadd(s) \in RangeOf(cmds')
<1> DEFINE row == [session |-> s, type |-> type, n |-> Cardinality(logged) + 1, day |-> day]
           waits == redis /\ type = "listen"
           sent == IF waits THEN Append(cmds, Incr(row)) ELSE cmds
<1>1. row \in AnyRow /\ row \notin logged
  <2>1. Cardinality(logged) \in Nat
    BY FS_CardinalityType DEF RowsInv, Numbered
  <2>2. row \in AnyRow
    BY <2>1 DEF AnyRow, Dated
  <2>3. row.n = Cardinality(logged) + 1
    OBVIOUS
  <2>4. row \notin logged
    BY <2>1, <2>3 DEF RowsInv, Numbered
  <2> QED
    BY <2>2, <2>4
<1>2. logged' = logged \cup {row} /\ UNCHANGED <<index, dropped>>
  BY DEF Log
<1>3. Numbered'
  <2>1. Cardinality(logged) \in Nat /\ \A r \in logged : r.n \in Nat
    BY FS_CardinalityType DEF RowsInv, Numbered, AnyRow
  <2>2. IsFiniteSet(logged') /\ Cardinality(logged') = Cardinality(logged) + 1
    BY <1>1, <1>2, FS_AddElement DEF RowsInv, Numbered
  <2>3. row.n = Cardinality(logged) + 1
    OBVIOUS
  <2> HIDE DEF row
  <2>4. \A r \in logged' : r.n <= Cardinality(logged')
    BY <1>2, <2>1, <2>2, <2>3 DEF RowsInv, Numbered
  <2> QED
    BY <1>1, <1>2, <2>2, <2>4 DEF RowsInv, Numbered
<1>4. Swept'
  BY DEF Log, UpdateSessionTimerFor, RowsInv, Swept
<1>5. UpdateSessionTimerFor(s, sent) /\ IF waits THEN UNCHANGED <<queue, latency, batches>>
                                                 ELSE Transform(row)
  BY DEF Log
<1>6. row \notin Waiting /\ row \notin Held
  BY <1>1 DEF RowsInv, Shared
<1> HIDE DEF row
<1>7. /\ Zadd(s) \in Timers /\ <<Zadd(s)>> \in Seq(Timers)
      /\ cmds \in Seq(Command) /\ OnceIn(cmds, Incrs) /\ RangeOf(<<Zadd(s)>>) = {Zadd(s)}
  BY OneMore DEF Timers, RowsInv, Commands
<1>8. CASE waits
  <2>1. /\ Append(cmds, Incr(row)) \in Seq(Command) /\ OnceIn(Append(cmds, Incr(row)), Incrs)
        /\ RangeOf(Append(cmds, Incr(row))) = RangeOf(cmds) \cup {Incr(row)}
    <3>1. Incr(row) \in Command
      BY <1>1 DEF Command, Incrs
    <3>2. Incr(row) \notin RangeOf(cmds)
      BY <1>1, <1>6 DEF Waiting
    <3> QED
      BY <1>7, <3>1, <3>2, AddedTo
  <2>2. cmds' = Append(cmds, Incr(row)) \o <<Zadd(s)>>
    BY <1>5, <1>8 DEF UpdateSessionTimerFor
  <2>3. /\ Commands' /\ \A r : Incr(r) \in RangeOf(cmds') <=> Incr(r) \in RangeOf(cmds) \cup {Incr(row)}
        /\ RangeOf(cmds) \subseteq RangeOf(cmds') /\ Zadd(s) \in RangeOf(cmds')
    <3> DEFINE p == Append(cmds, Incr(row))
    <3> HIDE DEF p
    <3>1. /\ p \in Seq(Command) /\ OnceIn(p, Incrs) /\ RangeOf(p) = RangeOf(cmds) \cup {Incr(row)}
          /\ cmds' = p \o <<Zadd(s)>>
      BY <2>1, <2>2 DEF p
    <3>2. /\ Commands' /\ RangeOf(cmds') = RangeOf(p) \cup RangeOf(<<Zadd(s)>>)
          /\ \A r : Incr(r) \in RangeOf(cmds') <=> Incr(r) \in RangeOf(p)
      BY <1>7, <3>1, Sending
    <3> QED
      BY <1>7, <3>1, <3>2
  <2>4. Waiting' = Waiting \cup {row}
    <3>1. \A r : Incr(r) = Incr(row) => r = row
      BY CommandsDiffer
    <3> QED
      BY <1>1, <2>3, <3>1 DEF Waiting
  <2>5. UNCHANGED <<queue, latency, batches>>
    BY <1>5, <1>8
  <2>6. InBatches' = InBatches
    BY <2>5 DEF InBatches
  <2>7. Flow' /\ Held' = Held
    BY <2>5, <2>6 DEF RowsInv, Flow, Held
  <2>8. Shared'
    BY <1>1, <1>2, <1>6, <2>4, <2>7 DEF RowsInv, Shared
  <2> QED
    BY <1>3, <1>4, <2>3, <2>7, <2>8 DEF RowsInv
<1>9. CASE ~waits
  <2>1. /\ Commands' /\ Waiting' = Waiting /\ RangeOf(cmds) \subseteq RangeOf(cmds')
        /\ redis => Zadd(s) \in RangeOf(cmds')
    <3>1. CASE redis
      <4>1. cmds' = cmds \o <<Zadd(s)>>
        BY <1>5, <1>9, <3>1 DEF UpdateSessionTimerFor
      <4>2. /\ Commands' /\ \A r : Incr(r) \in RangeOf(cmds') <=> Incr(r) \in RangeOf(cmds)
            /\ RangeOf(cmds) \subseteq RangeOf(cmds') /\ Zadd(s) \in RangeOf(cmds')
        BY <1>7, <4>1, Sending
      <4> QED
        BY <4>2 DEF Waiting
    <3>2. CASE ~redis
      BY <1>5, <3>2 DEF UpdateSessionTimerFor, RowsInv, Commands, Waiting
    <3> QED
      BY <3>1, <3>2
  <2>2. Transform(row)
    BY <1>5, <1>9
  <2>3. Flow' /\ Held' = Held \cup {row}
    BY <1>1, <1>6, <2>2, TransformFlows DEF RowsInv
  <2>4. Shared'
    BY <1>1, <1>2, <1>6, <2>1, <2>3 DEF RowsInv, Shared
  <2> QED
    BY <1>3, <1>4, <2>1, <2>3, <2>4 DEF RowsInv
<1> QED
  BY <1>8, <1>9

\* The queue's timer, and what becomes of a batch
LEMMA RowsWritten ==
    ASSUME RowsInv, LatencyTimer \/ Bulk \/ BulkFails
    PROVE  RowsInv'
<1>1. Commands' /\ Waiting' = Waiting /\ Swept' /\ Numbered'
  <2>1. UNCHANGED <<cmds, due, logged>>
    BY DEF LatencyTimer, Bulk, BulkFails, RowsUntouched, timeVars
  <2> QED
    BY <2>1 DEF RowsInv, Commands, Waiting, Swept, Numbered
<1>2. CASE LatencyTimer
  <2>1. Flow' /\ Held' = Held
    BY <1>2, WriteQueueFlows DEF LatencyTimer, RowsInv, Flow, Held
  <2> QED
    BY <1>1, <1>2, <2>1 DEF LatencyTimer, RowsInv, Shared
<1>3. CASE Bulk \/ BulkFails
  <2> DEFINE h == RangeOf(Head(batches))
  <2>1. /\ Flow' /\ Held = Held' \cup h /\ Held' \cap h = {}
    BY <1>3, BatchLeaves DEF Bulk, BulkFails, RowsUntouched, RowsInv
  <2>2. ToSet(Head(batches)) = h
    BY DEF ToSet, RangeOf
  <2> HIDE DEF h
  <2>3. \/ index' = index \cup h /\ dropped' = dropped /\ logged' = logged
        \/ index' = index /\ dropped' = dropped \cup h /\ logged' = logged
    BY <1>3, <2>2 DEF Bulk, BulkFails, RowsUntouched
  <2>4. Shared'
    BY <1>1, <2>1, <2>3 DEF RowsInv, Shared
  <2> QED
    BY <1>1, <2>1, <2>4 DEF RowsInv
<1> QED
  BY <1>2, <1>3

LEMMA RowsStashed ==
    ASSUME RowsInv, OnIncr
    PROVE  RowsInv'
<1> DEFINE c == Head(cmds)
           row == c.of
<1>1. /\ cmds # <<>> /\ c.op = "incrby" /\ cmds' = Tail(cmds) /\ Transform(row)
      /\ UNCHANGED <<logged, index, dropped, due>>
  BY DEF OnIncr, Answered, OnlyRows
<1>2. /\ Tail(cmds) \in Seq(Command) /\ OnceIn(Tail(cmds), Incrs) /\ c \in Command
      /\ RangeOf(cmds) = RangeOf(Tail(cmds)) \cup {c}
      /\ c \in Incrs => c \notin RangeOf(Tail(cmds))
  BY <1>1, Taking DEF RowsInv
<1>3. c = Incr(row) /\ c \in Incrs /\ row \in AnyRow
  BY <1>1, <1>2, CommandsDiffer
<1> HIDE DEF c, row
<1>4. Commands'
  BY <1>1, <1>2 DEF Commands
<1>5. Waiting = Waiting' \cup {row} /\ row \notin Waiting'
  <2>1. \A r : Incr(r) = Incr(row) => r = row
    BY CommandsDiffer
  <2> QED
    BY <1>1, <1>2, <1>3, <2>1 DEF Waiting
<1>6. row \notin Held /\ row \notin index /\ row \notin dropped
  BY <1>5 DEF RowsInv, Shared
<1>7. Flow' /\ Held' = Held \cup {row}
  BY <1>1, <1>3, <1>6, TransformFlows DEF RowsInv
<1>8. Shared'
  BY <1>1, <1>5, <1>6, <1>7 DEF RowsInv, Shared
<1>9. Numbered' /\ Swept'
  BY <1>1 DEF RowsInv, Numbered, Swept
<1> QED
  BY <1>4, <1>7, <1>8, <1>9 DEF RowsInv

\* Redis has answered a command that is no row, and more are sent.
LEMMA Answering ==
    ASSUME RowsInv, cmds # <<>>, Head(cmds) \notin Incrs, NEW q \in Seq(Timers),
           cmds' = Tail(cmds) \o q
    PROVE  /\ Commands' /\ Waiting' = Waiting
           /\ RangeOf(cmds) \subseteq RangeOf(cmds') \cup {Head(cmds)}
           /\ RangeOf(q) \subseteq RangeOf(cmds')
<1>1. /\ Tail(cmds) \in Seq(Command) /\ OnceIn(Tail(cmds), Incrs)
      /\ RangeOf(cmds) = RangeOf(Tail(cmds)) \cup {Head(cmds)}
  BY Taking DEF RowsInv
<1>2. /\ Commands' /\ RangeOf(cmds') = RangeOf(Tail(cmds)) \cup RangeOf(q)
      /\ \A r : Incr(r) \in RangeOf(cmds') <=> Incr(r) \in RangeOf(Tail(cmds))
  BY <1>1, Sending
<1>3. \A r \in AnyRow : Incr(r) # Head(cmds)
  BY DEF Incrs
<1>4. Waiting' = Waiting
  BY <1>1, <1>2, <1>3 DEF Waiting
<1> QED
  BY <1>1, <1>2, <1>4

LEMMA SweepSent ==
    ASSUME RowsInv, Sweep
    PROVE  RowsInv' /\ RangeOf(cmds) \subseteq RangeOf(cmds')
<1>1. /\ FindDue \in Timers /\ cmds' = Append(cmds, FindDue)
      /\ UNCHANGED rowVars /\ UNCHANGED due
  BY DEF Timers, Sweep
<1>2. FindDue \in Command /\ cmds' = cmds \o <<FindDue>> /\ <<FindDue>> \in Seq(Timers)
  BY <1>1, AppendIsConcat, OneMore DEF RowsInv, Commands, Command
<1>3. /\ Commands' /\ RangeOf(cmds') = RangeOf(cmds) \cup RangeOf(<<FindDue>>)
      /\ \A r : Incr(r) \in RangeOf(cmds') <=> Incr(r) \in RangeOf(cmds)
  BY <1>2, Sending DEF RowsInv, Commands
<1>4. Waiting' = Waiting /\ Swept'
  BY <1>1, <1>3 DEF RowsInv, Waiting, Swept
<1> QED
  BY <1>1, <1>3, <1>4, RowsStay

\* "zadd" and "del" are answered and nothing more is sent.
LEMMA ZaddAnswered ==
    ASSUME RowsInv, OnZadd \/ ScrubDone
    PROVE  /\ RowsInv' /\ Head(cmds).of \in Session
           /\ OnZadd => Head(cmds) = Zadd(Head(cmds).of)
           /\ ScrubDone => Head(cmds) = Del(Head(cmds).of)
           /\ RangeOf(cmds) \subseteq RangeOf(cmds') \cup {Head(cmds)}
<1> DEFINE c == Head(cmds)
<1>1. /\ cmds # <<>> /\ cmds' = Tail(cmds) /\ UNCHANGED rowVars
      /\ OnZadd => c.op = "zadd"
      /\ ScrubDone => c.op = "del"
  BY DEF OnZadd, ScrubDone, Answered, NoRows, rowVars
<1>2. Tail(cmds) \in Seq(Command) /\ c \in Command
  BY <1>1, Taking DEF RowsInv
<1>3. c.op = "zadd" \/ c.op = "del"
  BY <1>1
<1>4. /\ c.of \in Session /\ c \notin Incrs
      /\ OnZadd => c = Zadd(c.of)
      /\ ScrubDone => c = Del(c.of)
  BY <1>1, <1>2, <1>3, CommandsDiffer
<1>5. cmds' = Tail(cmds) \o <<>> /\ <<>> \in Seq(Timers)
  BY <1>1, <1>2, ConcatEmptySeq, EmptySeq
<1>6. Commands' /\ Waiting' = Waiting /\ RangeOf(cmds) \subseteq RangeOf(cmds') \cup {c}
  BY <1>1, <1>4, <1>5, Answering
<1>7. Swept'
  <2>1. due' \subseteq due
    BY DEF OnZadd, ScrubDone
  <2> QED
    BY <2>1, FS_Subset DEF RowsInv, Swept
<1> QED
  BY <1>1, <1>4, <1>6, <1>7, RowsStay

LEMMA ZremAnswered ==
    ASSUME RowsInv, OnZrem
    PROVE  /\ RowsInv' /\ Head(cmds).of \in Session /\ Head(cmds) = Zrem(Head(cmds).of)
           /\ RangeOf(cmds) \subseteq RangeOf(cmds') \cup {Head(cmds)}
           /\ Del(Head(cmds).of) \in RangeOf(cmds')
<1> DEFINE c == Head(cmds)
<1>1. /\ cmds # <<>> /\ cmds' = Append(Tail(cmds), Del(c.of)) /\ UNCHANGED rowVars
      /\ c.op = "zrem" /\ due' = due \ {c.of}
  BY DEF OnZrem, Answered, NoRows, rowVars
<1>2. Tail(cmds) \in Seq(Command) /\ c \in Command
  BY <1>1, Taking DEF RowsInv
<1>3. c = Zrem(c.of) /\ c.of \in Session /\ c \notin Incrs
  BY <1>1, <1>2, CommandsDiffer
<1>4. Del(c.of) \in Timers /\ Del(c.of) \in Command
  BY <1>3 DEF Timers, Command
<1>5. /\ cmds' = Tail(cmds) \o <<Del(c.of)>> /\ <<Del(c.of)>> \in Seq(Timers)
      /\ RangeOf(<<Del(c.of)>>) = {Del(c.of)}
  BY <1>1, <1>2, <1>4, AppendIsConcat, OneMore
<1>6. /\ Commands' /\ Waiting' = Waiting /\ RangeOf(cmds) \subseteq RangeOf(cmds') \cup {c}
      /\ RangeOf(<<Del(c.of)>>) \subseteq RangeOf(cmds')
  BY <1>1, <1>3, <1>5, Answering
<1>7. Swept'
  <2>1. due' \subseteq due
    BY <1>1
  <2> QED
    BY <2>1, FS_Subset DEF RowsInv, Swept
<1> QED
  BY <1>1, <1>3, <1>5, <1>6, <1>7, RowsStay

LEMMA RangeAnswered ==
    ASSUME RowsInv, OnRange
    PROVE  /\ RowsInv' /\ Head(cmds) = FindDue
           /\ RangeOf(cmds) \subseteq RangeOf(cmds') \cup {Head(cmds)}
<1>0. PICK found \in SetToSeqs(due) :
        cmds' = Tail(cmds) \o [i \in 1 .. Len(found) |-> Zrem(found[i])]
  BY DEF OnRange
<1> DEFINE c == Head(cmds)
           q == [i \in 1 .. Len(found) |-> Zrem(found[i])]
<1>1. /\ cmds # <<>> /\ cmds' = Tail(cmds) \o q /\ UNCHANGED rowVars
      /\ c.op = "zrangebyscore" /\ due' = due
  BY <1>0 DEF OnRange, Answered, NoRows, OnlyRows, rowVars
<1>2. Tail(cmds) \in Seq(Command) /\ c \in Command
  BY <1>1, Taking DEF RowsInv
<1>3. c = FindDue /\ c \notin Incrs
  BY <1>1, <1>2, CommandsDiffer
<1>4. q \in Seq(Timers)
  BY FoundAre DEF RowsInv
<1> HIDE DEF q
<1>5. Commands' /\ Waiting' = Waiting /\ RangeOf(cmds) \subseteq RangeOf(cmds') \cup {c}
  BY <1>1, <1>3, <1>4, Answering
<1>6. Swept'
  BY <1>1 DEF RowsInv, Swept
<1> QED
  BY <1>1, <1>3, <1>5, <1>6, RowsStay

\* Whatever was not written yet is gone with the master.
LEMMA RowsCrash ==
    ASSUME RowsInv, Crash
    PROVE  RowsInv'
<1>1. /\ queue' = <<>> /\ latency' = FALSE /\ batches' = <<>> /\ cmds' = <<>>
      /\ UNCHANGED <<logged, index, due>>
      /\ dropped' = dropped \cup (logged \ (index \cup dropped))
  BY DEF Crash
<1>2. RangeOf(<<>>) = {} /\ (\A D : OnceIn(<<>>, D)) /\ Len(<<>>) = 0
  BY NoElements
<1>3. InBatches' = {} /\ Waiting' = {} /\ Held' = {}
  BY <1>1, <1>2 DEF InBatches, Waiting, Held
<1>4. Flow' /\ Commands'
  BY <1>1, <1>2, <1>3 DEF Flow, Commands
<1>5. Shared'
  BY <1>1, <1>3 DEF RowsInv, Shared
<1> QED
  BY <1>1, <1>4, <1>5 DEF RowsInv, Numbered, Swept

\* Timeouts run off, sessions are finalized.
LEMMA RowsAside ==
    ASSUME RowsInv,
           \/ \E s \in Session : TimerFires(s) \/ Elapses(s)
           \/ \E f \in fin : PreviousSession(f) \/ SessionStart(f) \/ ListenTotals(f) \/ Store(f)
                               \/ RequestFails(f)
           \/ Midnight \/ UNCHANGED vars
    PROVE  RowsInv' /\ UNCHANGED <<rowVars, cmds>>
<1>1. UNCHANGED <<rowVars, cmds>>
  BY DEF TimerFires, Elapses, PreviousSession, SessionStart, ListenTotals, Store, RequestFails,
         Midnight, FinOthers, timeVars, vars
<1>2. Swept'
  <2>1. due' = due \/ \E s \in Session : due' = due \cup {s}
    BY DEF TimerFires, Elapses, PreviousSession, SessionStart, ListenTotals, Store, RequestFails,
           Midnight, FinOthers, timeVars, vars
  <2> QED
    BY <2>1, FS_AddElement DEF RowsInv, Swept
<1>3. Commands' /\ Waiting' = Waiting
  BY <1>1 DEF RowsInv, Commands, Waiting
<1> QED
  BY <1>1, <1>2, <1>3, RowsStay

LEMMA RowsStep == Dated /\ RowsInv /\ [Next]_vars => RowsInv'
<1> SUFFICES ASSUME Dated, RowsInv, [Next]_vars PROVE RowsInv'
  OBVIOUS
<1>1. CASE \E s \in Session, type \in {"start", "listen"} : Log(s, type)
  BY <1>1, RowsLogged
<1>2. CASE LatencyTimer \/ Bulk \/ BulkFails
  BY <1>2, RowsWritten
<1>3. CASE OnIncr
  BY <1>3, RowsStashed
<1>4. CASE Sweep
  BY <1>4, SweepSent
<1>5. CASE OnZadd \/ ScrubDone
  BY <1>5, ZaddAnswered
<1>6. CASE OnZrem
  BY <1>6, ZremAnswered
<1>7. CASE OnRange
  BY <1>7, RangeAnswered
<1>8. CASE Crash
  BY <1>8, RowsCrash
<1>9. CASE \/ \E s \in Session : TimerFires(s) \/ Elapses(s)
           \/ \E f \in fin : PreviousSession(f) \/ SessionStart(f) \/ ListenTotals(f) \/ Store(f)
                               \/ RequestFails(f)
           \/ Midnight \/ UNCHANGED vars
  BY <1>9, RowsAside
<1> QED
  BY <1>1, <1>2, <1>3, <1>4, <1>5, <1>6, <1>7, <1>8, <1>9 DEF Next, Progress, Finalizing

\* A row of RowsInv is in one place.
LEMMA OnePlace ==
    ASSUME RowsInv, NEW r \in logged
    PROVE  \E p \in Places(r) : Places(r) = {p}
<1> DEFINE W == {"redis"} \X Where(cmds, Incr(r))
           Q == {"queue"} \X Where(queue, r)
           I == UNION {{b} \X Where(batches[b], r) : b \in 1 .. Len(batches)}
           B == {"batch"} \X I
           X == {"index"} \X (index \cap {r})
           D == {"dropped"} \X (dropped \cap {r})
<1>1. Places(r) = W \cup Q \cup B \cup X \cup D
  BY DEF Places
<1>2. r \in AnyRow /\ Incr(r) \in Incrs
  BY DEF RowsInv, Numbered, Incrs
<1>3. /\ \A i, j \in Where(cmds, Incr(r)) : i = j
      /\ r \in Waiting <=> Where(cmds, Incr(r)) # {}
  <2>1. \A i, j \in Where(cmds, Incr(r)) : i = j
    BY <1>2 DEF Where, RowsInv, Commands, OnceIn
  <2>2. Incr(r) \in RangeOf(cmds) <=> \E i \in 1 .. Len(cmds) : cmds[i] = Incr(r)
    BY ElementsAre DEF RowsInv, Commands
  <2> QED
    BY <1>2, <2>1, <2>2 DEF Where, Waiting
<1>4. /\ \A i, j \in Where(queue, r) : i = j
      /\ r \in RangeOf(queue) <=> Where(queue, r) # {}
  <2>1. \A i, j \in Where(queue, r) : i = j
    BY <1>2 DEF Where, RowsInv, Flow, OnceIn
  <2>2. r \in RangeOf(queue) <=> \E i \in 1 .. Len(queue) : queue[i] = r
    BY ElementsAre DEF RowsInv, Flow
  <2> QED
    BY <2>1, <2>2 DEF Where
<1>5. /\ \A p, q \in I : p = q
      /\ r \in InBatches <=> I # {}
  <2>1. \A b \in 1 .. Len(batches) :
          /\ \A i, j \in Where(batches[b], r) : i = j
          /\ r \in RangeOf(batches[b]) <=> Where(batches[b], r) # {}
    <3> SUFFICES ASSUME NEW b \in 1 .. Len(batches)
                 PROVE  /\ \A i, j \in Where(batches[b], r) : i = j
                        /\ r \in RangeOf(batches[b]) <=> Where(batches[b], r) # {}
      OBVIOUS
    <3>1. batches[b] \in Seq(AnyRow) /\ OnceIn(batches[b], AnyRow)
      BY ElementOfSeq DEF RowsInv, Flow
    <3>2. \A i, j \in Where(batches[b], r) : i = j
      BY <1>2, <3>1 DEF Where, OnceIn
    <3>3. r \in RangeOf(batches[b]) <=> \E i \in 1 .. Len(batches[b]) : batches[b][i] = r
      BY <3>1, ElementsAre
    <3> QED
      BY <3>2, <3>3 DEF Where
  <2>2. \A b, c \in 1 .. Len(batches) :
          r \in RangeOf(batches[b]) /\ r \in RangeOf(batches[c]) => b = c
    BY DEF RowsInv, Flow
  <2>3. \A p \in I : \E b \in 1 .. Len(batches) : \E i \in Where(batches[b], r) : p = <<b, i>>
    OBVIOUS
  <2>4. \A b \in 1 .. Len(batches) : \A i \in Where(batches[b], r) : <<b, i>> \in I
    OBVIOUS
  <2> HIDE DEF I
  <2>5. ASSUME NEW p \in I, NEW q \in I PROVE p = q
    <3>1. PICK b \in 1 .. Len(batches) : \E i \in Where(batches[b], r) : p = <<b, i>>
      BY <2>3
    <3>2. PICK c \in 1 .. Len(batches) : \E i \in Where(batches[c], r) : q = <<c, i>>
      BY <2>3
    <3>3. b = c
      BY <2>1, <2>2, <3>1, <3>2
    <3> QED
      BY <2>1, <3>1, <3>2, <3>3
  <2>6. r \in InBatches <=> I # {}
    <3>1. r \in InBatches <=> \E b \in 1 .. Len(batches) : r \in RangeOf(batches[b])
      BY DEF InBatches
    <3> QED
      BY <2>1, <2>3, <2>4, <3>1
  <2> QED
    BY <2>5, <2>6
<1> HIDE DEF I
<1>6. /\ \A p, q \in W : p = q
      /\ \A p, q \in Q : p = q
      /\ \A p, q \in B : p = q
      /\ \A p, q \in X : p = q
      /\ \A p, q \in D : p = q
  BY <1>3, <1>4, <1>5
<1>7. /\ r \in Waiting <=> W # {}
      /\ r \in RangeOf(queue) <=> Q # {}
      /\ r \in InBatches <=> B # {}
      /\ r \in index <=> X # {}
      /\ r \in dropped <=> D # {}
  <2>1. ASSUME NEW a, NEW S PROVE {a} \X S # {} <=> S # {}
    <3>1. \A x \in S : <<a, x>> \in {a} \X S
      OBVIOUS
    <3>2. \A p \in {a} \X S : p[2] \in S
      OBVIOUS
    <3> QED
      BY <3>1, <3>2
  <2>2. (r \in index <=> index \cap {r} # {}) /\ (r \in dropped <=> dropped \cap {r} # {})
    OBVIOUS
  <2>3. /\ W # {} <=> Where(cmds, Incr(r)) # {}
        /\ Q # {} <=> Where(queue, r) # {}
        /\ B # {} <=> I # {}
        /\ X # {} <=> index \cap {r} # {}
        /\ D # {} <=> dropped \cap {r} # {}
    BY <2>1
  <2> HIDE DEF W, Q, B, X, D
  <2> QED
    BY <1>3, <1>4, <1>5, <2>2, <2>3
<1> HIDE DEF W, Q, B, X, D
<1>8. /\ r \in Waiting \/ r \in RangeOf(queue) \/ r \in InBatches \/ r \in index \/ r \in dropped
      /\ r \in RangeOf(queue) => r \notin InBatches
      /\ r \in Waiting => r \notin RangeOf(queue) /\ r \notin InBatches
      /\ r \in index => r \notin Waiting /\ r \notin RangeOf(queue) /\ r \notin InBatches
      /\ r \in dropped => /\ r \notin Waiting /\ r \notin RangeOf(queue) /\ r \notin InBatches
                          /\ r \notin index
  BY DEF RowsInv, Shared, Held, Flow
<1>9. \A p, q \in Places(r) : p = q
  BY <1>1, <1>6, <1>7, <1>8
<1>10. Places(r) # {}
  BY <1>1, <1>7, <1>8
<1> QED
  BY <1>9, <1>10

\* For any sessions, size of a batch and number of troubles: a row that was logged is
\* in one place, once (_log, BatchedQueue, IdxWriter).
THEOREM RowsAreKeptOnce == Spec => []RowsKeptOnce
<1>1. RowsInv => RowsKeptOnce
  <2> SUFFICES ASSUME RowsInv PROVE RowsKeptOnce
    OBVIOUS
  <2>1. \A r \in logged : \E p \in Places(r) : Places(r) = {p}
    BY OnePlace
  <2>2. queue # <<>> => latency
    BY DEF RowsInv, Flow
  <2> QED
    BY <2>1, <2>2 DEF RowsKeptOnce
<1> QED
  BY <1>1, DayInit, DayStep, RowsInit, RowsStep, PTL DEF Spec

-----------------------------------------------------------------------------
(* Analytics: sessions *)

InHand(s) == \/ s \in timed
             \/ Zadd(s) \in RangeOf(cmds) \/ Zrem(s) \in RangeOf(cmds) \/ Del(s) \in RangeOf(cmds)
InQuery(s) == \E f \in fin : f.session = s /\ (f.at # "store" \/ Uncounted(s) \subseteq f.rows)

\* The body of NothingForgotten
Remembered == \A s \in Session : Uncounted(s) # {} /\ s \notin robbed => InHand(s) \/ InQuery(s)

\* A session with rows that are not indexed yet has a timeout that is not due, or
\* one is about to be set.
Awake == \A s \in Session : ~Settled(s) /\ s \notin robbed =>
            Zadd(s) \in RangeOf(cmds) \/ (s \in timed /\ s \notin due)

\* Queries start from the beginning of a session, as no document has a type.
Query == [session : Session, round : Nat, at : {"previous", "start", "totals", "store"},
          since : {0}, rows : SUBSET AnyRow]
Queries == /\ fin \subseteq Query /\ rounds \in Nat
           /\ \A x \in stored : "type" \notin DOMAIN x

SessionsInv == Remembered /\ Awake /\ Queries /\ (redis \/ due = {})

LEMMA OthersDiffer ==
    ASSUME NEW s, NEW u
    PROVE  /\ Zadd(s) # Zrem(u) /\ Zadd(s) # Del(u) /\ Zrem(s) # Del(u)
           /\ Zadd(s) = Zadd(u) => s = u
           /\ Zrem(s) = Zrem(u) => s = u
           /\ Del(s) = Del(u) => s = u
           /\ FindDue # Zadd(s) /\ FindDue # Zrem(s) /\ FindDue # Del(s)
<1>1. \A x : /\ Zadd(x).op = "zadd" /\ Zadd(x).of = x
             /\ Zrem(x).op = "zrem" /\ Zrem(x).of = x
             /\ Del(x).op = "del" /\ Del(x).of = x
  BY DEF Zadd, Zrem, Del
<1>2. FindDue.op = "zrangebyscore"
  BY DEF FindDue
<1> QED
  BY <1>1, <1>2

LEMMA UncountedAre ==
    ASSUME NEW s, NEW r
    PROVE  r \in Uncounted(s) <=>
             /\ \E x \in index : x.session = s /\ x.type = "start" /\ InReach(x)
             /\ r \in index /\ r.session = s /\ r.type = "listen" /\ InReach(r)
             /\ \A y \in stored : y.session = s => r \notin y.rows
  BY DEF Uncounted, Starts, Listens, Rows, AllRows

\* Documents are added, and rows of other sessions; days pass.
LEMMA UncountedFewer ==
    ASSUME NEW s, stored \subseteq stored', RowsInv,
           day' = day \/ (Dated /\ Dated' /\ day <= day'),
           \A r : r.session = s => (r \in index' <=> r \in index)
    PROVE  Uncounted(s)' \subseteq Uncounted(s)
<1>1. \A r \in index : InReach(r)' => InReach(r)
  <2>1. \A r \in index : r.day \in Nat
    BY DEF RowsInv, Shared, Numbered, AnyRow
  <2> QED
    BY <2>1 DEF InReach, Dated
<1>2. \A r \in Rows(s)' : r \in Rows(s)
  BY <1>1 DEF Rows, AllRows
<1> QED
  BY <1>2 DEF Uncounted, Starts, Listens

LEMMA UncountedSame ==
    ASSUME NEW s, UNCHANGED <<day, index, stored>>
    PROVE  Uncounted(s)' = Uncounted(s)
  BY DEF Uncounted, Starts, Listens, Rows, AllRows, InReach

LEMMA SettledStays ==
    ASSUME NEW s, logged' = logged, index \cup dropped \subseteq index' \cup dropped'
    PROVE  Settled(s) => Settled(s)'
  BY DEF Settled

\* Rows, documents and queries are left alone; so are timeouts but for what a command
\* that is answered does, and the session it is of is seen to.
LEMMA SessionsStay ==
    ASSUME SessionsInv, UNCHANGED <<redis, day, logged, index, dropped, stored, fin, rounds>>,
           NEW c, RangeOf(cmds) \subseteq RangeOf(cmds') \cup {c},
           \A s \in Session : s \in timed /\ s \notin due => (s \in timed' /\ s \notin due') \/ s \in robbed',
           \A s \in Session : s \in timed => s \in timed' \/ Del(s) \in RangeOf(cmds'),
           \A s \in Session : c = Zadd(s) => s \in timed' /\ s \notin due',
           \A s \in Session : c = Zrem(s) => Del(s) \in RangeOf(cmds'),
           \A s \in Session : c # Del(s),
           \A s \in Session : s \notin robbed' => s \notin robbed \/ (s \in timed' /\ s \notin due'),
           due' \subseteq due
    PROVE  SessionsInv'
<1>1. Remembered'
  <2> SUFFICES ASSUME NEW s \in Session, Uncounted(s)' # {}, s \notin robbed'
               PROVE  InHand(s)' \/ InQuery(s)'
    BY DEF Remembered
  <2>1. Uncounted(s)' = Uncounted(s)
    BY UncountedSame
  <2>2. CASE s \in timed'
    BY <2>2 DEF InHand
  <2>3. CASE s \notin timed'
    <3>1. InHand(s) \/ InQuery(s)
      BY <2>1, <2>3 DEF SessionsInv, Remembered
    <3>2. InQuery(s) => InQuery(s)'
      BY <2>1 DEF InQuery
    <3>3. InHand(s) => InHand(s)'
      BY <2>3 DEF InHand
    <3> QED
      BY <3>1, <3>2, <3>3
  <2> QED
    BY <2>2, <2>3
<1>2. Awake'
  <2> SUFFICES ASSUME NEW s \in Session, ~Settled(s)', s \notin robbed'
               PROVE  Zadd(s) \in RangeOf(cmds') \/ (s \in timed' /\ s \notin due')
    BY DEF Awake
  <2>1. ~Settled(s)
    BY SettledStays
  <2> QED
    BY <2>1 DEF SessionsInv, Awake
<1>3. Queries' /\ (redis' \/ due' = {})
  BY DEF SessionsInv, Queries
<1> QED
  BY <1>1, <1>2, <1>3 DEF SessionsInv

LEMMA SessionLogged ==
    ASSUME Dated, RowsInv, SessionsInv, NEW u \in Session, NEW type \in {"start", "listen"}, Log(u, type)
    PROVE  SessionsInv'
<1>1. /\ UNCHANGED <<redis, day, index, dropped, stored, fin, rounds, due>>
      /\ IF redis THEN UNCHANGED <<timed, robbed>>
                  ELSE timed' = timed \cup {u} /\ robbed' = robbed \ {u}
      /\ \E row : logged' = logged \cup {row} /\ row.session = u
  BY DEF Log, UpdateSessionTimerFor, endVars
<1>2. RangeOf(cmds) \subseteq RangeOf(cmds') /\ (redis => Zadd(u) \in RangeOf(cmds'))
  BY RowsLogged
<1>3. Remembered'
  <2> SUFFICES ASSUME NEW s \in Session, Uncounted(s)' # {}, s \notin robbed'
               PROVE  InHand(s)' \/ InQuery(s)'
    BY DEF Remembered
  <2>1. Uncounted(s)' = Uncounted(s)
    BY <1>1, UncountedSame
  <2>2. CASE s \in robbed
    BY <1>1, <2>2 DEF InHand
  <2>3. CASE s \notin robbed
    <3>1. InHand(s) \/ InQuery(s)
      BY <2>1, <2>3 DEF SessionsInv, Remembered
    <3>2. InQuery(s) => InQuery(s)'
      BY <1>1, <2>1 DEF InQuery
    <3>3. InHand(s) => InHand(s)'
      BY <1>1, <1>2 DEF InHand
    <3> QED
      BY <3>1, <3>2, <3>3
  <2> QED
    BY <2>2, <2>3
<1>4. Awake'
  <2> SUFFICES ASSUME NEW s \in Session, ~Settled(s)', s \notin robbed'
               PROVE  Zadd(s) \in RangeOf(cmds') \/ (s \in timed' /\ s \notin due')
    BY DEF Awake
  <2>1. CASE s = u
    BY <1>1, <1>2, <2>1 DEF SessionsInv
  <2>2. CASE s # u
    <3>1. Settled(s) => Settled(s)'
      BY <1>1, <2>2 DEF Settled
    <3> QED
      BY <1>1, <1>2, <2>2, <3>1 DEF SessionsInv, Awake
  <2> QED
    BY <2>1, <2>2
<1> QED
  BY <1>1, <1>3, <1>4 DEF SessionsInv, Queries

\* Rows that come to be indexed are of sessions with a timeout.
LEMMA SessionIndexed ==
    ASSUME RowsInv, SessionsInv, Bulk \/ BulkFails
    PROVE  SessionsInv'
<1> DEFINE h == RangeOf(Head(batches))
<1>1. ToSet(Head(batches)) = h
  BY DEF ToSet, RangeOf
<1>2. /\ UNCHANGED <<redis, day, logged, stored, fin, rounds, due, timed, robbed, cmds>>
      /\ \/ index' = index \cup h /\ dropped' = dropped
         \/ index' = index /\ dropped' = dropped \cup h
  BY <1>1 DEF Bulk, BulkFails, RowsUntouched, endVars, timeVars
<1>3. h \subseteq logged /\ h \cap index = {} /\ h \cap dropped = {}
  <2>1. batches # <<>> /\ batches' = Tail(batches) /\ UNCHANGED <<queue, latency>>
    BY DEF Bulk, BulkFails, RowsUntouched
  <2>2. Held = Held' \cup h
    BY <2>1, BatchLeaves DEF RowsInv
  <2> QED
    BY <2>2 DEF RowsInv, Shared
<1> HIDE DEF h
<1>4. Remembered'
  <2> SUFFICES ASSUME NEW s \in Session, Uncounted(s)' # {}, s \notin robbed'
               PROVE  InHand(s)' \/ InQuery(s)'
    BY DEF Remembered
  <2>1. InHand(s)' <=> InHand(s)
    BY <1>2 DEF InHand
  <2>2. CASE \E r \in h : r.session = s
    <3>1. ~Settled(s)
      BY <1>3, <2>2 DEF Settled
    <3> QED
      BY <1>2, <2>1, <3>1 DEF SessionsInv, Awake, InHand
  <2>3. CASE ~\E r \in h : r.session = s
    <3>1. \A r : r.session = s => (r \in index' <=> r \in index)
      BY <1>2, <2>3
    <3>2. Uncounted(s)' \subseteq Uncounted(s)
      BY <1>2, <3>1, UncountedFewer
    <3>3. InHand(s) \/ InQuery(s)
      BY <1>2, <3>2 DEF SessionsInv, Remembered
    <3>4. InQuery(s) => InQuery(s)'
      BY <1>2, <3>2 DEF InQuery
    <3> QED
      BY <2>1, <3>3, <3>4
  <2> QED
    BY <2>2, <2>3
<1>5. Awake'
  <2> SUFFICES ASSUME NEW s \in Session, ~Settled(s)', s \notin robbed'
               PROVE  Zadd(s) \in RangeOf(cmds') \/ (s \in timed' /\ s \notin due')
    BY DEF Awake
  <2>1. ~Settled(s)
    BY <1>2, SettledStays
  <2> QED
    BY <1>2, <2>1 DEF SessionsInv, Awake
<1> QED
  BY <1>2, <1>4, <1>5 DEF SessionsInv, Queries

\* A session whose timeout runs off, or that was removed from Redis, is finalized.
LEMMA SessionFinalized ==
    ASSUME SessionsInv, NEW u \in Session, Finalize(u),
           UNCHANGED <<redis, day, logged, index, dropped, robbed>>, due' \subseteq due,
           RangeOf(cmds) \subseteq RangeOf(cmds') \cup {Del(u)}, timed \subseteq timed' \cup {u},
           \/ Settled(u)
           \/ timed' = timed /\ UNCHANGED due
    PROVE  SessionsInv'
<1> DEFINE q == [session |-> u, round |-> rounds + 1, at |-> "previous", since |-> 0, rows |-> {}]
<1>1. fin' = fin \cup {q} /\ rounds' = rounds + 1 /\ UNCHANGED stored
  BY DEF Finalize
<1>2. q \in Query /\ q.session = u /\ q.at = "previous"
  BY DEF SessionsInv, Queries, Query
<1> HIDE DEF q
<1>3. \A s : Zadd(s) # Del(u) /\ Zrem(s) # Del(u) /\ (Del(s) = Del(u) => s = u)
  BY OthersDiffer
<1>4. Remembered'
  <2> SUFFICES ASSUME NEW s \in Session, Uncounted(s)' # {}, s \notin robbed'
               PROVE  InHand(s)' \/ InQuery(s)'
    BY DEF Remembered
  <2>1. CASE s = u
    BY <1>1, <1>2, <2>1 DEF InQuery
  <2>2. CASE s # u
    <3>1. Uncounted(s)' = Uncounted(s)
      BY <1>1, UncountedSame
    <3>2. InHand(s) \/ InQuery(s)
      BY <3>1 DEF SessionsInv, Remembered
    <3>3. InQuery(s) => InQuery(s)'
      BY <1>1, <3>1 DEF InQuery
    <3>4. InHand(s) => InHand(s)'
      BY <1>3, <2>2 DEF InHand
    <3> QED
      BY <3>2, <3>3, <3>4
  <2> QED
    BY <2>1, <2>2
<1>5. Awake'
  <2> SUFFICES ASSUME NEW s \in Session, ~Settled(s)', s \notin robbed'
               PROVE  Zadd(s) \in RangeOf(cmds') \/ (s \in timed' /\ s \notin due')
    BY DEF Awake
  <2>1. ~Settled(s)
    BY SettledStays
  <2> QED
    BY <1>3, <2>1 DEF SessionsInv, Awake
<1>6. Queries' /\ (redis' \/ due' = {})
  BY <1>1, <1>2 DEF SessionsInv, Queries
<1> QED
  BY <1>4, <1>5, <1>6 DEF SessionsInv

\* One query of a session f is answered, and g is what becomes of it: nothing, or the
\* next query.
LEMMA QueryGoes ==
    ASSUME RowsInv, SessionsInv, NEW f \in fin, NEW G \in SUBSET Query, fin' = (fin \ {f}) \cup G,
           UNCHANGED <<redis, day, logged, index, dropped, timed, due, cmds, rounds>>,
           robbed \subseteq robbed', stored \subseteq stored',
           \A x \in stored' : "type" \notin DOMAIN x,
           f.at # "store" \/ Uncounted(f.session) \subseteq f.rows =>
             \/ f.session \in robbed'
             \/ Uncounted(f.session)' = {}
             \/ \E g \in G : /\ g.session = f.session
                             /\ g.at # "store" \/ Uncounted(f.session)' \subseteq g.rows
    PROVE  SessionsInv'
<1>1. \A s : Uncounted(s)' \subseteq Uncounted(s)
  BY UncountedFewer
<1>2. Remembered'
  <2> SUFFICES ASSUME NEW s \in Session, Uncounted(s)' # {}, s \notin robbed'
               PROVE  InHand(s)' \/ InQuery(s)'
    BY DEF Remembered
  <2>1. InHand(s) => InHand(s)'
    BY DEF InHand
  <2>2. InHand(s) \/ InQuery(s)
    BY <1>1 DEF SessionsInv, Remembered
  <2>3. ASSUME NEW q \in fin, q.session = s, q.at # "store" \/ Uncounted(s) \subseteq q.rows
        PROVE  InQuery(s)'
    <3>1. CASE q # f
      <4>1. q \in fin' /\ (q.at # "store" \/ Uncounted(s)' \subseteq q.rows)
        BY <1>1, <2>3, <3>1
      <4> QED
        BY <2>3, <4>1 DEF InQuery
    <3>2. CASE q = f
      <4>1. PICK g \in G : g.session = s /\ (g.at # "store" \/ Uncounted(s)' \subseteq g.rows)
        BY <2>3, <3>2
      <4>2. g \in fin'
        BY <4>1
      <4> QED
        BY <4>1, <4>2 DEF InQuery
    <3> QED
      BY <3>1, <3>2
  <2> QED
    BY <2>1, <2>2, <2>3 DEF InQuery
<1>3. Awake'
  <2> SUFFICES ASSUME NEW s \in Session, ~Settled(s)', s \notin robbed'
               PROVE  Zadd(s) \in RangeOf(cmds') \/ (s \in timed' /\ s \notin due')
    BY DEF Awake
  <2>1. ~Settled(s)
    BY SettledStays
  <2> QED
    BY <2>1 DEF SessionsInv, Awake
<1> QED
  BY <1>2, <1>3 DEF SessionsInv, Queries

LEMMA SessionQueried ==
    ASSUME RowsInv, SessionsInv, NEW f \in fin,
           PreviousSession(f) \/ SessionStart(f) \/ ListenTotals(f) \/ Store(f) \/ RequestFails(f)
    PROVE  SessionsInv'
<1> DEFINE u == f.session
<1>1. f \in Query /\ f.since = 0 /\ u \in Session
  BY DEF SessionsInv, Queries, Query
<1>2. UNCHANGED <<redis, day, logged, index, dropped, timed, due, cmds, rounds>>
  BY DEF PreviousSession, SessionStart, ListenTotals, Store, RequestFails, FinOthers, rowVars,
         timeVars
<1>3. \A x \in stored : "type" \notin DOMAIN x
  BY DEF SessionsInv, Queries
<1>4. CASE PreviousSession(f)
  <2> DEFINE found == {x \in stored : x.session = u /\ "type" \in DOMAIN x}
             g == [f EXCEPT !.at = "start", !.since = 0]
  <2>1. found = {}
    BY <1>3
  <2>2. fin' = (fin \ {f}) \cup {g} /\ UNCHANGED <<stored, robbed>>
    BY <1>4, <2>1 DEF PreviousSession, GoOn, FinOthers
  <2>3. g \in Query /\ g.session = u /\ g.at = "start"
    BY <1>1 DEF Query
  <2> HIDE DEF g
  <2>4. {g} \in SUBSET Query /\ \E x \in {g} : x.session = u /\ x.at # "store"
    BY <2>3
  <2> QED
    BY <1>2, <1>3, <2>2, <2>4, QueryGoes
<1>5. CASE SessionStart(f)
  <2> DEFINE g == [f EXCEPT !.at = "totals"]
  <2>1. UNCHANGED <<stored, robbed>>
    BY <1>5 DEF SessionStart, GoOn, Toss, FinOthers
  <2>2. CASE Starts(u) = {}
    <3>1. fin' = (fin \ {f}) \cup {}
      BY <1>5, <2>2 DEF SessionStart, Toss
    <3>2. Uncounted(u)' = {}
      BY <1>2, <2>1, <2>2, UncountedSame DEF Uncounted
    <3> QED
      BY <1>2, <1>3, <2>1, <3>1, <3>2, QueryGoes
  <2>3. CASE Starts(u) # {}
    <3>1. fin' = (fin \ {f}) \cup {g}
      BY <1>5, <2>3 DEF SessionStart, GoOn
    <3>2. g \in Query /\ g.session = u /\ g.at = "totals"
      BY <1>1 DEF Query
    <3> HIDE DEF g
    <3>3. {g} \in SUBSET Query /\ \E x \in {g} : x.session = u /\ x.at # "store"
      BY <3>2
    <3> QED
      BY <1>2, <1>3, <2>1, <3>1, <3>3, QueryGoes
  <2> QED
    BY <2>2, <2>3
<1>6. CASE ListenTotals(f)
  <2> DEFINE rows == Rows(u)
             g == [f EXCEPT !.at = "store", !.rows = rows]
  <2>1. Counted(u, f.since) = rows /\ UNCHANGED <<stored, robbed>>
    BY <1>1, <1>6 DEF Counted, ListenTotals, GoOn, Toss, FinOthers
  <2>2. Uncounted(u)' \subseteq rows
    <3>1. Uncounted(u) \subseteq rows
      BY DEF Uncounted, Listens
    <3> QED
      BY <1>2, <2>1, <3>1, UncountedSame
  <2>3. rows \in SUBSET AnyRow
    BY DEF Rows, AllRows, RowsInv, Shared, Numbered
  <2>4. CASE rows = {}
    <3>1. fin' = (fin \ {f}) \cup {}
      BY <1>6, <2>1, <2>4 DEF ListenTotals, Toss
    <3>2. Uncounted(u)' = {}
      BY <2>2, <2>4
    <3> QED
      BY <1>2, <1>3, <2>1, <3>1, <3>2, QueryGoes
  <2>5. CASE rows # {}
    <3>1. fin' = (fin \ {f}) \cup {g}
      BY <1>6, <2>1, <2>5 DEF ListenTotals, GoOn
    <3>2. g \in Query /\ g.session = u /\ g.rows = rows
      BY <1>1, <2>3 DEF Query
    <3> HIDE DEF g
    <3>3. {g} \in SUBSET Query /\ \E x \in {g} : x.session = u /\ Uncounted(u)' \subseteq x.rows
      BY <2>2, <3>2
    <3> QED
      BY <1>2, <1>3, <2>1, <3>1, <3>3, QueryGoes
  <2> QED
    BY <2>4, <2>5
<1>7. CASE Store(f)
  <2> DEFINE x == Document(f)
  <2>1. f.at = "store" /\ stored' = stored \cup {x} /\ fin' = (fin \ {f}) \cup {} /\ robbed' = robbed
    BY <1>7 DEF Store, FinOthers
  <2>2. "type" \notin DOMAIN x /\ x.session = u /\ x.rows = f.rows
    BY DEF Document
  <2> HIDE DEF x
  <2>3. \A y \in stored' : "type" \notin DOMAIN y
    BY <1>3, <2>1, <2>2
  <2>4. Uncounted(u) \subseteq f.rows => Uncounted(u)' = {}
    <3>1. Uncounted(u)' \subseteq Uncounted(u)
      BY <1>2, <2>1, UncountedFewer
    <3>2. Uncounted(u)' \cap f.rows = {}
      BY <2>1, <2>2 DEF Uncounted
    <3> QED
      BY <3>1, <3>2
  <2>5. stored \subseteq stored' /\ robbed \subseteq robbed'
    BY <2>1
  <2>6. f.at # "store" \/ Uncounted(f.session) \subseteq f.rows => Uncounted(f.session)' = {}
    BY <2>1, <2>4
  <2> DEFINE G == {}
  <2>7. G \in SUBSET Query /\ fin' = (fin \ {f}) \cup G
    BY <2>1
  <2> HIDE DEF G
  <2> QED
    BY <1>2, <2>3, <2>5, <2>6, <2>7, QueryGoes
<1>8. CASE RequestFails(f)
  <2>1. fin' = (fin \ {f}) \cup {} /\ stored' = stored /\ robbed' = robbed \cup {u}
    BY <1>8 DEF RequestFails, Toss
  <2>2. stored \subseteq stored' /\ robbed \subseteq robbed' /\ f.session \in robbed'
        /\ \A x \in stored' : "type" \notin DOMAIN x
    BY <1>3, <2>1
  <2> DEFINE G == {}
  <2>3. G \in SUBSET Query /\ fin' = (fin \ {f}) \cup G
    BY <2>1
  <2> HIDE DEF G
  <2> QED
    BY <1>2, <2>2, <2>3, QueryGoes
<1> QED
  BY <1>4, <1>5, <1>6, <1>7, <1>8

LEMMA SessionElapses ==
    ASSUME SessionsInv, NEW u \in Session, Elapses(u)
    PROVE  SessionsInv'
<1>1. /\ UNCHANGED <<redis, day, rowVars, cmds, timed, endVars, robbed>>
      /\ redis /\ Settled(u) /\ due' = due \cup {u}
  BY DEF Elapses
<1>2. UNCHANGED <<day, index, dropped, logged, stored, fin, rounds>>
  BY <1>1 DEF rowVars, endVars
<1>3. Remembered'
  <2> SUFFICES ASSUME NEW s \in Session, Uncounted(s)' # {}, s \notin robbed'
               PROVE  InHand(s)' \/ InQuery(s)'
    BY DEF Remembered
  <2>1. Uncounted(s)' = Uncounted(s)
    BY <1>2, UncountedSame
  <2> QED
    BY <1>1, <1>2, <2>1 DEF SessionsInv, Remembered, InHand, InQuery
<1>4. Awake'
  <2> SUFFICES ASSUME NEW s \in Session, ~Settled(s)', s \notin robbed'
               PROVE  Zadd(s) \in RangeOf(cmds') \/ (s \in timed' /\ s \notin due')
    BY DEF Awake
  <2>1. ~Settled(s)
    BY <1>2, SettledStays
  <2> QED
    BY <1>1, <2>1 DEF SessionsInv, Awake
<1> QED
  BY <1>1, <1>2, <1>3, <1>4 DEF SessionsInv, Queries

LEMMA SessionsCrash ==
    ASSUME Dated, RowsInv, SessionsInv, Crash
    PROVE  SessionsInv'
<1> DEFINE ofCmds == {s \in Session : \E i \in 1 .. Len(cmds) : cmds[i].of = s}
<1>1. /\ UNCHANGED <<redis, logged, index, due, stored, rounds>> /\ fin' = {} /\ cmds' = <<>>
      /\ dropped' = dropped \cup (logged \ (index \cup dropped))
      /\ timed' = (IF redis THEN timed ELSE {})
      /\ robbed' = robbed \cup ofCmds \cup {f.session : f \in fin}
                     \cup (IF redis THEN {} ELSE timed)
  BY DEF Crash
<1>2. \A s \in Session : Settled(s)'
  BY <1>1 DEF Settled
<1>3. \A s \in Session : Zadd(s) \in RangeOf(cmds) \/ Zrem(s) \in RangeOf(cmds)
                           \/ Del(s) \in RangeOf(cmds) => s \in ofCmds
  <2> SUFFICES ASSUME NEW s \in Session, NEW c \in RangeOf(cmds),
                      c = Zadd(s) \/ c = Zrem(s) \/ c = Del(s)
               PROVE  s \in ofCmds
    OBVIOUS
  <2>1. c.of = s
    BY DEF Zadd, Zrem, Del
  <2>2. PICK i \in 1 .. Len(cmds) : cmds[i] = c
    BY ElementsAre DEF RowsInv, Commands
  <2> QED
    BY <2>1, <2>2
<1> HIDE DEF ofCmds
<1>4. Remembered'
  <2> SUFFICES ASSUME NEW s \in Session, Uncounted(s)' # {}, s \notin robbed'
               PROVE  s \in timed'
    BY DEF Remembered, InHand
  <2>1. Dated' /\ day <= day'
    BY DayStep DEF Next
  <2>2. Uncounted(s)' \subseteq Uncounted(s)
    BY <1>1, <2>1, UncountedFewer
  <2>3. InHand(s) \/ InQuery(s)
    BY <1>1, <2>2 DEF SessionsInv, Remembered
  <2> QED
    BY <1>1, <1>3, <2>3 DEF InHand, InQuery
<1> QED
  BY <1>1, <1>2, <1>4 DEF SessionsInv, Awake, Queries

\* Sessions fall out of reach.
LEMMA SessionsAtMidnight ==
    ASSUME Dated, RowsInv, SessionsInv, Midnight
    PROVE  SessionsInv'
<1>1. UNCHANGED <<redis, rowVars, timeVars, endVars, robbed>>
  BY DEF Midnight
<1>2. UNCHANGED <<redis, logged, index, dropped, cmds, timed, due, stored, fin, rounds, robbed>>
  BY <1>1 DEF rowVars, timeVars, endVars
<1>3. Dated' /\ day <= day'
  BY DayStep DEF Next
<1>4. \A s : Uncounted(s)' \subseteq Uncounted(s)
  BY <1>2, <1>3, UncountedFewer
<1>5. Remembered'
  BY <1>2, <1>4 DEF SessionsInv, Remembered, InHand, InQuery
<1>6. Awake'
  <2> SUFFICES ASSUME NEW s \in Session, ~Settled(s)', s \notin robbed'
               PROVE  Zadd(s) \in RangeOf(cmds') \/ (s \in timed' /\ s \notin due')
    BY DEF Awake
  <2>1. ~Settled(s)
    BY <1>2, SettledStays
  <2> QED
    BY <1>2, <2>1 DEF SessionsInv, Awake
<1> QED
  BY <1>2, <1>5, <1>6 DEF SessionsInv, Queries

LEMMA SessionsInit == Init => SessionsInv
<1> SUFFICES ASSUME Init PROVE SessionsInv
  OBVIOUS
<1>1. Remembered /\ Awake
  BY DEF Init, Remembered, Awake, Uncounted, Starts, Rows, AllRows, Settled
<1>2. Queries /\ (redis \/ due = {})
  BY DEF Init, Queries
<1> QED
  BY <1>1, <1>2 DEF SessionsInv

LEMMA SessionsStep == Dated /\ RowsInv /\ SessionsInv /\ [Next]_vars => SessionsInv'
<1> SUFFICES ASSUME Dated, RowsInv, SessionsInv, [Next]_vars PROVE SessionsInv'
  OBVIOUS
<1>1. CASE \E s \in Session, type \in {"start", "listen"} : Log(s, type)
  BY <1>1, SessionLogged
<1>2. CASE Bulk \/ BulkFails
  BY <1>2, SessionIndexed
<1>3. CASE \E s \in Session : Elapses(s)
  BY <1>3, SessionElapses
<1>4. CASE \E f \in fin : \/ PreviousSession(f) \/ SessionStart(f) \/ ListenTotals(f) \/ Store(f)
                          \/ RequestFails(f)
  BY <1>4, SessionQueried
<1>5. CASE Crash
  BY <1>5, SessionsCrash
<1>6. CASE \E s \in Session : TimerFires(s)
  <2> SUFFICES ASSUME NEW u \in Session, TimerFires(u) PROVE SessionsInv'
    BY <1>6
  <2>1. /\ Finalize(u) /\ UNCHANGED <<redis, day, logged, index, dropped, robbed, due, cmds>>
        /\ timed' = timed \ {u} /\ Settled(u)
    BY DEF TimerFires, rowVars
  <2> QED
    BY <2>1, SessionFinalized
<1>7. CASE ScrubDone
  <2> DEFINE u == Head(cmds).of
  <2>1. /\ Finalize(u) /\ UNCHANGED <<redis, day, logged, index, dropped, robbed, due, timed>>
    BY <1>7 DEF ScrubDone, OnDel, Answered
  <2>2. u \in Session /\ RangeOf(cmds) \subseteq RangeOf(cmds') \cup {Del(u)}
    BY <1>7, ZaddAnswered
  <2> HIDE DEF u
  <2> QED
    BY <2>1, <2>2, SessionFinalized
<1>8. CASE OnZadd
  <2> DEFINE c == Head(cmds)
             u == c.of
  <2>1. /\ UNCHANGED <<redis, day, logged, index, dropped, stored, fin, rounds>>
        /\ timed' = timed \cup {u} /\ due' = due \ {u} /\ robbed' = robbed \ {u}
    BY <1>8 DEF OnZadd, Answered, endVars
  <2>2. c = Zadd(u) /\ u \in Session /\ RangeOf(cmds) \subseteq RangeOf(cmds') \cup {c}
    BY <1>8, ZaddAnswered
  <2> HIDE DEF c, u
  <2>3. \A s : (c = Zadd(s) => s = u) /\ c # Zrem(s) /\ c # Del(s)
    BY <2>2, OthersDiffer
  <2> QED
    BY <2>1, <2>2, <2>3, SessionsStay
<1>9. CASE OnZrem
  <2> DEFINE c == Head(cmds)
             u == c.of
  <2>1. /\ UNCHANGED <<redis, day, logged, index, dropped, stored, fin, rounds>>
        /\ timed' = timed \ {u} /\ due' = due \ {u}
        /\ robbed' = IF u \in due THEN robbed ELSE robbed \cup {u}
    BY <1>9 DEF OnZrem, Answered, endVars
  <2>2. /\ c = Zrem(u) /\ u \in Session /\ RangeOf(cmds) \subseteq RangeOf(cmds') \cup {c}
        /\ Del(u) \in RangeOf(cmds')
    BY <1>9, ZremAnswered
  <2> HIDE DEF c, u
  <2>3. \A s : (c = Zrem(s) => s = u) /\ c # Zadd(s) /\ c # Del(s)
    BY <2>2, OthersDiffer
  <2> QED
    BY <2>1, <2>2, <2>3, SessionsStay
<1>10. CASE OnRange \/ Sweep \/ LatencyTimer \/ UNCHANGED vars
  <2> DEFINE c == FindDue
  <2>1. UNCHANGED <<redis, day, logged, index, dropped, stored, fin, rounds, timed, due, robbed>>
    BY <1>10 DEF OnRange, Answered, OnlyRows, Sweep, LatencyTimer, rowVars, timeVars, endVars, vars
  <2>2. RangeOf(cmds) \subseteq RangeOf(cmds') \cup {c}
    <3>1. CASE OnRange
      BY <3>1, RangeAnswered
    <3>2. CASE Sweep
      BY <3>2, SweepSent
    <3>3. CASE LatencyTimer \/ UNCHANGED vars
      BY <3>3 DEF LatencyTimer, timeVars, vars
    <3> QED
      BY <1>10, <3>1, <3>2, <3>3
  <2>3. \A s : c # Zadd(s) /\ c # Zrem(s) /\ c # Del(s)
    BY OthersDiffer
  <2> HIDE DEF c
  <2> QED
    BY <2>1, <2>2, <2>3, SessionsStay
<1>11. CASE OnIncr
  <2> DEFINE c == Head(cmds)
  <2>1. /\ UNCHANGED <<redis, day, logged, index, dropped, stored, fin, rounds, timed, due, robbed>>
        /\ cmds # <<>> /\ cmds' = Tail(cmds) /\ c.op = "incrby"
    BY <1>11 DEF OnIncr, Answered, OnlyRows, endVars
  <2>2. c \in Command /\ RangeOf(cmds) \subseteq RangeOf(cmds') \cup {c}
    BY <2>1, Taking DEF RowsInv
  <2>3. \A s : c # Zadd(s) /\ c # Zrem(s) /\ c # Del(s)
    <3>1. c = Incr(c.of)
      BY <2>1, <2>2, CommandsDiffer
    <3> HIDE DEF c
    <3> QED
      BY <3>1, CommandsDiffer
  <2> HIDE DEF c
  <2> QED
    BY <2>1, <2>2, <2>3, SessionsStay
<1>12. CASE Midnight
  BY <1>12, SessionsAtMidnight
<1> QED
  BY <1>1, <1>2, <1>3, <1>4, <1>5, <1>6, <1>7, <1>8, <1>9, <1>10, <1>11, <1>12
  DEF Next, Progress, Finalizing

\* For any sessions, size of a batch and number of troubles: listens that no document
\* counts have not been forgotten (_updateSessionTimerFor, _triggerSession).
THEOREM NothingIsForgotten == Spec => []NothingForgotten
<1>1. RowsInv /\ SessionsInv => NothingForgotten
  <2> SUFFICES ASSUME RowsInv, SessionsInv PROVE NothingForgotten
    OBVIOUS
  <2>1. \A c : c \in RangeOf(cmds) => Sent(c)
    BY ElementsAre DEF RowsInv, Commands, Sent
  <2> QED
    BY <2>1 DEF SessionsInv, Remembered, InHand, InQuery, NothingForgotten
<1> QED
  BY <1>1, DayInit, DayStep, RowsInit, RowsStep, SessionsInit, SessionsStep, PTL DEF Spec

-----------------------------------------------------------------------------
(* Registry *)

IsSeq(q) == q \in Seq(RangeOf(q))
LastOf(q) == q[Len(q)]

\* The streams of the registry with their options, as slaves and Redis know them
Current == Config(reg).streams

\* Slaves run, or will once they have taken what is sent to them, what the master
\* has cached; what it has cached is the registry's streams.
ToldInOrder ==
    /\ cached # Unset => cached = Current
    /\ mail = [s \in Slaves |-> mail[s]] /\ conn = [s \in Slaves |-> conn[s]]
    /\ runs = [s \in Slaves |-> runs[s]]
    /\ \A s \in Slaves :
         /\ IsSeq(mail[s])
         /\ conn[s] # "registered" => mail[s] = <<>>
         /\ conn[s] = "registered" /\ cached # Unset =>
              cached = IF mail[s] = <<>> THEN runs[s] ELSE LastOf(mail[s])

\* The body of StoredIsCurrent
Stored == IF saved = {} THEN DOMAIN streams = {}
          ELSE \A c \in saved : c.streams = Current

\* The last configuration on its way to Redis is the registry's; until Redis has
\* answered there is nothing in the registry that it could lose.
SavedInOrder ==
    /\ IsSeq(saves)
    /\ \A c, d \in saved : c = d
    /\ ~strayed /\ loaded => IF saves = <<>> THEN Stored
                             ELSE LastOf(saves).streams = Current
    /\ ~strayed /\ ~loaded => saves = <<>> /\ DOMAIN streams = {} /\ reply = saved

IInv == ToldInOrder /\ SavedInOrder

-----------------------------------------------------------------------------
(* Registry: queues *)

\* A sequence is one of any set that has all its elements.
LEMMA ElementsOf ==
    ASSUME NEW S, NEW q \in Seq(S)
    PROVE  IsSeq(q)
<1> DEFINE T == RangeOf(q)
<1>1. Len(q) \in Nat /\ DOMAIN q = 1 .. Len(q) /\ q = [i \in 1 .. Len(q) |-> q[i]]
  OBVIOUS
<1>2. \A i \in 1 .. Len(q) : q[i] \in T
  BY <1>1 DEF RangeOf
<1> HIDE DEF T
<1>3. q \in [1 .. Len(q) -> T]
  BY <1>1, <1>2
<1>4. q \in Seq(T)
  BY <1>1, <1>3, SeqDef
<1> QED BY <1>4 DEF T, IsSeq

LEMMA Appended ==
    ASSUME NEW q, IsSeq(q), NEW c
    PROVE  IsSeq(Append(q, c)) /\ Append(q, c) # <<>> /\ LastOf(Append(q, c)) = c
<1> DEFINE S == RangeOf(q) \cup {c}
           r == Append(q, c)
<1>1. q \in Seq(S)
  BY DEF IsSeq
<1>2. r \in Seq(S) /\ Len(r) = Len(q) + 1 /\ Len(q) \in Nat /\ r[Len(q) + 1] = c
  BY <1>1
<1> HIDE DEF S
<1>3. IsSeq(r)
  BY <1>2, ElementsOf
<1> QED BY <1>2, <1>3 DEF LastOf

LEMMA Taken ==
    ASSUME NEW q, IsSeq(q), q # <<>>
    PROVE  /\ IsSeq(Tail(q))
           /\ LastOf(q) = IF Tail(q) = <<>> THEN Head(q) ELSE LastOf(Tail(q))
<1> DEFINE S == RangeOf(q)
           r == Tail(q)
<1>1. q \in Seq(S)
  BY DEF IsSeq
<1>2. /\ r \in Seq(S) /\ Len(r) = Len(q) - 1 /\ Len(q) \in Nat /\ Len(q) >= 1
      /\ Head(q) = q[1] /\ \A i \in 1 .. Len(r) : r[i] = q[i + 1]
  BY <1>1
<1> HIDE DEF S
<1>3. IsSeq(r)
  BY <1>2, ElementsOf
<1> HIDE DEF r
<1>4. CASE r = <<>>
  BY <1>2, <1>3, <1>4 DEF LastOf, r
<1>5. CASE r # <<>>
  <2>1. Len(r) # 0
    BY <1>2, <1>5
  <2> QED BY <2>1, <1>2, <1>3, <1>5 DEF LastOf, r
<1> QED BY <1>4, <1>5

LEMMA Empty == IsSeq(<<>>)
  BY ElementsOf, <<>> \in Seq({})

-----------------------------------------------------------------------------
(* Registry: slaves *)

\* What is broadcast leaves queues, and reaches all that are registered.
LEMMA Broadcast ==
    ASSUME ToldInOrder, NEW m, \A s \in Slaves : IsSeq(m[s]), NEW c
    PROVE  /\ Send(m, c) = [s \in Slaves |-> Send(m, c)[s]]
           /\ \A s \in Slaves :
                /\ IsSeq(Send(m, c)[s])
                /\ conn[s] # "registered" => Send(m, c)[s] = m[s]
                /\ conn[s] = "registered" => /\ Send(m, c)[s] # <<>>
                                             /\ LastOf(Send(m, c)[s]) = c
<1> SUFFICES ASSUME NEW s \in Slaves
             PROVE  /\ IsSeq(Send(m, c)[s])
                    /\ conn[s] # "registered" => Send(m, c)[s] = m[s]
                    /\ conn[s] = "registered" => /\ Send(m, c)[s] # <<>>
                                                 /\ LastOf(Send(m, c)[s]) = c
  BY DEF Send
<1>1. Send(m, c)[s] = IF conn[s] = "registered" THEN Append(m[s], c) ELSE m[s]
  BY DEF Send
<1> QED BY <1>1, Appended

\* "streams" keeps slaves in order, whatever was sent to them before.
LEMMA StreamsTold ==
    ASSUME ToldInOrder, NEW r, NEW m,
           \A s \in Slaves : IsSeq(m[s]) /\ (conn[s] # "registered" => m[s] = <<>>),
           Becomes(r), Streams(r, m), UNCHANGED <<conn, runs>>
    PROVE  ToldInOrder'
<1>1. cached' = Current'
  BY DEF Streams, Current, Config, reg, Becomes
<1>2. mail' = Send(m, cached')
  BY DEF Streams
<1>3. Send(m, cached') = [s \in Slaves |-> Send(m, cached')[s]]
  BY Broadcast
<1>4. \A s \in Slaves :
        /\ IsSeq(mail'[s])
        /\ conn[s] # "registered" => mail'[s] = m[s]
        /\ conn[s] = "registered" => mail'[s] # <<>> /\ LastOf(mail'[s]) = cached'
  BY <1>2, Broadcast
<1>5. conn' = [s \in Slaves |-> conn'[s]] /\ runs' = [s \in Slaves |-> runs'[s]]
  BY DEF ToldInOrder
<1>6. mail' = [s \in Slaves |-> mail'[s]]
  BY <1>2, <1>3
<1> QED BY <1>1, <1>4, <1>5, <1>6 DEF ToldInOrder

\* Slaves do not notice a step that leaves the streams alone.
LEMMA MountsUntold ==
    ASSUME ToldInOrder, UNCHANGED <<streams, obj, cached, mail, conn, runs>>
    PROVE  ToldInOrder'
  BY DEF ToldInOrder, Current, Config, reg

LEMMA ConfigureTold ==
    ASSUME ToldInOrder, NEW c, Configure(c), UNCHANGED <<conn, runs>>
    PROVE  ToldInOrder'
<1> DEFINE new == DOMAIN c.streams \ DOMAIN reg.streams
           kept == Kept(reg, c)
           whole == Started(kept, c, new)
<1>1. Becomes(whole)
  BY DEF Configure
<1>2. \A s \in Slaves : IsSeq(mail[s]) /\ (conn[s] # "registered" => mail[s] = <<>>)
  BY DEF ToldInOrder
<1>3. CASE DOMAIN c.streams \subseteq new
  <2>1. Streams(whole, mail)
    BY <1>3 DEF Configure
  <2> QED BY <1>1, <1>2, <2>1, StreamsTold
<1>4. CASE ~(DOMAIN c.streams \subseteq new)
  <2>1. PICK early \in SUBSET new :
          Streams(whole, Send(mail, Config(Started(kept, c, early)).streams))
    BY <1>4 DEF Configure
  <2> DEFINE m == Send(mail, Config(Started(kept, c, early)).streams)
  <2>2. \A s \in Slaves : IsSeq(m[s]) /\ (conn[s] # "registered" => m[s] = <<>>)
    BY <1>2, Broadcast
  <2> HIDE DEF m, whole
  <2>3. Streams(whole, m)
    BY <2>1 DEF m
  <2> QED BY <1>1, <2>2, <2>3, StreamsTold
<1> QED BY <1>3, <1>4

-----------------------------------------------------------------------------
(* Registry: Redis *)

\* "config_update" puts the registry's streams last among what is to be saved.
LEMMA UpdateSaved ==
    ASSUME IsSeq(saves), NEW r, Becomes(r), Updated(r)
    PROVE  IsSeq(saves') /\ saves' # <<>> /\ LastOf(saves').streams = Current'
<1>1. saves' = Append(saves, Config(r))
  BY DEF Updated
<1>2. IsSeq(saves') /\ saves' # <<>> /\ LastOf(saves') = Config(r)
  BY <1>1, Appended
<1>3. Config(r).streams = Current'
  BY DEF Current, Config, reg, Becomes
<1> QED BY <1>2, <1>3

\* A change that is saved keeps Redis in order once it has answered.
LEMMA ChangeSaved ==
    ASSUME SavedInOrder, NEW r, Becomes(r), Updated(reg'), Strays, UNCHANGED <<loaded, saved>>
    PROVE  SavedInOrder'
<1>1. Becomes(reg')
  BY DEF Becomes, reg
<1>2. IsSeq(saves') /\ saves' # <<>> /\ LastOf(saves').streams = Current'
  <2>1. IsSeq(saves)
    BY DEF SavedInOrder
  <2> QED BY <1>1, <2>1, UpdateSaved
<1>3. strayed' = (strayed \/ ~loaded)
  BY DEF Strays
<1> QED BY <1>2, <1>3 DEF SavedInOrder

\* Redis does not notice a step that leaves the streams alone.
LEMMA MountsUnsaved ==
    ASSUME SavedInOrder, UNCHANGED <<streams, obj, saves, loaded, saved>>,
           strayed' = (strayed \/ ~loaded) \/ UNCHANGED <<strayed, reply>>
    PROVE  SavedInOrder'
<1>1. Current' = Current
  BY DEF Current, Config, reg
<1> QED BY <1>1 DEF SavedInOrder, Stored

\* configure saves nothing, or a registry that is not yet whole.
LEMMA ConfigureSaved ==
    ASSUME IsSeq(saves), NEW c, Configure(c)
    PROVE  IsSeq(saves')
<1>1. saves' = saves \/ \E r : saves' = Append(saves, Config(r))
  BY DEF Configure, Updated
<1> QED BY <1>1, Appended

LEMMA LoadSaved ==
    ASSUME SavedInOrder, Load
    PROVE  SavedInOrder'
<1>1. ~loaded /\ loaded' /\ saved' = saved
  BY DEF Load
<1>2. CASE reply = {}
  <2>1. UNCHANGED <<regVars, saves, strayed>>
    BY <1>2 DEF Load
  <2>2. Current' = Current
    BY <2>1 DEF Current, Config, reg, regVars
  <2> QED BY <1>1, <1>2, <2>1, <2>2 DEF SavedInOrder, Stored, regVars
<1>3. CASE reply # {}
  <2>1. PICK c \in reply :
          /\ Configure(c)
          /\ strayed' = (strayed \/ Config(reg').streams # c.streams \/ saves' # saves)
    BY <1>3 DEF Load
  <2>2. IsSeq(saves')
    BY <2>1, ConfigureSaved DEF SavedInOrder
  <2>3. ~strayed' => saves' = <<>> /\ saved = reply /\ c.streams = Current'
    BY <1>1, <2>1 DEF SavedInOrder, Current
  <2> QED BY <1>1, <2>1, <2>2, <2>3 DEF SavedInOrder, Stored
<1> QED BY <1>2, <1>3

LEMMA SavedSaved ==
    ASSUME SavedInOrder, Saved
    PROVE  SavedInOrder'
<1>1. /\ saves # <<>> /\ saved' = {Head(saves)} /\ saves' = Tail(saves)
      /\ UNCHANGED <<streams, obj, loaded, strayed>>
  BY DEF Saved, regVars
<1>2. /\ IsSeq(saves')
      /\ LastOf(saves) = IF saves' = <<>> THEN Head(saves) ELSE LastOf(saves')
  BY <1>1, Taken DEF SavedInOrder
<1>3. Current' = Current
  BY <1>1 DEF Current, Config, reg
<1> QED BY <1>1, <1>2, <1>3 DEF SavedInOrder, Stored

-----------------------------------------------------------------------------
(* Registry: each step *)

\* Most operations of the admin API announce what they did to everybody.
LEMMA Announces ==
    ASSUME IInv, NEW r, Becomes(r), Announced(reg'), Strays, Others
    PROVE  IInv'
<1>1. Becomes(reg')
  BY DEF Becomes, reg
<1>2. Updated(reg') /\ Streams(reg', mail)
  BY DEF Announced
<1>3. ToldInOrder'
  <2>1. \A s \in Slaves : IsSeq(mail[s]) /\ (conn[s] # "registered" => mail[s] = <<>>)
    BY DEF IInv, ToldInOrder
  <2> QED BY <1>1, <1>2, <2>1, StreamsTold DEF IInv, Others
<1>4. SavedInOrder'
  BY <1>2, ChangeSaved DEF IInv, Others
<1> QED BY <1>3, <1>4 DEF IInv

LEMMA StreamStep ==
    ASSUME IInv, NEW k, NEW new,
           CreateStream(k, new) \/ UpdateStream(k, new) \/ RemoveStream(k)
    PROVE  IInv'
<1>1. \E r : Becomes(r)
  BY DEF CreateStream, UpdateStream, RemoveStream
<1>2. Announced(reg') /\ Strays /\ Others
  BY DEF CreateStream, UpdateStream, RemoveStream
<1> QED BY <1>1, <1>2, Announces

LEMMA MountStep ==
    ASSUME IInv, NEW k, NEW new, CreateMount(k) \/ UpdateMount(k, new) \/ RemoveMount(k)
    PROVE  IInv'
<1>1. UNCHANGED <<streams, obj>>
  BY DEF CreateMount, UpdateMount, RemoveMount, NewMount, MountConfigured, reg, Becomes
<1>2. Strays /\ Others /\ UNCHANGED <<cached, mail>>
  BY DEF CreateMount, UpdateMount, RemoveMount
<1>3. ToldInOrder'
  BY <1>1, <1>2, MountsUntold DEF IInv, Others
<1>4. Updated(reg') \/ UNCHANGED saves
  BY DEF CreateMount, UpdateMount, RemoveMount
<1>5. CASE Updated(reg')
  <2>1. Becomes(reg')
    BY DEF Becomes, reg
  <2>2. SavedInOrder'
    BY <1>2, <1>5, <2>1, ChangeSaved DEF IInv, Others
  <2> QED BY <1>3, <2>2 DEF IInv
<1>6. CASE UNCHANGED saves
  <2>1. SavedInOrder'
    BY <1>1, <1>2, <1>6, MountsUnsaved DEF IInv, Others, Strays
  <2> QED BY <1>3, <2>1 DEF IInv
<1> QED BY <1>4, <1>5, <1>6

LEMMA ConfigureStep ==
    ASSUME IInv, NEW keys, NEW keyed, Load \/ HandoffConfigure(keys, keyed)
    PROVE  IInv'
<1>1. CASE Load
  <2>1. ToldInOrder'
    <3>1. CASE reply = {}
      BY <1>1, <3>1, MountsUntold DEF IInv, Load, regVars
    <3>2. CASE reply # {}
      <4>1. PICK c \in reply : Configure(c)
        BY <1>1, <3>2 DEF Load
      <4>2. UNCHANGED <<conn, runs>>
        BY <1>1 DEF Load
      <4> QED BY <4>1, <4>2, ConfigureTold DEF IInv
    <3> QED BY <3>1, <3>2
  <2> QED BY <1>1, <2>1, LoadSaved DEF IInv
<1>2. CASE HandoffConfigure(keys, keyed)
  <2>1. PICK c : Configure(c)
    BY <1>2 DEF HandoffConfigure
  <2>2. strayed' /\ UNCHANGED <<conn, runs, saved>>
    BY <1>2 DEF HandoffConfigure, Others
  <2>3. ToldInOrder'
    BY <2>1, <2>2, ConfigureTold DEF IInv
  <2>4. IsSeq(saves')
    BY <2>1, ConfigureSaved DEF IInv, SavedInOrder
  <2> QED BY <2>2, <2>3, <2>4 DEF IInv, SavedInOrder
<1> QED BY <1>1, <1>2

LEMMA SendUpdateStep ==
    ASSUME IInv, SendUpdate
    PROVE  IInv'
<1>1. /\ mail' = Send(mail, Current)
      /\ UNCHANGED <<regVars, cached, saveVars, conn, runs>>
  BY DEF SendUpdate, Current
<1>2. SavedInOrder'
  BY <1>1, MountsUnsaved DEF IInv, regVars, saveVars
<1>3. Current' = Current
  BY <1>1 DEF Current, Config, reg, regVars
<1>4. \A s \in Slaves : IsSeq(mail[s])
  BY DEF IInv, ToldInOrder
<1>5. mail' = [s \in Slaves |-> mail'[s]]
  BY <1>1, <1>4, Broadcast DEF IInv
<1>6. \A s \in Slaves :
        /\ IsSeq(mail'[s])
        /\ conn[s] # "registered" => mail'[s] = mail[s]
        /\ conn[s] = "registered" => mail'[s] # <<>> /\ LastOf(mail'[s]) = Current
  BY <1>1, <1>4, Broadcast DEF IInv
<1>7. ToldInOrder'
  BY <1>1, <1>3, <1>5, <1>6 DEF IInv, ToldInOrder
<1> QED BY <1>2, <1>7 DEF IInv

LEMMA CrashStep ==
    ASSUME IInv, MasterCrash
    PROVE  IInv'
<1>1. ToldInOrder'
  BY Empty DEF IInv, ToldInOrder, MasterCrash
<1>2. DOMAIN streams' = {}
  BY DEF MasterCrash, Becomes, Nothing, Nobody
<1>3. SavedInOrder'
  BY <1>2, Empty DEF IInv, SavedInOrder, MasterCrash
<1> QED BY <1>1, <1>3 DEF IInv

LEMMA SlaveStepKeeps ==
    ASSUME IInv, NEW s \in Slaves, SlaveStep(s)
    PROVE  IInv'
<1> USE DEF IInv
<1>1. SlaveOthers
  BY DEF SlaveStep, Connect, Register, Receive, Lose
<1>2. SavedInOrder'
  BY <1>1, MountsUnsaved DEF SlaveOthers, regVars, saveVars
<1>3. Current' = Current /\ cached' = cached
  BY <1>1 DEF SlaveOthers, Current, Config, reg, regVars
<1>4. CASE Connect(s)
  <2>1. /\ conn[s] = "off" /\ conn' = [conn EXCEPT ![s] = "connected"]
        /\ mail' = mail /\ runs' = runs
    BY <1>4 DEF Connect
  <2>2. ToldInOrder'
    BY <1>3, <2>1 DEF ToldInOrder
  <2> QED BY <1>2, <2>2
<1>5. CASE Register(s)
  <2>1. conn[s] = "connected" /\ conn' = [conn EXCEPT ![s] = "registered"] /\ runs' = runs
    BY <1>5 DEF Register
  <2>2. mail' = IF cached = Unset THEN mail ELSE [mail EXCEPT ![s] = Append(@, cached)]
    BY <1>5 DEF Register, Ok
  <2>3. IsSeq(mail[s])
    BY DEF ToldInOrder
  <2>4. /\ IsSeq(Append(mail[s], cached)) /\ Append(mail[s], cached) # <<>>
        /\ LastOf(Append(mail[s], cached)) = cached
    BY <2>3, Appended
  <2>5. ToldInOrder'
    BY <1>3, <2>1, <2>2, <2>4 DEF ToldInOrder
  <2> QED BY <1>2, <2>5
<1>6. CASE Receive(s)
  <2>1. /\ mail[s] # <<>> /\ runs' = [runs EXCEPT ![s] = Head(mail[s])]
        /\ mail' = [mail EXCEPT ![s] = Tail(mail[s])] /\ conn' = conn
    BY <1>6 DEF Receive
  <2>2. /\ IsSeq(Tail(mail[s]))
        /\ LastOf(mail[s]) = IF Tail(mail[s]) = <<>> THEN Head(mail[s])
                             ELSE LastOf(Tail(mail[s]))
    BY <2>1, Taken DEF ToldInOrder
  <2>3. ToldInOrder'
    BY <1>3, <2>1, <2>2 DEF ToldInOrder
  <2> QED BY <1>2, <2>3
<1>7. CASE Lose(s)
  <2>1. /\ conn' = [conn EXCEPT ![s] = "off"] /\ mail' = [mail EXCEPT ![s] = <<>>]
        /\ runs' = runs
    BY <1>7 DEF Lose
  <2>2. ToldInOrder'
    BY <1>3, <2>1, Empty DEF ToldInOrder
  <2> QED BY <1>2, <2>2
<1> QED BY <1>2, <1>4, <1>5, <1>6, <1>7 DEF SlaveStep

LEMMA Initially == RegistryInit => IInv
<1> SUFFICES ASSUME RegistryInit PROVE IInv
  OBVIOUS
<1>1. ToldInOrder
  BY Empty DEF RegistryInit, ToldInOrder
<1>2. SavedInOrder
  BY Empty DEF RegistryInit, SavedInOrder, Nobody
<1> QED BY <1>1, <1>2 DEF IInv

LEMMA StepKeeps == IInv /\ [RegistryNext]_registryVars => IInv'
<1> SUFFICES ASSUME IInv, [RegistryNext]_registryVars PROVE IInv'
  OBVIOUS
<1>1. CASE UNCHANGED registryVars
  BY <1>1, MountsUntold, MountsUnsaved DEF IInv, registryVars, regVars, saveVars, slaveVars
<1>2. CASE Load \/ \E keys \in SUBSET Keys, keyed \in BOOLEAN : HandoffConfigure(keys, keyed)
  BY <1>2, ConfigureStep
<1>3. CASE SendUpdate
  BY <1>3, SendUpdateStep
<1>4. CASE Saved
  BY <1>4, SavedSaved, MountsUntold DEF IInv, Saved, regVars, slaveVars
<1>5. CASE MasterCrash
  BY <1>5, CrashStep
<1>6. CASE \E k \in Keys : \/ \E source \in (Keys \ {k}) \cup {NoKey} : CreateStream(k, source)
                           \/ CreateMount(k)
  BY <1>6, StreamStep, MountStep
<1>7. CASE \E k \in DOMAIN reg.streams :
             RemoveStream(k) \/ \E new \in Keys \cup {NoKey} : UpdateStream(k, new)
  BY <1>7, StreamStep
<1>8. CASE \E k \in DOMAIN reg.mounts :
             RemoveMount(k) \/ \E new \in Keys \cup {NoKey} : UpdateMount(k, new)
  BY <1>8, MountStep
<1>9. CASE \E s \in Slaves : SlaveStep(s)
  BY <1>9, SlaveStepKeeps
<1> QED BY <1>1, <1>2, <1>3, <1>4, <1>5, <1>6, <1>7, <1>8, <1>9 DEF RegistryNext, MasterStep

\* What slaves and Redis hold is the registry's last word, or that is on its way.
THEOREM InOrder == RegistrySpec => []IInv
<1> QED BY Initially, StepKeeps, PTL DEF RegistrySpec

\* Whatever is changed, lost and restarted, and in any order, a registered slave
\* with nothing on its way to it runs the streams of the registry (updateConfig and
\* "ok" of MasterIO, configureStreams of Slave).
THEOREM SlavesAreInStep == RegistrySpec => []SlavesInStep
<1>1. IInv => SlavesInStep
  BY DEF IInv, ToldInOrder, SlavesInStep, InStep, Current
<1> QED BY <1>1, InOrder, PTL

\* Once all saves have reached Redis, it holds the registry's streams, as long as
\* the registry was not changed behind its back (RedisConfig, "config_update").
THEOREM RedisIsCurrent == RegistrySpec => []StoredIsCurrent
<1>1. IInv => StoredIsCurrent
  BY DEF IInv, SavedInOrder, Stored, StoredIsCurrent, Current
<1> QED BY <1>1, InOrder, PTL

-----------------------------------------------------------------------------
(* Registry: objects and keys *)

\* The types of what the registry and its configurations are made of
Optional == Keys \cup {NoKey}
Options == [okey : Optional, source : Optional, at : Nat]
StreamObjects == [key : Optional, opts : Options, hooked : BOOLEAN, mount : Nat, live : BOOLEAN]
MountObjects == [key : Optional, okey : Optional]
Configs == [streams : UNION {[D -> Options] : D \in SUBSET Keys},
            sources : UNION {[D -> Optional] : D \in SUBSET Keys}]

\* Every key that is registered is one, and leads to an object.
Registered(r) ==
    /\ r = [streams |-> r.streams, mounts |-> r.mounts, proxies |-> r.proxies,
            obj |-> r.obj, mnt |-> r.mnt]
    /\ r.obj \in Seq(StreamObjects) /\ r.mnt \in Seq(MountObjects)
    /\ DOMAIN r.streams \subseteq Keys /\ r.streams \in [DOMAIN r.streams -> 1 .. Len(r.obj)]
    /\ DOMAIN r.mounts \subseteq Keys /\ r.mounts \in [DOMAIN r.mounts -> 1 .. Len(r.mnt)]

RegistryInv ==
    /\ Registered(reg)
    /\ saved \subseteq Configs /\ reply \subseteq Configs /\ saves \in Seq(Configs)
    /\ changes \in Nat /\ mishaps \in Nat

\* No mount of r is lost in x.
Keeps(r, x) == RangeOf(r.mounts) \subseteq RangeOf(x.mounts)

LEMMA LeastNumber ==
    ASSUME NEW S \in SUBSET Nat, S # {}
    PROVE  \E n \in S : \A m \in S : n <= m
<1> DEFINE R == OpToRel(<, Nat)
<1>1. IsWellFoundedOn(R, Nat)
  BY NatLessThanWellFounded
<1>2. PICK n \in S : \A m \in S : ~(<<m, n>> \in R)
  <2> HIDE DEF R
  <2> QED
    BY <1>1, WFMin, Zenon
<1>3. ASSUME NEW m \in S, m < n PROVE FALSE
  <2>1. <<m, n>> \in R
    BY <1>3 DEF OpToRel
  <2> QED
    BY <1>2, <2>1
<1>4. \A m \in S : m \in Nat /\ n \in Nat
  OBVIOUS
<1> QED
  BY <1>3, <1>4

LEMMA ElementsChange ==
    ASSUME NEW S, NEW q \in Seq(S), NEW p, p = [i \in DOMAIN q |-> p[i]],
           \A i \in DOMAIN q : p[i] \in S
    PROVE  p \in Seq(S) /\ Len(p) = Len(q)
<1>1. DOMAIN q = 1 .. Len(q) /\ Len(q) \in Nat
  OBVIOUS
<1>2. p \in [1 .. Len(q) -> S]
  BY <1>1
<1> QED
  BY <1>1, <1>2, SeqDef, LenProperties

LEMMA MountAdded ==
    ASSUME NEW r, Registered(r), NEW k \in Keys, k \notin DOMAIN r.mounts, NEW okey \in Optional
    PROVE  Registered(NewMount(r, k, okey)) /\ Keeps(r, NewMount(r, k, okey))
<1> DEFINE x == NewMount(r, k, okey)
           m == [key |-> k, okey |-> okey]
<1>1. x = [streams |-> r.streams, mounts |-> With(r.mounts, k, Len(r.mnt) + 1),
           proxies |-> r.proxies, obj |-> r.obj, mnt |-> Append(r.mnt, m)]
  <2>1. r = [streams |-> r.streams, mounts |-> r.mounts, proxies |-> r.proxies,
             obj |-> r.obj, mnt |-> r.mnt]
    BY DEF Registered
  <2>2. x = [r EXCEPT !.mnt = Append(r.mnt, m), !.mounts = With(@, k, Len(r.mnt) + 1)]
    BY DEF NewMount
  <2> HIDE DEF x, m
  <2> QED
    BY <2>1, <2>2
<1>2. m \in MountObjects
  BY DEF MountObjects, Optional
<1>3. /\ Append(r.mnt, m) \in Seq(MountObjects)
      /\ Len(r.mnt) \in Nat /\ Len(Append(r.mnt, m)) = Len(r.mnt) + 1
  BY <1>2 DEF Registered
<1>4. /\ DOMAIN x.mounts = DOMAIN r.mounts \cup {k}
      /\ x.mounts[k] = Len(r.mnt) + 1
      /\ \A j \in DOMAIN r.mounts : x.mounts[j] = r.mounts[j]
      /\ x.mounts = [j \in DOMAIN x.mounts |-> x.mounts[j]]
  BY <1>1 DEF With
<1>5. x.mnt = Append(r.mnt, m) /\ x.obj = r.obj /\ x.streams = r.streams
  BY <1>1
<1>6. x = [streams |-> x.streams, mounts |-> x.mounts, proxies |-> x.proxies,
           obj |-> x.obj, mnt |-> x.mnt]
  BY <1>1
<1> HIDE DEF x, m
<1>7. \A j \in DOMAIN x.mounts : x.mounts[j] \in 1 .. Len(x.mnt)
  BY <1>3, <1>4, <1>5 DEF Registered
<1>8. Registered(x)
  BY <1>3, <1>4, <1>5, <1>6, <1>7 DEF Registered
<1>9. Keeps(r, x)
  BY <1>4 DEF Keeps, RangeOf
<1> QED
  BY <1>8, <1>9 DEF x

\* The mount a stream's options ask for is there, or is started.
LEMMA MountProvided ==
    ASSUME NEW r, Registered(r), NEW k \in Keys, NEW o \in Options
    PROVE  /\ Registered(Mounted(r, k, o)) /\ Keeps(r, Mounted(r, k, o))
           /\ Mounted(r, k, o).obj = r.obj
           /\ MountOf(k, o) \in DOMAIN Mounted(r, k, o).mounts
<1> DEFINE mk == MountOf(k, o)
           r1 == Mounted(r, k, o)
<1>1. mk \in Keys /\ NoKey \in Optional
  BY DEF Options, Optional, MountOf
<1>2. r1 = IF mk \in DOMAIN r.mounts THEN r ELSE NewMount(r, mk, NoKey)
  BY DEF Mounted
<1> HIDE DEF mk, r1
<1>3. CASE mk \in DOMAIN r.mounts
  BY <1>2, <1>3 DEF Keeps, mk, r1
<1>4. CASE mk \notin DOMAIN r.mounts
  <2>1. r1 = NewMount(r, mk, NoKey)
    BY <1>2, <1>4
  <2>2. Registered(r1) /\ Keeps(r, r1)
    BY <1>1, <1>4, <2>1, MountAdded
  <2>3. r1 = [streams |-> r.streams, mounts |-> With(r.mounts, mk, Len(r.mnt) + 1),
              proxies |-> r.proxies, obj |-> r.obj,
              mnt |-> Append(r.mnt, [key |-> mk, okey |-> NoKey])]
    BY <2>1 DEF NewMount, Registered
  <2>4. r1.obj = r.obj /\ mk \in DOMAIN r1.mounts
    BY <2>3 DEF With
  <2> QED
    BY <2>2, <2>4 DEF mk, r1
<1> QED
  BY <1>3, <1>4

LEMMA StreamAdded ==
    ASSUME NEW r, Registered(r), NEW k \in Keys, NEW o \in Options
    PROVE  Registered(NewStream(r, k, o)) /\ Keeps(r, NewStream(r, k, o))
<1> DEFINE mk == MountOf(k, o)
           r1 == Mounted(r, k, o)
           proxied == k \notin DOMAIN r.proxies
           s == [key |-> k, opts |-> o, hooked |-> proxied, mount |-> r1.mounts[mk], live |-> TRUE]
           x == NewStream(r, k, o)
<1>2. NoKey \in Optional /\ k \in Optional
  BY DEF Optional
<1>3. Registered(r1) /\ Keeps(r, r1)
  BY MountProvided
<1>4. r1.obj = r.obj /\ mk \in DOMAIN r1.mounts
  BY MountProvided
<1> HIDE DEF mk
<1> HIDE DEF r1
<1>5. r1.mounts[mk] \in Nat
  BY <1>3, <1>4 DEF Registered
<1>6. s \in StreamObjects
  BY <1>2, <1>5 DEF StreamObjects
<1>7. x = [streams |-> With(r1.streams, k, Len(r.obj) + 1), mounts |-> r1.mounts,
           proxies |-> IF proxied THEN With(r1.proxies, k, Len(r.obj) + 1) ELSE r1.proxies,
           obj |-> Append(r1.obj, s), mnt |-> r1.mnt]
  <2>1. r1 = [streams |-> r1.streams, mounts |-> r1.mounts, proxies |-> r1.proxies,
              obj |-> r1.obj, mnt |-> r1.mnt]
    BY <1>3 DEF Registered
  <2>2. x = [r1 EXCEPT !.obj = Append(@, s), !.streams = With(@, k, Len(r.obj) + 1),
                       !.proxies = IF proxied THEN With(@, k, Len(r.obj) + 1) ELSE @]
    BY DEF NewStream, r1, mk
  <2> HIDE DEF x, s, proxied
  <2> QED
    BY <2>1, <2>2
<1> HIDE DEF s, proxied
<1>8. /\ DOMAIN x.streams = DOMAIN r1.streams \cup {k}
      /\ x.streams[k] = Len(r.obj) + 1
      /\ \A j \in DOMAIN r1.streams \ {k} : x.streams[j] = r1.streams[j]
      /\ x.streams = [j \in DOMAIN x.streams |-> x.streams[j]]
  <2>1. x.streams = With(r1.streams, k, Len(r.obj) + 1)
    BY <1>7
  <2> HIDE DEF x
  <2> QED
    BY <2>1 DEF With
<1>9. x.obj = Append(r1.obj, s) /\ x.mounts = r1.mounts /\ x.mnt = r1.mnt
  BY <1>7
<1>10. x = [streams |-> x.streams, mounts |-> x.mounts, proxies |-> x.proxies,
            obj |-> x.obj, mnt |-> x.mnt]
  BY <1>7
<1> HIDE DEF x
<1>11. x.obj \in Seq(StreamObjects) /\ Len(r1.obj) \in Nat /\ Len(x.obj) = Len(r1.obj) + 1
  BY <1>3, <1>6, <1>9 DEF Registered
<1>12. \A j \in DOMAIN x.streams : x.streams[j] \in 1 .. Len(x.obj)
  BY <1>3, <1>4, <1>8, <1>11 DEF Registered
<1>13. Registered(x)
  BY <1>3, <1>8, <1>9, <1>10, <1>11, <1>12 DEF Registered
<1> QED
  BY <1>3, <1>9, <1>13 DEF Keeps, x


\* A stream object takes another configuration, a mount the key among its options.
LEMMA StreamReconfigured ==
    ASSUME NEW r, Registered(r), NEW id, NEW o, o.okey \in Optional, o.at \in Nat
    PROVE  /\ Registered(Reconfigure(r, id, o))
           /\ Reconfigure(r, id, o).mounts = r.mounts
           /\ Reconfigure(r, id, o).streams = r.streams
           /\ Reconfigure(r, id, o).mnt = r.mnt
<1> DEFINE okey == IF o.okey = NoKey THEN r.obj[id].opts.okey ELSE o.okey
           s == [[r.obj[id] EXCEPT !.opts = [@ EXCEPT !.okey = okey, !.at = o.at]] EXCEPT !.key = okey]
           obj2 == [r.obj EXCEPT ![id] = s]
           x == Reconfigure(r, id, o)
<1>1. r = [streams |-> r.streams, mounts |-> r.mounts, proxies |-> r.proxies,
           obj |-> r.obj, mnt |-> r.mnt]
  BY DEF Registered
<1>2. x = [r EXCEPT !.obj = [[r.obj EXCEPT ![id].opts = [@ EXCEPT !.okey = okey, !.at = o.at]]
                                EXCEPT ![id].key = okey]]
  <2>1. x = [r EXCEPT !.obj[id].opts = [@ EXCEPT !.okey = okey, !.at = o.at],
                      !.obj[id].key = okey]
    BY DEF Reconfigure
  <2> HIDE DEF x, okey
  <2> QED
    BY <1>1, <2>1
<1> DEFINE objects == [[r.obj EXCEPT ![id].opts = [@ EXCEPT !.okey = okey, !.at = o.at]]
                         EXCEPT ![id].key = okey]
<1>3. \A i \in DOMAIN r.obj : objects[i] \in StreamObjects
  <2> SUFFICES ASSUME NEW i \in DOMAIN r.obj PROVE objects[i] \in StreamObjects
    OBVIOUS
  <2>1. r.obj[i] \in StreamObjects
    BY DEF Registered
  <2>2. CASE i # id
    BY <2>1, <2>2
  <2>3. CASE i = id
    <3> DEFINE old == r.obj[id]
    <3>1. old \in StreamObjects /\ old.opts \in Options
      BY <2>1, <2>3 DEF StreamObjects
    <3>2. okey \in Optional
      BY <3>1 DEF Options
    <3>3. objects[id] = [[old EXCEPT !.opts = [@ EXCEPT !.okey = okey, !.at = o.at]]
                           EXCEPT !.key = okey]
      BY <2>3
    <3> HIDE DEF old, okey, objects
    <3>4. [old.opts EXCEPT !.okey = okey, !.at = o.at] \in Options
      BY <3>1, <3>2 DEF Options
    <3>5. objects[id] \in StreamObjects
      BY <3>1, <3>2, <3>3, <3>4 DEF StreamObjects
    <3> QED
      BY <2>3, <3>5
  <2> QED
    BY <2>2, <2>3
<1>4. objects = [i \in DOMAIN r.obj |-> objects[i]]
  OBVIOUS
<1>5. r.obj \in Seq(StreamObjects)
  BY DEF Registered
<1> HIDE DEF objects
<1>6. objects \in Seq(StreamObjects) /\ Len(objects) = Len(r.obj)
  BY <1>3, <1>4, <1>5, ElementsChange
<1>7. x = [streams |-> r.streams, mounts |-> r.mounts, proxies |-> r.proxies,
           obj |-> objects, mnt |-> r.mnt]
  <2>1. x = [r EXCEPT !.obj = objects]
    BY <1>2 DEF objects
  <2> HIDE DEF x
  <2> QED
    BY <1>1, <2>1
<1> HIDE DEF x
<1>8. Registered(x)
  BY <1>6, <1>7 DEF Registered
<1> QED
  BY <1>7, <1>8 DEF x

LEMMA StreamDestroyed ==
    ASSUME NEW r, Registered(r), NEW id
    PROVE  /\ Registered(Destroy(r, id))
           /\ Destroy(r, id).mounts = r.mounts
           /\ Destroy(r, id).streams = r.streams
<1> DEFINE x == Destroy(r, id)
           objects == [[r.obj EXCEPT ![id].live = FALSE] EXCEPT ![id].hooked = FALSE]
           left == IF r.obj[id].hooked THEN Without(r.proxies, r.obj[id].key) ELSE r.proxies
<1>1. r = [streams |-> r.streams, mounts |-> r.mounts, proxies |-> r.proxies,
           obj |-> r.obj, mnt |-> r.mnt]
  BY DEF Registered
<1>2. x = [streams |-> r.streams, mounts |-> r.mounts, proxies |-> left,
           obj |-> objects, mnt |-> r.mnt]
  <2>1. x = [r EXCEPT !.obj[id].live = FALSE, !.obj[id].hooked = FALSE, !.proxies = left]
    BY <1>1 DEF Destroy
  <2> HIDE DEF x, left
  <2> QED
    BY <1>1, <2>1
<1>3. \A i \in DOMAIN r.obj : objects[i] \in StreamObjects
  <2> SUFFICES ASSUME NEW i \in DOMAIN r.obj PROVE objects[i] \in StreamObjects
    OBVIOUS
  <2>1. r.obj[i] \in StreamObjects
    BY DEF Registered
  <2>2. objects[i] \in {r.obj[i], [[r.obj[i] EXCEPT !.live = FALSE] EXCEPT !.hooked = FALSE]}
    OBVIOUS
  <2> QED
    BY <2>1, <2>2 DEF StreamObjects
<1>4. objects = [i \in DOMAIN r.obj |-> objects[i]]
  OBVIOUS
<1>5. r.obj \in Seq(StreamObjects)
  BY DEF Registered
<1> HIDE DEF objects, x
<1>6. objects \in Seq(StreamObjects) /\ Len(objects) = Len(r.obj)
  BY <1>3, <1>4, <1>5, ElementsChange
<1>7. Registered(x)
  BY <1>2, <1>6 DEF Registered
<1> QED
  BY <1>2, <1>7 DEF x

LEMMA MountReconfigured ==
    ASSUME NEW r, Registered(r), NEW m
    PROVE  Registered(MountConfigured(r, m)) /\ MountConfigured(r, m).mounts = r.mounts
<1> DEFINE x == MountConfigured(r, m)
           objects == [r.mnt EXCEPT ![m].key = r.mnt[m].okey]
<1>1. r = [streams |-> r.streams, mounts |-> r.mounts, proxies |-> r.proxies,
           obj |-> r.obj, mnt |-> r.mnt]
  BY DEF Registered
<1>2. x = [streams |-> r.streams, mounts |-> r.mounts, proxies |-> r.proxies,
           obj |-> r.obj, mnt |-> objects]
  <2>1. x = [r EXCEPT !.mnt[m].key = r.mnt[m].okey]
    BY DEF MountConfigured
  <2> HIDE DEF x
  <2> QED
    BY <1>1, <2>1
<1>3. \A i \in DOMAIN r.mnt : objects[i] \in MountObjects
  <2> SUFFICES ASSUME NEW i \in DOMAIN r.mnt PROVE objects[i] \in MountObjects
    OBVIOUS
  <2>1. r.mnt[i] \in MountObjects
    BY DEF Registered
  <2> QED
    BY <2>1 DEF MountObjects
<1>4. objects = [i \in DOMAIN r.mnt |-> objects[i]]
  OBVIOUS
<1>5. r.mnt \in Seq(MountObjects)
  BY DEF Registered
<1> HIDE DEF objects, x
<1>6. objects \in Seq(MountObjects) /\ Len(objects) = Len(r.mnt)
  BY <1>3, <1>4, <1>5, ElementsChange
<1>7. Registered(x)
  BY <1>2, <1>6 DEF Registered
<1> QED
  BY <1>2, <1>7 DEF x

\* A stream leaves the registry.
LEMMA StreamUnregistered ==
    ASSUME NEW r, Registered(r), NEW k
    PROVE  /\ Registered([r EXCEPT !.streams = Without(@, k)])
           /\ [r EXCEPT !.streams = Without(@, k)].mounts = r.mounts
<1> DEFINE x == [r EXCEPT !.streams = Without(@, k)]
<1>1. r = [streams |-> r.streams, mounts |-> r.mounts, proxies |-> r.proxies,
           obj |-> r.obj, mnt |-> r.mnt]
  BY DEF Registered
<1>2. x = [streams |-> Without(r.streams, k), mounts |-> r.mounts, proxies |-> r.proxies,
           obj |-> r.obj, mnt |-> r.mnt]
  BY <1>1
<1> HIDE DEF x
<1>3. x.streams = Without(r.streams, k)
  BY <1>2
<1>4. /\ DOMAIN x.streams = DOMAIN r.streams \ {k}
      /\ \A j \in DOMAIN x.streams : x.streams[j] = r.streams[j]
      /\ x.streams = [j \in DOMAIN x.streams |-> x.streams[j]]
  BY <1>3 DEF Without
<1>5. \A j \in DOMAIN x.streams : x.streams[j] \in 1 .. Len(r.obj)
  BY <1>4 DEF Registered
<1>6. Registered(x)
  BY <1>2, <1>4, <1>5 DEF Registered
<1> QED
  BY <1>2, <1>6 DEF x

-----------------------------------------------------------------------------
(* Registry: one object of a configuration after the other *)

\* What configure does with one key of a configuration, in its four passes
One(pass, c, r, k) ==
    CASE pass = "mounts" -> IF k \in DOMAIN r.mounts THEN MountConfigured(r, r.mounts[k])
                            ELSE NewMount(r, k, c.sources[k])
      [] pass = "gone" -> [Destroy(r, r.streams[k]) EXCEPT !.streams = Without(@, k)]
      [] pass = "kept" -> Reconfigure(Mounted(r, k, c.streams[k]), r.streams[k], c.streams[k])
      [] pass = "new" -> NewStream(r, k, c.streams[k])

\* The keys that a pass may be given
Due(pass, c) == CASE pass = "mounts" -> DOMAIN c.sources [] pass = "gone" -> Keys
                  [] OTHER -> DOMAIN c.streams
Pass == {"mounts", "gone", "kept", "new"}

LEMMA OneKeeps ==
    ASSUME NEW pass \in Pass, NEW c \in Configs, NEW r, Registered(r),
           NEW k \in Due(pass, c)
    PROVE  Registered(One(pass, c, r, k)) /\ Keeps(r, One(pass, c, r, k))
<1>1. /\ DOMAIN c.sources \subseteq Keys /\ \A j \in DOMAIN c.sources : c.sources[j] \in Optional
      /\ DOMAIN c.streams \subseteq Keys /\ \A j \in DOMAIN c.streams : c.streams[j] \in Options
  BY DEF Configs
<1>2. CASE pass = "mounts"
  <2>1. k \in DOMAIN c.sources
    BY <1>2 DEF Due
  <2> QED
    BY <1>1, <1>2, <2>1, MountAdded, MountReconfigured DEF One, Keeps
<1>3. CASE pass = "gone"
  <2> DEFINE x == Destroy(r, r.streams[k])
             y == [x EXCEPT !.streams = Without(@, k)]
  <2>1. Registered(x) /\ x.mounts = r.mounts
    BY StreamDestroyed
  <2>2. One(pass, c, r, k) = y
    BY <1>3 DEF One
  <2> HIDE DEF x
  <2>3. Registered(y) /\ y.mounts = x.mounts
    BY <2>1, StreamUnregistered
  <2> HIDE DEF y
  <2> QED
    BY <2>1, <2>2, <2>3 DEF Keeps
<1>4. CASE pass = "kept"
  <2>1. k \in DOMAIN c.streams
    BY <1>4 DEF Due
  <2> DEFINE x == Mounted(r, k, c.streams[k])
  <2>2. c.streams[k] \in Options /\ k \in Keys
    BY <1>1, <2>1
  <2>3. c.streams[k].okey \in Optional /\ c.streams[k].at \in Nat
    BY <2>2 DEF Options
  <2>4. Registered(x) /\ Keeps(r, x)
    BY <2>2, MountProvided
  <2>5. One(pass, c, r, k) = Reconfigure(x, r.streams[k], c.streams[k])
    BY <1>4 DEF One
  <2> HIDE DEF x
  <2> QED
    BY <2>3, <2>4, <2>5, StreamReconfigured DEF Keeps
<1>5. CASE pass = "new"
  <2>1. k \in DOMAIN c.streams
    BY <1>5 DEF Due
  <2> QED
    BY <1>1, <1>5, <2>1, StreamAdded DEF One
<1> QED
  BY <1>2, <1>3, <1>4, <1>5 DEF Pass

\* A pass over the keys of S that leads to g[s] when those of s are done
Folded(g, pass, c, r, S) ==
    g = [s \in SUBSET S |->
           IF s = {} THEN r
           ELSE LET k == CHOOSE k \in s : TRUE IN One(pass, c, g[s \ {k}], k)]

\* The set of one key fewer
Rest(s) == s \ {CHOOSE k \in s : TRUE}

LEMMA RestIs ==
    ASSUME NEW s, IsFiniteSet(s), s # {}
    PROVE  /\ IsFiniteSet(Rest(s)) /\ Rest(s) \subseteq s /\ (CHOOSE k \in s : TRUE) \in s
           /\ Cardinality(s) \in Nat \ {0} /\ Cardinality(Rest(s)) = Cardinality(s) - 1
<1> DEFINE k == CHOOSE k \in s : TRUE
<1>1. k \in s
  OBVIOUS
<1> HIDE DEF k
<1>2. /\ IsFiniteSet(s \ {k}) /\ Cardinality(s \ {k}) = Cardinality(s) - 1
      /\ Cardinality(s) \in Nat
  BY <1>1, FS_RemoveElement, FS_CardinalityType
<1>3. Cardinality(s) # 0
  BY FS_EmptySet
<1> QED
  BY <1>1, <1>2, <1>3 DEF Rest, k

LEMMA PassEnds ==
    ASSUME NEW pass, NEW c, NEW r, NEW S, IsFiniteSet(S)
    PROVE  \E g : Folded(g, pass, c, r, S)
<1> DEFINE Small(n) == {s \in SUBSET S : Cardinality(s) <= n}
           Comes(g, s) == IF s = {} THEN r ELSE One(pass, c, g[Rest(s)], CHOOSE k \in s : TRUE)
           Is(g, n) == g = [s \in Small(n) |-> Comes(g, s)]
           Open == {n \in Nat : ~ \E g : Is(g, n)}
<1>1. \A s \in SUBSET S : IsFiniteSet(s) /\ Cardinality(s) \in Nat
  BY FS_Subset, FS_CardinalityType
<1>2. Open = {}
  <2> SUFFICES ASSUME Open # {} PROVE FALSE
    OBVIOUS
  <2>1. PICK n \in Open : \A m \in Open : n <= m
    <3>1. Open \in SUBSET Nat
      OBVIOUS
    <3> HIDE DEF Open
    <3> QED
      BY <3>1, LeastNumber
  <2>2. n \in Nat /\ ~ \E g : Is(g, n)
    OBVIOUS
  <2>3. n # 0
    <3> DEFINE g == [s \in Small(0) |-> r]
    <3>1. \A s \in Small(0) : s = {}
      BY <1>1, FS_EmptySet
    <3>2. \A s \in Small(0) : r = Comes(g, s)
      BY <3>1
    <3>3. Is(g, 0)
      <4> HIDE DEF Small, Comes
      <4> QED
        BY <3>2
    <3> HIDE DEF Is
    <3> QED
      BY <2>2, <3>3
  <2>4. n - 1 \in Nat /\ n - 1 \notin Open
    <3> HIDE DEF Open
    <3> QED
      BY <2>1, <2>2, <2>3
  <2>5. PICK g : Is(g, n - 1)
    <3> HIDE DEF Is
    <3> QED
      BY <2>4
  <2> DEFINE h == [s \in Small(n) |-> Comes(g, s)]
  <2>6. \A s \in Small(n) : Comes(h, s) = Comes(g, s)
    <3>1. ASSUME NEW s \in Small(n), s # {} PROVE h[Rest(s)] = g[Rest(s)]
      <4>1. Rest(s) \in Small(n - 1) /\ Rest(s) \in Small(n)
        BY <1>1, <2>2, <3>1, RestIs
      <4>2. h[Rest(s)] = Comes(g, Rest(s))
        BY <4>1
      <4>3. g[Rest(s)] = Comes(g, Rest(s))
        <5>1. Is(g, n - 1)
          BY <2>5
        <5> HIDE DEF Comes, Small
        <5> QED
          BY <4>1, <5>1
      <4> QED
        BY <4>2, <4>3
    <3> HIDE DEF h, Small
    <3> QED
      BY <3>1
  <2>7. Is(h, n)
    <3> HIDE DEF Comes, Small
    <3> QED
      BY <2>6
  <2> QED
    BY <2>2, <2>7
<1>3. Cardinality(S) \in Nat
  BY FS_CardinalityType
<1>4. PICK g : Is(g, Cardinality(S))
  BY <1>2, <1>3
<1>5. Small(Cardinality(S)) = SUBSET S
  BY FS_Subset
<1>6. g = [s \in SUBSET S |-> Comes(g, s)]
  <2> HIDE DEF Comes, Small
  <2> QED
    BY <1>4, <1>5
<1> QED
  BY <1>6 DEF Folded, Rest

LEMMA PassKeeps ==
    ASSUME NEW pass \in Pass, NEW c \in Configs, NEW r, Registered(r),
           NEW S \in SUBSET Due(pass, c), IsFiniteSet(S), NEW g, Folded(g, pass, c, r, S)
    PROVE  Registered(g[S]) /\ Keeps(r, g[S])
<1> DEFINE Good(s) == Registered(g[s]) /\ Keeps(r, g[s])
           Bad == {n \in Nat : \E s \in SUBSET S : Cardinality(s) = n /\ ~Good(s)}
<1>1. \A s \in SUBSET S : IsFiniteSet(s) /\ Cardinality(s) \in Nat
  BY FS_Subset, FS_CardinalityType
<1>2. Bad = {}
  <2> SUFFICES ASSUME Bad # {} PROVE FALSE
    OBVIOUS
  <2>1. PICK n \in Bad : \A m \in Bad : n <= m
    <3>1. Bad \in SUBSET Nat
      OBVIOUS
    <3> HIDE DEF Bad
    <3> QED
      BY <3>1, LeastNumber
  <2>2. PICK s \in SUBSET S : Cardinality(s) = n /\ ~Good(s)
    OBVIOUS
  <2>3. s # {}
    <3>1. g[{}] = r
      BY DEF Folded
    <3> QED
      BY <2>2, <3>1 DEF Keeps
  <2> DEFINE k == CHOOSE k \in s : TRUE
  <2>4. /\ Rest(s) \in SUBSET S /\ k \in Due(pass, c)
        /\ Cardinality(Rest(s)) \in Nat /\ Cardinality(Rest(s)) < n
    BY <1>1, <2>2, <2>3, RestIs
  <2>5. Good(Rest(s))
    BY <2>1, <2>4
  <2>6. g[s] = One(pass, c, g[Rest(s)], k)
    BY <2>3 DEF Folded, Rest
  <2> HIDE DEF k
  <2>7. Registered(g[s]) /\ Keeps(g[Rest(s)], g[s])
    BY <2>4, <2>5, <2>6, OneKeeps
  <2>8. Keeps(r, g[s])
    BY <2>5, <2>7 DEF Keeps
  <2> QED
    BY <2>2, <2>7, <2>8
<1> QED
  BY <1>1, <1>2

\* The four passes
Sourced(r, c, S) ==
    Each(LAMBDA x, k : IF k \in DOMAIN x.mounts THEN MountConfigured(x, x.mounts[k])
                       ELSE NewMount(x, k, c.sources[k]), r, S)
Left(r, S) == Each(LAMBDA x, k : [Destroy(x, x.streams[k]) EXCEPT !.streams = Without(@, k)], r, S)
Stayed(r, c, S) ==
    Each(LAMBDA x, k : Reconfigure(Mounted(x, k, c.streams[k]), x.streams[k], c.streams[k]), r, S)

LEMMA MountsPass ==
    ASSUME NEW c \in Configs, NEW r, Registered(r), NEW S \in SUBSET DOMAIN c.sources, IsFiniteSet(S)
    PROVE  Registered(Sourced(r, c, S)) /\ Keeps(r, Sourced(r, c, S))
<1> DEFINE Comes(g, s) == IF s = {} THEN r
                           ELSE LET k == CHOOSE k \in s : TRUE
                                IN  IF k \in DOMAIN g[Rest(s)].mounts
                              THEN MountConfigured(g[Rest(s)], g[Rest(s)].mounts[k])
                              ELSE NewMount(g[Rest(s)], k, c.sources[k])
           Is(g) == g = [s \in SUBSET S |-> Comes(g, s)]
           w == CHOOSE g : Is(g)
<1>1. \A g : Is(g) <=> Folded(g, "mounts", c, r, S)
  BY DEF Folded, One, Rest
<1>2. \E g : Is(g)
  <2> HIDE DEF Is
  <2> QED
    BY <1>1, PassEnds
<1>3. Is(w)
  <2> HIDE DEF Is
  <2> QED
    BY <1>2
<1>4. Sourced(r, c, S) = w[S]
  BY DEF Sourced, Each, FoldSet, MapThenFoldSet, Rest
<1> HIDE DEF w, Is
<1>5. Folded(w, "mounts", c, r, S)
  BY <1>1, <1>3
<1> QED
  BY <1>4, <1>5, PassKeeps DEF Pass, Due

LEMMA GonePass ==
    ASSUME NEW c \in Configs, NEW r, Registered(r), NEW S \in SUBSET Keys, IsFiniteSet(S)
    PROVE  Registered(Left(r, S)) /\ Keeps(r, Left(r, S))
<1> DEFINE Comes(g, s) == IF s = {} THEN r
                           ELSE LET k == CHOOSE k \in s : TRUE
                                IN  [Destroy(g[Rest(s)], g[Rest(s)].streams[k]) EXCEPT !.streams = Without(@, k)]
           Is(g) == g = [s \in SUBSET S |-> Comes(g, s)]
           w == CHOOSE g : Is(g)
<1>1. \A g : Is(g) <=> Folded(g, "gone", c, r, S)
  BY DEF Folded, One, Rest
<1>2. \E g : Is(g)
  <2> HIDE DEF Is
  <2> QED
    BY <1>1, PassEnds
<1>3. Is(w)
  <2> HIDE DEF Is
  <2> QED
    BY <1>2
<1>4. Left(r, S) = w[S]
  BY DEF Left, Each, FoldSet, MapThenFoldSet, Rest
<1> HIDE DEF w, Is
<1>5. Folded(w, "gone", c, r, S)
  BY <1>1, <1>3
<1> QED
  BY <1>4, <1>5, PassKeeps DEF Pass, Due

LEMMA KeptPass ==
    ASSUME NEW c \in Configs, NEW r, Registered(r), NEW S \in SUBSET DOMAIN c.streams, IsFiniteSet(S)
    PROVE  Registered(Stayed(r, c, S)) /\ Keeps(r, Stayed(r, c, S))
<1> DEFINE Comes(g, s) == IF s = {} THEN r
                           ELSE LET k == CHOOSE k \in s : TRUE
                                IN  Reconfigure(Mounted(g[Rest(s)], k, c.streams[k]),
                                                g[Rest(s)].streams[k], c.streams[k])
           Is(g) == g = [s \in SUBSET S |-> Comes(g, s)]
           w == CHOOSE g : Is(g)
<1>1. \A g : Is(g) <=> Folded(g, "kept", c, r, S)
  BY DEF Folded, One, Rest
<1>2. \E g : Is(g)
  <2> HIDE DEF Is
  <2> QED
    BY <1>1, PassEnds
<1>3. Is(w)
  <2> HIDE DEF Is
  <2> QED
    BY <1>2
<1>4. Stayed(r, c, S) = w[S]
  BY DEF Stayed, Each, FoldSet, MapThenFoldSet, Rest
<1> HIDE DEF w, Is
<1>5. Folded(w, "kept", c, r, S)
  BY <1>1, <1>3
<1> QED
  BY <1>4, <1>5, PassKeeps DEF Pass, Due

LEMMA NewPass ==
    ASSUME NEW c \in Configs, NEW r, Registered(r), NEW S \in SUBSET DOMAIN c.streams, IsFiniteSet(S)
    PROVE  Registered(Started(r, c, S)) /\ Keeps(r, Started(r, c, S))
<1> DEFINE Comes(g, s) == IF s = {} THEN r
                           ELSE LET k == CHOOSE k \in s : TRUE
                                IN  NewStream(g[Rest(s)], k, c.streams[k])
           Is(g) == g = [s \in SUBSET S |-> Comes(g, s)]
           w == CHOOSE g : Is(g)
<1>1. \A g : Is(g) <=> Folded(g, "new", c, r, S)
  BY DEF Folded, One, Rest
<1>2. \E g : Is(g)
  <2> HIDE DEF Is
  <2> QED
    BY <1>1, PassEnds
<1>3. Is(w)
  <2> HIDE DEF Is
  <2> QED
    BY <1>2
<1>4. Started(r, c, S) = w[S]
  BY DEF Started, Each, FoldSet, MapThenFoldSet, Rest
<1> HIDE DEF w, Is
<1>5. Folded(w, "new", c, r, S)
  BY <1>1, <1>3
<1> QED
  BY <1>4, <1>5, PassKeeps DEF Pass, Due

LEMMA WholeConfigured ==
    ASSUME NEW c \in Configs, NEW r, Registered(r),
           NEW S \in SUBSET DOMAIN c.streams
    PROVE  /\ Registered(Started(Kept(r, c), c, S))
           /\ Keeps(r, Started(Kept(r, c), c, S))
<1> DEFINE known == DOMAIN r.streams
           r1 == Sourced(r, c, DOMAIN c.sources)
           r2 == Left(r1, known \ DOMAIN c.streams)
           r3 == Stayed(r2, c, known \cap DOMAIN c.streams)
<1>1. Kept(r, c) = r3
  BY DEF Kept, Sourced, Left, Stayed
<1>2. known \subseteq Keys /\ DOMAIN c.sources \subseteq Keys /\ DOMAIN c.streams \subseteq Keys
  BY DEF Registered, Configs
<1>3. \A D \in SUBSET Keys : IsFiniteSet(D)
  BY RegistryAssumption, FS_Subset
<1>4. Registered(r1) /\ Keeps(r, r1)
  BY <1>2, <1>3, MountsPass
<1> HIDE DEF r1
<1>5. Registered(r2) /\ Keeps(r1, r2)
  BY <1>2, <1>3, <1>4, GonePass
<1> HIDE DEF r2
<1>6. Registered(r3) /\ Keeps(r2, r3)
  BY <1>2, <1>3, <1>5, KeptPass
<1> HIDE DEF r3
<1>7. Registered(Started(r3, c, S)) /\ Keeps(r3, Started(r3, c, S))
  BY <1>2, <1>3, <1>6, NewPass
<1>8. Keeps(r, Started(r3, c, S))
  BY <1>4, <1>5, <1>6, <1>7 DEF Keeps
<1> QED
  BY <1>1, <1>7, <1>8

-----------------------------------------------------------------------------
(* Registry: each step *)

LEMMA ConfigIs ==
    ASSUME NEW r, Registered(r)
    PROVE  Config(r) \in Configs
<1>1. \A k \in DOMAIN r.streams : r.obj[r.streams[k]] \in StreamObjects
  BY DEF Registered
<1>2. \A k \in DOMAIN r.mounts : r.mnt[r.mounts[k]] \in MountObjects
  BY DEF Registered
<1>3. Config(r).streams \in [DOMAIN r.streams -> Options]
  BY <1>1 DEF Config, StreamObjects
<1>4. Config(r).sources \in [DOMAIN r.mounts -> Optional]
  BY <1>2 DEF Config, MountObjects
<1>5. DOMAIN r.streams \in SUBSET Keys /\ DOMAIN r.mounts \in SUBSET Keys
  BY DEF Registered
<1>6. Config(r) = [streams |-> Config(r).streams, sources |-> Config(r).sources]
  BY DEF Config
<1> QED
  BY <1>3, <1>4, <1>5, <1>6 DEF Configs

LEMMA BecomesIs ==
    ASSUME NEW r, Registered(r), Becomes(r)
    PROVE  reg' = r
  BY DEF Registered, Becomes, reg

LEMMA OneSaved ==
    ASSUME saves \in Seq(Configs), NEW r, Registered(r), Updated(r)
    PROVE  saves' \in Seq(Configs)
<1>1. Config(r) \in Configs
  BY ConfigIs
<1> QED
  BY <1>1 DEF Updated

LEMMA ConfigureRegisters ==
    ASSUME RegistryInv, NEW c \in Configs, Configure(c)
    PROVE  Registered(reg') /\ Keeps(reg, reg') /\ saves' \in Seq(Configs)
<1> DEFINE kept == Kept(reg, c)
           new == DOMAIN c.streams \ DOMAIN reg.streams
           whole == Started(kept, c, new)
<1>1. Registered(reg) /\ saves \in Seq(Configs)
  BY DEF RegistryInv
<1>2. \A S \in SUBSET new : Registered(Started(kept, c, S)) /\ Keeps(reg, Started(kept, c, S))
  BY <1>1, WholeConfigured
<1>3. Becomes(whole)
  BY DEF Configure
<1>4. Registered(whole) /\ Keeps(reg, whole)
  BY <1>2
<1>5. saves' = saves \/ \E early \in SUBSET new : Updated(Started(kept, c, early))
  BY DEF Configure
<1> HIDE DEF whole, kept, new
<1>6. reg' = whole
  BY <1>3, <1>4, BecomesIs
<1>7. saves' \in Seq(Configs)
  BY <1>1, <1>2, <1>5, OneSaved
<1> QED
  BY <1>4, <1>6, <1>7

\* A key moves to another stream, or mount.
LEMMA StreamMoved ==
    ASSUME NEW r, Registered(r), NEW old, NEW new \in Keys, NEW k \in DOMAIN r.streams
    PROVE  /\ Registered([r EXCEPT !.streams = With(Without(@, old), new, r.streams[k])])
           /\ [r EXCEPT !.streams = With(Without(@, old), new, r.streams[k])].mounts = r.mounts
<1> DEFINE f == With(Without(r.streams, old), new, r.streams[k])
           x == [r EXCEPT !.streams = With(Without(@, old), new, r.streams[k])]
<1>1. r = [streams |-> r.streams, mounts |-> r.mounts, proxies |-> r.proxies,
           obj |-> r.obj, mnt |-> r.mnt]
  BY DEF Registered
<1>2. DOMAIN f \subseteq Keys /\ f \in [DOMAIN f -> 1 .. Len(r.obj)]
  BY DEF With, Without, Registered
<1> HIDE DEF f
<1>3. x = [streams |-> f, mounts |-> r.mounts, proxies |-> r.proxies,
           obj |-> r.obj, mnt |-> r.mnt]
  BY <1>1 DEF f
<1> HIDE DEF x
<1>4. Registered(x)
  BY <1>2, <1>3 DEF Registered
<1> QED
  BY <1>3, <1>4 DEF x

\* Mounts are registered otherwise.
LEMMA MountsMoved ==
    ASSUME NEW r, Registered(r), NEW f, DOMAIN f \subseteq Keys,
           f \in [DOMAIN f -> 1 .. Len(r.mnt)]
    PROVE  /\ Registered([r EXCEPT !.mounts = f])
           /\ [r EXCEPT !.mounts = f].mounts = f /\ [r EXCEPT !.mounts = f].mnt = r.mnt
<1> DEFINE x == [r EXCEPT !.mounts = f]
<1>1. r = [streams |-> r.streams, mounts |-> r.mounts, proxies |-> r.proxies,
           obj |-> r.obj, mnt |-> r.mnt]
  BY DEF Registered
<1>2. x = [streams |-> r.streams, mounts |-> f, proxies |-> r.proxies,
           obj |-> r.obj, mnt |-> r.mnt]
  BY <1>1
<1> HIDE DEF x
<1>3. Registered(x)
  BY <1>2 DEF Registered
<1> QED
  BY <1>2, <1>3 DEF x

LEMMA CreateStreamRegisters ==
    ASSUME RegistryInv, NEW k \in Keys, NEW source \in (Keys \ {k}) \cup {NoKey},
           CreateStream(k, source)
    PROVE  RegistryInv' /\ Keeps(reg, reg')
<1> DEFINE o == [okey |-> k, source |-> source, at |-> changes']
           x == NewStream(reg, k, o)
<1>1. Registered(reg) /\ changes' \in Nat
  BY DEF RegistryInv, CreateStream, Changes
<1>2. o \in Options
  BY <1>1 DEF Options, Optional
<1>3. Becomes(x) /\ Updated(reg')
  BY DEF CreateStream, Announced
<1> HIDE DEF o
<1>4. Registered(x) /\ Keeps(reg, x)
  BY <1>1, <1>2, StreamAdded
<1> HIDE DEF x
<1>5. reg' = x
  BY <1>3, <1>4, BecomesIs
<1>6. saves' \in Seq(Configs)
  BY <1>3, <1>4, <1>5, OneSaved DEF RegistryInv
<1>7. UNCHANGED <<saved, reply, mishaps>>
  BY DEF CreateStream, Others
<1> QED
  BY <1>1, <1>4, <1>5, <1>6, <1>7 DEF RegistryInv

LEMMA UpdateStreamRegisters ==
    ASSUME RegistryInv, NEW k \in DOMAIN reg.streams, NEW new \in Keys \cup {NoKey},
           UpdateStream(k, new)
    PROVE  RegistryInv' /\ Keeps(reg, reg')
<1> DEFINE id == reg.streams[k]
           old == reg.obj[id].key
           moved == IF new \in {NoKey, old} THEN reg
                    ELSE [reg EXCEPT !.streams = With(Without(@, old), new, id)]
           o == [okey |-> new, at |-> changes']
           x == Reconfigure(moved, id, o)
<1>1. Registered(reg) /\ changes' \in Nat
  BY DEF RegistryInv, UpdateStream, Changes
<1>2. Becomes(x) /\ Updated(reg')
  BY DEF UpdateStream, Announced
<1> HIDE DEF old
<1>3. Registered(moved) /\ moved.mounts = reg.mounts
  <2>1. CASE new \in {NoKey, old}
    BY <1>1, <2>1
  <2>2. CASE new \notin {NoKey, old}
    BY <1>1, <2>2, StreamMoved
  <2> QED
    BY <2>1, <2>2
<1>4. o.okey \in Optional /\ o.at \in Nat
  BY <1>1 DEF Optional
<1> HIDE DEF moved, o, id
<1>5. Registered(x) /\ Keeps(reg, x)
  BY <1>3, <1>4, StreamReconfigured DEF Keeps
<1> HIDE DEF x
<1>6. reg' = x
  BY <1>2, <1>5, BecomesIs
<1>7. saves' \in Seq(Configs)
  BY <1>2, <1>5, <1>6, OneSaved DEF RegistryInv
<1>8. UNCHANGED <<saved, reply, mishaps>>
  BY DEF UpdateStream, Others
<1> QED
  BY <1>1, <1>5, <1>6, <1>7, <1>8 DEF RegistryInv

LEMMA RemoveStreamRegisters ==
    ASSUME RegistryInv, NEW k \in DOMAIN reg.streams, RemoveStream(k)
    PROVE  RegistryInv' /\ Keeps(reg, reg')
<1> DEFINE id == reg.streams[k]
           r == [reg EXCEPT !.streams = Without(@, reg.obj[id].key)]
           x == Destroy(r, id)
<1>1. Registered(reg) /\ changes' \in Nat
  BY DEF RegistryInv, RemoveStream, Changes
<1>2. Becomes(x) /\ Updated(reg')
  BY DEF RemoveStream, Announced
<1>3. Registered(r) /\ r.mounts = reg.mounts
  BY <1>1, StreamUnregistered
<1> HIDE DEF r, id
<1>4. Registered(x) /\ Keeps(reg, x)
  BY <1>3, StreamDestroyed DEF Keeps
<1> HIDE DEF x
<1>5. reg' = x
  BY <1>2, <1>4, BecomesIs
<1>6. saves' \in Seq(Configs)
  BY <1>2, <1>4, <1>5, OneSaved DEF RegistryInv
<1>7. UNCHANGED <<saved, reply, mishaps>>
  BY DEF RemoveStream, Others
<1> QED
  BY <1>1, <1>4, <1>5, <1>6, <1>7 DEF RegistryInv

LEMMA CreateMountRegisters ==
    ASSUME RegistryInv, NEW k \in Keys, CreateMount(k)
    PROVE  RegistryInv' /\ Keeps(reg, reg')
<1> DEFINE x == NewMount(reg, k, k)
<1>1. Registered(reg) /\ changes' \in Nat
  BY DEF RegistryInv, CreateMount, Changes
<1>2. Becomes(x) /\ Updated(reg') /\ k \notin DOMAIN reg.mounts
  BY DEF CreateMount
<1>3. Registered(x) /\ Keeps(reg, x)
  BY <1>1, <1>2, MountAdded DEF Optional
<1> HIDE DEF x
<1>4. reg' = x
  BY <1>2, <1>3, BecomesIs
<1>5. saves' \in Seq(Configs)
  BY <1>2, <1>3, <1>4, OneSaved DEF RegistryInv
<1>6. UNCHANGED <<saved, reply, mishaps>>
  BY DEF CreateMount, Others
<1> QED
  BY <1>1, <1>3, <1>4, <1>5, <1>6 DEF RegistryInv

\* Each mount is registered under its own key, if it has one.
OwnKeys == \A k \in DOMAIN reg.mounts : reg.mnt[reg.mounts[k]].key \in {k, NoKey}

LEMMA UpdateMountRegisters ==
    ASSUME RegistryInv, NEW k \in DOMAIN reg.mounts, NEW new \in Keys \cup {NoKey},
           UpdateMount(k, new)
    PROVE  RegistryInv' /\ (OwnKeys => Keeps(reg, reg'))
<1> DEFINE m == reg.mounts[k]
           old == reg.mnt[m].key
           f == With(Without(reg.mounts, old), new, m)
           moved == IF new \in {NoKey, old} THEN reg ELSE [reg EXCEPT !.mounts = f]
           x == MountConfigured(moved, m)
<1>1. Registered(reg) /\ changes' \in Nat
  BY DEF RegistryInv, UpdateMount, Changes
<1>2. Becomes(x) /\ saves' = saves
  BY DEF UpdateMount
<1>3. new \notin {NoKey, old} => DOMAIN f \subseteq Keys /\ f \in [DOMAIN f -> 1 .. Len(reg.mnt)]
  BY <1>1 DEF With, Without, Registered
<1>4. Registered(moved) /\ moved.mounts = IF new \in {NoKey, old} THEN reg.mounts ELSE f
  <2> HIDE DEF f, old
  <2>1. CASE new \in {NoKey, old}
    BY <1>1, <2>1
  <2>2. CASE new \notin {NoKey, old}
    BY <1>1, <1>3, <2>2, MountsMoved
  <2> QED
    BY <2>1, <2>2
<1>5. ASSUME OwnKeys, new \notin {NoKey, old} PROVE RangeOf(reg.mounts) \subseteq RangeOf(f)
  <2>1. \A j \in DOMAIN reg.mounts : j # old /\ j # new => f[j] = reg.mounts[j] /\ j \in DOMAIN f
    BY DEF With, Without
  <2>2. f[new] = m /\ new \in DOMAIN f
    BY DEF With
  <2>3. old \in DOMAIN reg.mounts => reg.mounts[old] = m
    BY <1>1, <1>5, RegistryAssumption DEF OwnKeys, Registered
  <2>4. new \notin DOMAIN reg.mounts
    BY <1>5 DEF UpdateMount
  <2> HIDE DEF f, m, old
  <2> QED
    BY <2>1, <2>2, <2>3, <2>4 DEF RangeOf
<1> HIDE DEF f, old, moved
<1>6. Registered(x) /\ x.mounts = moved.mounts
  BY <1>4, MountReconfigured
<1>7. OwnKeys => Keeps(reg, x)
  BY <1>4, <1>5, <1>6 DEF Keeps
<1> HIDE DEF x
<1>8. reg' = x
  BY <1>2, <1>6, BecomesIs
<1>9. UNCHANGED <<saved, reply, mishaps>>
  BY DEF UpdateMount, Others
<1> QED
  BY <1>1, <1>2, <1>6, <1>7, <1>8, <1>9 DEF RegistryInv

LEMMA RemoveMountRegisters ==
    ASSUME RegistryInv, NEW k \in DOMAIN reg.mounts, RemoveMount(k)
    PROVE  /\ RegistryInv'
           /\ OwnKeys => \A m \in RangeOf(reg.mounts) :
                           DataOf(m) # {} => m \in RangeOf(reg'.mounts)
<1> DEFINE m == reg.mounts[k]
           old == reg.mnt[m].key
           f == Without(reg.mounts, old)
           x == [reg EXCEPT !.mounts = f]
<1>1. Registered(reg) /\ changes' \in Nat
  BY DEF RegistryInv, RemoveMount, Changes
<1>2. Becomes(x) /\ Updated(reg') /\ DataOf(m) = {}
  BY DEF RemoveMount, InUse
<1>3. DOMAIN f \subseteq Keys /\ f \in [DOMAIN f -> 1 .. Len(reg.mnt)]
  BY <1>1 DEF Without, Registered
<1>4. \A j \in DOMAIN reg.mounts : j # old => f[j] = reg.mounts[j] /\ j \in DOMAIN f
  BY DEF Without
<1>5. OwnKeys /\ old \in DOMAIN reg.mounts => reg.mounts[old] = m
  BY <1>1, RegistryAssumption DEF OwnKeys, Registered
<1> HIDE DEF f, old, m
<1>6. Registered(x) /\ x.mounts = f
  BY <1>1, <1>3, MountsMoved
<1> HIDE DEF x
<1>7. reg' = x
  BY <1>2, <1>6, BecomesIs
<1>8. saves' \in Seq(Configs)
  BY <1>2, <1>6, <1>7, OneSaved DEF RegistryInv
<1>9. ASSUME OwnKeys, NEW n \in RangeOf(reg.mounts), DataOf(n) # {}
      PROVE  n \in RangeOf(f)
  <2>1. PICK j \in DOMAIN reg.mounts : reg.mounts[j] = n
    BY DEF RangeOf
  <2>2. j # old
    BY <1>2, <1>5, <1>9, <2>1
  <2> QED
    BY <1>4, <2>1, <2>2 DEF RangeOf
<1>10. UNCHANGED <<saved, reply, mishaps>>
  BY DEF RemoveMount, Others
<1> QED
  BY <1>1, <1>6, <1>7, <1>8, <1>9, <1>10 DEF RegistryInv

LEMMA LoadRegisters ==
    ASSUME RegistryInv, Load
    PROVE  RegistryInv' /\ Keeps(reg, reg')
<1>1. reply' = {} /\ UNCHANGED <<saved, changes, mishaps>>
  BY DEF Load
<1>2. CASE reply = {}
  <2>1. UNCHANGED <<regVars, saves>>
    BY <1>2 DEF Load
  <2>2. reg' = reg
    BY <2>1 DEF regVars, reg
  <2> QED
    BY <1>1, <2>1, <2>2 DEF RegistryInv, Keeps
<1>3. CASE reply # {}
  <2>1. PICK c \in reply : Configure(c)
    BY <1>3 DEF Load
  <2>2. c \in Configs
    BY DEF RegistryInv
  <2>3. Registered(reg') /\ Keeps(reg, reg') /\ saves' \in Seq(Configs)
    BY <2>1, <2>2, ConfigureRegisters
  <2> QED
    BY <1>1, <2>3 DEF RegistryInv
<1> QED
  BY <1>2, <1>3

LEMMA HandoffRegisters ==
    ASSUME RegistryInv, NEW keys \in SUBSET Keys, NEW keyed \in BOOLEAN,
           HandoffConfigure(keys, keyed)
    PROVE  RegistryInv' /\ Keeps(reg, reg')
<1> DEFINE given == [k \in keys |-> [okey |-> IF keyed THEN k ELSE NoKey,
                                     source |-> NoKey, at |-> changes']]
           c == [streams |-> given, sources |-> [k \in keys |-> NoKey]]
<1>1. changes' \in Nat /\ UNCHANGED <<saved, reply, mishaps>>
  BY DEF RegistryInv, HandoffConfigure, Changes, Others
<1>2. given \in [keys -> Options] /\ c.sources \in [keys -> Optional]
  BY <1>1 DEF Options, Optional
<1> HIDE DEF given
<1>3. c \in Configs
  BY <1>2 DEF Configs
<1>4. Configure(c)
  BY DEF HandoffConfigure, given
<1> HIDE DEF c
<1>5. Registered(reg') /\ Keeps(reg, reg') /\ saves' \in Seq(Configs)
  BY <1>3, <1>4, ConfigureRegisters
<1> QED
  BY <1>1, <1>5 DEF RegistryInv

LEMMA CrashRegisters ==
    ASSUME RegistryInv, MasterCrash
    PROVE  RegistryInv' /\ mishaps' # mishaps
<1>1. /\ reg' = Nothing /\ reply' = saved /\ saves' = <<>>
      /\ UNCHANGED <<saved, changes>> /\ mishaps' = mishaps + 1
  BY DEF MasterCrash, Becomes, Nothing, reg
<1>2. Registered(Nothing)
  <2>1. /\ Nothing.streams = Nobody /\ Nothing.mounts = Nobody /\ DOMAIN Nobody = {}
        /\ Nobody = [k \in DOMAIN Nobody |-> Nobody[k]]
    BY DEF Nothing, Nobody
  <2>2. /\ Nothing = [streams |-> Nothing.streams, mounts |-> Nothing.mounts,
                      proxies |-> Nothing.proxies, obj |-> Nothing.obj, mnt |-> Nothing.mnt]
        /\ Nothing.obj = <<>> /\ Nothing.mnt = <<>>
    BY DEF Nothing
  <2> QED
    BY <2>1, <2>2 DEF Registered
<1> QED
  BY <1>1, <1>2 DEF RegistryInv

LEMMA RegistryStays ==
    ASSUME RegistryInv, UNCHANGED <<regVars, saved, reply, saves, changes, mishaps>>
    PROVE  RegistryInv' /\ Keeps(reg, reg')
<1>1. reg' = reg
  BY DEF regVars, reg
<1> QED
  BY <1>1 DEF RegistryInv, Keeps

LEMMA SlavesRegister ==
    ASSUME RegistryInv, NEW s \in Slaves, SlaveStep(s)
    PROVE  RegistryInv' /\ Keeps(reg, reg')
<1>1. UNCHANGED <<regVars, saved, reply, saves, changes>>
  BY DEF SlaveStep, Connect, Register, Receive, Lose, SlaveOthers, saveVars
<1>2. mishaps' \in {mishaps, mishaps + 1}
  BY DEF SlaveStep, Connect, Register, Receive, Lose
<1>3. reg' = reg
  BY <1>1 DEF regVars, reg
<1> QED
  BY <1>1, <1>2, <1>3 DEF RegistryInv, Keeps

LEMMA RegistryStarts == RegistryInit => RegistryInv
<1> SUFFICES ASSUME RegistryInit PROVE RegistryInv
  OBVIOUS
<1> DEFINE c == [streams |-> [k \in Configured |-> [okey |-> NoKey, source |-> NoKey, at |-> 0]],
                 sources |-> [k \in Configured |-> NoKey]]
<1>1. c \in Configs
  <2>1. c.streams \in [Configured -> Options] /\ c.sources \in [Configured -> Optional]
    BY DEF Options, Optional
  <2> QED
    BY <2>1, RegistryAssumption DEF Configs
<1>2. saved \in SUBSET {c}
  BY DEF RegistryInit
<1> HIDE DEF c
<1>3. reg = Nothing /\ reply = saved /\ saves = <<>> /\ changes = 0 /\ mishaps = 0
  BY DEF RegistryInit, Nothing, reg
<1>4. Registered(Nothing)
  <2>1. /\ Nothing.streams = Nobody /\ Nothing.mounts = Nobody /\ DOMAIN Nobody = {}
        /\ Nobody = [k \in DOMAIN Nobody |-> Nobody[k]]
    BY DEF Nothing, Nobody
  <2>2. /\ Nothing = [streams |-> Nothing.streams, mounts |-> Nothing.mounts,
                      proxies |-> Nothing.proxies, obj |-> Nothing.obj, mnt |-> Nothing.mnt]
        /\ Nothing.obj = <<>> /\ Nothing.mnt = <<>>
    BY DEF Nothing
  <2> QED
    BY <2>1, <2>2 DEF Registered
<1> QED
  BY <1>1, <1>2, <1>3, <1>4 DEF RegistryInv

\* What a step keeps of the mounts that are listened to
Needed == \A m \in RangeOf(reg.mounts) :
            DataOf(m) # {} /\ mishaps' = mishaps => m \in RangeOf(reg'.mounts)

LEMMA RegistryKeeps ==
    ASSUME RegistryInv, [RegistryNext]_registryVars
    PROVE  RegistryInv' /\ (OwnKeys => Needed)
<1>1. Keeps(reg, reg') => Needed
  BY DEF Keeps, Needed
<1>2. CASE UNCHANGED registryVars
  BY <1>1, <1>2, RegistryStays DEF registryVars, saveVars
<1>3. CASE Load
  BY <1>1, <1>3, LoadRegisters
<1>4. CASE SendUpdate
  <2>1. UNCHANGED <<regVars, saved, reply, saves, changes, mishaps>>
    BY <1>4 DEF SendUpdate, saveVars
  <2> QED
    BY <1>1, <2>1, RegistryStays
<1>5. CASE Saved
  <2>1. /\ saves # <<>> /\ saved' = {Head(saves)} /\ saves' = Tail(saves)
        /\ UNCHANGED <<regVars, reply, changes, mishaps>>
    BY <1>5 DEF Saved
  <2>2. reg' = reg
    BY <2>1 DEF regVars, reg
  <2>3. Head(saves) \in Configs /\ Tail(saves) \in Seq(Configs)
    BY <2>1 DEF RegistryInv
  <2> QED
    BY <1>1, <2>1, <2>2, <2>3 DEF RegistryInv, Keeps
<1>6. CASE MasterCrash
  BY <1>6, CrashRegisters DEF Needed
<1>7. CASE \E k \in Keys : \/ \E source \in (Keys \ {k}) \cup {NoKey} : CreateStream(k, source)
                           \/ CreateMount(k)
  BY <1>1, <1>7, CreateStreamRegisters, CreateMountRegisters
<1>8. CASE \E k \in DOMAIN reg.streams :
             RemoveStream(k) \/ \E new \in Keys \cup {NoKey} : UpdateStream(k, new)
  BY <1>1, <1>8, RemoveStreamRegisters, UpdateStreamRegisters
<1>9. CASE \E k \in DOMAIN reg.mounts : RemoveMount(k)
  BY <1>9, RemoveMountRegisters DEF Needed
<1>10. CASE \E k \in DOMAIN reg.mounts : \E new \in Keys \cup {NoKey} : UpdateMount(k, new)
  BY <1>1, <1>10, UpdateMountRegisters
<1>11. CASE \E keys \in SUBSET Keys, keyed \in BOOLEAN : HandoffConfigure(keys, keyed)
  BY <1>1, <1>11, HandoffRegisters
<1>12. CASE \E s \in Slaves : SlaveStep(s)
  BY <1>1, <1>12, SlavesRegister
<1> QED
  BY <1>2, <1>3, <1>4, <1>5, <1>6, <1>7, <1>8, <1>9, <1>10, <1>11, <1>12
  DEF RegistryNext, MasterStep

\* Every key of the registry leads to an object, and what is saved, loaded and on
\* its way to Redis has the form of a configuration (config, configure).
THEOREM RegistryIsTyped == RegistrySpec => [](RegistryInv /\ RegistryTypeOK)
<1>1. RegistryInv => RegistryTypeOK
  <2> SUFFICES ASSUME RegistryInv PROVE RegistryTypeOK
    OBVIOUS
  <2>1. Registered(reg)
    BY DEF RegistryInv
  <2>2. \A id \in DOMAIN reg.obj : reg.obj[id].key \in Keys \cup {NoKey}
    <3> DEFINE q == reg.obj
    <3>1. q \in Seq(StreamObjects)
      BY <2>1 DEF Registered
    <3> HIDE DEF q
    <3>2. \A id \in DOMAIN q : q[id] \in StreamObjects
      BY <3>1
    <3> QED
      BY <3>2 DEF q, StreamObjects, Optional
  <2>3. DOMAIN reg.obj = 1 .. Len(reg.obj) /\ DOMAIN reg.mnt = 1 .. Len(reg.mnt)
    BY <2>1 DEF Registered
  <2>4. \A k \in DOMAIN reg.streams : reg.streams[k] \in DOMAIN reg.obj
    BY <2>1, <2>3 DEF Registered
  <2>5. \A k \in DOMAIN reg.mounts : reg.mounts[k] \in DOMAIN reg.mnt
    BY <2>1, <2>3 DEF Registered
  <2>6. DOMAIN reg.streams \subseteq Keys
    BY <2>1 DEF Registered
  <2> QED
    BY <2>2, <2>4, <2>5, <2>6 DEF RegistryTypeOK, RangeOf
<1>2. RegistryInv /\ [RegistryNext]_registryVars => RegistryInv'
  BY RegistryKeeps
<1> QED
  BY <1>1, <1>2, RegistryStarts, PTL DEF RegistrySpec

\* A mount that a stream listens to stays registered, whatever is created, updated,
\* removed, loaded or handed over, as long as every mount is registered under its own
\* key: updateMount and removeMount take from the registry what they find under the
\* mount's key, not under the one they were called with.
THEOREM MountsAreKept == RegistrySpec => MountsStay
<1>1. RegistryInv /\ [RegistryNext]_registryVars => RegistryInv'
  BY RegistryKeeps
<1>2. RegistryInv /\ [RegistryNext]_registryVars =>
        [OwnKeys => Needed]_registryVars
  BY RegistryKeeps
<1>3. RegistrySpec => [][OwnKeys => Needed]_registryVars
  BY <1>1, <1>2, RegistryStarts, PTL DEF RegistrySpec
<1> QED
  BY <1>3 DEF MountsStay, OwnKeys, Needed
=============================================================================

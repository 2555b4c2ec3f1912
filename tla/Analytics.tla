------------------------------ MODULE Analytics -----------------------------
(***************************************************************************)
(* The master's analytics (analytics/index): what is logged of listeners   *)
(* becomes rows, which are indexed in Elasticsearch in batches             *)
(* (util/batched_queue, analytics/idx_writer); a session that has been     *)
(* silent for a while is finalized into one more document.  Which sessions *)
(* are open is kept in memory or in Redis, whose commands are answered in  *)
(* their order.                                                            *)
(*                                                                         *)
(* The time a session must be silent (300 s) is long against what indexing *)
(* takes (Settled), and a day is long against both (Midnight).  A row is   *)
(* searched for as soon as it is indexed, in the indices of two days.      *)
(***************************************************************************)
EXTENDS Naturals, Sequences, FiniteSets, SequencesExt

CONSTANTS Session, None,
          Batch,      \* index_batch
          MaxDay,     \* bound: days
          MaxLogs,    \* bound: what is logged
          MaxTroubles \* bound: requests that fail, crashes of the master

ASSUME AnalyticsAssumption ==
  Batch \in Nat \ {0} /\ MaxDay \in Nat /\ MaxLogs \in Nat /\ MaxTroubles \in Nat

VARIABLES
  redis,    \* sessions are kept in Redis
  day,      \* today: rows are indexed by day
  logged,   \* every row there ever was
  queue,    \* _queue of BatchedQueue
  latency,  \* _timer of BatchedQueue
  batches,  \* batches on their way to IdxWriter, the first one being written
  index,    \* rows in Elasticsearch
  dropped,  \* rows of a batch that failed, or that a crash took
  cmds,     \* commands on their way to Redis
  timed,    \* sessions with a timeout: sessions, or "session-timeouts" in Redis
  due,      \* those in Redis whose time has come
  fin,      \* sessions being finalized: queries under way
  stored,   \* the documents of finalized sessions
  robbed,   \* sessions something happened to since they were last timed
  rounds,   \* how often a session was finalized: tells them apart
  troubles

rowVars == <<logged, queue, latency, batches, index, dropped>>
timeVars == <<cmds, timed, due>>
endVars == <<fin, stored, rounds>>
vars == <<redis, day, rowVars, timeVars, endVars, robbed, troubles>>

Row == [session : Session, type : {"start", "listen"}, n : 1 .. MaxLogs, day : 0 .. MaxDay]

Init ==
  /\ redis \in BOOLEAN /\ day = 0
  /\ logged = {} /\ queue = <<>> /\ latency = FALSE /\ batches = <<>>
  /\ index = {} /\ dropped = {}
  /\ cmds = <<>> /\ timed = {} /\ due = {}
  /\ fin = {} /\ stored = {} /\ rounds = 0
  /\ robbed = {} /\ troubles = 0

-----------------------------------------------------------------------------
(* Rows: BatchedQueue and IdxWriter *)

\* MUTANT: the queue is not emptied.
WriteQueue_Keeps(q) ==
  /\ queue' = q /\ latency' = FALSE
  /\ batches' = IF q = <<>> THEN batches ELSE Append(batches, q)

\* _writeQueue
WriteQueue(q) ==
  /\ queue' = <<>> /\ latency' = FALSE
  /\ batches' = IF q = <<>> THEN batches ELSE Append(batches, q)

\* MUTANT: the latency timer is not started.
Transform_NoTimer(row) ==
  LET q == Append(queue, row) IN
  IF Len(q) >= Batch THEN WriteQueue(q)
                     ELSE queue' = q /\ UNCHANGED <<latency, batches>>

\* _transform
Transform(row) ==
  LET q == Append(queue, row) IN
  IF Len(q) >= Batch THEN WriteQueue(q)
                     ELSE queue' = q /\ latency' = TRUE /\ UNCHANGED batches

LatencyTimer ==
  /\ latency /\ WriteQueue(queue)
  /\ UNCHANGED <<redis, day, logged, index, dropped, timeVars, endVars, robbed, troubles>>

RowsUntouched == UNCHANGED <<redis, day, logged, queue, latency, timeVars, endVars, robbed>>

\* The callback of bulk: the next batch is written whether it failed or not
Bulk ==
  /\ batches # <<>> /\ batches' = Tail(batches)
  /\ index' = index \cup ToSet(Head(batches))
  /\ RowsUntouched /\ UNCHANGED <<dropped, troubles>>

BulkFails ==
  /\ batches # <<>> /\ batches' = Tail(batches)
  /\ troubles < MaxTroubles /\ troubles' = troubles + 1
  /\ dropped' = dropped \cup ToSet(Head(batches))
  /\ RowsUntouched /\ UNCHANGED index

-----------------------------------------------------------------------------
(* Open sessions *)

Incr(row) == [op |-> "incrby", of |-> row]
Zadd(s) == [op |-> "zadd", of |-> s]
Zrem(s) == [op |-> "zrem", of |-> s]
Del(s) == [op |-> "del", of |-> s]
FindDue == [op |-> "zrangebyscore", of |-> None]
Sent(c) == \E i \in 1 .. Len(cmds) : cmds[i] = c

Settled(s) == \A r \in logged : r.session = s => r \in index \cup dropped

\* MUTANT: only the first row starts the timer.
UpdateSessionTimerFor_Once(s, sent) ==
  IF redis THEN cmds' = sent \o <<Zadd(s)>> /\ UNCHANGED <<timed, due, robbed>>
  ELSE /\ timed' = IF \E r \in logged : r.session = s THEN timed ELSE timed \cup {s}
       /\ robbed' = robbed \ {s}
       /\ UNCHANGED <<cmds, due>>

\* _updateSessionTimerFor, after what was sent to Redis before
UpdateSessionTimerFor(s, sent) ==
  IF redis THEN cmds' = sent \o <<Zadd(s)>> /\ UNCHANGED <<timed, due, robbed>>
  ELSE timed' = timed \cup {s} /\ robbed' = robbed \ {s} /\ UNCHANGED <<cmds, due>>

\* _log.  The row of a listen waits in Redis for the session's duration so far.
\* The start of a session comes first, if it comes.
Log(s, type) ==
  LET row == [session |-> s, type |-> type, n |-> Cardinality(logged) + 1, day |-> day]
      waits == redis /\ type = "listen"
  IN /\ Cardinality(logged) < MaxLogs
     /\ type = "start" => \A r \in logged : r.session # s
     /\ logged' = logged \cup {row}
     /\ IF waits THEN UNCHANGED <<queue, latency, batches>> ELSE Transform(row)
     /\ UpdateSessionTimerFor(s, IF waits THEN Append(cmds, Incr(row)) ELSE cmds)
     /\ UNCHANGED <<redis, day, index, dropped, endVars, troubles>>

\* _finalizeSession: its first query is sent
Finalize(s) ==
  /\ fin' = fin \cup {[session |-> s, round |-> rounds + 1, at |-> "previous",
                       since |-> 0, rows |-> {}]}
  /\ rounds' = rounds + 1 /\ UNCHANGED stored

\* A timeout in memory: _triggerSession
TimerFires(s) ==
  /\ ~redis /\ s \in timed /\ Settled(s)
  /\ timed' = timed \ {s}
  /\ Finalize(s)
  /\ UNCHANGED <<redis, day, rowVars, cmds, due, robbed, troubles>>

Elapses(s) ==
  /\ redis /\ s \in timed \ due /\ Settled(s)
  /\ due' = due \cup {s}
  /\ UNCHANGED <<redis, day, rowVars, cmds, timed, endVars, robbed, troubles>>

\* Every five seconds; a sweep that finds nothing is no step
Sweep ==
  /\ due # {} /\ ~Sent(FindDue)
  /\ cmds' = Append(cmds, FindDue)
  /\ UNCHANGED <<redis, day, rowVars, timed, due, endVars, robbed, troubles>>

-----------------------------------------------------------------------------
(* Redis answers: the callbacks of its commands *)

Answered(op) == cmds # <<>> /\ Head(cmds).op = op /\ UNCHANGED <<redis, day, logged, index, dropped, troubles>>
OnlyRows == UNCHANGED <<timed, due, endVars, robbed>>
NoRows == UNCHANGED <<queue, latency, batches>>

OnIncr == /\ Answered("incrby") /\ cmds' = Tail(cmds)
          /\ Transform(Head(cmds).of) /\ OnlyRows

OnZadd ==
  LET s == Head(cmds).of IN
  /\ Answered("zadd") /\ cmds' = Tail(cmds)
  /\ timed' = timed \cup {s} /\ due' = due \ {s} /\ robbed' = robbed \ {s}
  /\ NoRows /\ UNCHANGED endVars

\* _sFunc triggers each session that is due
OnRange ==
  /\ Answered("zrangebyscore")
  /\ \E found \in SetToSeqs(due) :
       cmds' = Tail(cmds) \o [i \in 1 .. Len(found) |-> Zrem(found[i])]
  /\ NoRows /\ OnlyRows

\* _scrubSessionFor, which goes on even if the session was timed again since
OnZrem ==
  LET s == Head(cmds).of IN
  /\ Answered("zrem") /\ cmds' = Append(Tail(cmds), Del(s))
  /\ timed' = timed \ {s} /\ due' = due \ {s}
  /\ robbed' = IF s \in due THEN robbed ELSE robbed \cup {s}
  /\ NoRows /\ UNCHANGED endVars

\* MUTANT: a session whose timeout ran off is not finalized.
OnDel_Ends(s) == UNCHANGED endVars

OnDel(s) == Finalize(s)
ScrubDone ==
  /\ Answered("del") /\ cmds' = Tail(cmds)
  /\ OnDel(Head(cmds).of)
  /\ NoRows /\ UNCHANGED <<timed, due, robbed>>

-----------------------------------------------------------------------------
(* Finalizing a session: one query after the other *)

\* _indicesForTimeRange from now to 24 hours ago: the indices of today and yesterday
InReach(r) == r.day + 1 >= day

AllRows(s) == {r \in index : r.session = s}

Rows(s) == {r \in AllRows(s) : InReach(r)}
Starts(s) == {r \in Rows(s) : r.type = "start"}
Listens(s) == {r \in Rows(s) : r.type = "listen"}
Latest(rows) == CHOOSE n \in {r.n : r \in rows} : \A r \in rows : r.n <= n

\* The document of a session: of its fields those that are searched for, and
\* the rows its sums are made of.  It has no type.
Document(f) == [session |-> f.session, time |-> Latest(f.rows), rows |-> f.rows,
                round |-> f.round]

FinOthers == UNCHANGED <<redis, day, rowVars, timeVars, rounds, robbed, troubles>>
GoOn(f, g) == fin' = (fin \ {f}) \cup {g} /\ UNCHANGED stored
Toss(f) == fin' = fin \ {f} /\ UNCHANGED stored

\* _selectPreviousSession looks for documents of the type "session"
PreviousSession(f) ==
  LET found == {x \in stored : x.session = f.session /\ "type" \in DOMAIN x} IN
  /\ f.at = "previous" /\ FinOthers
  /\ GoOn(f, [f EXCEPT !.at = "start", !.since = IF found = {} THEN 0 ELSE
                CHOOSE t \in {x.time : x \in found} : \A x \in found : x.time <= t])

\* _selectSessionStart: without one it never calls back
SessionStart(f) ==
  /\ f.at = "start" /\ FinOthers
  /\ IF Starts(f.session) = {} THEN Toss(f) ELSE GoOn(f, [f EXCEPT !.at = "totals"])

\* The filter of _selectListenTotals
Counted(s, since) ==
  IF since = 0 THEN Rows(s) ELSE {r \in Listens(s) : r.n > since}
ListenTotals(f) ==
  LET rows == Counted(f.session, f.since) IN
  /\ f.at = "totals" /\ FinOthers
  /\ IF rows = {} THEN Toss(f) ELSE GoOn(f, [f EXCEPT !.at = "store", !.rows = rows])

Store(f) ==
  /\ f.at = "store" /\ FinOthers
  /\ stored' = stored \cup {Document(f)} /\ fin' = fin \ {f}

\* Any of the requests fails: what is left of the session is logged
RequestFails(f) ==
  /\ troubles < MaxTroubles /\ troubles' = troubles + 1
  /\ Toss(f) /\ robbed' = robbed \cup {f.session}
  /\ UNCHANGED <<redis, day, rowVars, timeVars, rounds>>

\* The next day begins.  What is in hand, and what is not indexed yet, is of a session
\* that did something today: it takes minutes.
Midnight ==
  /\ day < MaxDay /\ day' = day + 1
  /\ \A s \in Session :
       \/ \E r \in logged : r.session = s /\ r.day = day
       \/ /\ Settled(s) /\ s \notin timed /\ \A f \in fin : f.session # s
          /\ ~Sent(Zadd(s)) /\ ~Sent(Zrem(s)) /\ ~Sent(Del(s))
  /\ UNCHANGED <<redis, rowVars, timeVars, endVars, robbed, troubles>>

\* The master dies and starts anew, perhaps days later: Redis keeps what has reached it
Crash ==
  LET unsent == logged \ (index \cup dropped)
      ofCmds == {s \in Session : \E i \in 1 .. Len(cmds) : cmds[i].of = s}
  IN /\ troubles < MaxTroubles /\ troubles' = troubles + 1
     /\ day' \in day .. MaxDay
     /\ queue' = <<>> /\ latency' = FALSE /\ batches' = <<>>
     /\ dropped' = dropped \cup unsent
     /\ cmds' = <<>> /\ fin' = {}
     /\ timed' = IF redis THEN timed ELSE {}
     /\ robbed' = robbed \cup ofCmds \cup {f.session : f \in fin}
                    \cup IF redis THEN {} ELSE timed
     /\ UNCHANGED <<redis, logged, index, due, stored, rounds>>

-----------------------------------------------------------------------------
Finalizing ==
  \E f \in fin : PreviousSession(f) \/ SessionStart(f) \/ ListenTotals(f) \/ Store(f)

Progress ==
  \/ LatencyTimer \/ Bulk
  \/ \E s \in Session : TimerFires(s) \/ Elapses(s)
  \/ Sweep \/ OnIncr \/ OnZadd \/ OnRange \/ OnZrem \/ ScrubDone
  \/ Finalizing

Next ==
  \/ Progress
  \/ \E s \in Session, type \in {"start", "listen"} : Log(s, type)
  \/ BulkFails \/ Midnight \/ Crash
  \/ \E f \in fin : RequestFails(f)

Spec == Init /\ [][Next]_vars

\* Timers run off, Elasticsearch and Redis answer
FairSpec == Spec /\ WF_vars(Progress)

-----------------------------------------------------------------------------
(* Properties *)

TypeOK ==
  /\ redis \in BOOLEAN /\ latency \in BOOLEAN /\ day \in 0 .. MaxDay
  /\ logged \in SUBSET Row /\ index \in SUBSET Row /\ dropped \in SUBSET Row
  /\ queue \in Seq(Row) /\ batches \in Seq(Seq(Row))
  /\ timed \in SUBSET Session /\ due \in SUBSET Session /\ robbed \in SUBSET Session
  /\ \A f \in fin : f.session \in Session /\ f.at \in {"previous", "start", "totals", "store"}
  /\ rounds \in Nat /\ troubles \in Nat

\* The places of a row: the same row twice in a queue has two of them.
Where(q, x) == {i \in 1 .. Len(q) : q[i] = x}

Places(r) ==
  UNION {{"redis"} \X Where(cmds, Incr(r)),
         {"queue"} \X Where(queue, r),
         {"batch"} \X UNION {{b} \X Where(batches[b], r) : b \in 1 .. Len(batches)},
         {"index"} \X (index \cap {r}),
         {"dropped"} \X (dropped \cap {r})}

\* A row that was logged is in one place, once: at Redis, in the queue, in a
\* batch, in the index or given up with a batch that failed or in a crash; and
\* a queue that is not empty has its timer (_transform, _writeQueue).
RowsKeptOnce ==
  /\ queue # <<>> => latency
  /\ \A r \in logged : \E p \in Places(r) : Places(r) = {p}

\* Listens that no document counts yet, of a session that can be finalized: its start
\* and they are still searched for.  A longer session is given up (AllListensCounted).
Uncounted(s) ==
  IF Starts(s) = {} THEN {}
  ELSE Listens(s) \ UNION {x.rows : x \in {y \in stored : y.session = s}}

\* A session that began yesterday or today, and has listens of these days that no
\* document counts, is timed, about to be, or being finalized with them, unless a crash or a failed request took it, or a
\* listen came between the sweep that found it and its removal from Redis
\* (_updateSessionTimerFor, _triggerSession).
NothingForgotten ==
  \A s \in Session : Uncounted(s) # {} /\ s \notin robbed =>
    \/ s \in timed \/ Sent(Zadd(s)) \/ Sent(Zrem(s)) \/ Sent(Del(s))
    \/ \E f \in fin : f.session = s /\ (f.at # "store" \/ Uncounted(s) \subseteq f.rows)

\* Whatever is logged gets to Elasticsearch, also after a batch that failed, and a
\* session's listens come to be counted, however short it was, again and again, as
\* long as its start is of yesterday or today and with the same exceptions
\* (_transform, _write of IdxWriter, _selectSessionStart, _finalizeSession).
AllRolledUp ==
  \A s \in Session :
    []<>(queue = <<>> /\ batches = <<>> /\ (Uncounted(s) = {} \/ s \in robbed))

\* "query all listen events for the session ID and sum the bytes and duration":
\* every listen that was indexed comes to be counted, if the session has a start and
\* nothing robbed it (_selectSessionStart, _selectListenTotals).
AllListensCounted ==
  \A s \in Session :
    []<>(\/ s \in robbed
         \/ \A r \in AllRows(s) : r.type # "start"
         \/ \A r \in AllRows(s) : r.type = "listen" => \E x \in stored : r \in x.rows)

\* "Session did not have any recorded listen events.  Toss it.": what is stored counts
\* a listen (_finalizeSession).
EmptyAreTossed == \A x \in stored : \E r \in x.rows : r.type = "listen"
=============================================================================

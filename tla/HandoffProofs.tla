---------------------------- MODULE HandoffProofs ---------------------------
(***************************************************************************)
(* Proofs about Handoff: every reachable state is well typed, a restart in *)
(* which nothing dies never leaves a port to nobody, and the sources that  *)
(* the old process had begun to hand over are with the new one when it     *)
(* exits.                                                                  *)
(***************************************************************************)
EXTENDS Handoff, TLAPS

\* A queue holds a message of the given key.
Carries(q, key) == \E i \in 1 .. Len(q) : q[i].key = key

\* What the old process has had confirmed, or will, is so, while the new one lives;
\* the old one exits only with both sockets confirmed.  A new process is there only
\* once the old one is being restarted, and has no timers before.
SocketsConfirmed ==
    /\ \A port \in Port : port \in acked \/ Carries(toOld, port)
            => port \in newHolds \/ new = "dead"
    /\ old = "exited" => acked = Port
    /\ old = "running" => new = "none"
    /\ new = "none" => ~handshake /\ ~fellBack /\ connecting = {} /\ loading = {}

IInv == TypeOK /\ SocketsConfirmed

\* Taking a message, and sending some, keeps a queue of messages one.
LEMMA TailOf ==
    ASSUME NEW S, NEW q \in Seq(S), q # <<>>
    PROVE  /\ Head(q) \in S /\ Tail(q) \in Seq(S)
           /\ \A k : Carries(Tail(q), k) => Carries(q, k)
           /\ Carries(q, Head(q).key)
<1>1. Head(q) \in S /\ Tail(q) \in Seq(S)
  OBVIOUS
<1>2. /\ Len(q) \in Nat /\ Len(q) >= 1 /\ Len(Tail(q)) = Len(q) - 1
      /\ \A i \in 1 .. Len(Tail(q)) : Tail(q)[i] = q[i + 1]
  OBVIOUS
<1>3. ASSUME NEW k, Carries(Tail(q), k)
      PROVE  Carries(q, k)
  <2>1. PICK i \in 1 .. Len(Tail(q)) : Tail(q)[i].key = k
    BY <1>3 DEF Carries
  <2>2. i + 1 \in 1 .. Len(q) /\ q[i + 1].key = k
    BY <2>1, <1>2
  <2> QED BY <2>2 DEF Carries
<1>4. Carries(q, Head(q).key)
  <2>1. 1 \in 1 .. Len(q) /\ Head(q) = q[1]
    BY <1>2
  <2> QED BY <2>1 DEF Carries
<1> QED BY <1>1, <1>3, <1>4

LEMMA JoinOf ==
    ASSUME NEW S, NEW q \in Seq(S), NEW r \in Seq(S)
    PROVE  /\ q \o r \in Seq(S)
           /\ \A k : Carries(q \o r, k) => Carries(q, k) \/ Carries(r, k)
<1>1. q \o r \in Seq(S)
  OBVIOUS
<1>2. /\ Len(q) \in Nat /\ Len(r) \in Nat /\ Len(q \o r) = Len(q) + Len(r)
      /\ \A i \in 1 .. Len(q) + Len(r) : (q \o r)[i] = IF i <= Len(q) THEN q[i] ELSE r[i - Len(q)]
  OBVIOUS
<1>3. ASSUME NEW k, Carries(q \o r, k)
      PROVE  Carries(q, k) \/ Carries(r, k)
  <2>1. PICK i \in 1 .. Len(q) + Len(r) : (q \o r)[i].key = k
    BY <1>3, <1>2 DEF Carries
  <2>2. CASE i <= Len(q)
    BY <2>1, <2>2, <1>2 DEF Carries
  <2>3. CASE i > Len(q)
    <3>1. i - Len(q) \in 1 .. Len(r) /\ r[i - Len(q)].key = k
      BY <2>1, <2>3, <1>2
    <3> QED BY <3>1 DEF Carries
  <2> QED BY <2>1, <2>2, <2>3, <1>2
<1> QED BY <1>1, <1>3
\* One message makes a queue that carries its key alone.
LEMMA OneMessage ==
    ASSUME NEW S, NEW m \in S
    PROVE  <<m>> \in Seq(S) /\ \A k : Carries(<<m>>, k) => k = m.key
<1>1. <<m>> \in Seq(S) /\ Len(<<m>>) = 1 /\ <<m>>[1] = m
  OBVIOUS
<1> QED BY <1>1 DEF Carries

LEMMA TwoMessages ==
    ASSUME NEW S, NEW m \in S, NEW n \in S
    PROVE  <<m, n>> \in Seq(S) /\ \A k : Carries(<<m, n>>, k) => k = m.key \/ k = n.key
<1>1. <<m, n>> \in Seq(S) /\ Len(<<m, n>>) = 2 /\ <<m, n>>[1] = m /\ <<m, n>>[2] = n
  OBVIOUS
<1> QED BY <1>1 DEF Carries

\* What the new process sends is added to toOld, or lost.
LEMMA ToldOld ==
    ASSUME TypeOK, NEW ms \in Seq(OldMessages), TellOld(ms)
    PROVE  /\ toOld' \in Seq(OldMessages)
           /\ \A k : Carries(toOld', k) => Carries(toOld, k) \/ Carries(ms, k)
<1>1. toOld \in Seq(OldMessages)
  BY DEF TypeOK
<1>2. toOld' = toOld \/ toOld' = toOld \o ms
  BY DEF TellOld
<1> QED BY <1>1, <1>2, JoinOf

LEMMA ToldNew ==
    ASSUME TypeOK, NEW ms \in Seq(NewMessages), TellNew(ms)
    PROVE  toNew' \in Seq(NewMessages)
<1>1. toNew \in Seq(NewMessages)
  BY DEF TypeOK
<1>2. toNew' = toNew \/ toNew' = toNew \o ms
  BY DEF TellNew
<1> QED BY <1>1, <1>2, JoinOf

\* The old process takes a message.
LEMMA OldTook ==
    ASSUME TypeOK, NEW key, OldTakes(key)
    PROVE  /\ toOld' \in Seq(OldMessages) /\ Head(toOld) \in OldMessages
           /\ Head(toOld).key = key /\ Carries(toOld, key)
           /\ \A k : Carries(toOld', k) => Carries(toOld, k)
           /\ OldAlive /\ UNCHANGED <<new, newVars, runnerVars>>
<1>1. toOld \in Seq(OldMessages)
  BY DEF TypeOK
<1>2. toOld # <<>> /\ Head(toOld).key = key /\ toOld' = Tail(toOld)
  BY DEF OldTakes
<1>3. OldAlive /\ UNCHANGED <<new, newVars, runnerVars>>
  BY DEF OldTakes
<1> QED BY <1>1, <1>2, <1>3, TailOf

\* The new one takes a message and goes on.
LEMMA NewTook ==
    ASSUME TypeOK, NEW key, NewGets(key), NewGoesOn
    PROVE  /\ toNew' \in Seq(NewMessages) /\ Head(toNew) \in NewMessages
           /\ Head(toNew).key = key /\ NewAlive
           /\ UNCHANGED <<old, oldVars, runnerVars>>
<1>1. toNew \in Seq(NewMessages)
  BY DEF TypeOK
<1>2. toNew # <<>> /\ Head(toNew).key = key /\ toNew' = Tail(toNew) /\ NewAlive
  BY DEF NewGets, NewGoesOn
<1>3. UNCHANGED <<old, oldVars, runnerVars>>
  BY DEF NewGoesOn
<1> QED BY <1>1, <1>2, <1>3, TailOf

\* The old process's own state stays typed.
OldTyped ==
    /\ old \in OldStage /\ oldStreams \in SUBSET Stream
    /\ due \in SUBSET Source /\ sourcesLeft \in SUBSET Source
    /\ mountsLeft \in SUBSET Stream /\ streamsLeft \in SUBSET Stream
    /\ asked \in Stream \cup {None}
    /\ parts \in Nat /\ acked \in SUBSET Port

NewTyped ==
    /\ new \in NewStage /\ newStreams \in SUBSET Stream
    /\ connecting \in SUBSET Stream /\ loading \in SUBSET Stream
    /\ handshake \in BOOLEAN /\ fellBack \in BOOLEAN /\ newHolds \in SUBSET Port

RunnerTyped ==
    /\ spare \in {"none", "starting", "serving"} /\ process \in {"old", "new", "spare"}
    /\ inHandoff \in BOOLEAN /\ watchesOld \in BOOLEAN /\ seen \in SUBSET {"old", "new"}

AtTyped == at \in [Source -> {"none", "old", "moving", "new", "gone"}]

LEMMA Typed ==
    TypeOK <=> /\ OldTyped /\ NewTyped /\ RunnerTyped /\ AtTyped
               /\ toNew \in Seq(NewMessages) /\ toOld \in Seq(OldMessages)
  BY DEF TypeOK, OldTyped, NewTyped, RunnerTyped, AtTyped

LEMMA TypedPrimed ==
    TypeOK' <=> /\ OldTyped' /\ NewTyped' /\ RunnerTyped' /\ AtTyped'
                /\ toNew' \in Seq(NewMessages) /\ toOld' \in Seq(OldMessages)
  BY DEF TypeOK, OldTyped, NewTyped, RunnerTyped, AtTyped

\* The end of the new process.
LEMMA NewEnded ==
    ASSUME IInv, NewEnds, new # "none"
    PROVE  IInv'
<1> USE DEF IInv
<1>1. OldTyped' /\ RunnerTyped'
  BY DEF TypeOK, NewEnds, OldTyped, RunnerTyped, oldVars, runnerVars
<1>2. NewTyped'
  BY DEF TypeOK, NewEnds, NewTyped, NewStage
<1>3. AtTyped'
  BY DEF TypeOK, NewEnds, AtTyped
<1>4. toNew' \in Seq(NewMessages) /\ toOld' \in Seq(OldMessages)
  BY DEF TypeOK, NewEnds
<1>5. SocketsConfirmed'
  BY DEF SocketsConfirmed, NewEnds, oldVars
<1> QED BY <1>1, <1>2, <1>3, <1>4, <1>5, TypedPrimed
\* The steps of the runner and of the sources change nothing the sockets depend on.
LEMMA RunnerSteps ==
    ASSUME IInv, RunnerStep
    PROVE  IInv'
<1> USE DEF IInv
<1>1. CASE Restart
  <2>1. OldTyped' /\ NewTyped' /\ RunnerTyped' /\ AtTyped'
    BY <1>1 DEF Restart, TypeOK, OldTyped, NewTyped, RunnerTyped, AtTyped, oldVars, OldStage, NewStage
  <2>2. SocketsConfirmed'
    BY <1>1 DEF Restart, SocketsConfirmed, oldVars
  <2> QED BY <1>1, <2>1, <2>2, TypedPrimed DEF Restart, TypeOK
<1>2. CASE OldExitSeen \/ NewExitSeen \/ SpareListens
  <2>1. /\ UNCHANGED <<old, new, toNew, toOld, at, oldVars, newVars>>
        /\ RunnerTyped'
    BY <1>2 DEF OldExitSeen, NewExitSeen, SpareListens, TypeOK, RunnerTyped
  <2>2. OldTyped' /\ NewTyped' /\ AtTyped' /\ SocketsConfirmed'
    BY <2>1 DEF TypeOK, OldTyped, NewTyped, AtTyped, SocketsConfirmed, oldVars, newVars
  <2> QED BY <2>1, <2>2, TypedPrimed DEF TypeOK
<1> QED BY <1>1, <1>2 DEF RunnerStep

\* A step that leaves the new process and its messages alone, and confirms no socket.
LEMMA OldKeeps ==
    ASSUME IInv, UNCHANGED <<new, newVars>>, UNCHANGED acked,
           old' = "exited" => old = "exited", old' = "running" => old = "running",
           \A k : Carries(toOld', k) => Carries(toOld, k)
    PROVE  SocketsConfirmed'
  BY DEF IInv, SocketsConfirmed, newVars

\* What sendHandoffData sends next is typed.
LEMMA PartDoneTyped ==
    ASSUME IInv, PartDone
    PROVE  toNew' \in Seq(NewMessages) /\ parts' \in Nat /\ old' \in OldStage
           /\ old' \in {old, "sockets"}
<1>1. CASE parts' = 2
  <2>1. Msg("source_socket", None) \in NewMessages /\ Msg("master_handle", None) \in NewMessages
    BY DEF Msg, NewMessages
  <2>2. toNew' \in Seq(NewMessages)
    BY <1>1, <2>1, TwoMessages, ToldNew DEF PartDone, IInv
  <2> QED BY <1>1, <2>2 DEF PartDone, IInv, TypeOK, OldStage
<1> QED BY <1>1 DEF PartDone, IInv, TypeOK

LEMMA SendSourceTyped ==
    ASSUME IInv, NEW s \in Source, SendSource(s)
    PROVE  toNew' \in Seq(NewMessages) /\ AtTyped' /\ UNCHANGED <<old, parts>>
<1>1. \A key \in {"source", "bare source"} : Msg(key, s) \in NewMessages
  BY DEF Msg, NewMessages
<1>2. \E key \in {"source", "bare source"} : TellNew(<<Msg(key, s)>>)
  BY DEF SendSource
<1>3. toNew' \in Seq(NewMessages)
  BY <1>1, <1>2, OneMessage, ToldNew DEF IInv
<1>4. AtTyped' /\ UNCHANGED <<old, parts>>
  BY DEF SendSource, IInv, TypeOK, AtTyped
<1> QED BY <1>3, <1>4

LEMMA SendNextTyped ==
    ASSUME IInv, NEW mounts \in SUBSET Stream, NEW sources \in SUBSET Source,
           SendNext(mounts, sources)
    PROVE  /\ toNew' \in Seq(NewMessages) /\ AtTyped' /\ parts' \in Nat
           /\ old' \in OldStage /\ old' \in {old, "sockets"}
           /\ sourcesLeft' \in SUBSET Source /\ mountsLeft' \in SUBSET Stream
<1> USE DEF IInv
<1>0. old \in OldStage /\ parts \in Nat
  BY DEF TypeOK
<1>1. CASE \E s \in sources : SendSource(s) /\ sourcesLeft' = sources \ {s} /\ mountsLeft' = mounts
  BY <1>0, <1>1, SendSourceTyped
<1>2. ASSUME NEW m \in mounts, NEW without \in SUBSET {n \in mounts : SourcesOf(n) = {}},
             NEW s \in SourcesOf(m), SendSource(s),
             sourcesLeft' = SourcesOf(m) \ {s}, mountsLeft' = mounts \ ({m} \cup without)
      PROVE  /\ toNew' \in Seq(NewMessages) /\ AtTyped' /\ parts' \in Nat
             /\ old' \in OldStage /\ old' \in {old, "sockets"}
             /\ sourcesLeft' \in SUBSET Source /\ mountsLeft' \in SUBSET Stream
  <2>1. SourcesOf(m) \subseteq Source
    BY DEF SourcesOf
  <2> QED BY <1>0, <1>2, <2>1, SendSourceTyped
<1>3. CASE PartDone /\ sourcesLeft' = {} /\ mountsLeft' = {} /\ UNCHANGED at
  BY <1>3, PartDoneTyped DEF TypeOK, AtTyped
<1> QED BY <1>1, <1>2, <1>3 DEF SendNext

LEMMA SendNextRewindTyped ==
    ASSUME IInv, NEW streams \in SUBSET Stream, SendNextRewind(streams)
    PROVE  /\ toNew' \in Seq(NewMessages) /\ parts' \in Nat
           /\ old' \in OldStage /\ old' \in {old, "sockets"}
           /\ asked' \in Stream \cup {None} /\ streamsLeft' \in SUBSET Stream
<1> USE DEF IInv
<1>1. ASSUME NEW st \in streams, NEW empty \in SUBSET (streams \ {st}),
             TellNew(<<Msg("stream_rewind", st)>>), asked' = st,
             streamsLeft' = streams \ ({st} \cup empty), UNCHANGED <<old, parts>>
      PROVE  /\ toNew' \in Seq(NewMessages) /\ parts' \in Nat
             /\ old' \in OldStage /\ old' \in {old, "sockets"}
             /\ asked' \in Stream \cup {None} /\ streamsLeft' \in SUBSET Stream
  <2>1. Msg("stream_rewind", st) \in NewMessages
    BY DEF Msg, NewMessages
  <2>2. toNew' \in Seq(NewMessages)
    BY <1>1, <2>1, OneMessage, ToldNew
  <2> QED BY <1>1, <2>2 DEF TypeOK
<1>2. CASE PartDone /\ asked' = None /\ streamsLeft' = {}
  BY <1>2, PartDoneTyped
<1> QED BY <1>1, <1>2 DEF SendNextRewind
\* After a message is taken the old process's step keeps the invariant if what it
\* does itself is typed and it confirms no socket.
LEMMA OldTakesKeeps ==
    ASSUME IInv, NEW key, OldTakes(key), OldTyped', AtTyped', toNew' \in Seq(NewMessages),
           UNCHANGED acked, old' = "exited" => old = "exited", old' = "running" => old = "running"
    PROVE  IInv'
<1>1. TypeOK
  BY DEF IInv
<1>2. /\ toOld' \in Seq(OldMessages) /\ \A k : Carries(toOld', k) => Carries(toOld, k)
      /\ UNCHANGED <<new, newVars, runnerVars>>
  BY <1>1, OldTook
<1>3. NewTyped' /\ RunnerTyped'
  BY <1>1, <1>2 DEF TypeOK, NewTyped, RunnerTyped, newVars, runnerVars
<1>4. SocketsConfirmed'
  BY <1>2, OldKeeps
<1> QED BY <1>2, <1>3, <1>4, TypedPrimed DEF IInv

LEMMA OldSteps ==
    ASSUME IInv, OldStep
    PROVE  IInv'
<1> USE DEF IInv
<1>0. /\ old \in OldStage /\ oldStreams \in SUBSET Stream /\ due \in SUBSET Source
      /\ sourcesLeft \in SUBSET Source /\ mountsLeft \in SUBSET Stream
      /\ streamsLeft \in SUBSET Stream /\ asked \in Stream \cup {None}
      /\ parts \in Nat /\ acked \in SUBSET Port /\ AtTyped /\ toNew \in Seq(NewMessages)
  BY DEF TypeOK, AtTyped
<1>m. /\ \A key \in {"HANDOFF_GO", "configured ok"} : Msg(key, None) \in NewMessages
      /\ \A c \in SUBSET Stream : Msg("config", c) \in NewMessages
  BY DEF Msg, NewMessages
<1>1. CASE AskGo
  <2>1. toNew' \in Seq(NewMessages)
    BY <1>1, <1>m, OneMessage, ToldNew DEF AskGo
  <2>2. OldTyped' /\ NewTyped' /\ RunnerTyped' /\ AtTyped' /\ UNCHANGED toOld
    BY <1>1 DEF AskGo, TypeOK, OldTyped, NewTyped, RunnerTyped, AtTyped, OldStage, oldVars,
                newVars, runnerVars
  <2>3. SocketsConfirmed'
    BY <1>1 DEF AskGo, SocketsConfirmed, oldVars, newVars
  <2> QED BY <2>1, <2>2, <2>3, TypedPrimed DEF TypeOK
<1>2. CASE OldGo
  <2>1. OldTakes("GO") /\ OldTyped' /\ AtTyped' /\ UNCHANGED <<toNew, acked>>
        /\ (old' = "exited" => old = "exited") /\ (old' = "running" => old = "running")
    BY <1>0, <1>2 DEF OldGo, OldTyped, AtTyped, OldStage, oldVars
  <2> QED BY <1>0, <2>1, OldTakesKeeps
<1>3. CASE OldConfigured
  <2>1. toNew' \in Seq(NewMessages)
    BY <1>0, <1>3, <1>m, OneMessage, ToldNew DEF OldConfigured
  <2>2. OldTakes("configured") /\ OldTyped' /\ AtTyped' /\ UNCHANGED acked
        /\ (old' = "exited" => old = "exited") /\ (old' = "running" => old = "running")
    BY <1>0, <1>3 DEF OldConfigured, OldTyped, AtTyped, OldStage, oldVars
  <2> QED BY <2>1, <2>2, OldTakesKeeps
<1>4. CASE OldSynced
  <2>1. toNew' \in Seq(NewMessages)
    BY <1>0, <1>4, <1>m, OneMessage, ToldNew DEF OldSynced
  <2>2. OldTakes("config ok") /\ OldTyped' /\ AtTyped' /\ UNCHANGED acked
        /\ (old' = "exited" => old = "exited") /\ (old' = "running" => old = "running")
    BY <1>0, <1>4 DEF OldSynced, OldTyped, AtTyped, OldStage, oldVars
  <2> QED BY <2>1, <2>2, OldTakesKeeps
<1>5. CASE OldGetsSources
  <2>1. OldTakes("sources") /\ SendNext(oldStreams, {}) /\ due' \in SUBSET Source
        /\ UNCHANGED <<oldStreams, streamsLeft, asked, acked>>
    BY <1>5 DEF OldGetsSources
  <2>2. /\ toNew' \in Seq(NewMessages) /\ AtTyped' /\ parts' \in Nat
        /\ old' \in OldStage /\ old' \in {old, "sockets"}
        /\ sourcesLeft' \in SUBSET Source /\ mountsLeft' \in SUBSET Stream
    BY <1>0, <2>1, SendNextTyped
  <2>3. OldTyped'
    BY <1>0, <2>1, <2>2 DEF OldTyped
  <2> QED BY <2>1, <2>2, <2>3, OldTakesKeeps
<1>6. CASE OldSentSource
  <2>1. OldTakes("source ok") /\ SendNext(mountsLeft, sourcesLeft)
        /\ UNCHANGED <<oldStreams, due, streamsLeft, asked, acked>>
    BY <1>6 DEF OldSentSource
  <2>2. /\ toNew' \in Seq(NewMessages) /\ AtTyped' /\ parts' \in Nat
        /\ old' \in OldStage /\ old' \in {old, "sockets"}
        /\ sourcesLeft' \in SUBSET Source /\ mountsLeft' \in SUBSET Stream
    BY <1>0, <2>1, SendNextTyped
  <2>3. OldTyped'
    BY <1>0, <2>1, <2>2 DEF OldTyped
  <2> QED BY <2>1, <2>2, <2>3, OldTakesKeeps
<1>7. CASE OldGetsRewinds
  <2>1. OldTakes("stream_rewinds") /\ SendNextRewind(oldStreams)
        /\ UNCHANGED <<at, oldStreams, due, mountsLeft, sourcesLeft, acked>>
    BY <1>7 DEF OldGetsRewinds
  <2>2. /\ toNew' \in Seq(NewMessages) /\ parts' \in Nat
        /\ old' \in OldStage /\ old' \in {old, "sockets"}
        /\ asked' \in Stream \cup {None} /\ streamsLeft' \in SUBSET Stream
    BY <1>0, <2>1, SendNextRewindTyped
  <2>3. OldTyped' /\ AtTyped'
    BY <1>0, <2>1, <2>2 DEF OldTyped, AtTyped
  <2> QED BY <2>1, <2>2, <2>3, OldTakesKeeps
<1>8. CASE OldSentRewind
  <2>1. OldTakes("stream_rewind ok")
        /\ UNCHANGED <<at, oldStreams, due, mountsLeft, sourcesLeft, acked>>
    BY <1>8 DEF OldSentRewind
  <2>2. /\ toNew' \in Seq(NewMessages) /\ parts' \in Nat
        /\ old' \in OldStage /\ old' \in {old, "sockets"}
        /\ asked' \in Stream \cup {None} /\ streamsLeft' \in SUBSET Stream
    <3>1. CASE SendNextRewind(streamsLeft)
      BY <1>0, <3>1, SendNextRewindTyped
    <3>2. CASE UNCHANGED <<old, toNew, parts, asked, streamsLeft>>
      BY <1>0, <3>2
    <3> QED BY <1>8, <3>1, <3>2 DEF OldSentRewind
  <2>3. OldTyped' /\ AtTyped'
    BY <1>0, <2>1, <2>2 DEF OldTyped, AtTyped
  <2> QED BY <2>1, <2>2, <2>3, OldTakesKeeps
<1>9. ASSUME NEW port \in Port, OldSentSocket(port)
      PROVE  IInv'
  <2>1. /\ toOld' \in Seq(OldMessages) /\ Carries(toOld, port)
        /\ \A k : Carries(toOld', k) => Carries(toOld, k)
        /\ UNCHANGED <<new, newVars, runnerVars>>
    BY <1>9, OldTook DEF OldSentSocket
  <2>2. /\ acked' = acked \cup {port} /\ old' \in {old, "exited"}
        /\ old' = "exited" => acked' = Port \/ old = "exited"
        /\ UNCHANGED <<toNew, at, oldStreams, due, mountsLeft, sourcesLeft, streamsLeft, asked, parts>>
    BY <1>9 DEF OldSentSocket
  <2>3. OldTyped' /\ NewTyped' /\ RunnerTyped' /\ AtTyped'
    BY <1>0, <2>1, <2>2 DEF TypeOK, OldTyped, NewTyped, RunnerTyped, AtTyped, OldStage, newVars, runnerVars
  <2>4. SocketsConfirmed'
    BY <2>1, <2>2, <1>0 DEF SocketsConfirmed, newVars
  <2> QED BY <1>0, <2>1, <2>2, <2>3, <2>4, TypedPrimed
<1> QED BY <1>1, <1>2, <1>3, <1>4, <1>5, <1>6, <1>7, <1>8, <1>9 DEF OldStep
\* A step of the new process that ends nothing: it sends the old one messages, of
\* which only the confirmation of a socket it holds is one.
LEMMA NewKeeps ==
    ASSUME IInv, new # "none", NEW ms \in Seq(OldMessages), TellOld(ms) \/ UNCHANGED toOld,
           UNCHANGED <<old, oldVars, runnerVars>>,
           NewTyped', AtTyped', toNew' \in Seq(NewMessages),
           new' # "none", newHolds \subseteq newHolds', new = "dead" => new' = "dead",
           \A port \in Port : Carries(ms, port) => port \in newHolds'
    PROVE  IInv'
<1>1. TypeOK
  BY DEF IInv
<1>2. /\ toOld' \in Seq(OldMessages)
      /\ \A k : Carries(toOld', k) => Carries(toOld, k) \/ Carries(ms, k)
  BY <1>1, ToldOld DEF TypeOK
<1>3. OldTyped' /\ RunnerTyped'
  BY <1>1 DEF TypeOK, OldTyped, RunnerTyped, oldVars, runnerVars
<1>4. SocketsConfirmed'
  BY <1>2 DEF IInv, SocketsConfirmed, oldVars
<1> QED BY <1>2, <1>3, <1>4, TypedPrimed DEF IInv

LEMMA NewSteps ==
    ASSUME IInv, NewStep \/ HandshakeTimeout \/ NewDies
    PROVE  IInv'
<1> USE DEF IInv
<1>0. /\ new \in NewStage /\ newStreams \in SUBSET Stream
      /\ connecting \in SUBSET Stream /\ loading \in SUBSET Stream
      /\ handshake \in BOOLEAN /\ fellBack \in BOOLEAN /\ newHolds \in SUBSET Port
      /\ AtTyped /\ toNew \in Seq(NewMessages)
      /\ new = "none" => ~handshake /\ ~fellBack /\ connecting = {} /\ loading = {}
  BY DEF TypeOK, AtTyped, SocketsConfirmed
<1>n. /\ <<>> \in Seq(OldMessages) /\ \A port \in Port : ~Carries(<<>>, port)
  BY DEF Carries
<1>m. /\ \A key \in {"GO", "configured", "config ok", "sources", "stream_rewinds"} \cup Port :
              Msg(key, None) \in OldMessages /\ Msg(key, None).key = key
      /\ \A s \in Source : Msg("source ok", s) \in OldMessages /\ Msg("source ok", s).key = "source ok"
      /\ \A st \in Stream : /\ Msg("stream_rewind ok", st) \in OldMessages
                            /\ Msg("stream_rewind ok", st).key = "stream_rewind ok"
  BY DEF Msg, OldMessages
<1>1. CASE HandshakeTimeout
  <2>1. /\ UNCHANGED <<toOld, old, oldVars, runnerVars>> /\ new # "none" /\ new' = new
        /\ NewTyped' /\ AtTyped' /\ toNew' \in Seq(NewMessages) /\ newHolds' = newHolds
    BY <1>0, <1>1 DEF HandshakeTimeout, NewTyped, AtTyped
  <2> QED BY <1>n, <2>1, NewKeeps
<1>2. CASE FallbackListens
  <2>1. new # "none"
    BY <1>0, <1>2 DEF FallbackListens
  <2>2. CASE OldAlive
    BY <1>2, <2>1, <2>2, NewEnded DEF FallbackListens
  <2>3. CASE ~OldAlive
    <3>1. /\ UNCHANGED <<toOld, old, oldVars, runnerVars>> /\ new' = new
          /\ NewTyped' /\ AtTyped' /\ toNew' \in Seq(NewMessages) /\ newHolds' = Port
      BY <1>0, <1>2, <2>3 DEF FallbackListens, NewTyped, AtTyped
    <3> QED BY <1>0, <1>n, <2>1, <3>1, NewKeeps
  <2> QED BY <2>2, <2>3
<1>3. CASE NewGo
  <2> DEFINE ms == <<Msg("GO", None)>>
  <2>1. ms \in Seq(OldMessages) /\ \A port \in Port : ~Carries(ms, port)
    BY <1>m, OneMessage DEF Port
  <2>2. /\ TellOld(ms) /\ toNew' \in Seq(NewMessages) /\ NewAlive
        /\ UNCHANGED <<old, oldVars, runnerVars>>
    BY <1>3, NewTook DEF NewGo
  <2>3. NewTyped' /\ AtTyped' /\ new' = "answered" /\ newHolds' = newHolds
    BY <1>0, <1>3 DEF NewGo, NewTyped, AtTyped, NewStage
  <2> QED BY <2>1, <2>2, <2>3, NewKeeps DEF NewAlive
<1>4. CASE NewConfigured
  <2> DEFINE ms == <<Msg("configured", None)>>
  <2>1. ms \in Seq(OldMessages) /\ \A port \in Port : ~Carries(ms, port)
    BY <1>m, OneMessage DEF Port
  <2>2. /\ TellOld(ms) /\ toNew' = toNew /\ new = "answered"
        /\ UNCHANGED <<old, oldVars, runnerVars>>
    BY <1>4 DEF NewConfigured
  <2>3. NewTyped' /\ AtTyped' /\ new' = "configured" /\ newHolds' = newHolds
    BY <1>0, <1>4 DEF NewConfigured, NewTyped, AtTyped, NewStage, newVars
  <2> QED BY <1>0, <2>1, <2>2, <2>3, NewKeeps
<1>5. CASE NewConfig
  <2> DEFINE ms == <<Msg("config ok", None)>>
  <2>1. ms \in Seq(OldMessages) /\ \A port \in Port : ~Carries(ms, port)
    BY <1>m, OneMessage DEF Port
  <2>2. /\ TellOld(ms) /\ toNew' \in Seq(NewMessages) /\ NewAlive
        /\ UNCHANGED <<old, oldVars, runnerVars>>
        /\ Head(toNew) \in NewMessages /\ Head(toNew).key = "config"
    BY <1>5, NewTook DEF NewConfig
  <2>3. Head(toNew).of \in SUBSET Stream
    BY <2>2 DEF NewMessages
  <2>4. NewTyped' /\ AtTyped' /\ new' = new /\ newHolds' = newHolds
    BY <1>0, <1>5, <2>3 DEF NewConfig, NewTyped, AtTyped
  <2> QED BY <2>1, <2>2, <2>4, NewKeeps DEF NewAlive
<1>6. CASE NewConfirmed
  <2> DEFINE ms == <<Msg("sources", None), Msg("stream_rewinds", None)>>
  <2>1. ms \in Seq(OldMessages) /\ \A port \in Port : ~Carries(ms, port)
    <3> DEFINE m == Msg("sources", None)
               n == Msg("stream_rewinds", None)
    <3>1. m \in OldMessages /\ n \in OldMessages /\ m.key = "sources" /\ n.key = "stream_rewinds"
      BY <1>m
    <3> HIDE DEF m, n
    <3>2. <<m, n>> \in Seq(OldMessages)
          /\ \A k : Carries(<<m, n>>, k) => k = m.key \/ k = n.key
      BY <3>1, TwoMessages
    <3>3. \A port \in Port : port # "sources" /\ port # "stream_rewinds"
      BY DEF Port
    <3> QED BY <3>1, <3>2, <3>3 DEF m, n
  <2>2. /\ TellOld(ms) /\ toNew' \in Seq(NewMessages) /\ NewAlive
        /\ UNCHANGED <<old, oldVars, runnerVars>>
    BY <1>6, NewTook DEF NewConfirmed
  <2>3. NewTyped' /\ AtTyped' /\ new' = "loading" /\ newHolds' = newHolds
    BY <1>0, <1>6 DEF NewConfirmed, NewTyped, AtTyped, NewStage, newVars
  <2> QED BY <2>1, <2>2, <2>3, NewKeeps DEF NewAlive
<1>7. CASE NewGetsSource
  <2>1. NewAlive /\ toNew # <<>> /\ Head(toNew).key = "source"
    BY <1>7 DEF NewGetsSource, NewGets
  <2>2. Head(toNew).of \in Source
    <3>1. Head(toNew) \in NewMessages
      BY <1>0, <2>1, TailOf
    <3> QED BY <2>1, <3>1 DEF NewMessages
  <2> DEFINE ms == <<Msg("source ok", Head(toNew).of)>>
  <2>3. ms \in Seq(OldMessages) /\ \A port \in Port : ~Carries(ms, port)
    BY <1>m, <2>2, OneMessage DEF Port
  <2>4. CASE MountOf[Head(toNew).of] \in newStreams
    <3>1. /\ NewGoesOn /\ TellOld(ms) /\ UNCHANGED <<new, newVars>>
          /\ at' \in {at, [at EXCEPT ![Head(toNew).of] = "new"]}
      BY <1>7, <2>4 DEF NewGetsSource
    <3>2. toNew' \in Seq(NewMessages) /\ UNCHANGED <<old, oldVars, runnerVars>>
      BY <1>7, <3>1, NewTook DEF NewGetsSource
    <3>3. NewTyped' /\ AtTyped' /\ new' = new /\ newHolds' = newHolds
      BY <1>0, <3>1 DEF NewTyped, AtTyped, newVars
    <3> QED BY <2>1, <2>3, <3>1, <3>2, <3>3, NewKeeps DEF NewAlive
  <2>5. CASE MountOf[Head(toNew).of] \notin newStreams
    BY <1>7, <2>1, <2>5, NewEnded DEF NewGetsSource, NewAlive
  <2> QED BY <2>4, <2>5
<1>8. CASE NewGetsBareSource \/ NewDies
  BY <1>8, NewEnded DEF NewGetsBareSource, NewDies, NewGets, NewAlive
<1>9. CASE NewGetsRewind
  <2>1. /\ UNCHANGED toOld /\ toNew' \in Seq(NewMessages) /\ NewAlive
        /\ UNCHANGED <<old, oldVars, runnerVars>>
        /\ Head(toNew) \in NewMessages /\ Head(toNew).key = "stream_rewind"
    BY <1>9, NewTook DEF NewGetsRewind
  <2>2. Head(toNew).of \in Stream
    BY <2>1 DEF NewMessages
  <2>3. NewTyped' /\ AtTyped' /\ new' = new /\ newHolds' = newHolds
    BY <1>0, <1>9, <2>2 DEF NewGetsRewind, NewTyped, AtTyped
  <2> QED BY <1>n, <2>1, <2>3, NewKeeps DEF NewAlive
<1>10. ASSUME NEW st \in Stream, NewConnects(st)
       PROVE  IInv'
  <2>1. new # "none"
    BY <1>0, <1>10 DEF NewConnects
  <2>2. CASE OldAlive /\ asked = st /\ st \in newStreams
    <3>1. /\ UNCHANGED <<toOld, old, oldVars, runnerVars>> /\ new' = new
          /\ NewTyped' /\ AtTyped' /\ toNew' \in Seq(NewMessages) /\ newHolds' = newHolds
      BY <1>0, <1>10, <2>2 DEF NewConnects, NewTyped, AtTyped
    <3> QED BY <1>n, <2>1, <3>1, NewKeeps
  <2>3. CASE ~(OldAlive /\ asked = st /\ st \in newStreams)
    BY <1>10, <2>1, <2>3, NewEnded DEF NewConnects
  <2> QED BY <2>2, <2>3
<1>11. ASSUME NEW st \in Stream, NewLoads(st)
       PROVE  IInv'
  <2> DEFINE ms == <<Msg("stream_rewind ok", st)>>
  <2>1. ms \in Seq(OldMessages) /\ \A port \in Port : ~Carries(ms, port)
    BY <1>m, OneMessage DEF Port
  <2>2. /\ TellOld(ms) /\ UNCHANGED <<old, oldVars, runnerVars>> /\ new' = new /\ new # "none"
        /\ NewTyped' /\ AtTyped' /\ toNew' \in Seq(NewMessages) /\ newHolds' = newHolds
    BY <1>0, <1>11 DEF NewLoads, NewTyped, AtTyped
  <2> QED BY <2>1, <2>2, NewKeeps
<1>12. ASSUME NEW key, NEW port \in Port, NewGetsSocket(key, port)
       PROVE  IInv'
  <2> DEFINE ms == <<Msg(port, None)>>
  <2>1. ms \in Seq(OldMessages) /\ \A p \in Port : Carries(ms, p) => p = port
    BY <1>m, OneMessage
  <2>2. /\ TellOld(ms) /\ toNew' \in Seq(NewMessages) /\ NewAlive
        /\ UNCHANGED <<old, oldVars, runnerVars>>
    BY <1>12, NewTook DEF NewGetsSocket
  <2>3. NewTyped' /\ AtTyped' /\ new' = new /\ newHolds' = newHolds \cup {port}
    BY <1>0, <1>12 DEF NewGetsSocket, NewTyped, AtTyped
  <2> QED BY <2>1, <2>2, <2>3, NewKeeps DEF NewAlive
<1>13. "source" \in Port /\ "master" \in Port
  BY DEF Port
<1> QED BY <1>1, <1>2, <1>3, <1>4, <1>5, <1>6, <1>7, <1>8, <1>9, <1>10, <1>11, <1>12, <1>13 DEF NewStep

\* What may go wrong besides.
LEMMA Mishaps ==
    ASSUME IInv, Mishap
    PROVE  IInv'
<1> USE DEF IInv
<1>1. CASE GoTimeout \/ CreateStream \/ OldDies
  <2>1. /\ OldTyped' /\ UNCHANGED <<new, newVars, runnerVars, toNew, at, acked>>
        /\ toOld' \in {toOld, <<>>} /\ old' \in {old, "gaveUp", "dead"}
    BY <1>1 DEF GoTimeout, CreateStream, OldDies, TypeOK, OldTyped, OldStage, oldVars
  <2>2. NewTyped' /\ RunnerTyped' /\ AtTyped'
    BY <2>1 DEF TypeOK, NewTyped, RunnerTyped, AtTyped, newVars, runnerVars
  <2>5. toOld' \in Seq(OldMessages)
    <3>1. toOld \in Seq(OldMessages) /\ <<>> \in Seq(OldMessages)
      BY DEF TypeOK
    <3> QED BY <2>1, <3>1
  <2>3. \A k : Carries(toOld', k) => Carries(toOld, k)
    BY <2>1 DEF Carries
  <2>4. SocketsConfirmed'
    BY <2>1, <2>3, OldKeeps
  <2> QED BY <2>1, <2>2, <2>4, <2>5, TypedPrimed DEF TypeOK
<1>2. CASE RewindTimeout
  <2>1. /\ SendNextRewind(streamsLeft)
        /\ UNCHANGED <<new, toOld, at, oldStreams, due, mountsLeft, sourcesLeft, acked, newVars, runnerVars>>
    BY <1>2 DEF RewindTimeout
  <2>2. /\ toNew' \in Seq(NewMessages) /\ parts' \in Nat
        /\ old' \in OldStage /\ old' \in {old, "sockets"}
        /\ asked' \in Stream \cup {None} /\ streamsLeft' \in SUBSET Stream
    BY <2>1, SendNextRewindTyped DEF TypeOK
  <2>3. OldTyped' /\ NewTyped' /\ RunnerTyped' /\ AtTyped'
    BY <2>1, <2>2 DEF TypeOK, OldTyped, NewTyped, RunnerTyped, AtTyped, newVars, runnerVars
  <2>4. SocketsConfirmed'
    BY <2>1, <2>2, OldKeeps
  <2> QED BY <2>1, <2>2, <2>3, <2>4, TypedPrimed DEF TypeOK
<1>3. CASE NewDies
  BY <1>3, NewSteps
<1>4. ASSUME NEW s \in Source, SourceConnects(s) \/ SourceLeaves(s)
      PROVE  IInv'
  <2>1. AtTyped' /\ UNCHANGED <<old, new, toNew, toOld, oldVars, newVars, runnerVars>>
    BY <1>4 DEF SourceConnects, SourceLeaves, TypeOK, AtTyped
  <2>2. OldTyped' /\ NewTyped' /\ RunnerTyped' /\ SocketsConfirmed'
    BY <2>1 DEF TypeOK, OldTyped, NewTyped, RunnerTyped, SocketsConfirmed, oldVars, newVars, runnerVars
  <2> QED BY <2>1, <2>2, TypedPrimed DEF TypeOK
<1> QED BY <1>1, <1>2, <1>3, <1>4 DEF Mishap

\* Every step keeps the invariant.
LEMMA InvarianceStep ==
    ASSUME IInv, [Next]_vars
    PROVE  IInv'
<1>1. CASE RunnerStep
  BY <1>1, RunnerSteps
<1>2. CASE OldStep
  BY <1>2, OldSteps
<1>3. CASE NewStep \/ HandshakeTimeout
  BY <1>3, NewSteps
<1>4. CASE Mishap
  BY <1>4, Mishaps
<1>5. CASE UNCHANGED vars
  BY <1>5 DEF vars, oldVars, newVars, runnerVars, IInv, TypeOK, SocketsConfirmed
<1> QED BY <1>1, <1>2, <1>3, <1>4, <1>5 DEF Next

\* IInv is an invariant of the handoff.
THEOREM Invariance == Spec => []IInv
<1>1. Init => IInv
  <2> SUFFICES ASSUME Init PROVE IInv
    OBVIOUS
  <2>1. toNew \in Seq(NewMessages) /\ toOld \in Seq(OldMessages) /\ \A k : ~Carries(toOld, k)
    BY DEF Init, Carries
  <2>2. TypeOK
    BY <2>1 DEF Init, TypeOK, OldStage, NewStage
  <2> QED BY <2>1, <2>2 DEF Init, IInv, SocketsConfirmed
<1>2. IInv /\ [Next]_vars => IInv'
  BY InvarianceStep
<1> QED BY <1>1, <1>2, PTL DEF Spec

\* Every reachable state of a restart is well typed, messages under way included.
THEOREM TypeCorrect == Spec => []TypeOK
<1>1. IInv => TypeOK
  BY DEF IInv
<1> QED BY <1>1, Invariance, PTL

\* For any streams and sources: unless a process dies of itself, each listening
\* socket is held by a process at every moment of a restart.
THEOREM NeverUnheld == Spec => []PortsHeld
<1>1. IInv => PortsHeld
  <2> SUFFICES ASSUME IInv, old # "dead", new # "dead", NEW port \in Port
               PROVE  Served(port)
    BY DEF PortsHeld
  <2>1. CASE old = "exited"
    BY <2>1 DEF IInv, SocketsConfirmed, Served
  <2>2. CASE old # "exited"
    BY <2>2 DEF Served, OldAlive
  <2> QED BY <2>1, <2>2
<1> QED BY <1>1, Invariance, PTL
-----------------------------------------------------------------------------
(* Sources follow.  A single message carries the sources' part of the      *)
(* handoff from one process to the other and back, and another one the     *)
(* rewind buffers' part.                                                   *)

\* A queue holds a message of one of the keys; it holds one at most; it holds it.
Has(q, keys) == \E i \in 1 .. Len(q) : q[i].key \in keys
Alone(q, keys) ==
    \A i, j \in 1 .. Len(q) : q[i].key \in keys /\ q[j].key \in keys => i = j
In(q, m) == \E i \in 1 .. Len(q) : q[i] = m

\* The messages that carry the sources' part of the handoff on, each the answer to
\* the one before, and those of the rewind buffers' part, which share the first ones.
SourcesToNew == {"config", "configured ok", "source", "bare source"}
SourcesToOld == {"config ok", "sources", "source ok"}
RewindsToNew == {"config", "configured ok"}
RewindsToOld == {"config ok", "stream_rewinds"}
Sockets == {"source_socket", "master_handle"}

SourcesPending == Has(toNew, SourcesToNew) \/ Has(toOld, SourcesToOld)
RewindsPending == Has(toNew, RewindsToNew) \/ Has(toOld, RewindsToOld) \/ asked # None

\* One message of either part is under way at most, and none of the rewind buffers'
\* part besides one that was asked for.
OneAtATime ==
    /\ Alone(toNew, SourcesToNew) /\ Alone(toOld, SourcesToOld) /\ Alone(toOld, RewindsToOld)
    /\ ~(Has(toNew, SourcesToNew) /\ Has(toOld, SourcesToOld))
    /\ ~(Has(toNew, RewindsToNew) /\ Has(toOld, RewindsToOld))
    /\ asked # None => ~Has(toNew, RewindsToNew) /\ ~Has(toOld, RewindsToOld)

\* fFunc counts the parts that are done; the sockets go after both.
Counted ==
    /\ parts >= 1 => ~(SourcesPending /\ RewindsPending)
    /\ parts >= 2 => ~SourcesPending /\ ~RewindsPending
    /\ Has(toNew, Sockets) \/ Has(toOld, Port) \/ acked # {} => parts >= 2

\* Nothing has been sent before the new process is configured, nor is after
\* HANDOFF_GO was given up.
NotBegun ==
    old \in {"running", "signalled", "asking", "awaiting", "gaveUp"}
        => parts = 0 /\ ~SourcesPending /\ ~RewindsPending

\* A source that is due is still on a list, or under way, or has followed.
Tracked ==
    /\ ~SourcesPending => sourcesLeft = {} /\ mountsLeft = {}
    /\ \A s \in due :
        /\ at[s] # "none"
        /\ at[s] = "old" => \/ s \in sourcesLeft \/ MountOf[s] \in mountsLeft
                            \/ Has(toNew, {"bare source"})
        /\ at[s] = "moving" => In(toNew, Msg("source", s))

MountsKnown ==
    /\ \A s \in Source : at[s] = "old" => MountOf[s] \in oldStreams
    /\ new = "none" => old = "running"

Relay == OneAtATime /\ Counted /\ NotBegun /\ Tracked

FInv == IInv /\ MountsKnown /\ (old # "dead" /\ new # "dead" => Relay)

\* What a queue has of some keys after its first message is taken,
LEMMA HasTail ==
    ASSUME NEW S, NEW q \in Seq(S), q # <<>>, NEW keys
    PROVE  /\ Has(Tail(q), keys) => Has(q, keys)
           /\ Alone(q, keys) => Alone(Tail(q), keys)
           /\ Head(q).key \in keys => Has(q, keys)
           /\ Head(q).key \in keys /\ Alone(q, keys) => ~Has(Tail(q), keys)
           /\ Head(q).key \notin keys /\ Has(q, keys) => Has(Tail(q), keys)
<1>1. /\ Len(q) \in Nat /\ Len(q) >= 1 /\ Len(Tail(q)) = Len(q) - 1
      /\ \A i \in 1 .. Len(Tail(q)) : Tail(q)[i] = q[i + 1]
      /\ Head(q) = q[1]
  OBVIOUS
<1> DEFINE t == Tail(q)
<1> HIDE DEF t
<1>2. \A i \in 1 .. Len(t) : i + 1 \in 1 .. Len(q) /\ i + 1 # 1 /\ t[i] = q[i + 1]
  BY <1>1 DEF t
<1>3. 1 \in 1 .. Len(q)
  BY <1>1
<1>4. Has(t, keys) => Has(q, keys)
  BY <1>2 DEF Has
<1>5. Alone(q, keys) => Alone(t, keys)
  <2> SUFFICES ASSUME Alone(q, keys), NEW i \in 1 .. Len(t), NEW j \in 1 .. Len(t),
                      t[i].key \in keys, t[j].key \in keys
               PROVE  i = j
    BY DEF Alone
  <2>1. i + 1 = j + 1
    BY <1>2 DEF Alone
  <2> QED BY <2>1
<1>6. Head(q).key \in keys => Has(q, keys)
  BY <1>1, <1>3 DEF Has
<1>7. Head(q).key \in keys /\ Alone(q, keys) => ~Has(t, keys)
  <2> SUFFICES ASSUME Head(q).key \in keys, Alone(q, keys), NEW i \in 1 .. Len(t),
                      t[i].key \in keys
               PROVE  FALSE
    BY DEF Has
  <2> QED BY <1>1, <1>2, <1>3 DEF Alone
<1>8. Head(q).key \notin keys /\ Has(q, keys) => Has(t, keys)
  <2> SUFFICES ASSUME Head(q).key \notin keys, NEW i \in 1 .. Len(q), q[i].key \in keys
               PROVE  Has(t, keys)
    BY DEF Has
  <2>1. i # 1
    BY <1>1
  <2>2. i - 1 \in 1 .. Len(t) /\ t[i - 1] = q[i]
    BY <1>1, <2>1 DEF t
  <2> QED BY <2>2 DEF Has
<1> QED BY <1>4, <1>5, <1>6, <1>7, <1>8 DEF t

LEMMA InTail ==
    ASSUME NEW S, NEW q \in Seq(S), q # <<>>, NEW m, In(q, m), Head(q) # m
    PROVE  In(Tail(q), m)
<1>1. /\ Len(q) \in Nat /\ Len(Tail(q)) = Len(q) - 1
      /\ \A i \in 1 .. Len(Tail(q)) : Tail(q)[i] = q[i + 1]
      /\ Head(q) = q[1]
  OBVIOUS
<1>2. PICK i \in 1 .. Len(q) : q[i] = m
  BY DEF In
<1>3. i - 1 \in 1 .. Len(Tail(q)) /\ (i - 1) + 1 = i
  BY <1>1, <1>2
<1> QED BY <1>1, <1>2, <1>3 DEF In

\* and when others are added to it.
LEMMA HasJoin ==
    ASSUME NEW S, NEW q \in Seq(S), NEW r \in Seq(S), NEW keys
    PROVE  /\ Has(q \o r, keys) <=> Has(q, keys) \/ Has(r, keys)
           /\ ~Has(r, keys) /\ Alone(q, keys) => Alone(q \o r, keys)
           /\ ~Has(q, keys) /\ Alone(r, keys) => Alone(q \o r, keys)
           /\ \A m : In(q, m) \/ In(r, m) => In(q \o r, m)
<1> DEFINE j == q \o r
           n == Len(q)
           l == Len(r)
<1>1. /\ n \in Nat /\ l \in Nat /\ Len(j) = n + l
      /\ \A i \in 1 .. n + l : j[i] = IF i <= n THEN q[i] ELSE r[i - n]
  OBVIOUS
<1> HIDE DEF j, n, l
<1>2. \A i \in 1 .. n : i \in 1 .. Len(j) /\ j[i] = q[i]
  BY <1>1
<1>3. \A i \in 1 .. l : i + n \in 1 .. Len(j) /\ j[i + n] = r[i]
  BY <1>1
<1>4. \A i \in 1 .. Len(j) : \/ i \in 1 .. n /\ j[i] = q[i]
                             \/ i - n \in 1 .. l /\ j[i] = r[i - n]
  BY <1>1
<1>5. Has(j, keys) <=> Has(q, keys) \/ Has(r, keys)
  <2>1. Has(q, keys) => Has(j, keys)
    BY <1>2 DEF Has, n
  <2>2. Has(r, keys) => Has(j, keys)
    BY <1>3 DEF Has, l
  <2>3. Has(j, keys) => Has(q, keys) \/ Has(r, keys)
    BY <1>4 DEF Has, n, l
  <2> QED BY <2>1, <2>2, <2>3
<1>6. ~Has(r, keys) /\ Alone(q, keys) => Alone(j, keys)
  <2> SUFFICES ASSUME ~Has(r, keys), Alone(q, keys), NEW a \in 1 .. Len(j), NEW b \in 1 .. Len(j),
                      j[a].key \in keys, j[b].key \in keys
               PROVE  a = b
    BY DEF Alone
  <2>1. a \in 1 .. n /\ j[a] = q[a] /\ b \in 1 .. n /\ j[b] = q[b]
    BY <1>4 DEF Has, l
  <2> QED BY <2>1 DEF Alone, n
<1>7. ~Has(q, keys) /\ Alone(r, keys) => Alone(j, keys)
  <2> SUFFICES ASSUME ~Has(q, keys), Alone(r, keys), NEW a \in 1 .. Len(j), NEW b \in 1 .. Len(j),
                      j[a].key \in keys, j[b].key \in keys
               PROVE  a = b
    BY DEF Alone
  <2>1. a - n \in 1 .. l /\ j[a] = r[a - n] /\ b - n \in 1 .. l /\ j[b] = r[b - n]
    BY <1>4 DEF Has, n
  <2>2. a - n = b - n
    BY <2>1 DEF Alone, l
  <2> QED BY <1>1, <2>2
<1>8. \A m : In(q, m) \/ In(r, m) => In(j, m)
  BY <1>2, <1>3 DEF In, n, l
<1> QED BY <1>5, <1>6, <1>7, <1>8 DEF j

LEMMA HasOne ==
    ASSUME NEW m
    PROVE  /\ \A keys : (Has(<<m>>, keys) <=> m.key \in keys) /\ Alone(<<m>>, keys)
           /\ In(<<m>>, m)
<1>1. Len(<<m>>) = 1 /\ <<m>>[1] = m
  OBVIOUS
<1>2. \A i \in 1 .. 1 : i = 1
  OBVIOUS
<1>3. 1 \in 1 .. 1
  OBVIOUS
<1> QED BY <1>1, <1>2, <1>3 DEF Has, Alone, In

LEMMA HasTwo ==
    ASSUME NEW m, NEW n
    PROVE  \A keys : /\ Has(<<m, n>>, keys) <=> m.key \in keys \/ n.key \in keys
                     /\ ~(m.key \in keys /\ n.key \in keys) => Alone(<<m, n>>, keys)
<1>1. Len(<<m, n>>) = 2 /\ <<m, n>>[1] = m /\ <<m, n>>[2] = n
  OBVIOUS
<1>2. 1 \in 1 .. 2 /\ 2 \in 1 .. 2 /\ \A i \in 1 .. 2 : i = 1 \/ i = 2
  OBVIOUS
<1> QED BY <1>1, <1>2 DEF Has, Alone

\* A queue after its first message, of some key, is taken
Took(q, t, key) ==
    \A keys : /\ key \in keys => Has(q, keys)
              /\ key \notin keys => (Has(t, keys) <=> Has(q, keys))
              /\ Has(t, keys) => Has(q, keys)
              /\ Alone(q, keys) => Alone(t, keys)
              /\ key \in keys /\ Alone(q, keys) => ~Has(t, keys)

\* A queue after messages with some keys, no two of them of one part, are added
Sent(q, t, added) ==
    \A keys : /\ Has(t, keys) <=> Has(q, keys) \/ added \cap keys # {}
              /\ added \cap keys = {} /\ Alone(q, keys) => Alone(t, keys)
              /\ (\A a, b \in added \cap keys : a = b) /\ ~Has(q, keys) => Alone(t, keys)

LEMMA TookIs ==
    ASSUME NEW S, NEW q \in Seq(S), q # <<>>
    PROVE  Took(q, Tail(q), Head(q).key)
  BY HasTail DEF Took

LEMMA SentOne ==
    ASSUME NEW S, NEW q \in Seq(S), NEW m \in S
    PROVE  /\ Sent(q, q \o <<m>>, {m.key})
           /\ In(q \o <<m>>, m)
           /\ \A x : In(q, x) => In(q \o <<m>>, x)
<1> DEFINE r == <<m>>
<1>1. r \in Seq(S)
  OBVIOUS
<1>2. (\A keys : (Has(r, keys) <=> m.key \in keys) /\ Alone(r, keys)) /\ In(r, m)
  BY HasOne
<1> HIDE DEF r
<1>3. Sent(q, q \o r, {m.key})
  <2> SUFFICES ASSUME NEW keys
               PROVE  /\ Has(q \o r, keys) <=> Has(q, keys) \/ {m.key} \cap keys # {}
                      /\ {m.key} \cap keys = {} /\ Alone(q, keys) => Alone(q \o r, keys)
                      /\ ~Has(q, keys) => Alone(q \o r, keys)
    BY DEF Sent
  <2>1. {m.key} \cap keys # {} <=> m.key \in keys
    OBVIOUS
  <2> QED BY <1>1, <1>2, <2>1, HasJoin
<1>4. \A x : In(q, x) \/ In(r, x) => In(q \o r, x)
  BY <1>1, HasJoin
<1> QED BY <1>2, <1>3, <1>4 DEF r

LEMMA SentTwo ==
    ASSUME NEW S, NEW q \in Seq(S), NEW m \in S, NEW n \in S, m.key # n.key
    PROVE  /\ Sent(q, q \o <<m, n>>, {m.key, n.key})
           /\ \A x : In(q, x) => In(q \o <<m, n>>, x)
<1> DEFINE r == <<m, n>>
           added == {m.key, n.key}
<1>1. r \in Seq(S)
  OBVIOUS
<1>2. \A keys : /\ Has(r, keys) <=> m.key \in keys \/ n.key \in keys
                /\ ~(m.key \in keys /\ n.key \in keys) => Alone(r, keys)
  BY HasTwo
<1> HIDE DEF r
<1>3. Sent(q, q \o r, added)
  <2> SUFFICES ASSUME NEW keys
               PROVE  /\ Has(q \o r, keys) <=> Has(q, keys) \/ added \cap keys # {}
                      /\ added \cap keys = {} /\ Alone(q, keys) => Alone(q \o r, keys)
                      /\ (\A a, b \in added \cap keys : a = b) /\ ~Has(q, keys)
                            => Alone(q \o r, keys)
    BY DEF Sent
  <2>1. added \cap keys # {} <=> m.key \in keys \/ n.key \in keys
    OBVIOUS
  <2>2. (\A a, b \in added \cap keys : a = b) => ~(m.key \in keys /\ n.key \in keys)
    OBVIOUS
  <2> QED BY <1>1, <1>2, <2>1, <2>2, HasJoin
<1>4. \A x : In(q, x) => In(q \o r, x)
  BY <1>1, HasJoin
<1> QED BY <1>3, <1>4 DEF r

\* Nothing changed in a queue as far as some keys go
Same(q, t, keys) == (Has(t, keys) <=> Has(q, keys)) /\ (Alone(q, keys) => Alone(t, keys))

TookOther(q, t, key, keys) == Took(q, t, key) /\ key \notin keys
LEMMA TookSame == ASSUME NEW q, NEW t, NEW key, NEW keys, TookOther(q, t, key, keys)
                  PROVE  Same(q, t, keys)
  BY DEF Took, TookOther, Same

LEMMA SentSame == ASSUME NEW q, NEW t, NEW added, NEW keys, Sent(q, t, added), added \cap keys = {}
                  PROVE  Same(q, t, keys)
  BY DEF Sent, Same

\* The stages before the new process is sent anything of the two parts.
Early == {"running", "signalled", "asking", "awaiting", "gaveUp"}

\* While a message of the sources' part is under way both processes are there and
\* not both parts are done.
LEMMA PartUnderWay ==
    ASSUME FInv, old # "dead", new # "dead", SourcesPending \/ RewindsPending
    PROVE  OldAlive /\ NewAlive /\ parts \in {0, 1} /\ old \notin Early /\ old # "exited"
<1>1. Relay /\ TypeOK
  BY DEF FInv, IInv
<1>2. parts \in {0, 1}
  BY <1>1 DEF Relay, Counted, TypeOK
<1>3. old \notin Early /\ old # "running"
  BY <1>1 DEF Relay, NotBegun, Early
<1>4. old # "exited"
  <2>1. old = "exited" => acked = Port
    BY DEF FInv, IInv, SocketsConfirmed
  <2>2. Port # {}
    BY DEF Port
  <2> QED BY <1>1, <1>2, <2>1, <2>2 DEF Relay, Counted
<1>5. new # "none"
  BY <1>3 DEF FInv, MountsKnown
<1> QED BY <1>2, <1>3, <1>4, <1>5 DEF OldAlive, NewAlive

\* A step that takes and sends no message of the two parts
LEMMA Quiet ==
    ASSUME FInv, old # "dead", new # "dead",
           \A keys \in {SourcesToNew, RewindsToNew, {"bare source"}} : Same(toNew, toNew', keys),
           \A keys \in {SourcesToOld, RewindsToOld} : Same(toOld, toOld', keys),
           \A s \in Source : In(toNew, Msg("source", s)) => In(toNew', Msg("source", s)),
           Has(toNew', Sockets) => Has(toNew, Sockets),
           Has(toOld', Port) => Has(toOld, Port) \/ Has(toNew, Sockets),
           acked' # {} => acked # {} \/ Has(toOld, Port),
           UNCHANGED <<due, mountsLeft, sourcesLeft, asked, parts>>,
           old' \in Early => old \in Early,
           \A s \in due : at'[s] = at[s] \/ at'[s] = "gone"
    PROVE  Relay'
<1>1. Relay
  BY DEF FInv
<1>2. /\ Same(toNew, toNew', SourcesToNew) /\ Same(toNew, toNew', RewindsToNew)
      /\ Same(toNew, toNew', {"bare source"})
      /\ Same(toOld, toOld', SourcesToOld) /\ Same(toOld, toOld', RewindsToOld)
  OBVIOUS
<1>3. (SourcesPending' <=> SourcesPending) /\ (RewindsPending' <=> RewindsPending)
  BY <1>2 DEF SourcesPending, RewindsPending, Same
<1>4. OneAtATime'
  BY <1>1, <1>2 DEF Relay, OneAtATime, Same
<1>5. Counted'
  BY <1>1, <1>3 DEF Relay, Counted
<1>6. NotBegun'
  BY <1>1, <1>3 DEF Relay, NotBegun, Early
<1>7. Tracked'
  <2>1. ~SourcesPending' => sourcesLeft' = {} /\ mountsLeft' = {}
    BY <1>1, <1>3 DEF Relay, Tracked
  <2>2. ASSUME NEW s \in due
        PROVE  /\ at'[s] # "none"
               /\ at'[s] = "old" => \/ s \in sourcesLeft \/ MountOf[s] \in mountsLeft
                                    \/ Has(toNew', {"bare source"})
               /\ at'[s] = "moving" => In(toNew', Msg("source", s))
    <3>1. s \in Source
      BY DEF FInv, IInv, TypeOK
    <3> QED BY <1>1, <1>2, <2>2, <3>1 DEF Relay, Tracked, Same
  <2> QED BY <2>1, <2>2 DEF Tracked
<1> QED BY <1>4, <1>5, <1>6, <1>7 DEF Relay

\* What the old process tells a living new process
LEMMA ToldOne ==
    ASSUME TypeOK, NewAlive, NEW m \in NewMessages, TellNew(<<m>>)
    PROVE  /\ Sent(toNew, toNew', {m.key}) /\ In(toNew', m)
           /\ \A x : In(toNew, x) => In(toNew', x)
<1>1. toNew' = toNew \o <<m>> /\ toNew \in Seq(NewMessages)
  BY DEF TellNew, TypeOK
<1> QED BY <1>1, SentOne

\* What the new process tells the old one, dead or alive: a message of neither part,
LEMMA ToldOldOther ==
    ASSUME TypeOK, NEW m \in OldMessages, TellOld(<<m>>), m.key \notin SourcesToOld \cup RewindsToOld
    PROVE  /\ Same(toOld, toOld', SourcesToOld) /\ Same(toOld, toOld', RewindsToOld)
           /\ Has(toOld', Port) => Has(toOld, Port) \/ m.key \in Port
<1>0. toOld \in Seq(OldMessages)
  BY DEF TypeOK
<1>1. CASE toOld' = toOld
  BY <1>1 DEF Same
<1>2. CASE toOld' = toOld \o <<m>>
  <2>1. Sent(toOld, toOld', {m.key})
    BY <1>0, <1>2, SentOne
  <2>2. {m.key} \cap SourcesToOld = {} /\ {m.key} \cap RewindsToOld = {}
    OBVIOUS
  <2>3. Has(toOld', Port) => Has(toOld, Port) \/ m.key \in Port
    BY <2>1 DEF Sent
  <2> QED BY <2>1, <2>2, <2>3, SentSame
<1> QED BY <1>1, <1>2 DEF TellOld

\* or one of a part.
LEMMA ToldOldOne ==
    ASSUME TypeOK, OldAlive, NEW m \in OldMessages, TellOld(<<m>>)
    PROVE  Sent(toOld, toOld', {m.key})
<1>1. toOld' = toOld \o <<m>> /\ toOld \in Seq(OldMessages)
  BY DEF TellOld, TypeOK
<1> QED BY <1>1, SentOne

\* The old process takes a message of neither part and sends nothing.
LEMMA OldTakesOther ==
    ASSUME FInv, old # "dead", new # "dead", NEW key, OldTakes(key),
           key \notin SourcesToOld \cup RewindsToOld,
           UNCHANGED <<toNew, at, due, mountsLeft, sourcesLeft, asked, parts>>,
           acked' # {} => acked # {} \/ key \in Port,
           old' \in Early => old \in Early
    PROVE  Relay'
<1>1. Took(toOld, toOld', key)
  BY TookIs DEF OldTakes, FInv, IInv, TypeOK
<1>2. Same(toOld, toOld', SourcesToOld) /\ Same(toOld, toOld', RewindsToOld)
  BY <1>1, TookSame DEF TookOther
<1>3. Has(toOld', Port) => Has(toOld, Port)
  BY <1>1 DEF Took
<1>4. key \in Port => Has(toOld, Port)
  BY <1>1 DEF Took
<1>5. \A keys : Same(toNew, toNew', keys)
  BY DEF Same
<1> QED BY <1>2, <1>3, <1>4, <1>5, Quiet

\* The new process takes a message of neither part.
LEMMA NewTakesOther ==
    ASSUME TypeOK, NEW key, NewGets(key), NewGoesOn, key \notin SourcesToNew
    PROVE  /\ \A keys \in {SourcesToNew, RewindsToNew, {"bare source"}} : Same(toNew, toNew', keys)
           /\ \A s \in Source : In(toNew, Msg("source", s)) => In(toNew', Msg("source", s))
           /\ Has(toNew', Sockets) => Has(toNew, Sockets)
           /\ key \in Sockets => Has(toNew, Sockets)
<1>0. toNew \in Seq(NewMessages) /\ toNew # <<>> /\ Head(toNew).key = key /\ toNew' = Tail(toNew)
  BY DEF NewGets, NewGoesOn, TypeOK
<1>1. Took(toNew, toNew', key)
  BY <1>0, TookIs
<1>2. key \notin RewindsToNew /\ key \notin {"bare source"} /\ key # "source"
  BY DEF SourcesToNew, RewindsToNew
<1>3. Same(toNew, toNew', SourcesToNew) /\ Same(toNew, toNew', RewindsToNew)
      /\ Same(toNew, toNew', {"bare source"})
  BY <1>1, <1>2, TookSame DEF TookOther
<1>4. ASSUME NEW s \in Source, In(toNew, Msg("source", s)) PROVE In(toNew', Msg("source", s))
  <2>1. Head(toNew) # Msg("source", s)
    <3>1. Msg("source", s).key = "source"
      BY DEF Msg
    <3> QED BY <1>0, <1>2, <3>1
  <2> QED BY <1>0, <1>4, <2>1, InTail
<1>5. (Has(toNew', Sockets) => Has(toNew, Sockets)) /\ (key \in Sockets => Has(toNew, Sockets))
  BY <1>1 DEF Took
<1> QED BY <1>3, <1>4, <1>5

\* One of the two parts is done: at the second the sockets go out.
LEMMA PartDoneIs ==
    ASSUME TypeOK, NewAlive, PartDone
    PROVE  /\ \A keys : keys \cap Sockets = {} => Same(toNew, toNew', keys)
           /\ \A x : In(toNew, x) => In(toNew', x)
           /\ Has(toNew', Sockets) => Has(toNew, Sockets) \/ parts' >= 2
           /\ parts' = parts + 1 /\ old' \in {old, "sockets"}
<1> DEFINE m == Msg("source_socket", None)
           n == Msg("master_handle", None)
<1>0. toNew \in Seq(NewMessages) /\ parts \in Nat
  BY DEF TypeOK
<1>1. /\ m \in NewMessages /\ m.key = "source_socket"
      /\ n \in NewMessages /\ n.key = "master_handle"
  BY DEF Msg, NewMessages
<1> HIDE DEF m, n
<1>2. CASE parts' = 2
  <2>1. toNew' = toNew \o <<m, n>>
    BY <1>2 DEF PartDone, TellNew, m, n
  <2>2. Sent(toNew, toNew', {m.key, n.key}) /\ \A x : In(toNew, x) => In(toNew', x)
    BY <1>0, <1>1, <2>1, SentTwo
  <2>3. {m.key, n.key} = Sockets
    BY <1>1 DEF Sockets
  <2>4. \A keys : keys \cap Sockets = {} => Same(toNew, toNew', keys)
    <3> SUFFICES ASSUME NEW keys, keys \cap Sockets = {} PROVE Same(toNew, toNew', keys)
      OBVIOUS
    <3>1. Sockets \cap keys = {}
      OBVIOUS
    <3> QED BY <2>2, <2>3, <3>1, SentSame
  <2> QED BY <1>2, <2>2, <2>4 DEF PartDone
<1>3. CASE parts' # 2
  <2>1. UNCHANGED <<old, toNew>> /\ parts' = parts + 1
    BY <1>3 DEF PartDone
  <2> QED BY <2>1 DEF Same
<1> QED BY <1>2, <1>3

\* No key of a part is that of a socket.
LEMMA Apart ==
    /\ SourcesToNew \cap Sockets = {} /\ RewindsToNew \cap Sockets = {}
    /\ {"bare source"} \cap Sockets = {}
    /\ SourcesToOld \cap Port = {} /\ RewindsToOld \cap Port = {}
    /\ RewindsToNew \subseteq SourcesToNew /\ "bare source" \in SourcesToNew
    /\ "source" \in SourcesToNew /\ "source" \notin RewindsToNew
    /\ "bare source" \notin RewindsToNew
  BY DEF SourcesToNew, RewindsToNew, SourcesToOld, RewindsToOld, Sockets, Port

LEMMA HasMore ==
    ASSUME NEW q, NEW keys, NEW more, keys \subseteq more, Has(q, keys)
    PROVE  Has(q, more)
  BY DEF Has

\* The rewind buffers' part goes on: it had no message under way but the one, if
\* any, that was just taken.
LEMMA RewindsGoOn ==
    ASSUME FInv, old # "dead", new # "dead", RewindsPending,
           ~Has(toNew, RewindsToNew), ~Has(toOld', RewindsToOld),
           Same(toOld, toOld', SourcesToOld), Has(toOld', Port) => Has(toOld, Port),
           NEW streams \in SUBSET Stream, SendNextRewind(streams),
           UNCHANGED <<at, due, mountsLeft, sourcesLeft, acked>>
    PROVE  Relay'
<1>0. Relay /\ TypeOK /\ OldAlive /\ NewAlive /\ parts \in {0, 1} /\ old \notin Early
  BY PartUnderWay DEF FInv, IInv
<1>1. /\ Same(toNew, toNew', SourcesToNew) /\ Same(toNew, toNew', RewindsToNew)
      /\ Same(toNew, toNew', {"bare source"})
      /\ \A x : In(toNew, x) => In(toNew', x)
      /\ Has(toNew', Sockets) => Has(toNew, Sockets) \/ parts' >= 2
      /\ old' \in {old, "sockets"}
      /\ \/ asked' # None /\ parts' = parts
         \/ asked' = None /\ parts' = parts + 1
  <2>1. ASSUME NEW st \in streams, TellNew(<<Msg("stream_rewind", st)>>), asked' = st,
               UNCHANGED <<old, parts>>
        PROVE  <1>1
    <3> DEFINE m == Msg("stream_rewind", st)
    <3>1. m \in NewMessages /\ m.key = "stream_rewind" /\ st # None
      BY SourceAssumption DEF Msg, NewMessages
    <3> HIDE DEF m
    <3>2. Sent(toNew, toNew', {m.key}) /\ \A x : In(toNew, x) => In(toNew', x)
      BY <1>0, <2>1, <3>1, ToldOne DEF m
    <3>3. /\ {m.key} \cap SourcesToNew = {} /\ {m.key} \cap RewindsToNew = {}
          /\ {m.key} \cap {"bare source"} = {} /\ {m.key} \cap Sockets = {}
      BY <3>1 DEF SourcesToNew, RewindsToNew, Sockets
    <3>4. Has(toNew', Sockets) => Has(toNew, Sockets)
      BY <3>2, <3>3 DEF Sent
    <3>5. /\ Same(toNew, toNew', SourcesToNew) /\ Same(toNew, toNew', RewindsToNew)
          /\ Same(toNew, toNew', {"bare source"})
      BY <3>2, <3>3, SentSame
    <3> QED BY <2>1, <3>1, <3>2, <3>4, <3>5
  <2>2. CASE PartDone /\ asked' = None
    BY <1>0, <2>2, PartDoneIs, Apart
  <2> QED BY <2>1, <2>2 DEF SendNextRewind
<1>2. ~Has(toNew', RewindsToNew)
  BY <1>1 DEF Same
<1>3. SourcesPending' <=> SourcesPending
  BY <1>1 DEF SourcesPending, Same
<1>4. RewindsPending' <=> asked' # None
  BY <1>2 DEF RewindsPending
<1>5. OneAtATime'
  <2>1. Alone(toNew', SourcesToNew) /\ Alone(toOld', SourcesToOld)
        /\ ~(Has(toNew', SourcesToNew) /\ Has(toOld', SourcesToOld))
    BY <1>0, <1>1 DEF Relay, OneAtATime, Same
  <2>2. Alone(toOld', RewindsToOld)
    BY DEF Alone, Has
  <2> QED BY <1>2, <2>1, <2>2 DEF OneAtATime
<1>6. Counted'
  <2>1. parts = 1 => ~SourcesPending
    BY <1>0 DEF Relay, Counted
  <2>2. Has(toNew', Sockets) \/ Has(toOld', Port) \/ acked' # {} => parts' >= 2
    BY <1>0, <1>1 DEF Relay, Counted
  <2>3. CASE asked' # None /\ parts' = parts
    <3>1. (parts' >= 1 => parts = 1) /\ ~(parts' >= 2)
      BY <1>0, <2>3
    <3> QED BY <1>3, <2>1, <2>2, <3>1 DEF Counted
  <2>4. CASE asked' = None /\ parts' = parts + 1
    <3>1. parts' >= 2 => parts = 1
      BY <1>0, <2>4
    <3> QED BY <1>3, <1>4, <2>1, <2>2, <2>4, <3>1 DEF Counted
  <2> QED BY <1>1, <2>3, <2>4
<1>7. NotBegun'
  BY <1>0, <1>1 DEF NotBegun, Early
<1>8. Tracked'
  <2>1. ~SourcesPending' => sourcesLeft' = {} /\ mountsLeft' = {}
    BY <1>0, <1>3 DEF Relay, Tracked
  <2> QED BY <1>0, <1>1, <2>1 DEF Relay, Tracked, Same
<1> QED BY <1>5, <1>6, <1>7, <1>8 DEF Relay

\* The sources' part goes on after its message was taken: every source that is due
\* and not yet sent is on the lists it goes on with.
LEMMA SourcesGoOn ==
    ASSUME FInv, old # "dead", new # "dead", Has(toOld, SourcesToOld),
           ~Has(toOld', SourcesToOld), Same(toOld, toOld', RewindsToOld),
           Has(toOld', Port) => Has(toOld, Port),
           NEW mounts \in SUBSET Stream, NEW sources \in SUBSET Source, SendNext(mounts, sources),
           due' \in SUBSET Source,
           \A s \in due' : /\ at[s] \notin {"none", "moving"}
                           /\ at[s] = "old" => s \in sources \/ MountOf[s] \in mounts,
           UNCHANGED <<asked, acked>>
    PROVE  Relay'
<1>0. /\ Relay /\ TypeOK /\ SourcesPending /\ OldAlive /\ NewAlive /\ parts \in {0, 1}
      /\ old \notin Early /\ at \in [Source -> {"none", "old", "moving", "new", "gone"}]
  BY PartUnderWay DEF FInv, IInv, SourcesPending, TypeOK
<1>1. ~Has(toNew, SourcesToNew) /\ ~Has(toNew, RewindsToNew) /\ ~Has(toNew, {"bare source"})
  <2>1. ~Has(toNew, SourcesToNew)
    BY <1>0 DEF Relay, OneAtATime
  <2> QED BY <2>1, HasMore, Apart
<1>2. Alone(toOld', SourcesToOld) /\ Alone(toOld', RewindsToOld)
  <2>1. Alone(toOld', RewindsToOld)
    BY <1>0 DEF Relay, OneAtATime, Same
  <2> QED BY <2>1 DEF Alone, Has
<1>3. RewindsPending <=> Has(toOld', RewindsToOld) \/ asked # None
  BY <1>1 DEF RewindsPending, Same
<1>4. parts = 1 => ~RewindsPending
  BY <1>0 DEF Relay, Counted
<1>5. asked # None => ~Has(toOld', RewindsToOld)
  BY <1>0 DEF Relay, OneAtATime, Same
<1>6. Has(toNew, Sockets) \/ Has(toOld', Port) \/ acked' # {} => parts >= 2
  BY <1>0 DEF Relay, Counted
\* Another source goes out,
<1>7. ASSUME NEW s \in Source, SendSource(s), s \in sources \/ SourcesOf(MountOf[s]) # {},
             \A d \in due' : at[d] = "old" => d = s \/ d \in sourcesLeft' \/ MountOf[d] \in mountsLeft'
      PROVE  Relay'
  <2> DEFINE key == IF at[s] = "old" /\ s \notin Fallback THEN "source" ELSE "bare source"
             m == Msg(key, s)
  <2>1. m \in NewMessages /\ m.key = key /\ key \in {"source", "bare source"}
    BY DEF Msg, NewMessages
  <2> HIDE DEF m
  <2>2. /\ Sent(toNew, toNew', {m.key}) /\ In(toNew', m)
        /\ \A x : In(toNew, x) => In(toNew', x)
    BY <1>0, <1>7, <2>1, ToldOne DEF SendSource, m
  <2>3. UNCHANGED <<old, parts>>
        /\ at' = IF at[s] = "old" /\ s \notin Fallback THEN [at EXCEPT ![s] = "moving"] ELSE at
    BY <1>7 DEF SendSource
  <2>4. {m.key} \cap SourcesToNew # {} /\ {m.key} \cap RewindsToNew = {} /\ {m.key} \cap Sockets = {}
    BY <2>1 DEF SourcesToNew, RewindsToNew, Sockets
  <2>5. /\ Has(toNew', SourcesToNew) /\ Alone(toNew', SourcesToNew)
        /\ ~Has(toNew', RewindsToNew) /\ (Has(toNew', Sockets) => Has(toNew, Sockets))
        /\ key = "bare source" => Has(toNew', {"bare source"})
    <3>1. \A a, b \in {m.key} \cap SourcesToNew : a = b
      OBVIOUS
    <3>2. key = "bare source" => {m.key} \cap {"bare source"} # {}
      BY <2>1
    <3> QED BY <1>1, <2>2, <2>4, <3>1, <3>2 DEF Sent
  <2>6. SourcesPending' /\ (RewindsPending' <=> RewindsPending)
    BY <1>3, <2>5 DEF SourcesPending, RewindsPending
  <2>7. OneAtATime'
    BY <1>2, <1>5, <2>5 DEF OneAtATime
  <2>8. Counted'
    <3>1. (parts' >= 1 => parts = 1) /\ ~(parts' >= 2)
      BY <1>0, <2>3
    <3>2. ~Has(toNew', Sockets) /\ ~Has(toOld', Port) /\ acked' = {}
      BY <1>0, <1>6, <2>3, <2>5, <3>1
    <3> QED BY <1>4, <2>6, <3>1, <3>2 DEF Counted
  <2>9. NotBegun'
    BY <1>0, <2>3 DEF NotBegun, Early
  <2>10. Tracked'
    <3> SUFFICES ASSUME NEW d \in due'
                 PROVE  /\ at'[d] # "none"
                        /\ at'[d] = "old" => \/ d \in sourcesLeft' \/ MountOf[d] \in mountsLeft'
                                             \/ Has(toNew', {"bare source"})
                        /\ at'[d] = "moving" => In(toNew', Msg("source", d))
      BY <2>6 DEF Tracked
    <3>1. at[d] \notin {"none", "moving"} /\ d \in Source
      OBVIOUS
    <3>2. CASE d # s
      <4>1. at'[d] = at[d]
        BY <1>0, <2>3, <3>1, <3>2
      <4> QED BY <1>7, <3>1, <3>2, <4>1
    <3>3. CASE d = s /\ key = "source"
      <4>1. at'[d] = "moving" /\ m = Msg("source", d)
        BY <1>0, <2>3, <3>3 DEF m
      <4> QED BY <2>2, <4>1
    <3>4. CASE d = s /\ key = "bare source"
      <4>1. at'[d] = at[d]
        BY <1>0, <2>3, <3>4
      <4> QED BY <2>5, <3>1, <3>4, <4>1
    <3> QED BY <2>1, <3>2, <3>3, <3>4
  <2> QED BY <2>7, <2>8, <2>9, <2>10 DEF Relay
\* or all are there.
<1>8. CASE /\ sources = {} /\ \A m \in mounts : SourcesOf(m) = {}
           /\ PartDone /\ sourcesLeft' = {} /\ mountsLeft' = {} /\ UNCHANGED at
  <2>1. /\ Same(toNew, toNew', SourcesToNew) /\ Same(toNew, toNew', RewindsToNew)
        /\ Has(toNew', Sockets) => Has(toNew, Sockets) \/ parts' >= 2
        /\ parts' = parts + 1 /\ old' \in {old, "sockets"}
    BY <1>0, <1>8, PartDoneIs, Apart
  <2>2. ~Has(toNew', SourcesToNew) /\ ~Has(toNew', RewindsToNew)
    BY <1>1, <2>1 DEF Same
  <2>3. ~SourcesPending' /\ (RewindsPending' <=> RewindsPending)
    BY <1>3, <2>2 DEF SourcesPending, RewindsPending
  <2>4. OneAtATime'
    <3>1. Alone(toNew', SourcesToNew)
      BY <2>2 DEF Alone, Has
    <3> QED BY <1>2, <1>5, <2>2, <3>1 DEF OneAtATime
  <2>5. Counted'
    BY <1>0, <1>4, <1>6, <2>1, <2>3 DEF Counted
  <2>6. NotBegun'
    BY <1>0, <2>1 DEF NotBegun, Early
  <2>7. \A d \in due' : at[d] \notin {"none", "moving", "old"}
    <3> SUFFICES ASSUME NEW d \in due', at[d] = "old" PROVE FALSE
      OBVIOUS
    <3>1. MountOf[d] \in mounts
      BY <1>8
    <3>2. d \in SourcesOf(MountOf[d])
      BY DEF SourcesOf
    <3> QED BY <1>8, <3>1, <3>2
  <2>8. Tracked'
    BY <1>8, <2>7 DEF Tracked
  <2> QED BY <2>4, <2>5, <2>6, <2>8 DEF Relay
<1>9. CASE \E s \in sources : SendSource(s) /\ sourcesLeft' = sources \ {s} /\ mountsLeft' = mounts
  <2>1. PICK s \in sources : SendSource(s) /\ sourcesLeft' = sources \ {s} /\ mountsLeft' = mounts
    BY <1>9
  <2> QED BY <1>7, <2>1
<1>10. ASSUME sources = {}, NEW m \in mounts, NEW without \in SUBSET {n \in mounts : SourcesOf(n) = {}},
              NEW s \in SourcesOf(m), SendSource(s),
              sourcesLeft' = SourcesOf(m) \ {s}, mountsLeft' = mounts \ ({m} \cup without)
       PROVE  Relay'
  <2>1. s \in Source /\ MountOf[s] = m /\ SourcesOf(m) # {}
    BY <1>10 DEF SourcesOf
  <2>2. ASSUME NEW d \in due', at[d] = "old"
        PROVE  d = s \/ d \in sourcesLeft' \/ MountOf[d] \in mountsLeft'
    <3>1. MountOf[d] \in mounts /\ d \in SourcesOf(MountOf[d])
      BY <1>10, <2>2 DEF SourcesOf
    <3>2. MountOf[d] \notin without
      BY <3>1
    <3> QED BY <1>10, <3>1, <3>2
  <2> QED BY <1>7, <1>10, <2>1, <2>2
<1> QED BY <1>8, <1>9, <1>10 DEF SendNext
\* A step that leaves the queues alone
LEMMA Silent ==
    ASSUME FInv, old # "dead", new # "dead",
           UNCHANGED <<toNew, toOld, due, mountsLeft, sourcesLeft, asked, parts, acked>>,
           old' \in Early => old \in Early,
           \A s \in due : at'[s] = at[s] \/ at'[s] = "gone"
    PROVE  Relay'
<1>1. \A keys : Same(toNew, toNew', keys) /\ Same(toOld, toOld', keys)
  BY DEF Same
<1> QED BY <1>1, Quiet

\* While no source is under way, all that are due are on the lists or have moved.
LEMMA NoneMoves ==
    ASSUME FInv, old # "dead", new # "dead", ~Has(toNew, {"source", "bare source"}), NEW s \in due
    PROVE  /\ at[s] \notin {"none", "moving"}
           /\ at[s] = "old" => s \in sourcesLeft \/ MountOf[s] \in mountsLeft
<1>1. Tracked
  BY DEF FInv, Relay
<1>2. ~Has(toNew, {"bare source"}) /\ ~Has(toNew, {"source"})
  BY DEF Has
<1>3. at[s] # "moving"
  <2>1. Msg("source", s).key = "source"
    BY DEF Msg
  <2>2. ~In(toNew, Msg("source", s))
    BY <1>2, <2>1 DEF Has, In
  <2> QED BY <1>1, <2>2 DEF Tracked
<1> QED BY <1>1, <1>2, <1>3 DEF Tracked

LEMMA NoPart ==
    /\ \A n : n = 0 => ~(n >= 1) /\ ~(n >= 2)
    /\ \A n \in {0, 1} : ~(n >= 1) => n = 0
  OBVIOUS

\* Before the two parts go their own ways one message carries both on.
LEMMA PassOn ==
    ASSUME FInv, old # "dead", new # "dead", parts = 0, ~Has(toNew, {"source", "bare source"}),
           OneAtATime', SourcesPending', old' \notin Early,
           Has(toNew', Sockets) => Has(toNew, Sockets), Has(toOld', Port) => Has(toOld, Port),
           UNCHANGED <<at, parts, due, mountsLeft, sourcesLeft, acked>>
    PROVE  Relay'
<1>1. Counted'
  <2>1. ~(parts >= 2) /\ ~(parts' >= 1) /\ ~(parts' >= 2)
    BY NoPart
  <2>2. Counted
    BY DEF FInv, Relay
  <2>3. ~Has(toNew', Sockets) /\ ~Has(toOld', Port) /\ acked' = {}
    <3>1. ~Has(toNew, Sockets) /\ ~Has(toOld, Port) /\ acked = {}
      BY <2>1, <2>2 DEF Counted
    <3> QED BY <3>1
  <2> QED BY <2>1, <2>3 DEF Counted
<1>2. NotBegun'
  BY DEF NotBegun, Early
<1>3. Tracked'
  <2>1. ASSUME NEW s \in due
        PROVE  at[s] \notin {"none", "moving"} /\ (at[s] = "old" => s \in sourcesLeft \/ MountOf[s] \in mountsLeft)
    BY NoneMoves
  <2> QED BY <2>1 DEF Tracked
<1> QED BY <1>1, <1>2, <1>3 DEF Relay

\* The keys of the messages that carry both parts, as far as the parts see them
LEMMA Keys ==
    /\ "config" \in SourcesToNew \cap RewindsToNew /\ "configured ok" \in SourcesToNew \cap RewindsToNew
    /\ "config ok" \in SourcesToOld \cap RewindsToOld
    /\ "sources" \in SourcesToOld \ RewindsToOld /\ "source ok" \in SourcesToOld \ RewindsToOld
    /\ "stream_rewinds" \in RewindsToOld \ SourcesToOld
    /\ {"config", "configured ok", "source", "bare source"} \cap Sockets = {}
    /\ (SourcesToOld \cup RewindsToOld) \cap Port = {}
    /\ \A key \in {"GO", "configured", "stream_rewind ok"} \cup Port :
            key \notin SourcesToOld \cup RewindsToOld
    /\ \A key \in {"GO", "configured", "stream_rewind ok"} : key \notin Port
    /\ \A key \in {"HANDOFF_GO", "stream_rewind"} \cup Sockets : key \notin SourcesToNew
    /\ \A key \in {"HANDOFF_GO", "stream_rewind"} : key \notin Sockets
  BY DEF SourcesToNew, RewindsToNew, SourcesToOld, RewindsToOld, Sockets, Port

\* Each step of the old process keeps the account.
LEMMA OldRelays ==
    ASSUME FInv, old # "dead", new # "dead", OldStep
    PROVE  Relay'
<1>0. /\ Relay /\ TypeOK /\ MountsKnown /\ toOld \in Seq(OldMessages) /\ toNew \in Seq(NewMessages)
      /\ due \in SUBSET Source /\ mountsLeft \in SUBSET Stream /\ sourcesLeft \in SUBSET Source
      /\ oldStreams \in SUBSET Stream /\ streamsLeft \in SUBSET Stream
  BY DEF FInv, IInv, TypeOK
<1>t. ASSUME NEW key, OldTakes(key) PROVE Took(toOld, toOld', key) /\ OldAlive
  BY <1>0, <1>t, TookIs DEF OldTakes
<1>1. CASE AskGo
  <2> DEFINE m == Msg("HANDOFF_GO", None)
  <2>1. m \in NewMessages /\ m.key = "HANDOFF_GO"
    BY DEF Msg, NewMessages
  <2>2. NewAlive
    BY <1>0, <1>1 DEF AskGo, MountsKnown, NewAlive
  <2>3. TellNew(<<m>>) /\ UNCHANGED <<toOld, at, oldVars>> /\ old \in Early
    BY <1>1 DEF AskGo, Early
  <2> HIDE DEF m
  <2>4. Sent(toNew, toNew', {m.key}) /\ \A x : In(toNew, x) => In(toNew', x)
    BY <1>0, <2>1, <2>2, <2>3, ToldOne
  <2>5. {m.key} \cap SourcesToNew = {} /\ {m.key} \cap RewindsToNew = {}
        /\ {m.key} \cap {"bare source"} = {} /\ {m.key} \cap Sockets = {}
    BY <2>1 DEF SourcesToNew, RewindsToNew, Sockets
  <2>6. \A keys \in {SourcesToNew, RewindsToNew, {"bare source"}} : Same(toNew, toNew', keys)
    BY <2>4, <2>5, SentSame
  <2>7. Has(toNew', Sockets) => Has(toNew, Sockets)
    BY <2>4, <2>5 DEF Sent
  <2>8. \A keys : Same(toOld, toOld', keys)
    BY <2>3 DEF Same
  <2>9. UNCHANGED <<due, mountsLeft, sourcesLeft, asked, parts, acked>>
    BY <2>3 DEF oldVars
  <2> QED BY <2>3, <2>4, <2>6, <2>7, <2>8, <2>9, Quiet
<1>2. CASE OldGo
  <2>1. /\ OldTakes("GO") /\ (old' \in Early => old \in Early)
        /\ UNCHANGED <<toNew, at, due, mountsLeft, sourcesLeft, asked, parts, acked>>
    BY <1>2 DEF OldGo, oldVars, Early
  <2> QED BY <2>1, Keys, OldTakesOther
<1>3. CASE OldConfigured /\ old # "awaiting"
  <2>1. /\ OldTakes("configured") /\ UNCHANGED old
        /\ UNCHANGED <<toNew, at, due, mountsLeft, sourcesLeft, asked, parts, acked>>
    BY <1>3 DEF OldConfigured, oldVars
  <2> QED BY <2>1, Keys, OldTakesOther
<1>4. CASE OldConfigured /\ old = "awaiting"
  <2> DEFINE m == Msg("config", oldStreams)
  <2>1. m \in NewMessages /\ m.key = "config"
    BY <1>0 DEF Msg, NewMessages
  <2>2. NewAlive /\ parts = 0 /\ ~SourcesPending /\ ~RewindsPending
    BY <1>0, <1>4 DEF Relay, NotBegun, MountsKnown, NewAlive
  <2>3. /\ TellNew(<<m>>) /\ OldTakes("configured") /\ old' = "syncing"
        /\ UNCHANGED <<at, parts, due, mountsLeft, sourcesLeft, acked, asked>>
    BY <1>4 DEF OldConfigured, oldVars
  <2> HIDE DEF m
  <2>4. Sent(toNew, toNew', {m.key}) /\ Took(toOld, toOld', "configured")
    BY <1>0, <1>t, <2>1, <2>2, <2>3, ToldOne
  <2>5. /\ ~Has(toNew, SourcesToNew) /\ ~Has(toNew, RewindsToNew) /\ asked = None
        /\ ~Has(toOld', SourcesToOld) /\ ~Has(toOld', RewindsToOld)
    BY <2>2, <2>4 DEF SourcesPending, RewindsPending, Took
  <2>6. /\ Has(toNew', SourcesToNew) /\ Alone(toNew', SourcesToNew)
        /\ (Has(toNew', Sockets) => Has(toNew, Sockets))
    <3>1. {m.key} \cap SourcesToNew # {} /\ {m.key} \cap Sockets = {}
          /\ \A a, b \in {m.key} \cap SourcesToNew : a = b
      BY <2>1, Keys
    <3> QED BY <2>4, <2>5, <3>1 DEF Sent
  <2>7. OneAtATime' /\ SourcesPending'
    <3>1. Alone(toOld', SourcesToOld) /\ Alone(toOld', RewindsToOld)
      BY <2>5 DEF Alone, Has
    <3> QED BY <2>3, <2>5, <2>6, <3>1 DEF OneAtATime, SourcesPending
  <2>8. ~Has(toNew, {"source", "bare source"})
    BY <2>5 DEF Has, SourcesToNew
  <2>9. Has(toOld', Port) => Has(toOld, Port)
    BY <2>4 DEF Took
  <2> QED BY <2>2, <2>3, <2>6, <2>7, <2>8, <2>9, PassOn DEF Early
<1>5. CASE OldSynced
  <2> DEFINE m == Msg("configured ok", None)
  <2>1. m \in NewMessages /\ m.key = "configured ok"
    BY DEF Msg, NewMessages
  <2>2. /\ TellNew(<<m>>) /\ OldTakes("config ok") /\ old' = "sending"
        /\ UNCHANGED <<at, parts, due, mountsLeft, sourcesLeft, acked, asked>>
    BY <1>5 DEF OldSynced, oldVars
  <2> HIDE DEF m
  <2>3. Took(toOld, toOld', "config ok")
    BY <1>t, <2>2
  <2>4. Has(toOld, SourcesToOld) /\ Has(toOld, RewindsToOld)
    BY <2>3, Keys DEF Took
  <2>5. /\ ~Has(toNew, SourcesToNew) /\ ~Has(toNew, RewindsToNew) /\ asked = None
        /\ ~Has(toOld', SourcesToOld) /\ ~Has(toOld', RewindsToOld)
    BY <1>0, <2>3, <2>4, Keys DEF Relay, OneAtATime, Took
  <2>6. NewAlive /\ parts \in {0, 1} /\ ~(parts >= 1)
    BY <1>0, <2>4, PartUnderWay DEF Relay, Counted, SourcesPending, RewindsPending
  <2>7. parts = 0
    BY <2>6
  <2>8. Sent(toNew, toNew', {m.key})
    BY <1>0, <2>1, <2>2, <2>6, ToldOne
  <2>9. /\ Has(toNew', SourcesToNew) /\ Alone(toNew', SourcesToNew)
        /\ (Has(toNew', Sockets) => Has(toNew, Sockets))
    <3>1. {m.key} \cap SourcesToNew # {} /\ {m.key} \cap Sockets = {}
          /\ \A a, b \in {m.key} \cap SourcesToNew : a = b
      BY <2>1, Keys
    <3> QED BY <2>5, <2>8, <3>1 DEF Sent
  <2>10. OneAtATime' /\ SourcesPending'
    <3>1. Alone(toOld', SourcesToOld) /\ Alone(toOld', RewindsToOld)
      BY <2>5 DEF Alone, Has
    <3> QED BY <2>2, <2>5, <2>9, <3>1 DEF OneAtATime, SourcesPending
  <2>11. ~Has(toNew, {"source", "bare source"})
    BY <2>5 DEF Has, SourcesToNew
  <2>12. Has(toOld', Port) => Has(toOld, Port)
    BY <2>3 DEF Took
  <2> QED BY <2>2, <2>7, <2>9, <2>10, <2>11, <2>12, PassOn DEF Early
<1>6. ASSUME NEW key \in {"sources", "source ok"}, OldTakes(key)
      PROVE  /\ Has(toOld, SourcesToOld) /\ ~Has(toOld', SourcesToOld)
             /\ Same(toOld, toOld', RewindsToOld) /\ (Has(toOld', Port) => Has(toOld, Port))
             /\ ~Has(toNew, {"source", "bare source"})
  <2>1. Took(toOld, toOld', key)
    BY <1>6, <1>t
  <2>2. key \in SourcesToOld /\ key \notin RewindsToOld
    BY Keys
  <2>3. Has(toOld, SourcesToOld) /\ ~Has(toOld', SourcesToOld)
    BY <1>0, <2>1, <2>2 DEF Relay, OneAtATime, Took
  <2>4. ~Has(toNew, {"source", "bare source"})
    BY <1>0, <2>3 DEF Relay, OneAtATime, Has, SourcesToNew
  <2>5. Same(toOld, toOld', RewindsToOld)
    BY <2>1, <2>2, TookSame DEF TookOther
  <2> QED BY <2>1, <2>3, <2>4, <2>5 DEF Took
<1>7. CASE OldGetsSources
  <2>1. /\ OldTakes("sources") /\ due' = {s \in Source : at[s] = "old"}
        /\ SendNext(oldStreams, {}) /\ UNCHANGED <<asked, acked>>
    BY <1>7 DEF OldGetsSources
  <2>2. /\ due' \in SUBSET Source
        /\ \A s \in due' : /\ at[s] \notin {"none", "moving"}
                           /\ at[s] = "old" => s \in {} \/ MountOf[s] \in oldStreams
    BY <1>0, <2>1 DEF MountsKnown
  <2> QED BY <1>0, <1>6, <2>1, <2>2, SourcesGoOn
<1>8. CASE OldSentSource
  <2>1. /\ OldTakes("source ok") /\ due' = due
        /\ SendNext(mountsLeft, sourcesLeft) /\ UNCHANGED <<asked, acked>>
    BY <1>8 DEF OldSentSource
  <2>2. /\ due' \in SUBSET Source
        /\ \A s \in due' : /\ at[s] \notin {"none", "moving"}
                           /\ at[s] = "old" => s \in sourcesLeft \/ MountOf[s] \in mountsLeft
    BY <1>0, <1>6, <2>1, NoneMoves
  <2> QED BY <1>0, <1>6, <2>1, <2>2, SourcesGoOn
<1>9. CASE OldGetsRewinds
  <2>1. /\ OldTakes("stream_rewinds") /\ SendNextRewind(oldStreams)
        /\ UNCHANGED <<at, due, mountsLeft, sourcesLeft, acked>>
    BY <1>9 DEF OldGetsRewinds
  <2>2. Took(toOld, toOld', "stream_rewinds")
    BY <1>t, <2>1
  <2>3. Has(toOld, RewindsToOld) /\ ~Has(toOld', RewindsToOld)
    BY <1>0, <2>2, Keys DEF Relay, OneAtATime, Took
  <2>4. RewindsPending /\ ~Has(toNew, RewindsToNew)
    BY <1>0, <2>3 DEF Relay, OneAtATime, RewindsPending
  <2>5. Same(toOld, toOld', SourcesToOld) /\ (Has(toOld', Port) => Has(toOld, Port))
    BY <2>2, TookSame, Keys DEF TookOther, Took
  <2> QED BY <1>0, <2>1, <2>3, <2>4, <2>5, RewindsGoOn
<1>10. CASE OldSentRewind
  <2>1. OldTakes("stream_rewind ok") /\ UNCHANGED <<at, due, mountsLeft, sourcesLeft, acked>>
    BY <1>10 DEF OldSentRewind
  <2>2. CASE asked # Head(toOld).of
    <3>1. UNCHANGED <<old, toNew, asked, parts>>
      BY <1>10, <2>2 DEF OldSentRewind
    <3> QED BY <2>1, <3>1, Keys, OldTakesOther
  <2>3. CASE asked = Head(toOld).of
    <3>1. SendNextRewind(streamsLeft)
      BY <1>10, <2>3 DEF OldSentRewind
    <3>2. Head(toOld) \in OldMessages /\ Head(toOld).key = "stream_rewind ok"
      BY <1>0, <2>1, OldTook
    <3>3. asked \in Stream
      BY <2>3, <3>2 DEF OldMessages, Port
    <3>4. asked # None
      BY <3>3, SourceAssumption
    <3>5. RewindsPending /\ ~Has(toNew, RewindsToNew) /\ ~Has(toOld, RewindsToOld)
      BY <1>0, <3>4 DEF Relay, OneAtATime, RewindsPending
    <3>6. Took(toOld, toOld', "stream_rewind ok")
      BY <1>t, <2>1
    <3>7. /\ ~Has(toOld', RewindsToOld) /\ Same(toOld, toOld', SourcesToOld)
          /\ (Has(toOld', Port) => Has(toOld, Port))
      BY <3>5, <3>6, TookSame, Keys DEF TookOther, Took
    <3> QED BY <1>0, <2>1, <3>1, <3>5, <3>7, RewindsGoOn
  <2> QED BY <2>2, <2>3
<1>11. ASSUME NEW port \in Port, OldSentSocket(port) PROVE Relay'
  <2>1. /\ OldTakes(port) /\ (old' \in Early => old \in Early)
        /\ UNCHANGED <<toNew, at, due, mountsLeft, sourcesLeft, asked, parts>>
    BY <1>11 DEF OldSentSocket, Early
  <2> QED BY <2>1, Keys, OldTakesOther
<1> QED BY <1>1, <1>2, <1>3, <1>4, <1>5, <1>7, <1>8, <1>9, <1>10, <1>11 DEF OldStep

\* A source that has come goes on to its new mount and is confirmed.
LEMMA SourceArrives ==
    ASSUME FInv, old # "dead", new # "dead", NewGets("source"), NewGoesOn,
           NEW s, s = Head(toNew).of, TellOld(<<Msg("source ok", s)>>),
           at' = IF at[s] = "moving" THEN [at EXCEPT ![s] = "new"] ELSE at
    PROVE  Relay'
<1>0. /\ Relay /\ TypeOK /\ toNew \in Seq(NewMessages) /\ due \in SUBSET Source
      /\ at \in [Source -> {"none", "old", "moving", "new", "gone"}]
  BY DEF FInv, IInv, TypeOK
<1>1. /\ toNew # <<>> /\ Head(toNew).key = "source" /\ toNew' = Tail(toNew)
      /\ UNCHANGED <<old, due, mountsLeft, sourcesLeft, asked, parts, acked>>
  BY DEF NewGets, NewGoesOn, oldVars
<1>2. s \in Source /\ Head(toNew) = Msg("source", s)
  <2>1. Head(toNew) \in NewMessages
    BY <1>0, <1>1, TailOf
  <2>2. Head(toNew) \in [key : {"source", "bare source"}, of : Source]
    BY <1>1, <2>1 DEF NewMessages
  <2> QED BY <1>1, <2>2 DEF Msg
<1>3. Took(toNew, toNew', "source")
  BY <1>0, <1>1, TookIs
<1>4. /\ "source" \in SourcesToNew /\ "source" \notin RewindsToNew
      /\ "source" \notin {"bare source"} /\ "source" \notin Sockets
      /\ "source ok" \in SourcesToOld /\ "source ok" \notin RewindsToOld /\ "source ok" \notin Port
  BY DEF SourcesToNew, RewindsToNew, SourcesToOld, RewindsToOld, Sockets, Port
<1>5. Has(toNew, SourcesToNew) /\ ~Has(toNew', SourcesToNew) /\ ~Has(toOld, SourcesToOld)
  BY <1>0, <1>3, <1>4 DEF Relay, OneAtATime, Took
<1>6. SourcesPending /\ OldAlive
  BY <1>5, PartUnderWay DEF SourcesPending
<1>7. Sent(toOld, toOld', {"source ok"})
  <2> DEFINE m == Msg("source ok", s)
  <2>1. m \in OldMessages /\ m.key = "source ok"
    BY <1>2 DEF Msg, OldMessages
  <2> HIDE DEF m
  <2>2. TellOld(<<m>>)
    BY DEF m
  <2> QED BY <1>0, <1>6, <2>1, <2>2, ToldOldOne
<1>8. /\ Has(toOld', SourcesToOld) /\ Alone(toOld', SourcesToOld)
      /\ Same(toOld, toOld', RewindsToOld) /\ Same(toNew, toNew', RewindsToNew)
      /\ (Has(toOld', Port) => Has(toOld, Port)) /\ (Has(toNew', Sockets) => Has(toNew, Sockets))
  <2>1. /\ {"source ok"} \cap SourcesToOld # {} /\ {"source ok"} \cap RewindsToOld = {}
        /\ {"source ok"} \cap Port = {}
        /\ \A a, b \in {"source ok"} \cap SourcesToOld : a = b
    BY <1>4
  <2>2. Same(toOld, toOld', RewindsToOld)
    BY <1>7, <2>1, SentSame
  <2>3. Same(toNew, toNew', RewindsToNew)
    BY <1>3, <1>4, TookSame DEF TookOther
  <2> QED BY <1>3, <1>5, <1>7, <2>1, <2>2, <2>3 DEF Sent, Took
<1>9. SourcesPending' /\ (RewindsPending' <=> RewindsPending)
  BY <1>1, <1>8 DEF SourcesPending, RewindsPending, Same
<1>10. OneAtATime'
  <2>1. Alone(toNew', SourcesToNew)
    BY <1>0, <1>3 DEF Relay, OneAtATime, Took
  <2> QED BY <1>0, <1>1, <1>5, <1>8, <2>1 DEF Relay, OneAtATime, Same
<1>11. Counted'
  BY <1>0, <1>1, <1>6, <1>8, <1>9 DEF Relay, Counted
<1>12. NotBegun'
  BY <1>0, <1>1, <1>6 DEF Relay, NotBegun
<1>13. Tracked'
  <2> SUFFICES ASSUME NEW d \in due
               PROVE  /\ at'[d] \notin {"none", "moving"}
                      /\ at'[d] = "old" => d \in sourcesLeft \/ MountOf[d] \in mountsLeft
    BY <1>1, <1>9 DEF Tracked
  <2>1. /\ at[d] # "none"
        /\ at[d] = "old" => \/ d \in sourcesLeft \/ MountOf[d] \in mountsLeft
                            \/ Has(toNew, {"bare source"})
        /\ at[d] = "moving" => In(toNew, Msg("source", d))
    BY <1>0 DEF Relay, Tracked
  <2>2. ~Has(toNew, {"bare source"})
    <3>1. ~Has(toNew', {"bare source"})
      BY <1>5 DEF Has, SourcesToNew
    <3> QED BY <1>3, <1>4, <3>1 DEF Took
  <2>3. CASE d = s
    <3>1. at'[d] = IF at[d] = "moving" THEN "new" ELSE at[d]
      BY <1>0, <1>2, <2>3
    <3>2. CASE at[d] = "moving"
      <4>1. at'[d] = "new"
        BY <3>1, <3>2
      <4> QED BY <4>1
    <3>3. CASE at[d] # "moving"
      <4>1. at'[d] = at[d]
        BY <3>1, <3>3
      <4> QED BY <2>1, <2>2, <3>3, <4>1
    <3> QED BY <3>2, <3>3
  <2>4. CASE d # s
    <3>1. at'[d] = at[d]
      BY <1>0, <1>2, <2>4
    <3>2. ~In(toNew, Msg("source", d))
      <4>1. Msg("source", d) # Msg("source", s) /\ Msg("source", d).key = "source"
        <5>1. Msg("source", d).of = d /\ Msg("source", s).of = s
          BY DEF Msg
        <5> QED BY <2>4, <5>1 DEF Msg
      <4>2. ~In(toNew', Msg("source", d))
        BY <1>4, <1>5, <4>1 DEF In, Has
      <4> QED BY <1>0, <1>1, <1>2, <4>1, <4>2, InTail
    <3> QED BY <2>1, <2>2, <3>1, <3>2
  <2> QED BY <2>3, <2>4
<1> QED BY <1>10, <1>11, <1>12, <1>13 DEF Relay

\* The new process tells the old one something of neither part, and takes nothing.
LEMMA NewTells ==
    ASSUME FInv, old # "dead", new # "dead", NEW m \in OldMessages, TellOld(<<m>>),
           m.key \notin SourcesToOld \cup RewindsToOld, m.key \in Port => Has(toNew, Sockets),
           \A keys \in {SourcesToNew, RewindsToNew, {"bare source"}} : Same(toNew, toNew', keys),
           \A s \in Source : In(toNew, Msg("source", s)) => In(toNew', Msg("source", s)),
           Has(toNew', Sockets) => Has(toNew, Sockets),
           UNCHANGED <<old, at, oldVars>>
    PROVE  Relay'
<1>1. TypeOK /\ UNCHANGED <<due, mountsLeft, sourcesLeft, asked, parts, acked>>
  BY DEF FInv, IInv, oldVars
<1>2. /\ Same(toOld, toOld', SourcesToOld) /\ Same(toOld, toOld', RewindsToOld)
      /\ Has(toOld', Port) => Has(toOld, Port) \/ Has(toNew, Sockets)
  BY <1>1, ToldOldOther
<1> QED BY <1>1, <1>2, Quiet

\* Each step of the new process that does not end it keeps the account.
LEMMA NewRelays ==
    ASSUME FInv, old # "dead", new # "dead", new' # "dead", NewStep \/ HandshakeTimeout
    PROVE  Relay'
<1>0. /\ Relay /\ TypeOK /\ MountsKnown /\ toOld \in Seq(OldMessages) /\ toNew \in Seq(NewMessages)
  BY DEF FInv, IInv, TypeOK
<1>e. ~NewEnds
  BY DEF NewEnds
<1>m. /\ \A key \in {"GO", "configured", "config ok", "sources", "stream_rewinds"} \cup Port :
              Msg(key, None) \in OldMessages /\ Msg(key, None).key = key
      /\ \A st \in Stream : /\ Msg("stream_rewind ok", st) \in OldMessages
                            /\ Msg("stream_rewind ok", st).key = "stream_rewind ok"
  BY DEF Msg, OldMessages
<1>s. \A keys : Same(toNew, toNew, keys) /\ Same(toOld, toOld, keys)
  BY DEF Same
<1>1. CASE HandshakeTimeout \/ FallbackListens \/ \E st \in Stream : NewConnects(st)
  <2>1. UNCHANGED <<toNew, toOld, due, mountsLeft, sourcesLeft, asked, parts, acked, old, at>>
    BY <1>1, <1>e DEF HandshakeTimeout, FallbackListens, NewConnects, oldVars
  <2> QED BY <2>1, Silent
<1>2. CASE NewGo
  <2> DEFINE m == Msg("GO", None)
  <2>1. /\ NewGets("HANDOFF_GO") /\ NewGoesOn /\ TellOld(<<m>>)
        /\ UNCHANGED <<old, at, oldVars>>
    BY <1>2 DEF NewGo, NewGoesOn
  <2>2. m \in OldMessages /\ m.key \notin SourcesToOld \cup RewindsToOld /\ m.key \notin Port
    BY <1>m, Keys
  <2> HIDE DEF m
  <2>3. "HANDOFF_GO" \notin SourcesToNew
    BY Keys
  <2>4. /\ \A keys \in {SourcesToNew, RewindsToNew, {"bare source"}} : Same(toNew, toNew', keys)
        /\ \A s \in Source : In(toNew, Msg("source", s)) => In(toNew', Msg("source", s))
        /\ Has(toNew', Sockets) => Has(toNew, Sockets)
    BY <1>0, <2>1, <2>3, NewTakesOther
  <2> QED BY <2>1, <2>2, <2>4, NewTells
<1>3. CASE NewConfigured
  <2> DEFINE m == Msg("configured", None)
  <2>1. TellOld(<<m>>) /\ UNCHANGED <<old, toNew, at, oldVars>>
    BY <1>3 DEF NewConfigured
  <2>2. m \in OldMessages /\ m.key \notin SourcesToOld \cup RewindsToOld /\ m.key \notin Port
    BY <1>m, Keys
  <2> HIDE DEF m
  <2>3. toNew' = toNew
    BY <2>1
  <2> QED BY <1>s, <2>1, <2>2, <2>3, NewTells
<1>4. CASE \E st \in Stream : NewLoads(st)
  <2>0. PICK st \in Stream : NewLoads(st)
    BY <1>4
  <2> DEFINE m == Msg("stream_rewind ok", st)
  <2>1. TellOld(<<m>>) /\ UNCHANGED <<old, toNew, at, oldVars>>
    BY <2>0 DEF NewLoads
  <2>2. m \in OldMessages /\ m.key \notin SourcesToOld \cup RewindsToOld /\ m.key \notin Port
    BY <1>m, Keys
  <2> HIDE DEF m
  <2>3. toNew' = toNew
    BY <2>1
  <2> QED BY <1>s, <2>1, <2>2, <2>3, NewTells
<1>5. ASSUME NEW key \in Sockets, NEW port \in Port, NewGetsSocket(key, port)
      PROVE  Relay'
  <2>1. /\ NewGets(key) /\ NewGoesOn /\ TellOld(<<Msg(port, None)>>)
        /\ UNCHANGED <<old, at, oldVars>>
    BY <1>5 DEF NewGetsSocket, NewGoesOn
  <2>2. key \notin SourcesToNew
    BY Keys
  <2>3. /\ \A keys \in {SourcesToNew, RewindsToNew, {"bare source"}} : Same(toNew, toNew', keys)
        /\ \A s \in Source : In(toNew, Msg("source", s)) => In(toNew', Msg("source", s))
        /\ Has(toNew', Sockets) => Has(toNew, Sockets)
        /\ Has(toNew, Sockets)
    BY <1>0, <2>1, <2>2, NewTakesOther
  <2>4. /\ Msg(port, None) \in OldMessages
        /\ Msg(port, None).key \notin SourcesToOld \cup RewindsToOld
    BY <1>m, Keys
  <2> QED BY <2>1, <2>3, <2>4, NewTells
<1>6. CASE NewGetsRewind
  <2>1. /\ NewGets("stream_rewind") /\ NewGoesOn
        /\ UNCHANGED <<old, at, due, mountsLeft, sourcesLeft, asked, parts, acked, toOld>>
    BY <1>6 DEF NewGetsRewind, NewGoesOn, oldVars
  <2>2. "stream_rewind" \notin SourcesToNew
    BY Keys
  <2>3. /\ \A keys \in {SourcesToNew, RewindsToNew, {"bare source"}} : Same(toNew, toNew', keys)
        /\ \A s \in Source : In(toNew, Msg("source", s)) => In(toNew', Msg("source", s))
        /\ Has(toNew', Sockets) => Has(toNew, Sockets)
    BY <1>0, <2>1, <2>2, NewTakesOther
  <2> QED BY <1>s, <2>1, <2>3, Quiet
<1>7. CASE NewGetsSource
  <2> DEFINE s == Head(toNew).of
  <2>1. /\ NewGets("source") /\ NewGoesOn /\ TellOld(<<Msg("source ok", s)>>)
        /\ at' = IF at[s] = "moving" THEN [at EXCEPT ![s] = "new"] ELSE at
    BY <1>7, <1>e DEF NewGetsSource
  <2> QED BY <2>1, SourceArrives
\* The configuration, and that it was taken, go to and fro before the parts begin.
<1>8. ASSUME NEW key \in {"config", "configured ok"}, NewGets(key), NewGoesOn
      PROVE  /\ Took(toNew, toNew', key) /\ OldAlive /\ old \notin Early /\ parts = 0 /\ asked = None
             /\ ~Has(toNew', SourcesToNew) /\ ~Has(toNew', RewindsToNew)
             /\ ~Has(toOld, SourcesToOld) /\ ~Has(toOld, RewindsToOld)
             /\ ~Has(toNew, {"source", "bare source"})
             /\ (Has(toNew', Sockets) => Has(toNew, Sockets))
             /\ UNCHANGED <<old, parts, due, mountsLeft, sourcesLeft, asked, acked>>
  <2>1. Took(toNew, toNew', key)
    BY <1>0, <1>8, TookIs DEF NewGets, NewGoesOn
  <2>2. Has(toNew, SourcesToNew) /\ Has(toNew, RewindsToNew)
    BY <2>1, Keys DEF Took
  <2>3. /\ ~Has(toNew', SourcesToNew) /\ ~Has(toOld, SourcesToOld) /\ ~Has(toOld, RewindsToOld)
        /\ asked = None
    BY <1>0, <2>1, <2>2, Keys DEF Relay, OneAtATime, Took
  <2>4. ~Has(toNew', RewindsToNew) /\ ~Has(toNew', {"source", "bare source"})
    BY <2>3 DEF Has, SourcesToNew, RewindsToNew
  <2>5. ~Has(toNew, {"source", "bare source"})
    BY <2>1, <2>4 DEF Took
  <2>6. OldAlive /\ old \notin Early /\ parts \in {0, 1} /\ ~(parts >= 1)
    BY <1>0, <2>2, PartUnderWay DEF Relay, Counted, SourcesPending, RewindsPending
  <2>7. parts = 0
    BY <2>6, NoPart
  <2>8. UNCHANGED <<old, parts, due, mountsLeft, sourcesLeft, asked, acked>>
    BY <1>8 DEF NewGoesOn, oldVars
  <2> QED BY <2>1, <2>3, <2>4, <2>5, <2>6, <2>7, <2>8 DEF Took
<1>9. CASE NewConfig
  <2>1. NewGets("config") /\ NewGoesOn /\ TellOld(<<Msg("config ok", None)>>) /\ UNCHANGED at
    BY <1>9 DEF NewConfig
  <2> DEFINE m == Msg("config ok", None)
  <2>2. m \in OldMessages /\ m.key = "config ok"
    BY <1>m
  <2>3. TellOld(<<m>>)
    BY <2>1
  <2> HIDE DEF m
  <2>4. OldAlive
    BY <1>8, <2>1
  <2>5. Sent(toOld, toOld', {"config ok"})
    BY <1>0, <2>2, <2>3, <2>4, ToldOldOne
  <2>6. /\ {"config ok"} \cap SourcesToOld # {} /\ {"config ok"} \cap Port = {}
        /\ \A a, b \in {"config ok"} \cap SourcesToOld : a = b
        /\ \A a, b \in {"config ok"} \cap RewindsToOld : a = b
    BY Keys
  <2>7. /\ Has(toOld', SourcesToOld) /\ Alone(toOld', SourcesToOld) /\ Alone(toOld', RewindsToOld)
        /\ (Has(toOld', Port) => Has(toOld, Port))
    BY <1>8, <2>1, <2>5, <2>6 DEF Sent
  <2>8. OneAtATime' /\ SourcesPending'
    <3>1. Alone(toNew', SourcesToNew)
      BY <1>8, <2>1 DEF Alone, Has
    <3> QED BY <1>8, <2>1, <2>7, <3>1 DEF OneAtATime, SourcesPending
  <2> QED BY <1>8, <2>1, <2>7, <2>8, PassOn
<1>10. CASE NewConfirmed
  <2> DEFINE m == Msg("sources", None)
             n == Msg("stream_rewinds", None)
  <2>1. NewGets("configured ok") /\ NewGoesOn /\ TellOld(<<m, n>>) /\ UNCHANGED at
    BY <1>10 DEF NewConfirmed
  <2>2. m \in OldMessages /\ m.key = "sources" /\ n \in OldMessages /\ n.key = "stream_rewinds"
    BY <1>m
  <2> HIDE DEF m, n
  <2>3. OldAlive
    BY <1>8, <2>1
  <2>4. toOld' = toOld \o <<m, n>>
    BY <2>1, <2>3 DEF TellOld
  <2>5. Sent(toOld, toOld', {"sources", "stream_rewinds"})
    BY <1>0, <2>2, <2>4, SentTwo
  <2>6. /\ {"sources", "stream_rewinds"} \cap SourcesToOld # {}
        /\ {"sources", "stream_rewinds"} \cap Port = {}
        /\ \A a, b \in {"sources", "stream_rewinds"} \cap SourcesToOld : a = b
        /\ \A a, b \in {"sources", "stream_rewinds"} \cap RewindsToOld : a = b
    BY Keys
  <2>7. /\ Has(toOld', SourcesToOld) /\ Alone(toOld', SourcesToOld) /\ Alone(toOld', RewindsToOld)
        /\ (Has(toOld', Port) => Has(toOld, Port))
    BY <1>8, <2>1, <2>5, <2>6 DEF Sent
  <2>8. OneAtATime' /\ SourcesPending'
    <3>1. Alone(toNew', SourcesToNew)
      BY <1>8, <2>1 DEF Alone, Has
    <3> QED BY <1>8, <2>1, <2>7, <3>1 DEF OneAtATime, SourcesPending
  <2> QED BY <1>8, <2>1, <2>7, <2>8, PassOn
<1>11. ~NewGetsBareSource
  BY <1>e DEF NewGetsBareSource
<1>12. /\ "source" \in Port /\ "master" \in Port
       /\ "source_socket" \in Sockets /\ "master_handle" \in Sockets
  BY DEF Port, Sockets
<1> QED BY <1>1, <1>2, <1>3, <1>4, <1>5, <1>6, <1>7, <1>9, <1>10, <1>11, <1>12 DEF NewStep

\* Of the mishaps, those that leave both processes alive
LEMMA MishapRelays ==
    ASSUME FInv, old # "dead", new # "dead", old' # "dead", new' # "dead", Mishap
    PROVE  Relay'
<1>0. Relay /\ TypeOK /\ due \in SUBSET Source /\ streamsLeft \in SUBSET Stream
      /\ at \in [Source -> {"none", "old", "moving", "new", "gone"}]
  BY DEF FInv, IInv, TypeOK
<1>1. CASE GoTimeout \/ CreateStream
  <2>1. /\ UNCHANGED <<toNew, toOld, due, mountsLeft, sourcesLeft, asked, parts, acked, at>>
        /\ old' \in Early => old \in Early
    BY <1>1 DEF GoTimeout, CreateStream, oldVars, Early
  <2> QED BY <2>1, Silent
<1>2. CASE RewindTimeout
  <2>1. /\ asked # None /\ SendNextRewind(streamsLeft)
        /\ UNCHANGED <<toOld, at, due, mountsLeft, sourcesLeft, acked>>
    BY <1>2 DEF RewindTimeout
  <2>2. /\ RewindsPending /\ ~Has(toNew, RewindsToNew) /\ ~Has(toOld', RewindsToOld)
        /\ Same(toOld, toOld', SourcesToOld) /\ (Has(toOld', Port) => Has(toOld, Port))
    BY <1>0, <2>1 DEF Relay, OneAtATime, RewindsPending, Same
  <2> QED BY <1>0, <2>1, <2>2, RewindsGoOn
<1>3. ~OldDies /\ ~NewDies
  BY DEF OldDies, NewDies, NewEnds
<1>4. ASSUME NEW s \in Source, SourceConnects(s) \/ SourceLeaves(s)
      PROVE  Relay'
  <2>1. UNCHANGED <<old, toNew, toOld, due, mountsLeft, sourcesLeft, asked, parts, acked>>
    BY <1>4 DEF SourceConnects, SourceLeaves, oldVars
  <2>2. ASSUME NEW d \in due PROVE at'[d] = at[d] \/ at'[d] = "gone"
    <3>1. at[d] # "none" /\ d \in Source
      BY <1>0 DEF Relay, Tracked
    <3>2. CASE SourceConnects(s)
      <4>1. d # s
        BY <3>1, <3>2 DEF SourceConnects
      <4> QED BY <1>0, <3>1, <3>2, <4>1 DEF SourceConnects
    <3>3. CASE SourceLeaves(s)
      BY <1>0, <3>1, <3>3 DEF SourceLeaves
    <3> QED BY <1>4, <3>2, <3>3
  <2> QED BY <2>1, <2>2, Silent
<1> QED BY <1>1, <1>2, <1>3, <1>4 DEF Mishap

LEMMA RunnerRelays ==
    ASSUME FInv, old # "dead", new # "dead", RunnerStep
    PROVE  Relay'
<1>1. /\ UNCHANGED <<toNew, toOld, due, mountsLeft, sourcesLeft, asked, parts, acked, at>>
      /\ old' \in Early => old \in Early
  BY DEF RunnerStep, Restart, OldExitSeen, NewExitSeen, SpareListens, oldVars, Early
<1> QED BY <1>1, Silent

\* A process that has died is not heard of again.
LEMMA DeadStays ==
    ASSUME IInv, [Next]_vars
    PROVE  (old = "dead" => old' = "dead") /\ (new = "dead" => new' = "dead")
<1>0. old = "running" => new = "none"
  BY DEF IInv, SocketsConfirmed
<1>1. CASE RunnerStep
  BY <1>0, <1>1 DEF RunnerStep, Restart, OldExitSeen, NewExitSeen, SpareListens
<1>2. CASE OldStep
  <2>1. CASE AskGo
    BY <2>1 DEF AskGo
  <2>2. CASE \E key : OldTakes(key)
    BY <2>2 DEF OldTakes, OldAlive
  <2> QED BY <1>2, <2>1, <2>2 DEF OldStep, OldGo, OldConfigured, OldSynced, OldGetsSources,
             OldSentSource, OldGetsRewinds, OldSentRewind, OldSentSocket
<1>3. CASE NewStep \/ HandshakeTimeout
  <2>1. CASE NewEnds
    BY <2>1 DEF NewEnds
  <2>2. CASE HandshakeTimeout \/ NewConfigured \/ \E st \in Stream : NewConnects(st) \/ NewLoads(st)
    BY <2>1, <2>2 DEF HandshakeTimeout, NewConfigured, NewConnects, NewLoads
  <2>3. CASE FallbackListens
    BY <2>1, <2>3 DEF FallbackListens
  <2>4. CASE /\ \E key : NewGets(key)
             /\ NewGoesOn
    BY <2>4 DEF NewGets, NewGoesOn, NewAlive
  <2> QED BY <1>3, <2>1, <2>2, <2>3, <2>4 DEF NewStep, NewGo, NewConfig, NewConfirmed,
             NewGetsSource, NewGetsBareSource, NewGetsRewind, NewGetsSocket
<1>4. CASE Mishap
  BY <1>4 DEF Mishap, GoTimeout, RewindTimeout, OldDies, NewDies, NewEnds, CreateStream,
              SourceConnects, SourceLeaves, OldAlive, SendNextRewind, PartDone
<1>5. CASE UNCHANGED vars
  BY <1>5 DEF vars
<1> QED BY <1>1, <1>2, <1>3, <1>4, <1>5 DEF Next

\* A source with the old process has a mount there, and there is no new process
\* before the restart.
LEMMA MountsStayKnown ==
    ASSUME FInv, [Next]_vars
    PROVE  MountsKnown'
<1>0. /\ TypeOK /\ MountsKnown /\ at \in [Source -> {"none", "old", "moving", "new", "gone"}]
      /\ new = "none" => /\ old = "running" /\ parts = 0 /\ ~SourcesPending /\ ~RewindsPending
                         /\ ~Has(toOld, Port)
  <2>1. new = "none" => Relay /\ old = "running"
    BY DEF FInv, MountsKnown
  <2>2. new = "none" => parts = 0 /\ ~SourcesPending /\ ~RewindsPending
    BY <2>1 DEF Relay, NotBegun
  <2>3. new = "none" => ~Has(toOld, Port)
    BY <2>1, <2>2, NoPart DEF Relay, Counted
  <2> QED BY <2>1, <2>2, <2>3 DEF FInv, IInv, TypeOK
<1>s. ASSUME UNCHANGED <<oldStreams, old, new, at>> PROVE MountsKnown'
  BY <1>0, <1>s DEF MountsKnown
<1>1. ASSUME oldStreams \subseteq oldStreams', new' = "none" => old' = "running",
             \A s \in Source : at'[s] = "old" => at[s] = "old"
      PROVE  MountsKnown'
  BY <1>0, <1>1 DEF MountsKnown
<1>2. CASE RunnerStep
  BY <1>0, <1>1, <1>2 DEF RunnerStep, Restart, OldExitSeen, NewExitSeen, SpareListens, oldVars
<1>3. CASE OldStep
  <2>1. oldStreams' = oldStreams /\ new' = new
    BY <1>3 DEF OldStep, AskGo, OldTakes, OldGo, OldConfigured, OldSynced, OldGetsSources,
                OldSentSource, OldGetsRewinds, OldSentRewind, OldSentSocket, oldVars
  <2>2. \A s \in Source : at'[s] = "old" => at[s] = "old"
    <3>1. ASSUME NEW s \in Source, SendSource(s)
          PROVE  \A d \in Source : at'[d] = "old" => at[d] = "old"
      BY <1>0, <3>1 DEF SendSource
    <3>2. ASSUME NEW mounts, NEW sources \in SUBSET Source, SendNext(mounts, sources)
          PROVE  \A d \in Source : at'[d] = "old" => at[d] = "old"
      <4>1. \A m : SourcesOf(m) \subseteq Source
        BY DEF SourcesOf
      <4> QED BY <3>1, <3>2, <4>1 DEF SendNext
    <3>3. CASE UNCHANGED at
      BY <3>3
    <3>4. sourcesLeft \in SUBSET Source /\ {} \in SUBSET Source
      BY <1>0 DEF TypeOK
    <3> QED BY <1>3, <3>2, <3>3, <3>4 DEF OldStep, AskGo, OldGo, OldConfigured, OldSynced,
               OldGetsSources, OldSentSource, OldGetsRewinds, OldSentRewind, OldSentSocket
  <2>3. ASSUME new = "none" PROVE old' = "running"
    <3>0. old = "running" /\ parts = 0
      BY <1>0, <2>3
    <3>1. ASSUME NEW key, OldTakes(key)
          PROVE  key \notin SourcesToOld \cup RewindsToOld \cup Port
      <4>1. Took(toOld, toOld', key)
        BY <1>0, <3>1, TookIs DEF OldTakes, TypeOK
      <4> QED BY <1>0, <2>3, <4>1 DEF Took, SourcesPending, RewindsPending
    <3>2. ~OldSynced /\ ~OldGetsSources /\ ~OldSentSource /\ ~OldGetsRewinds
          /\ \A port \in Port : ~OldSentSocket(port)
      BY <3>1, Keys DEF OldSynced, OldGetsSources, OldSentSource, OldGetsRewinds, OldSentSocket
    <3>3. ~AskGo
      BY <3>0 DEF AskGo
    <3>4. CASE OldGo \/ OldConfigured
      BY <3>0, <3>4 DEF OldGo, OldConfigured
    <3>5. CASE OldSentRewind
      <4>1. asked # None \/ (asked = None /\ UNCHANGED <<old>>)
        <5>1. Head(toOld) \in OldMessages /\ Head(toOld).key = "stream_rewind ok"
          BY <1>0, <3>5, OldTook DEF OldSentRewind
        <5>2. Head(toOld).of \in Stream
          BY <5>1 DEF OldMessages, Port
        <5>3. Head(toOld).of # None
          BY <5>2, SourceAssumption
        <5> QED BY <3>5, <5>3 DEF OldSentRewind
      <4>2. asked = None
        BY <1>0, <2>3 DEF RewindsPending
      <4> QED BY <3>0, <4>1, <4>2
    <3> QED BY <1>3, <3>2, <3>3, <3>4, <3>5 DEF OldStep
  <2> QED BY <1>1, <2>1, <2>2, <2>3
<1>4. CASE NewStep \/ HandshakeTimeout
  <2>1. CASE NewEnds
    <3>1. oldStreams' = oldStreams /\ new' = "dead"
      BY <2>1 DEF NewEnds, oldVars
    <3>2. \A s \in Source : at'[s] = "old" => at[s] = "old"
      BY <1>0, <2>1 DEF NewEnds
    <3> QED BY <1>1, <3>1, <3>2
  <2>2. CASE ~NewEnds
    <3>1. old' = old /\ oldStreams' = oldStreams
      BY <1>4, <2>2 DEF NewStep, HandshakeTimeout, FallbackListens, NewGo, NewConfigured, NewConfig,
          NewConfirmed, NewGetsSource, NewGetsBareSource, NewGetsRewind, NewConnects, NewLoads,
          NewGetsSocket, NewGoesOn, oldVars
    <3>2. new' = "none" => new = "none"
      BY <1>4, <2>2 DEF NewStep, HandshakeTimeout, FallbackListens, NewGo, NewConfigured, NewConfig,
          NewConfirmed, NewGetsSource, NewGetsBareSource, NewGetsRewind, NewConnects, NewLoads,
          NewGetsSocket
    <3>3. CASE UNCHANGED at
      BY <1>0, <1>1, <3>1, <3>2, <3>3
    <3>4. CASE NewGetsSource
      <4>1. at' \in {at, [at EXCEPT ![Head(toNew).of] = "new"]}
        BY <2>2, <3>4 DEF NewGetsSource
      <4>2. \A s \in Source : at'[s] = "old" => at[s] = "old"
        BY <1>0, <4>1
      <4> QED BY <1>0, <1>1, <3>1, <3>2, <4>2
    <3> QED BY <1>4, <2>2, <3>3, <3>4 DEF NewStep, HandshakeTimeout, FallbackListens, NewGo,
               NewConfigured, NewConfig, NewConfirmed, NewGetsBareSource, NewGetsRewind,
               NewConnects, NewLoads, NewGetsSocket
  <2> QED BY <2>1, <2>2
<1>5. CASE GoTimeout \/ OldDies \/ CreateStream
  <2>1. /\ oldStreams \subseteq oldStreams' /\ UNCHANGED <<new, at>>
        /\ old' = old \/ old # "running"
    BY <1>5 DEF GoTimeout, OldDies, CreateStream, oldVars
  <2> QED BY <1>0, <1>1, <2>1
<1>6. CASE NewDies
  <2>1. oldStreams' = oldStreams /\ new' = "dead"
    BY <1>6 DEF NewDies, NewEnds, oldVars
  <2>2. \A s \in Source : at'[s] = "old" => at[s] = "old"
    BY <1>0, <1>6 DEF NewDies, NewEnds
  <2> QED BY <1>1, <2>1, <2>2
<1>7. CASE RewindTimeout
  <2>1. /\ UNCHANGED <<oldStreams, new, at>> /\ asked # None
    BY <1>7 DEF RewindTimeout
  <2>2. new # "none"
    BY <1>0, <2>1 DEF RewindsPending
  <2> QED BY <1>1, <2>1, <2>2
<1>8. ASSUME NEW s \in Source, SourceConnects(s) \/ SourceLeaves(s)
      PROVE  MountsKnown'
  <2>1. UNCHANGED <<oldStreams, old, new>>
    BY <1>8 DEF SourceConnects, SourceLeaves, oldVars
  <2>2. \A d \in Source : at'[d] = "old" => MountOf[d] \in oldStreams
    <3> SUFFICES ASSUME NEW d \in Source, at'[d] = "old" PROVE MountOf[d] \in oldStreams
      OBVIOUS
    <3>1. CASE at[d] = "old"
      BY <1>0, <3>1 DEF MountsKnown
    <3>2. CASE at[d] # "old"
      <4>1. SourceConnects(s) /\ d = s
        BY <1>0, <1>8, <3>2 DEF SourceConnects, SourceLeaves
      <4>2. at' = [at EXCEPT ![s] = "old"] \/ at' = [at EXCEPT ![s] = "new"]
        BY <4>1 DEF SourceConnects
      <4>3. at' # [at EXCEPT ![s] = "new"]
        BY <1>0, <4>1
      <4> QED BY <4>1, <4>3 DEF SourceConnects
    <3> QED BY <3>1, <3>2
  <2> QED BY <1>0, <2>1, <2>2 DEF MountsKnown
<1>9. CASE UNCHANGED vars
  BY <1>9, <1>s DEF vars, oldVars
<1> QED BY <1>2, <1>3, <1>4, <1>5, <1>6, <1>7, <1>8, <1>9 DEF Next, Mishap

\* The account is kept while both processes live.
THEOREM AccountKept == Spec => []FInv
<1>1. Init => IInv /\ MountsKnown /\ Relay
  <2> SUFFICES ASSUME Init PROVE IInv /\ MountsKnown /\ Relay
    OBVIOUS
  <2>1. toNew \in Seq(NewMessages) /\ toOld \in Seq(OldMessages) /\ \A k : ~Carries(toOld, k)
    BY DEF Init, Carries
  <2>2. TypeOK
    BY <2>1 DEF Init, TypeOK, OldStage, NewStage
  <2>3. IInv /\ MountsKnown
    BY <2>1, <2>2 DEF Init, IInv, SocketsConfirmed, MountsKnown
  <2>4. \A keys : ~Has(toNew, keys) /\ ~Has(toOld, keys) /\ Alone(toNew, keys) /\ Alone(toOld, keys)
    BY DEF Init, Has, Alone
  <2>5. /\ parts = 0 /\ asked = None /\ acked = {} /\ due = {} /\ mountsLeft = {} /\ sourcesLeft = {}
    BY DEF Init
  <2>6. ~SourcesPending /\ ~RewindsPending
    BY <2>4, <2>5 DEF SourcesPending, RewindsPending
  <2>7. OneAtATime /\ NotBegun /\ Tracked
    BY <2>4, <2>5, <2>6 DEF OneAtATime, NotBegun, Tracked
  <2>8. Counted
    BY <2>4, <2>5, <2>6 DEF Counted
  <2> QED BY <2>3, <2>7, <2>8 DEF Relay
<1>2. FInv /\ [Next]_vars => FInv'
  <2> SUFFICES ASSUME FInv, [Next]_vars PROVE FInv'
    OBVIOUS
  <2>0. IInv
    BY DEF FInv
  <2>1. IInv'
    BY <2>0, InvarianceStep
  <2>2. MountsKnown'
    BY MountsStayKnown
  <2>3. ASSUME old' # "dead", new' # "dead" PROVE Relay'
    <3>0. old # "dead" /\ new # "dead"
      BY <2>0, <2>3, DeadStays
    <3>1. CASE RunnerStep
      BY <3>0, <3>1, RunnerRelays
    <3>2. CASE OldStep
      BY <3>0, <3>2, OldRelays
    <3>3. CASE NewStep \/ HandshakeTimeout
      BY <2>3, <3>0, <3>3, NewRelays
    <3>4. CASE Mishap
      BY <2>3, <3>0, <3>4, MishapRelays
    <3>5. CASE UNCHANGED vars
      <4>1. UNCHANGED <<toNew, toOld, due, mountsLeft, sourcesLeft, asked, parts, acked, old, at>>
        BY <3>5 DEF vars, oldVars
      <4> QED BY <3>0, <4>1, Silent
    <3> QED BY <3>1, <3>2, <3>3, <3>4, <3>5 DEF Next
  <2> QED BY <2>1, <2>2, <2>3 DEF FInv
<1>3. Init => FInv
  BY <1>1 DEF FInv
<1> QED BY <1>2, <1>3, PTL DEF Spec

\* For any streams, mounts and sources: when the old process has exited because both
\* sockets were confirmed, no source that it had begun to hand over is left behind;
\* both parts were done by then, so that the sources' part has nothing under way.
THEOREM AllSourcesFollow == Spec => []SourcesFollow
<1>1. FInv => SourcesFollow
  <2> SUFFICES ASSUME FInv, old = "exited", new # "dead", NEW s \in due
               PROVE  at[s] \in {"new", "gone"}
    BY DEF SourcesFollow
  <2>1. /\ Relay /\ TypeOK /\ acked = Port /\ s \in Source
        /\ at \in [Source -> {"none", "old", "moving", "new", "gone"}]
    BY DEF FInv, IInv, SocketsConfirmed, TypeOK
  <2>2. acked # {}
    BY <2>1 DEF Port
  <2>3. ~SourcesPending
    BY <2>1, <2>2 DEF Relay, Counted
  <2>4. ~Has(toNew, {"source", "bare source"}) /\ sourcesLeft = {} /\ mountsLeft = {}
    BY <2>1, <2>3 DEF Relay, Tracked, SourcesPending, Has, SourcesToNew
  <2>5. at[s] \notin {"none", "moving", "old"}
    BY <2>4, NoneMoves
  <2> QED BY <2>1, <2>5
<1> QED BY <1>1, AccountKept, PTL
=============================================================================

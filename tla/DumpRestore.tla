---------------------------- MODULE DumpRestore ----------------------------
(***************************************************************************)
(* The periodic dumps of the rewind buffers and their reload after a       *)
(* crash (rewind/dump_restore.coffee).                                     *)
(*                                                                         *)
(* Every stream has a dumper.  A timer queues all of them; one after the   *)
(* other opens a temporary file, writes a snapshot of the buffer to it,    *)
(* newest chunk first, and renames it to the stream's dump file, or        *)
(* removes both if the buffer was empty.  After a restart the dump files   *)
(* are read back one by one while sources deliver and the timer runs.      *)
(*                                                                         *)
(* A buffer is the set of its chunks, numbered as they come in; its order  *)
(* and length are RewindBuffer's business.  Opening, writing, renaming and *)
(* reading are asynchronous and may fail.                                  *)
(***************************************************************************)
EXTENDS Integers, Sequences, FiniteSets

CONSTANTS
    Order,          \* the streams, in the order the dumpers were created
    Fault,          \* which of "open", "write", "rename" may fail
    MaxChunk,       \* bounds on the chunks that come in,
    MaxTrigger,     \* on the runs of the timer in one life of the process,
    MaxCrash,       \* and on the crashes
    NoFile          \* no such file; no bytes written

Stream == {Order[i] : i \in DOMAIN Order}

ASSUME DumpAssumption ==
    /\ Order \in Seq(Stream)
    /\ \A i, j \in DOMAIN Order : Order[i] = Order[j] => i = j
    /\ Fault \subseteq {"open", "write", "rename"}
    /\ MaxChunk \in Nat /\ MaxTrigger \in Nat /\ MaxCrash \in Nat
    /\ \A chunks \in SUBSET (1 .. MaxChunk) : chunks # NoFile

VARIABLES
    live,       \* the chunks in each rewind buffer
    loading,    \* _risLoading of each buffer
    last,       \* the number of the last chunk that came in
    file,       \* the dump file of each stream
    queue,      \* @_queue
    working,    \* @_working
    phase,      \* how far each dump is; a dumper is active unless it is "idle"
    out,        \* what a dump is to write; once written, what it wrote
    toLoad,     \* load_q
    loadState,  \* "waiting" for the streams to be configured, "running", "done"
    left,       \* chunks of the dump being read that are not in the buffer yet
    triggers,   \* runs of the timer since the start
    crashes,
    since,      \* (history) what the buffer held at some time since the dump began
    saved,      \* (history) what the dump file held when the process last died
    early       \* (history) dumps were triggered before the load was over

buffers == <<live, loading, last>>
dumps == <<queue, working, phase, out>>
loads == <<toLoad, loadState, left>>
history == <<since, saved, early>>
vars == <<buffers, file, dumps, loads, triggers, crashes, history>>

Chunk == 1 .. MaxChunk

\* The process starts with empty buffers and whatever dump files there are.
Init ==
    /\ live = [s \in Stream |-> {}]
    /\ loading = [s \in Stream |-> FALSE]
    /\ last = 0
    /\ file = [s \in Stream |-> NoFile]
    /\ queue = <<>> /\ working = FALSE
    /\ phase = [s \in Stream |-> "idle"]
    /\ out = [s \in Stream |-> NoFile]
    /\ toLoad = <<>> /\ loadState = "waiting" /\ left = {}
    /\ triggers = 0 /\ crashes = 0
    /\ since = [s \in Stream |-> {}]
    /\ saved = [s \in Stream |-> {}]
    /\ early = FALSE

----------------------------------------------------------------------------
(* The buffers *)

\* A buffer changes; the history follows it while a dump is on.
SetLive(s, chunks) ==
    /\ live' = [live EXCEPT ![s] = chunks]
    /\ since' = [since EXCEPT ![s] = IF phase[s] = "idle" THEN @ ELSE @ \cup {chunks}]

\* A chunk goes in at either end (MemoryStore's Insert).
Inserted(chunks, c) ==
    IF (\A d \in chunks : d < c) \/ (\A d \in chunks : d > c) THEN chunks \cup {c} ELSE chunks

\* A source delivers.
Deliver(s) ==
    /\ last < MaxChunk
    /\ last' = last + 1
    /\ SetLive(s, Inserted(live[s], last + 1))
    /\ UNCHANGED <<loading, file, dumps, loads, triggers, crashes, saved, early>>

\* resetRewind, from the admin interface
ResetRewind(s) ==
    /\ live[s] # {}
    /\ SetLive(s, {})
    /\ saved' = [saved EXCEPT ![s] = {}]
    /\ UNCHANGED <<loading, last, file, dumps, loads, triggers, crashes, early>>

----------------------------------------------------------------------------
(* The queue *)

\* What _dump of a dumper checks first
Accepts(s, ph) == ph[s] = "idle" /\ ~loading[s]

\* and does if it accepts
Start(s, ph) ==
    /\ phase' = [ph EXCEPT ![s] = "opening"]
    /\ since' = [since EXCEPT ![s] = {live[s]}]

\* _dump of the queue: a dumper that is active or whose buffer is loading
\* refuses at once and the next one is tried; the first that accepts is at work.
Work(q, ph) ==
    LET accepting == {i \in DOMAIN q : Accepts(q[i], ph)}
        i == CHOOSE n \in accepting : \A m \in accepting : n <= m
    IN  IF accepting = {}
        THEN queue' = <<>> /\ working' = FALSE /\ phase' = ph /\ since' = since
        ELSE queue' = SubSeq(q, i + 1, Len(q)) /\ working' = TRUE /\ Start(q[i], ph)

\* MUTANT: starts a round although one is under way.
Trigger_Regardless ==
    /\ triggers < MaxTrigger
    /\ triggers' = triggers + 1
    /\ early' = (early \/ loadState # "done")
    /\ Work(queue \o Order, phase)
    /\ UNCHANGED <<buffers, file, out, loads, crashes, saved>>

\* _triggerDumps, by the timer
Trigger ==
    /\ triggers < MaxTrigger
    /\ triggers' = triggers + 1
    /\ early' = (early \/ loadState # "done")
    /\ IF working THEN queue' = queue \o Order /\ UNCHANGED <<working, phase, since>>
                  ELSE Work(queue \o Order, phase)
    /\ UNCHANGED <<buffers, file, out, loads, crashes, saved>>

----------------------------------------------------------------------------
(* A dump *)

\* MUTANT: writes to the dump file itself.
Open_InPlace(s) ==
    /\ phase[s] = "opening"
    /\ phase' = [phase EXCEPT ![s] = "writing"]
    /\ out' = [out EXCEPT ![s] = live[s]]
    /\ file' = [file EXCEPT ![s] = {}]
    /\ UNCHANGED <<buffers, queue, working, loads, triggers, crashes, history>>

\* The temporary file is open: dumpBuffer takes its snapshot.
Open(s) ==
    /\ phase[s] = "opening"
    /\ phase' = [phase EXCEPT ![s] = "writing"]
    /\ out' = [out EXCEPT ![s] = live[s]]
    /\ UNCHANGED <<buffers, file, queue, working, loads, triggers, crashes, history>>

\* It cannot be opened: the queue goes on, the dumper stays active.
OpenFails(s) ==
    /\ "open" \in Fault
    /\ phase[s] = "opening"
    /\ Work(queue, [phase EXCEPT ![s] = "stuck"])
    /\ UNCHANGED <<buffers, file, out, loads, triggers, crashes, saved, early>>

\* MUTANT: the snapshot of an empty buffer does not end.
Write_NeverEmpty(s) ==
    /\ phase[s] = "writing" /\ out[s] # {}
    /\ phase' = [phase EXCEPT ![s] = "written"]
    /\ UNCHANGED <<buffers, file, queue, working, out, loads, triggers, crashes, history>>

\* The snapshot is written, no byte of it for an empty buffer.
Write(s) ==
    /\ phase[s] = "writing"
    /\ phase' = [phase EXCEPT ![s] = "written"]
    /\ out' = [out EXCEPT ![s] = IF @ = {} THEN NoFile ELSE @]
    /\ UNCHANGED <<buffers, file, queue, working, loads, triggers, crashes, history>>

\* Writing fails before any byte, or after the header and some of the newest
\* chunks.  The queue goes on; the file is yet to be closed, like any other.
WriteFails(s) ==
    /\ "write" \in Fault
    /\ phase[s] = "writing" /\ out[s] # {}
    /\ \E part \in {NoFile} \cup (SUBSET out[s] \ {out[s]}) :
            /\ part # NoFile => \A c \in part, d \in out[s] \ part : c > d
            /\ out' = [out EXCEPT ![s] = part]
    /\ Work(queue, [phase EXCEPT ![s] = "failed"])
    /\ UNCHANGED <<buffers, file, loads, triggers, crashes, saved, early>>

\* The file is closed and renamed or, if no byte was written, removed together
\* with the dump file.  A dump that failed has called back before.
Close(s) ==
    /\ phase[s] \in {"written", "failed"}
    /\ file' = [file EXCEPT ![s] = out[s]]
    /\ LET ph == [phase EXCEPT ![s] = "idle"]
       IN  IF phase[s] = "written" THEN Work(queue, ph)
                                   ELSE phase' = ph /\ UNCHANGED <<queue, working, since>>
    /\ UNCHANGED <<buffers, out, loads, triggers, crashes, saved, early>>

\* Renaming fails: the dumper stays active.
RenameFails(s) ==
    /\ "rename" \in Fault
    /\ phase[s] \in {"written", "failed"} /\ out[s] # NoFile
    /\ LET ph == [phase EXCEPT ![s] = "stuck"]
       IN  IF phase[s] = "written" THEN Work(queue, ph)
                                   ELSE phase' = ph /\ UNCHANGED <<queue, working, since>>
    /\ UNCHANGED <<buffers, file, out, loads, triggers, crashes, saved, early>>

----------------------------------------------------------------------------
(* The load after a start *)

\* load, once the streams are configured.
Load ==
    /\ loadState = "waiting"
    /\ loadState' = "running"
    /\ toLoad' = Order
    /\ UNCHANGED <<buffers, file, dumps, left, triggers, crashes, history>>

Reading == {s \in Stream : loading[s]}

\* _tryLoad: the next dump file is opened; a missing one is no error.  What was
\* opened is read to its end, whatever becomes of the name.
LoadOpen ==
    /\ loadState = "running" /\ Reading = {} /\ toLoad # <<>>
    /\ LET s == toLoad[1]
       IN  IF file[s] = NoFile
           THEN toLoad' = Tail(toLoad) /\ UNCHANGED <<left, loading>>
           ELSE /\ left' = file[s] /\ loading' = [loading EXCEPT ![s] = TRUE]
                /\ UNCHANGED toLoad
    /\ UNCHANGED <<live, last, file, dumps, loadState, triggers, crashes, history>>

\* The next older chunk is read.
LoadChunk(s) ==
    /\ loading[s] /\ left # {}
    /\ LET c == CHOOSE n \in left : \A m \in left : m <= n
       IN  left' = left \ {c} /\ SetLive(s, Inserted(live[s], c))
    /\ UNCHANGED <<loading, last, file, dumps, toLoad, loadState, triggers, crashes, saved, early>>

\* MUTANT: the other streams are forgotten.
LoadEnd_Forgets(s) ==
    /\ loading[s] /\ left = {}
    /\ loading' = [loading EXCEPT ![s] = FALSE]
    /\ toLoad' = <<>>
    /\ UNCHANGED <<live, last, file, dumps, left, loadState, triggers, crashes, history>>

\* It is read to the end; the next file follows.
LoadEnd(s) ==
    /\ loading[s] /\ left = {}
    /\ loading' = [loading EXCEPT ![s] = FALSE]
    /\ toLoad' = Tail(toLoad)
    /\ UNCHANGED <<live, last, file, dumps, left, loadState, triggers, crashes, history>>

LoadDone ==
    /\ loadState = "running" /\ toLoad = <<>>
    /\ loadState' = "done"
    /\ UNCHANGED <<buffers, file, dumps, toLoad, left, triggers, crashes, history>>

\* The process dies and is started again: only the dump files are left.
Crash ==
    /\ crashes < MaxCrash
    /\ crashes' = crashes + 1
    /\ saved' = [s \in Stream |-> IF file[s] = NoFile THEN {} ELSE file[s]]
    /\ live' = [s \in Stream |-> {}]
    /\ loading' = [s \in Stream |-> FALSE]
    /\ queue' = <<>> /\ working' = FALSE
    /\ phase' = [s \in Stream |-> "idle"]
    /\ out' = [s \in Stream |-> NoFile]
    /\ toLoad' = <<>> /\ loadState' = "waiting" /\ left' = {}
    /\ triggers' = 0
    /\ since' = [s \in Stream |-> {}]
    /\ early' = FALSE
    /\ UNCHANGED <<last, file>>

DumpStep(s) == Open(s) \/ Write(s) \/ Close(s)

DumpFails(s) == OpenFails(s) \/ WriteFails(s) \/ RenameFails(s)

LoadStep == LoadOpen \/ LoadDone \/ \E s \in Stream : LoadChunk(s) \/ LoadEnd(s)

Next ==
    \/ \E s \in Stream : Deliver(s) \/ ResetRewind(s) \/ DumpStep(s) \/ DumpFails(s)
    \/ Trigger
    \/ Load
    \/ LoadStep
    \/ Crash

Spec == Init /\ [][Next]_vars

\* File operations come to an end, well or not.
FairSpec == Spec /\ WF_vars(LoadStep) /\ \A s \in Stream : WF_vars(DumpStep(s))

----------------------------------------------------------------------------
(* Properties *)

TypeOK ==
    /\ live \in [Stream -> SUBSET Chunk]
    /\ loading \in [Stream -> BOOLEAN]
    /\ last \in 0 .. MaxChunk
    /\ file \in [Stream -> {NoFile} \cup SUBSET Chunk]
    /\ queue \in Seq(Stream)
    /\ working \in BOOLEAN
    /\ phase \in [Stream -> {"idle", "opening", "writing", "written", "failed", "stuck"}]
    /\ out \in [Stream -> {NoFile} \cup SUBSET Chunk]
    /\ toLoad \in Seq(Stream)
    /\ loadState \in {"waiting", "running", "done"}
    /\ left \in SUBSET Chunk
    /\ triggers \in 0 .. MaxTrigger
    /\ crashes \in 0 .. MaxCrash
    /\ since \in [Stream -> SUBSET SUBSET Chunk]
    /\ saved \in [Stream -> SUBSET Chunk]
    /\ early \in BOOLEAN

\* Dumps that the queue waits for
AtWork == {s \in Stream : phase[s] \in {"opening", "writing", "written"}}

\* The queue is marked as being worked on exactly while there is a dump that will
\* call back for the next one, there is never a second such dump, and nothing waits in
\* the queue without one, whatever fails or refuses and however often the timer runs off
\* meanwhile.  This is about the queue: a dump that failed in writing has called back,
\* and may still have its file open, and loads go on beside all of it.
OneAtATime ==
    /\ TypeOK
    /\ working <=> AtWork # {}
    /\ \A s, t \in AtWork : s = t
    /\ ~working => queue = <<>>

\* A dump file is only ever replaced by a state the buffer was in as a whole
\* between the start and the end of the dump, and only removed if the buffer was
\* empty then: a crash at any moment leaves an old or a new dump.  A dump whose
\* writing failed is the exception.
Whole(s) == (IF file'[s] = NoFile THEN {} ELSE file'[s]) \in since[s]

DumpIsFresh ==
    [][\A s \in Stream : file'[s] # file[s] => Whole(s) \/ phase[s] = "failed"]_vars

\* What was on disk when the process died is on disk or in the buffer, until
\* the buffer is reset: a stream gets its rewind buffer back, if no dumps are
\* made before.
OnDiskOrLive(s) ==
    saved[s] \subseteq live[s] \cup (IF file[s] = NoFile THEN {} ELSE file[s])

NothingLost == ~early => \A s \in Stream : OnDiskOrLive(s)

\* Every queue is worked off.
QueueDrains == working ~> ~working

----------------------------------------------------------------------------
(* What the code's comments say and its steps do not keep *)

\* dump_restore.coffee: "important for helping a crashed process get back up to
\* speed quickly", whenever the timer runs off
BackUpToSpeed == \A s \in Stream : OnDiskOrLive(s)

\* "To make sure we don't crash mid-write, we want to write to a temp file"
WrittenAsAWhole == [][\A s \in Stream : file'[s] # file[s] => Whole(s)]_vars

\* "making periodic backups": a dump ends, so that the next one can be made.
DumpEnds == \A s \in Stream : phase[s] # "idle" ~> phase[s] = "idle"

\* "Cannot dump while rewind buffer is loading."
NoDumpWhileLoading ==
    [][\A s \in Stream : phase[s] = "opening" /\ phase'[s] = "writing" => ~loading[s]]_vars
=============================================================================

-------------------------- MODULE MonitoringProofs --------------------------
(***************************************************************************)
(* Alerts: for any number of them, any wait and any reports, what is       *)
(* announced and called off has lasted for the whole wait, and nothing is  *)
(* overlooked.  The argument: the timer that runs and the clock of the     *)
(* condition add up to the wait (Linked), which the properties do not say. *)
(*                                                                         *)
(* Monitoring: for any number of slaves and any intervals, the watch uses  *)
(* the alerts as Alerts allows, so that what is proved of them holds here, *)
(* and no slave that has left keeps an alert.  The argument for the        *)
(* latter: a poll that is out asked no slave that has left for longer than *)
(* the poll lasts (PollIsOver), since the alerts of one that leaves are    *)
(* cleared only after a poll's time.                                       *)
(***************************************************************************)
EXTENDS Monitoring, TLAPS

-----------------------------------------------------------------------------
(* Alerts *)

Clock == {None} \cup 0 .. Wait + 1

\* What a state of an alert, s, has to do with its clocks u and q
Linked(s, u, q) ==
    /\ u # None =>
          /\ q = None /\ s # None
          /\ s.c = None
          /\ s.sent \/ (s.a # None /\ s.a + u = Wait)
    /\ u = None /\ s # None =>
          /\ q # None
          /\ s.a = None
          /\ s.sent => s.c # None /\ s.c + q = Wait

AllLinked == \A k \in Alert : Linked(state[k], up[k], calm[k])

IInv == AlertsTypeOK /\ AllLinked

EntryOK == {e \in Entry : e.c # None => e.sent /\ e.a = None}

\* An entry is not None, and its fields are these.
LEMMA EntryFields ==
    ASSUME NEW e \in EntryOK
    PROVE  /\ e # None
           /\ e.sent \in BOOLEAN /\ e.a \in Timer /\ e.c \in Timer
           /\ e.c # None => e.sent /\ e.a = None
BY AlertsAssumption DEF EntryOK, Entry

LEMMA MakeEntry ==
    ASSUME NEW sent \in BOOLEAN, NEW a \in Timer, NEW c \in Timer, c # None => sent /\ a = None
    PROVE  [sent |-> sent, a |-> a, c |-> c] \in EntryOK
BY DEF EntryOK, Entry

\* A report of an active condition keeps the link; the clock starts or goes on.
LEMMA ActivatedLinks ==
    ASSUME NEW s \in {None} \cup EntryOK, NEW u \in Clock, NEW q \in Clock, Linked(s, u, q)
    PROVE  /\ Activated(s) \in EntryOK
           /\ Linked(Activated(s), IF u = None THEN 0 ELSE u, None)
           /\ s # None => Activated(s).sent = s.sent
           /\ s = None => ~Activated(s).sent
<1> DEFINE t == Activated(s)
<1> DEFINE n == IF u = None THEN 0 ELSE u
<1>1. n \in Clock /\ n # None
  BY AlertsAssumption DEF Clock
<1>2. CASE s = None
  <2>1. t = [sent |-> FALSE, a |-> Wait, c |-> None]
    BY <1>2 DEF Activated
  <2>2. t \in EntryOK
    <3> None \in Timer /\ Wait \in Timer /\ FALSE \in BOOLEAN
      BY AlertsAssumption DEF Timer
    <3> QED
      BY <2>1, MakeEntry
  <2>3. u = None
    BY <1>2 DEF Linked
  <2>4. t.sent = FALSE /\ t.a = Wait /\ t.c = None
    BY <2>1
  <2>5. Linked(t, n, None)
    BY <1>1, <2>2, <2>3, <2>4, EntryFields, AlertsAssumption DEF Linked
  <2> QED
    BY <1>2, <2>2, <2>4, <2>5
<1>3. CASE s # None
  <2> DEFINE a == IF ~s.sent /\ s.a = None THEN Wait ELSE s.a
  <2>1. s \in EntryOK
    BY <1>3
  <2>2. s.sent \in BOOLEAN /\ s.a \in Timer /\ s.c \in Timer
    BY <2>1, EntryFields
  <2>3. t = [sent |-> s.sent, a |-> a, c |-> None]
    BY <1>3, <2>1 DEF Activated, EntryOK, Entry
  <2>4. a \in Timer /\ (s.sent \/ a # None)
    BY <2>2, AlertsAssumption DEF Timer
  <2>5. t \in EntryOK
    BY <2>2, <2>3, <2>4, MakeEntry DEF Timer
  <2>6. t.sent = s.sent /\ t.a = a /\ t.c = None /\ t # None
    BY <2>3, <2>5, EntryFields
  <2>7. s.sent \/ a + n = Wait
    BY <1>1, <1>3, <2>2, AlertsAssumption DEF Linked, Timer, Clock
  <2>8. Linked(t, n, None)
    BY <1>1, <2>4, <2>6, <2>7 DEF Linked
  <2> QED
    BY <1>3, <2>5, <2>6, <2>8
<1> QED
  BY <1>2, <1>3

\* So does the report of an inactive one.
LEMMA ClearedLinks ==
    ASSUME NEW s \in {None} \cup EntryOK, NEW u \in Clock, NEW q \in Clock, Linked(s, u, q)
    PROVE  /\ Cleared(s) \in {None} \cup EntryOK
           /\ Linked(Cleared(s), None, IF q = None THEN 0 ELSE q)
           /\ s = None <=> Cleared(s) = None
           /\ s # None => Cleared(s).sent = s.sent
<1> DEFINE t == Cleared(s)
<1> DEFINE n == IF q = None THEN 0 ELSE q
<1>1. n \in Clock /\ n # None
  BY AlertsAssumption DEF Clock
<1>2. CASE s = None
  BY <1>2 DEF Cleared, Linked
<1>3. CASE s # None
  <2> DEFINE c == IF s.sent /\ s.c = None THEN Wait ELSE s.c
  <2>1. s \in EntryOK
    BY <1>3
  <2>2. /\ s.sent \in BOOLEAN /\ s.a \in Timer /\ s.c \in Timer
        /\ s.c # None => s.sent
    BY <2>1, EntryFields
  <2>3. t = [sent |-> s.sent, a |-> None, c |-> c]
    BY <1>3, <2>1 DEF Cleared, EntryOK, Entry
  <2>4. c \in Timer /\ (c # None <=> s.sent)
    BY <2>2, AlertsAssumption DEF Timer
  <2>5. t \in EntryOK
    BY <2>2, <2>3, <2>4, MakeEntry DEF Timer
  <2>6. t.sent = s.sent /\ t.a = None /\ t.c = c /\ t # None
    BY <2>3, <2>5, EntryFields
  <2>7. s.sent => c + n = Wait
    BY <1>1, <1>3, <2>2, AlertsAssumption DEF Linked, Timer, Clock
  <2>8. Linked(t, None, n)
    BY <1>1, <2>4, <2>6, <2>7 DEF Linked
  <2> QED
    BY <1>3, <2>5, <2>6, <2>8
<1> QED
  BY <1>2, <1>3

\* Time takes from the timer what it adds to the clock.
LEMMA TickLinks ==
    ASSUME NEW s \in {None} \cup EntryOK, NEW u \in Clock, NEW q \in Clock, Linked(s, u, q),
           s # None => ~(~s.sent /\ s.a = 0) /\ s.c # 0
    PROVE  /\ Aged(s) \in {None} \cup EntryOK
           /\ Linked(Aged(s), Count(u), Count(q))
           /\ Count(u) \in Clock /\ Count(q) \in Clock
           /\ s = None <=> Aged(s) = None
           /\ s # None => Aged(s).sent = s.sent
<1>1. Count(u) \in Clock /\ Count(q) \in Clock
  BY AlertsAssumption DEF Count, Clock
<1>2. CASE s = None
  BY <1>1, <1>2, AlertsAssumption DEF Aged, Count, Clock, Linked
<1>3. CASE s # None
  <2> DEFINE t == Aged(s)
  <2>1. s \in EntryOK
    BY <1>3
  <2>2. /\ s.sent \in BOOLEAN /\ s.a \in Timer /\ s.c \in Timer
        /\ s.c # None => s.sent /\ s.a = None
    BY <2>1, EntryFields
  <2>3. t = [sent |-> s.sent, a |-> Left(s.a), c |-> Left(s.c)]
    BY <1>3 DEF Aged
  <2>4. /\ Left(s.a) \in Timer /\ Left(s.c) \in Timer
        /\ s.a = None <=> Left(s.a) = None
        /\ s.c = None <=> Left(s.c) = None
    BY <2>2, AlertsAssumption DEF Left, Timer
  <2>5. t \in EntryOK
    BY <2>2, <2>3, <2>4, MakeEntry
  <2>6. t.sent = s.sent /\ t.a = Left(s.a) /\ t.c = Left(s.c) /\ t # None
    BY <2>3, <2>5, EntryFields
  <2>7. ASSUME u # None PROVE Linked(t, Count(u), Count(q))
    <3>1. Count(u) # None /\ q = None /\ Count(q) = None
      BY <1>3, <2>7, AlertsAssumption DEF Count, Clock, Linked
    <3>2. s.sent \/ Left(s.a) + Count(u) = Wait
      BY <1>3, <2>2, <2>7, AlertsAssumption DEF Count, Clock, Linked, Left, Timer
    <3> QED
      BY <1>3, <2>4, <2>6, <2>7, <3>1, <3>2 DEF Linked
  <2>8. ASSUME u = None PROVE Linked(t, Count(u), Count(q))
    <3>1. Count(u) = None /\ Count(q) # None
      BY <1>3, <2>8, AlertsAssumption DEF Count, Clock, Linked
    <3>2. s.sent => Left(s.c) + Count(q) = Wait
      BY <1>3, <2>2, <2>8, AlertsAssumption DEF Count, Clock, Linked, Left, Timer
    <3> QED
      BY <1>3, <2>4, <2>6, <2>8, <3>1, <3>2 DEF Linked
  <2>9. Linked(t, Count(u), Count(q))
    BY <2>7, <2>8
  <2> QED
    BY <1>1, <1>3, <2>5, <2>6, <2>9
<1> QED
  BY <1>1, <1>2, <1>3

----------------------------------------------------------------------------
(* Steps *)

\* A state is good when every alert's part of it is.
KeyOK(s, u, q) ==
    s \in {None} \cup EntryOK /\ u \in Clock /\ q \in Clock /\ Linked(s, u, q)

LEMMA IInvAt ==
    ASSUME IInv, NEW k \in Alert
    PROVE  KeyOK(state[k], up[k], calm[k])
BY DEF IInv, AlertsTypeOK, AllLinked, KeyOK, EntryOK, Clock

\* What a step does to one alert when it is reported, each way
ReportedOn(k) ==
    /\ state'[k] = Activated(state[k])
    /\ up'[k] = (IF up[k] = None THEN 0 ELSE up[k])
    /\ calm'[k] = None

ReportedOff(k) ==
    /\ state'[k] = Cleared(state[k])
    /\ up'[k] = None
    /\ calm'[k] = (IF calm[k] = None THEN 0 ELSE calm[k])

LEMMA ReportAt ==
    ASSUME IInv, NEW on \in SUBSET Alert, NEW off \in SUBSET (Alert \ on), Report(on, off),
           NEW k \in Alert
    PROVE  \/ ReportedOn(k)
           \/ ReportedOff(k)
           \/ state'[k] = state[k] /\ up'[k] = up[k] /\ calm'[k] = calm[k]
<1>1. /\ state' = [x \in Alert |-> CASE x \in on -> Activated(state[x])
                                   [] x \in off -> Cleared(state[x])
                                   [] OTHER -> state[x]]
      /\ up' = [x \in Alert |-> CASE x \in on /\ up[x] = None -> 0
                                [] x \in off -> None
                                [] OTHER -> up[x]]
      /\ calm' = [x \in Alert |-> CASE x \in off /\ calm[x] = None -> 0
                                  [] x \in on -> None
                                  [] OTHER -> calm[x]]
  BY DEF Report
<1>2. ~(k \in on /\ k \in off)
  OBVIOUS
<1>3. CASE k \in on
  BY <1>1, <1>2, <1>3 DEF ReportedOn
<1>4. CASE k \in off
  BY <1>1, <1>2, <1>4 DEF ReportedOff
<1>5. CASE k \notin on /\ k \notin off
  BY <1>1, <1>5
<1> QED
  BY <1>3, <1>4, <1>5

\* What keeps every alert's part good keeps the invariant.
LEMMA KeysToIInv ==
    ASSUME state' = [k \in Alert |-> state'[k]], up' = [k \in Alert |-> up'[k]],
           calm' = [k \in Alert |-> calm'[k]],
           \A k \in Alert : KeyOK(state'[k], up'[k], calm'[k])
    PROVE  IInv'
<1>1. state' \in [Alert -> {None} \cup EntryOK]
  BY DEF KeyOK
<1>2. up' \in [Alert -> Clock] /\ calm' \in [Alert -> Clock]
  BY DEF KeyOK
<1>3. AllLinked'
  BY DEF KeyOK, AllLinked
<1>4. AlertsTypeOK'
  BY <1>1, <1>2 DEF AlertsTypeOK, EntryOK, Clock
<1> QED
  BY <1>3, <1>4 DEF IInv

LEMMA ReportKeeps ==
    ASSUME IInv, NEW on \in SUBSET Alert, NEW off \in SUBSET (Alert \ on), Report(on, off)
    PROVE  IInv'
<1>1. \A k \in Alert : KeyOK(state'[k], up'[k], calm'[k])
  <2> TAKE k \in Alert
  <2>1. KeyOK(state[k], up[k], calm[k])
    BY IInvAt
  <2>2. CASE ReportedOn(k)
    <3>1. Activated(state[k]) \in EntryOK
          /\ Linked(Activated(state[k]), IF up[k] = None THEN 0 ELSE up[k], None)
      BY <2>1, ActivatedLinks DEF KeyOK
    <3> QED
      BY <2>1, <2>2, <3>1, AlertsAssumption DEF KeyOK, ReportedOn, Clock
  <2>3. CASE ReportedOff(k)
    <3>1. Cleared(state[k]) \in {None} \cup EntryOK
          /\ Linked(Cleared(state[k]), None, IF calm[k] = None THEN 0 ELSE calm[k])
      BY <2>1, ClearedLinks DEF KeyOK
    <3> QED
      BY <2>1, <2>3, <3>1, AlertsAssumption DEF KeyOK, ReportedOff, Clock
  <2>4. CASE state'[k] = state[k] /\ up'[k] = up[k] /\ calm'[k] = calm[k]
    BY <2>1, <2>4
  <2> QED
    BY <2>2, <2>3, <2>4, ReportAt
<1>2. /\ state' = [k \in Alert |-> state'[k]] /\ up' = [k \in Alert |-> up'[k]]
      /\ calm' = [k \in Alert |-> calm'[k]]
  BY DEF Report
<1> QED
  BY <1>1, <1>2, KeysToIInv

LEMMA FireAlertKeeps ==
    ASSUME IInv, NEW a \in Alert, FireAlert(a)
    PROVE  IInv' /\ up[a] = Wait
<1>1. KeyOK(state[a], up[a], calm[a])
  BY IInvAt
<1>2. state[a] # None /\ state[a] \in EntryOK /\ ~state[a].sent /\ state[a].a = 0
  BY <1>1 DEF FireAlert, AlertDue, KeyOK
<1>3. up[a] = Wait /\ calm[a] = None /\ state[a].c = None
  BY <1>1, <1>2, AlertsAssumption DEF KeyOK, Linked, Clock
<1> DEFINE t == [state[a] EXCEPT !.sent = TRUE]
<1>4. t.sent /\ t.a = 0 /\ t.c = None
  BY <1>2, <1>3 DEF EntryOK, Entry
<1>5. t \in EntryOK
  <2>1. t \in Entry
    BY <1>2 DEF EntryOK, Entry
  <2> QED
    BY <1>4, <2>1 DEF EntryOK
<1>6. KeyOK(t, up[a], calm[a])
  <2>1. t # None /\ t.sent /\ t.c = None
    BY <1>4, <1>5, EntryFields
  <2> QED
    BY <1>1, <1>3, <1>5, <2>1, AlertsAssumption DEF KeyOK, Linked
<1>7. state' = [state EXCEPT ![a] = t]
  BY DEF FireAlert
<1> HIDE DEF t
<1>8. up' = up /\ calm' = calm /\ state \in [Alert -> {None} \cup EntryOK]
  BY DEF FireAlert, IInv, AlertsTypeOK, EntryOK
<1>9. \A k \in Alert : KeyOK(state'[k], up'[k], calm'[k])
  <2> TAKE k \in Alert
  <2>1. CASE k = a
    BY <1>6, <1>7, <1>8, <2>1
  <2>2. CASE k # a
    BY <1>7, <1>8, <2>2, IInvAt
  <2> QED
    BY <2>1, <2>2
<1>10. IInv'
  <2>1. /\ state' = [k \in Alert |-> state'[k]] /\ up' = [k \in Alert |-> up'[k]]
        /\ calm' = [k \in Alert |-> calm'[k]]
    BY <1>7, <1>8 DEF IInv, AlertsTypeOK
  <2> QED
    BY <1>9, <2>1, KeysToIInv
<1> QED
  BY <1>3, <1>10

LEMMA FireAllClearKeeps ==
    ASSUME IInv, NEW a \in Alert, FireAllClear(a)
    PROVE  IInv' /\ calm[a] = Wait
<1>1. KeyOK(state[a], up[a], calm[a])
  BY IInvAt
<1>2. state[a] # None /\ state[a] \in EntryOK /\ state[a].c = 0 /\ state[a].sent
  BY <1>1, EntryFields, AlertsAssumption DEF FireAllClear, ClearDue, KeyOK
<1>3. calm[a] = Wait /\ up[a] = None
  BY <1>1, <1>2, AlertsAssumption DEF KeyOK, Linked, Clock
<1>4. KeyOK(None, up[a], calm[a])
  BY <1>1, <1>3 DEF KeyOK, Linked
<1>5. /\ state' = [state EXCEPT ![a] = None]
      /\ up' = up /\ calm' = calm /\ state \in [Alert -> {None} \cup EntryOK]
  BY DEF FireAllClear, IInv, AlertsTypeOK, EntryOK
<1>6. \A k \in Alert : KeyOK(state'[k], up'[k], calm'[k])
  BY <1>4, <1>5, IInvAt
<1>7. IInv'
  <2>1. /\ state' = [k \in Alert |-> state'[k]] /\ up' = [k \in Alert |-> up'[k]]
        /\ calm' = [k \in Alert |-> calm'[k]]
    BY <1>5 DEF IInv, AlertsTypeOK
  <2> QED
    BY <1>6, <2>1, KeysToIInv
<1> QED
  BY <1>3, <1>7

LEMMA TickKeeps ==
    ASSUME IInv, AlertsTick
    PROVE  IInv' /\ \A k \in Alert : Sent(k) <=> Sent(k)'
<1>1. \A k \in Alert :
          /\ KeyOK(state'[k], up'[k], calm'[k])
          /\ (state[k] = None) <=> (state'[k] = None)
          /\ (state[k] # None) => (state'[k].sent = state[k].sent)
  <2> TAKE k \in Alert
  <2>1. KeyOK(state[k], up[k], calm[k])
    BY IInvAt
  <2>2. state[k] # None => ~(~state[k].sent /\ state[k].a = 0) /\ state[k].c # 0
    BY DEF AlertsTick, AlertDue, ClearDue
  <2>3. state'[k] = Aged(state[k]) /\ up'[k] = Count(up[k]) /\ calm'[k] = Count(calm[k])
    BY DEF AlertsTick
  <2> QED
    BY <2>1, <2>2, <2>3, TickLinks DEF KeyOK
<1>2. /\ state' = [k \in Alert |-> state'[k]] /\ up' = [k \in Alert |-> up'[k]]
      /\ calm' = [k \in Alert |-> calm'[k]]
  BY DEF AlertsTick, IInv, AlertsTypeOK
<1>3. IInv'
  <2>1. \A k \in Alert : KeyOK(state'[k], up'[k], calm'[k])
    BY <1>1
  <2> QED
    BY <1>2, <2>1, KeysToIInv
<1>4. ASSUME NEW k \in Alert PROVE Sent(k) <=> Sent(k)'
  <2>1. (state[k] = None <=> state'[k] = None) /\ (state[k] # None => state'[k].sent = state[k].sent)
    BY <1>1
  <2> QED
    BY <2>1 DEF Sent
<1> QED
  BY <1>3, <1>4

LEMMA ReportSends ==
    ASSUME IInv, NEW on \in SUBSET Alert, NEW off \in SUBSET (Alert \ on), Report(on, off),
           NEW k \in Alert
    PROVE  Sent(k) <=> Sent(k)'
<1>1. KeyOK(state[k], up[k], calm[k])
  BY IInvAt
<1>2. CASE ReportedOn(k)
  <2>1. /\ Activated(state[k]) \in EntryOK
        /\ state[k] # None => Activated(state[k]).sent = state[k].sent
        /\ state[k] = None => ~Activated(state[k]).sent
    BY <1>1, ActivatedLinks DEF KeyOK
  <2>2. Activated(state[k]) # None
    BY <2>1, EntryFields
  <2> QED
    BY <1>2, <2>1, <2>2 DEF Sent, ReportedOn
<1>3. CASE ReportedOff(k)
  <2>1. /\ state[k] = None <=> Cleared(state[k]) = None
        /\ state[k] # None => Cleared(state[k]).sent = state[k].sent
    BY <1>1, ClearedLinks DEF KeyOK
  <2> QED
    BY <1>3, <2>1 DEF Sent, ReportedOff
<1>4. CASE state'[k] = state[k]
  BY <1>4 DEF Sent
<1> QED
  BY <1>2, <1>3, <1>4, ReportAt

----------------------------------------------------------------------------
(* Theorems *)

LEMMA InitOK == AlertsInit => IInv
BY AlertsAssumption DEF AlertsInit, IInv, AlertsTypeOK, AllLinked, Linked

LEMMA StepKeeps == IInv /\ [AlertsNext]_alertVars => IInv'
<1> SUFFICES ASSUME IInv, [AlertsNext]_alertVars PROVE IInv'
  OBVIOUS
<1>1. ASSUME NEW on \in SUBSET Alert, NEW off \in SUBSET (Alert \ on), Report(on, off) PROVE IInv'
  BY <1>1, ReportKeeps
<1>2. ASSUME NEW k \in Alert, FireAlert(k) PROVE IInv'
  BY <1>2, FireAlertKeeps
<1>3. ASSUME NEW k \in Alert, FireAllClear(k) PROVE IInv'
  BY <1>3, FireAllClearKeeps
<1>4. CASE AlertsTick
  BY <1>4, TickKeeps
<1>5. CASE UNCHANGED alertVars
  BY <1>5 DEF alertVars, IInv, AlertsTypeOK, AllLinked, Linked, EntryOK, Clock
<1> QED
  BY <1>1, <1>2, <1>3, <1>4, <1>5 DEF AlertsNext

\* IInv is an invariant of the alerts, however they are reported.
THEOREM Invariance == AlertsSpec => []IInv
<1> QED
  BY InitOK, StepKeeps, PTL DEF AlertsSpec

\* Entries have at most one timer, and an all-clear waits only for an alert that was
\* sent.
THEOREM TypeCorrect == AlertsSpec => []AlertsTypeOK
<1>1. IInv => AlertsTypeOK
  BY DEF IInv
<1> QED
  BY <1>1, Invariance, PTL

\* A condition that lasts longer than the wait has been announced, one gone for
\* longer has been called off (update and its timers).
THEOREM NothingOverlooked == AlertsSpec => []InTime
<1>1. ASSUME IInv PROVE InTime
  <2> SUFFICES ASSUME NEW k \in Alert
               PROVE  /\ up[k] # None /\ up[k] > Wait => Sent(k)
                      /\ calm[k] # None /\ calm[k] > Wait => ~Sent(k)
    BY DEF InTime
  <2>1. KeyOK(state[k], up[k], calm[k])
    BY <1>1, IInvAt
  <2>2. ASSUME up[k] # None, up[k] > Wait PROVE Sent(k)
    <3>1. state[k] # None /\ state[k] \in EntryOK
      BY <2>1, <2>2 DEF KeyOK, Linked
    <3>2. state[k].sent \/ (state[k].a \in 0 .. Wait /\ state[k].a + up[k] = Wait)
      BY <2>1, <2>2, <3>1, EntryFields DEF KeyOK, Linked, Timer
    <3> QED
      BY <2>1, <2>2, <3>1, <3>2, AlertsAssumption DEF KeyOK, Clock, Sent
  <2>3. ASSUME calm[k] # None, calm[k] > Wait PROVE ~Sent(k)
    <3>1. SUFFICES ASSUME state[k] # None, state[k].sent PROVE FALSE
      BY DEF Sent
    <3>2. state[k] \in EntryOK
      BY <2>1, <3>1 DEF KeyOK
    <3>3. state[k].c \in 0 .. Wait /\ state[k].c + calm[k] = Wait
      BY <2>1, <2>3, <3>1, <3>2, EntryFields DEF KeyOK, Linked, Timer
    <3> QED
      BY <2>1, <2>3, <3>3, AlertsAssumption DEF KeyOK, Clock
  <2> QED
    BY <2>2, <2>3
<1> QED
  BY <1>1, Invariance, PTL

\* What a step announces and what it calls off
LEMMA StepSends ==
    ASSUME IInv, AlertsNext, NEW k \in Alert
    PROVE  /\ ~Sent(k) /\ Sent(k)' => up[k] # None /\ up[k] >= Wait
           /\ Sent(k) /\ ~Sent(k)' => calm[k] # None /\ calm[k] >= Wait
<1> DEFINE Good == /\ ~Sent(k) /\ Sent(k)' => up[k] # None /\ up[k] >= Wait
                   /\ Sent(k) /\ ~Sent(k)' => calm[k] # None /\ calm[k] >= Wait
<1>1. ASSUME NEW on \in SUBSET Alert, NEW off \in SUBSET (Alert \ on), Report(on, off) PROVE Good
  <2>1. Sent(k) <=> Sent(k)'
    BY <1>1, ReportSends
  <2> QED
    BY <2>1
<1>2. ASSUME NEW a \in Alert, FireAlert(a) PROVE Good
  <2>1. up[a] = Wait /\ Wait # None /\ Wait >= Wait
    BY <1>2, FireAlertKeeps, AlertsAssumption
  <2>2. Sent(k) => Sent(k)'
    BY <1>2, IInvAt DEF FireAlert, Sent, IInv, AlertsTypeOK, KeyOK, EntryOK, Entry, AlertDue
  <2>3. k # a => (Sent(k) <=> Sent(k)')
    BY <1>2 DEF FireAlert, Sent, IInv, AlertsTypeOK
  <2> QED
    BY <2>1, <2>2, <2>3
<1>3. ASSUME NEW a \in Alert, FireAllClear(a) PROVE Good
  <2>1. calm[a] = Wait /\ Wait # None /\ Wait >= Wait
    BY <1>3, FireAllClearKeeps, AlertsAssumption
  <2>2. k = a => ~Sent(k)'
    BY <1>3 DEF FireAllClear, Sent, IInv, AlertsTypeOK
  <2>3. k # a => (Sent(k) <=> Sent(k)')
    BY <1>3 DEF FireAllClear, Sent, IInv, AlertsTypeOK
  <2> QED
    BY <2>1, <2>2, <2>3
<1>4. CASE AlertsTick
  BY <1>4, TickKeeps
<1> QED
  BY <1>1, <1>2, <1>3, <1>4 DEF AlertsNext

\* Only what was active for the whole wait is announced, however reports come in.
THEOREM AnnouncedLasted == AlertsSpec => AlertOnlyIfLasting
<1>1. IInv /\ [AlertsNext]_alertVars =>
        [\A k \in Alert : ~Sent(k) /\ Sent(k)' => up[k] # None /\ up[k] >= Wait]_alertVars
  BY StepSends
<1> QED
  BY <1>1, Invariance, PTL DEF AlertsSpec, AlertOnlyIfLasting

\* Only what was inactive for the whole wait is called off.
THEOREM ClearedWasCalm == AlertsSpec => ClearOnlyIfCalm
<1>1. IInv /\ [AlertsNext]_alertVars =>
        [\A k \in Alert : Sent(k) /\ ~Sent(k)' => calm[k] # None /\ calm[k] >= Wait]_alertVars
  BY StepSends
<1> QED
  BY <1>1, Invariance, PTL DEF AlertsSpec, ClearOnlyIfCalm

\* Every alert and every all-clear means what it says.
THEOREM AlertsAreMeant == AlertsSpec => AlertsMeanIt
<1> QED
  BY AnnouncedLasted, ClearedWasCalm DEF AlertsMeanIt

----------------------------------------------------------------------------
(* The watch implements Alerts *)

LEMMA ClearIsReport ==
    ASSUME NEW s \in Slave, ClearGone(s)
    PROVE  AlertsNext
BY DEF ClearGone, AlertsNext

\* What the end of a poll reports is of slaves the poll asked.
Asked == {k \in Alert : k[2] \in poll.of}

LEMMA PollReports ==
    ASSUME NEW answered, PollDone(answered)
    PROVE  \E on \in SUBSET Asked : \E off \in SUBSET (Asked \ on) : Report(on, off)
<1> DEFINE silent == poll.of \ answered
           found == {s \in silent : \A t \in silent : rank[s] <= rank[t]}
           fine == {s \in poll.of : \A t \in silent : rank[s] < rank[t]}
           reported == {k \in Alert : \/ k[2] \in fine
                                      \/ k[2] \in found /\ k[1] = "slave_unresponsive"}
           on(unsynced) == {k \in reported : IF k[1] = "slave_unresponsive" THEN k[2] \in found
                                                                        ELSE k[2] \in unsynced}
<1>1. PICK unsynced \in SUBSET fine : Report(on(unsynced), reported \ on(unsynced))
  BY DEF PollDone
<1>2. reported \in SUBSET Asked
  BY DEF Asked
<1>3. on(unsynced) \in SUBSET reported
  OBVIOUS
<1> QED
  BY <1>1, <1>2, <1>3

LEMMA WatchStep == [Next]_vars => [AlertsNext]_alertVars
<1> SUFFICES ASSUME [Next]_vars PROVE [AlertsNext]_alertVars
  OBVIOUS
<1>1. ASSUME NEW answered, PollDone(answered) PROVE AlertsNext
  BY <1>1, PollReports DEF AlertsNext, Asked
<1>2. ASSUME NEW s \in Slave, Connect(s) \/ Disconnect(s) PROVE UNCHANGED alertVars
  BY <1>2 DEF Connect, Disconnect, alertVars
<1>3. ASSUME NEW s \in Slave, ClearGone(s) PROVE AlertsNext
  BY <1>3, ClearIsReport
<1>4. ASSUME NEW s \in Slave, Answer(s) PROVE [AlertsNext]_alertVars
  BY <1>1, <1>4 DEF Answer, alertVars
<1>5. CASE PollStart
  BY <1>5 DEF PollStart, alertVars
<1>6. CASE PollTimeout
  BY <1>1, <1>6 DEF PollTimeout
<1>7. ASSUME NEW k \in Alert, AlertTimer(k) PROVE AlertsNext
  BY <1>7 DEF AlertTimer, AlertsNext
<1>8. CASE Tick
  BY <1>8 DEF Tick, AlertsNext
<1>9. CASE UNCHANGED vars
  BY <1>9 DEF vars, alertVars
<1> QED
  BY <1>2, <1>3, <1>4, <1>5, <1>6, <1>7, <1>8, <1>9 DEF Next

\* Every behaviour of the watch is one of Alerts: what is proved of alerts
\* holds for those of the slaves.
THEOREM MonitorsAlerts == Spec => AlertsSpec
<1>1. Init => AlertsInit
  BY DEF Init
<1> QED
  BY <1>1, WatchStep, PTL DEF Spec, AlertsSpec

\* Of a slave's alerts only what lasted is announced: AlertOnlyIfLasting, with
\* InTime, of the polls' reports
THEOREM SlaveAlertsLasted == Spec => AlertOnlyIfLasting /\ []InTime
BY MonitorsAlerts, AnnouncedLasted, NothingOverlooked, PTL

----------------------------------------------------------------------------
(* No alert for the gone *)

Polls == [of : SUBSET Slave, answered : SUBSET Slave, left : 0 .. PollWait]

WatchTypeOK ==
    /\ slaves \in SUBSET Slave
    /\ rank \in [Slave -> Nat]
    /\ arrivals \in Nat
    /\ leaving \in [Slave -> {None} \cup Nat]
    /\ poll = None \/ poll \in Polls

\* Those that are connected are not leaving, those that never came neither.
Connected ==
    \A s \in Slave : /\ s \in slaves => rank[s] # 0 /\ leaving[s] = None
                     /\ leaving[s] # None => rank[s] # 0

\* A poll that is out is over before the alerts of a slave it asked are cleared.
PollIsOver ==
    poll # None =>
        \A s \in poll.of : /\ rank[s] # 0
                           /\ s \notin slaves => leaving[s] # None /\ leaving[s] > poll.left

\* The condition of one whose alerts were cleared is down.
DownForTheGone ==
    \A k \in Alert : Gone(k[2]) /\ leaving[k[2]] = None => up[k] = None

WInv == WatchTypeOK /\ Connected /\ PollIsOver /\ DownForTheGone

LEMMA AlertOfSlave == ASSUME NEW k \in Alert PROVE k[2] \in Slave
BY MonitoringAssumption

LEMMA ConnectKeeps ==
    ASSUME WInv, NEW s \in Slave, Connect(s)
    PROVE  WInv'
<1> USE DEF WInv, Connect
<1>1. rank' = [rank EXCEPT ![s] = arrivals + 1] /\ arrivals + 1 # 0 /\ arrivals + 1 \in Nat
  BY DEF WatchTypeOK
<1>2. WatchTypeOK'
  BY <1>1 DEF WatchTypeOK
<1>3. \A t \in Slave : (rank[t] # 0 => rank'[t] # 0) /\ (t # s => rank'[t] = rank[t])
  BY <1>1 DEF WatchTypeOK
<1>4. Connected'
  BY <1>1, <1>3 DEF Connected, WatchTypeOK
<1>5. PollIsOver'
  BY <1>3 DEF PollIsOver, WatchTypeOK, Polls
<1>6. DownForTheGone'
  BY <1>3, AlertOfSlave DEF DownForTheGone, Gone, alertVars
<1> QED
  BY <1>2, <1>4, <1>5, <1>6

LEMMA DisconnectKeeps ==
    ASSUME WInv, NEW s \in Slave, Disconnect(s)
    PROVE  WInv'
<1> USE DEF WInv, Disconnect
<1>1. leaving' = [leaving EXCEPT ![s] = ClearDelay] /\ slaves' = slaves \ {s}
  OBVIOUS
<1>2. ClearDelay \in Nat /\ ClearDelay # None /\ ClearDelay > PollWait
  BY MonitoringAssumption, AlertsAssumption
<1>3. WatchTypeOK'
  BY <1>1, <1>2 DEF WatchTypeOK
<1>4. Connected'
  BY <1>1, <1>2 DEF Connected, WatchTypeOK
<1>5. PollIsOver'
  <2>1. poll # None => poll.left \in 0 .. PollWait /\ poll.of \in SUBSET Slave
    BY DEF WatchTypeOK, Polls
  <2> QED
    BY <1>1, <1>2, <2>1, MonitoringAssumption DEF PollIsOver, WatchTypeOK, Connected
<1>6. DownForTheGone'
  BY <1>1, <1>2, AlertOfSlave DEF DownForTheGone, Gone, alertVars, WatchTypeOK
<1> QED
  BY <1>3, <1>4, <1>5, <1>6

LEMMA ClearGoneKeeps ==
    ASSUME WInv, NEW s \in Slave, ClearGone(s)
    PROVE  WInv'
<1> USE DEF WInv
<1>1. /\ leaving[s] = 0 /\ leaving' = [leaving EXCEPT ![s] = None]
      /\ UNCHANGED <<slaves, rank, arrivals, poll>>
  BY DEF ClearGone
<1>2. WatchTypeOK' /\ Connected'
  BY <1>1 DEF WatchTypeOK, Connected
<1>3. PollIsOver'
  <2>1. 0 # None
    BY AlertsAssumption
  <2>2. poll # None => poll.left \in 0 .. PollWait /\ poll.of \in SUBSET Slave
    BY DEF WatchTypeOK, Polls
  <2>3. s \notin slaves
    BY <1>1, <2>1 DEF Connected
  <2>4. poll # None => s \notin poll.of
    BY <1>1, <2>2, <2>3, MonitoringAssumption DEF PollIsOver
  <2> QED
    BY <1>1, <2>2, <2>4 DEF PollIsOver, WatchTypeOK
<1>4. \A k \in Alert : up'[k] = (IF k[2] = s THEN None ELSE up[k])
  BY DEF ClearGone, Report
<1>5. DownForTheGone'
  BY <1>1, <1>4, AlertOfSlave DEF DownForTheGone, Gone, WatchTypeOK
<1> QED
  BY <1>2, <1>3, <1>5

LEMMA PollStartKeeps ==
    ASSUME WInv, PollStart
    PROVE  WInv'
<1> USE DEF WInv
<1> DEFINE p == [of |-> slaves, answered |-> {}, left |-> PollWait]
<1>1. (poll' = None \/ poll' = p) /\ UNCHANGED <<alertVars, slaves, rank, arrivals, leaving>>
  BY DEF PollStart
<1>2. p \in Polls
  BY MonitoringAssumption DEF Polls, WatchTypeOK
<1>3. WatchTypeOK'
  BY <1>1, <1>2 DEF WatchTypeOK
<1>4. Connected' /\ DownForTheGone'
  BY <1>1 DEF Connected, DownForTheGone, Gone, alertVars
<1>5. PollIsOver'
  BY <1>1 DEF PollIsOver, Connected, WatchTypeOK
<1> QED
  BY <1>3, <1>4, <1>5

\* The end of a poll reports only slaves whose alerts are not cleared yet.
LEMMA PollDoneKeeps ==
    ASSUME WInv, poll # None, NEW answered, PollDone(answered),
           UNCHANGED <<slaves, rank, arrivals, leaving>>
    PROVE  WInv'
<1> USE DEF WInv
<1>1. poll' = None
  BY DEF PollDone
<1>2. WatchTypeOK' /\ Connected' /\ PollIsOver'
  BY <1>1 DEF WatchTypeOK, Connected, PollIsOver
<1>3. \A k \in Alert : k \notin Asked => up'[k] = up[k]
  <2>1. PICK on \in SUBSET Asked : \E off \in SUBSET (Asked \ on) : Report(on, off)
    BY PollReports
  <2>2. PICK off \in SUBSET (Asked \ on) : Report(on, off)
    BY <2>1
  <2> QED
    BY <2>2 DEF Report
<1>4. \A k \in Asked : ~(Gone(k[2]) /\ leaving[k[2]] = None)
  BY DEF Asked, Gone, PollIsOver
<1>5. DownForTheGone'
  BY <1>3, <1>4 DEF DownForTheGone, Gone
<1> QED
  BY <1>2, <1>5

LEMMA AnswerKeeps ==
    ASSUME WInv, NEW s \in Slave, Answer(s)
    PROVE  WInv'
<1> DEFINE answered == poll.answered \cup {s}
<1>1. poll # None /\ UNCHANGED <<slaves, rank, arrivals, leaving>>
  BY DEF Answer
<1>2. CASE PollDone(answered)
  BY <1>1, <1>2, PollDoneKeeps
<1>3. CASE poll' = [poll EXCEPT !.answered = answered] /\ UNCHANGED alertVars
  <2>1. poll \in Polls /\ s \in Slave
    BY <1>1 DEF WInv, WatchTypeOK
  <2>2. poll' = [of |-> poll.of, answered |-> answered, left |-> poll.left]
    BY <1>3, <2>1 DEF Polls
  <2> HIDE DEF answered
  <2>3. poll'.of = poll.of /\ poll'.left = poll.left
    BY <2>2
  <2>4. poll' \in Polls
    <3>1. answered \in SUBSET Slave
      BY <2>1 DEF answered, Polls
    <3> QED
      BY <2>1, <2>2, <3>1 DEF Polls
  <2>5. WatchTypeOK' /\ Connected' /\ DownForTheGone'
    BY <1>1, <1>3, <2>4 DEF WInv, WatchTypeOK, Connected, DownForTheGone, Gone, alertVars
  <2>6. PollIsOver'
    BY <1>1, <2>3 DEF WInv, PollIsOver
  <2> QED
    BY <2>5, <2>6 DEF WInv
<1> QED
  BY <1>2, <1>3 DEF Answer

\* Time takes the same from a poll as from the slaves that leave during it.
LEMMA WatchTickKeeps ==
    ASSUME WInv, Tick
    PROVE  WInv'
<1> USE DEF WInv
<1>1. /\ UNCHANGED <<slaves, rank, arrivals>>
      /\ leaving' = [s \in Slave |-> Left(leaving[s])]
      /\ \A s \in Slave : leaving[s] # 0
      /\ poll # None => poll.left > 0
  BY DEF Tick
<1>2. \A s \in Slave : /\ leaving'[s] \in {None} \cup Nat
                       /\ (leaving'[s] = None) <=> (leaving[s] = None)
                       /\ leaving[s] # None => leaving'[s] = leaving[s] - 1
  BY <1>1, AlertsAssumption DEF WatchTypeOK, Left
<1>3. poll = None => poll' = None
  BY DEF Tick
<1>4. poll # None => /\ poll' = [of |-> poll.of, answered |-> poll.answered, left |-> poll.left - 1]
                     /\ poll \in Polls /\ poll.left - 1 \in 0 .. PollWait
  <2>1. ASSUME poll # None PROVE poll \in Polls /\ poll' = [poll EXCEPT !.left = poll.left - 1]
    BY <2>1 DEF Tick, WatchTypeOK
  <2> QED
    BY <1>1, <2>1, MonitoringAssumption DEF Polls
<1>5. WatchTypeOK'
  <2>1. leaving' \in [Slave -> {None} \cup Nat]
    BY <1>1, <1>2
  <2>2. poll # None => poll' \in Polls
    BY <1>4 DEF Polls
  <2> QED
    BY <1>1, <1>3, <2>1, <2>2 DEF WatchTypeOK
<1>6. Connected'
  BY <1>1, <1>2 DEF Connected
<1>7. PollIsOver'
  <2>1. poll' # None => poll # None /\ poll'.of = poll.of /\ poll'.left = poll.left - 1
    BY <1>3, <1>4
  <2> QED
    BY <1>1, <1>2, <1>4, <2>1 DEF PollIsOver, WatchTypeOK, Polls
<1>8. DownForTheGone'
  <2>1. \A k \in Alert : up[k] = None => up'[k] = None
    BY DEF Tick, AlertsTick, Count
  <2> QED
    BY <1>1, <1>2, <2>1, AlertOfSlave DEF DownForTheGone, Gone
<1> QED
  BY <1>5, <1>6, <1>7, <1>8

LEMMA AlertTimerKeeps ==
    ASSUME WInv, NEW k \in Alert, AlertTimer(k)
    PROVE  WInv'
BY DEF AlertTimer, FireAlert, FireAllClear, watchVars, WInv, WatchTypeOK, Connected, PollIsOver,
       DownForTheGone, Gone

LEMMA WatchStepKeeps == WInv /\ [Next]_vars => WInv'
<1> SUFFICES ASSUME WInv, [Next]_vars PROVE WInv'
  OBVIOUS
<1>1. ASSUME NEW s \in Slave, Connect(s) \/ Disconnect(s) \/ ClearGone(s) \/ Answer(s)
      PROVE  WInv'
  BY <1>1, ConnectKeeps, DisconnectKeeps, ClearGoneKeeps, AnswerKeeps
<1>2. CASE PollStart
  BY <1>2, PollStartKeeps
<1>3. CASE PollTimeout
  BY <1>3, PollDoneKeeps DEF PollTimeout
<1>4. ASSUME NEW k \in Alert, AlertTimer(k) PROVE WInv'
  BY <1>4, AlertTimerKeeps
<1>5. CASE Tick
  BY <1>5, WatchTickKeeps
<1>6. CASE UNCHANGED vars
  BY <1>6 DEF vars, watchVars, alertVars, WInv, WatchTypeOK, Connected, PollIsOver,
              DownForTheGone, Gone
<1> QED
  BY <1>1, <1>2, <1>3, <1>4, <1>5, <1>6 DEF Next

\* WInv is an invariant of the watch over the slaves.
THEOREM WatchInvariance == Spec => []WInv
<1>1. Init => WInv
  BY DEF Init, AlertsInit, WInv, WatchTypeOK, Connected, PollIsOver, DownForTheGone
<1> QED
  BY <1>1, WatchStepKeeps, PTL DEF Spec

\* A slave that has left and was cleared (the timeout of the disconnect handler,
\* "just in case we're mid-status") raises no alert, and one it had raised is on
\* its way to the all-clear, for any number of slaves and any delay longer than a
\* poll.
THEOREM NoneForTheGone == Spec => []NoAlertForTheGone
<1>1. WInv /\ IInv => NoAlertForTheGone
  <2> SUFFICES ASSUME WInv, IInv, NEW k \in Alert,
                      Gone(k[2]), leaving[k[2]] = None, state[k] # None
               PROVE  IF state[k].sent THEN state[k].c # None ELSE state[k].a = None
    BY DEF NoAlertForTheGone
  <2>1. up[k] = None
    BY DEF WInv, DownForTheGone
  <2>2. Linked(state[k], up[k], calm[k])
    BY IInvAt DEF KeyOK
  <2> QED
    BY <2>1, <2>2 DEF Linked
<1> QED
  BY <1>1, WatchInvariance, MonitorsAlerts, Invariance, PTL
=============================================================================

----------------------------- MODULE Monitoring ----------------------------
(***************************************************************************)
(* The master's watch over its slaves (master/monitoring.coffee) with the  *)
(* poll of their status (master/master_io.coffee) and the alerts it keeps. *)
(*                                                                         *)
(* Slaves are connections: one that comes back is another.  A poll asks    *)
(* all slaves connected at its start; those that have not answered when it *)
(* times out count as unresponsive.                                        *)
(***************************************************************************)
EXTENDS Alerts

CONSTANTS
    Slave,
    Interval,   \* between two polls, in ticks
    PollWait,   \* how long a poll waits for answers
    ClearDelay  \* how long after a disconnect a slave's alerts are cleared

ASSUME MonitoringAssumption ==
    /\ Alert \subseteq {"slave_unresponsive", "slave_unsynced"} \X Slave
    /\ PollWait \in Nat \ {0}
    /\ ClearDelay \in Nat /\ ClearDelay > PollWait
    /\ Interval \in Nat /\ Interval > PollWait

VARIABLES
    slaves,     \* @slaves
    rank,       \* the order they connected in, which is that of the object's keys;
                \* 0 for a slave that never did
    arrivals,   \* how many have
    leaving,    \* ticks until the alerts of a slave that left are cleared, or None
    poll,       \* the poll that is out, or None
    next,       \* ticks until the next poll
    heard       \* (history) the slave answered since it was last found unresponsive

watchVars == <<slaves, rank, arrivals, leaving, poll, next, heard>>
vars == <<alertVars, watchVars>>

Init ==
    /\ AlertsInit
    /\ slaves = {} /\ rank = [s \in Slave |-> 0] /\ arrivals = 0
    /\ leaving = [s \in Slave |-> None]
    /\ poll = None
    /\ next = Interval
    /\ heard = [s \in Slave |-> FALSE]

\* A slave says "ok".
Connect(s) ==
    /\ rank[s] = 0
    /\ slaves' = slaves \cup {s}
    /\ arrivals' = arrivals + 1
    /\ rank' = [rank EXCEPT ![s] = arrivals + 1]
    /\ UNCHANGED <<alertVars, leaving, poll, next, heard>>

\* MUTANT: its alerts are cleared at once.
Disconnect_AtOnce(s) ==
    /\ s \in slaves
    /\ slaves' = slaves \ {s}
    /\ leaving' = [leaving EXCEPT ![s] = 0]
    /\ UNCHANGED <<alertVars, rank, arrivals, poll, next, heard>>

\* A slave's socket is gone; its alerts are cleared after a while, "just in case
\* we're mid-status".
Disconnect(s) ==
    /\ s \in slaves
    /\ slaves' = slaves \ {s}
    /\ leaving' = [leaving EXCEPT ![s] = ClearDelay]
    /\ UNCHANGED <<alertVars, rank, arrivals, poll, next, heard>>

\* The timeout of the disconnect handler
ClearGone(s) ==
    /\ leaving[s] = 0
    /\ leaving' = [leaving EXCEPT ![s] = None]
    /\ Report({}, {k \in Alert : k[2] = s})
    /\ UNCHANGED <<slaves, rank, arrivals, poll, next, heard>>

\* The interval runs out.  Without slaves no poll is out.
PollStart ==
    /\ next = 0
    /\ next' = Interval
    /\ poll' = IF slaves = {} THEN None
               ELSE [of |-> slaves, answered |-> {}, left |-> PollWait]
    /\ UNCHANGED <<alertVars, slaves, rank, arrivals, leaving, heard>>

\* The callback of pollForSync: the loop over the statuses ends at the first slave
\* that did not respond.
PollDone(answered) ==
    LET silent == poll.of \ answered
        found == {s \in silent : \A t \in silent : rank[s] <= rank[t]}
        fine == {s \in poll.of : \A t \in silent : rank[s] < rank[t]}
        reported == {k \in Alert : \/ k[2] \in fine
                                   \/ k[2] \in found /\ k[1] = "slave_unresponsive"}
    IN  /\ \E unsynced \in SUBSET fine :
               LET on == {k \in reported : IF k[1] = "slave_unresponsive" THEN k[2] \in found
                                                                        ELSE k[2] \in unsynced}
               IN  Report(on, reported \ on)
        /\ poll' = None
        /\ heard' = [s \in Slave |-> CASE s \in answered -> TRUE
                                       [] s \in found -> FALSE
                                       [] OTHER -> heard[s]]

\* A slave answers the poll; the last answer ends it.
Answer(s) ==
    /\ poll # None
    /\ s \in slaves \cap (poll.of \ poll.answered)
    /\ LET answered == poll.answered \cup {s}
       IN  IF answered = poll.of
           THEN PollDone(answered)
           ELSE poll' = [poll EXCEPT !.answered = answered] /\ UNCHANGED <<alertVars, heard>>
    /\ UNCHANGED <<slaves, rank, arrivals, leaving, next>>

\* The timeouts of the slaves that have not answered
PollTimeout ==
    /\ poll # None /\ poll.left = 0
    /\ PollDone(poll.answered)
    /\ UNCHANGED <<slaves, rank, arrivals, leaving, next>>

Tick ==
    /\ next > 0
    /\ poll # None => poll.left > 0
    /\ \A s \in Slave : leaving[s] # 0
    /\ AlertsTick
    /\ next' = next - 1
    /\ poll' = IF poll = None THEN None ELSE [poll EXCEPT !.left = @ - 1]
    /\ leaving' = [s \in Slave |-> Left(leaving[s])]
    /\ UNCHANGED <<slaves, rank, arrivals, heard>>

AlertTimer(k) == (FireAlert(k) \/ FireAllClear(k)) /\ UNCHANGED watchVars

Next ==
    \/ \E s \in Slave : Connect(s) \/ Disconnect(s) \/ ClearGone(s) \/ Answer(s)
    \/ PollStart
    \/ PollTimeout
    \/ \E k \in Alert : AlertTimer(k)
    \/ Tick

Spec == Init /\ [][Next]_vars

----------------------------------------------------------------------------
(* Properties *)

Gone(s) == rank[s] # 0 /\ s \notin slaves

\* A slave that has left, and whose alerts have been cleared, raises none any
\* more, and one that was raised is on its way to the all-clear: no poll that was
\* out when it left brings its alert back for good.
NoAlertForTheGone ==
    \A k \in Alert :
        Gone(k[2]) /\ leaving[k[2]] = None /\ state[k] # None =>
            IF state[k].sent THEN state[k].c # None ELSE state[k].a = None

\* alerts.coffee: "A slave server has stopped responding to our status queries."
UnresponsiveIsTrue ==
    [][\A s \in Slave :
         LET k == <<"slave_unresponsive", s>>
         IN  k \in Alert /\ ~Sent(k) /\ Sent(k)' => ~heard[s]]_vars
=============================================================================

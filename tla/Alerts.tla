------------------------------- MODULE Alerts ------------------------------
(***************************************************************************)
(* The alert states (alerts.coffee).  A condition that is reported active  *)
(* starts a timer and is announced when that runs out; reported inactive,  *)
(* it stops the timer and, if it had been announced, starts another, after *)
(* which the all-clear goes out and the entry is dropped.                  *)
(*                                                                         *)
(* A timer is the number of ticks it has left; one that has run out fires  *)
(* before time goes on.                                                    *)
(***************************************************************************)
EXTENDS Integers

CONSTANTS
    Alert,      \* what there can be an alert for: a code and a key
    Wait,       \* wait_for, in ticks
    None        \* no entry, no timer

Timer == {None} \cup 0 .. Wait
Entry == [sent : BOOLEAN, a : Timer, c : Timer]

ASSUME AlertsAssumption == Wait \in Nat \ {0} /\ None \notin Int /\ None \notin Entry

VARIABLES
    state,      \* the entry of each alert in @_states, or None
    up,         \* (history) ticks since the condition came up, None while it is not
    calm        \* (history) ticks since it was reported inactive, None while it is up

alertVars == <<state, up, calm>>

AlertsInit ==
    /\ state = [k \in Alert |-> None]
    /\ up = [k \in Alert |-> None]
    /\ calm = [k \in Alert |-> None]

----------------------------------------------------------------------------
(* Reports *)

\* MUTANT: an all-clear that waits is left to fire.
Activated_KeepsClear(s) ==
    IF s = None THEN [sent |-> FALSE, a |-> Wait, c |-> None]
    ELSE [s EXCEPT !.a = IF ~s.sent /\ @ = None THEN Wait ELSE @]

\* MUTANT: every report starts the timer anew.
Activated_Restarts(s) ==
    IF s = None THEN [sent |-> FALSE, a |-> Wait, c |-> None]
    ELSE [s EXCEPT !.c = None, !.a = IF ~s.sent THEN Wait ELSE @]

\* update with an active condition.  The timer stays set when it has fired.
Activated(s) ==
    IF s = None THEN [sent |-> FALSE, a |-> Wait, c |-> None]
    ELSE [s EXCEPT !.c = None, !.a = IF ~s.sent /\ @ = None THEN Wait ELSE @]

\* MUTANT: the timer runs on.
Cleared_KeepsTimer(s) ==
    IF s = None THEN None ELSE [s EXCEPT !.c = IF s.sent /\ @ = None THEN Wait ELSE @]

\* update with an inactive condition
Cleared(s) ==
    IF s = None THEN None
    ELSE [s EXCEPT !.a = None, !.c = IF s.sent /\ @ = None THEN Wait ELSE @]

\* One callback reports the alerts of on active and those of off inactive.
Report(on, off) ==
    /\ state' = [k \in Alert |-> CASE k \in on -> Activated(state[k])
                                   [] k \in off -> Cleared(state[k])
                                   [] OTHER -> state[k]]
    /\ up' = [k \in Alert |-> CASE k \in on /\ up[k] = None -> 0
                                [] k \in off -> None
                                [] OTHER -> up[k]]
    /\ calm' = [k \in Alert |-> CASE k \in off /\ calm[k] = None -> 0
                                  [] k \in on -> None
                                  [] OTHER -> calm[k]]

----------------------------------------------------------------------------
(* Timers *)

AlertDue(k) == state[k] # None /\ ~state[k].sent /\ state[k].a = 0
ClearDue(k) == state[k] # None /\ state[k].c = 0

\* _fireAlert
FireAlert(k) ==
    /\ AlertDue(k)
    /\ state' = [state EXCEPT ![k].sent = TRUE]
    /\ UNCHANGED <<up, calm>>

\* _fireAllClear
FireAllClear(k) ==
    /\ ClearDue(k)
    /\ state' = [state EXCEPT ![k] = None]
    /\ UNCHANGED <<up, calm>>

Left(timer) == IF timer = None \/ timer = 0 THEN timer ELSE timer - 1

Aged(s) == IF s = None THEN None ELSE [sent |-> s.sent, a |-> Left(s.a), c |-> Left(s.c)]

\* A history clock stops beyond Wait.
Count(clock) == IF clock = None \/ clock > Wait THEN clock ELSE clock + 1

AlertsTick ==
    /\ \A k \in Alert : ~AlertDue(k) /\ ~ClearDue(k)
    /\ state' = [k \in Alert |-> Aged(state[k])]
    /\ up' = [k \in Alert |-> Count(up[k])]
    /\ calm' = [k \in Alert |-> Count(calm[k])]

\* Alerts on its own: one callback reports any alerts, at any time.
AlertsNext ==
    \/ \E on \in SUBSET Alert : \E off \in SUBSET (Alert \ on) : Report(on, off)
    \/ \E k \in Alert : FireAlert(k) \/ FireAllClear(k)
    \/ AlertsTick

AlertsSpec == AlertsInit /\ [][AlertsNext]_alertVars

----------------------------------------------------------------------------
(* Properties *)

\* The types.  An entry has at most one timer, and that of the all-clear only once
\* the alert has been sent.
AlertsTypeOK ==
    /\ state \in [Alert -> {None} \cup {e \in Entry : e.c # None => e.sent /\ e.a = None}]
    /\ up \in [Alert -> {None} \cup 0 .. Wait + 1]
    /\ calm \in [Alert -> {None} \cup 0 .. Wait + 1]

Sent(k) == state[k] # None /\ state[k].sent

\* An alert goes out only for a condition that was never reported inactive during
\* the whole wait, however reports come in between.
AlertOnlyIfLasting ==
    [][\A k \in Alert : ~Sent(k) /\ Sent(k)' => up[k] # None /\ up[k] >= Wait]_alertVars

\* An all-clear goes out only for a condition that was never reported active
\* again during the whole wait.
ClearOnlyIfCalm ==
    [][\A k \in Alert : Sent(k) /\ ~Sent(k)' => calm[k] # None /\ calm[k] >= Wait]_alertVars

\* What is sent means what it says, both ways (update and its timers).
AlertsMeanIt == AlertOnlyIfLasting /\ ClearOnlyIfCalm

\* Nothing is overlooked: a condition that has lasted longer than the wait has
\* been announced, and one gone for longer than the wait has been called off.
InTime ==
    \A k \in Alert :
        /\ up[k] # None /\ up[k] > Wait => Sent(k)
        /\ calm[k] # None /\ calm[k] > Wait => ~Sent(k)
=============================================================================

----------------------------- MODULE ActiveFeed ----------------------------
(***************************************************************************)
(* What a source mount promises its listeners, without the machinery of    *)
(* the switch-over: they are fed by at most one source; they change to     *)
(* a source only while it is connected; and a mount that has a source lets *)
(* go of it only for another, or when no other is connected.               *)
(***************************************************************************)
CONSTANTS Source, None

VARIABLES
    connected,  \* the sources that are connected
    active      \* the source the listeners hear, or None

feed == <<connected, active>>

FeedInit == connected = {} /\ active = None

\* A source connects; it may become the active one at once.
Join(s) ==
    /\ s \notin connected
    /\ connected' = connected \cup {s}
    /\ active' \in {active, s}

\* The mount changes to a connected source.
Activate(s) ==
    /\ s \in connected
    /\ active' = s
    /\ UNCHANGED connected

\* A source disconnects.  If it was the active one the mount has a connected
\* one take over, or goes on waiting for one, unless none is left.
Leave(s) ==
    /\ s \in connected
    /\ connected' = connected \ {s}
    /\ active' \in CASE active # s -> {active}
                     [] active = s /\ connected = {s} -> {None}
                     [] OTHER -> {s} \cup connected'

FeedNext == \E s \in Source : Join(s) \/ Activate(s) \/ Leave(s)

FeedSpec == FeedInit /\ [][FeedNext]_feed
=============================================================================

------------------------------ MODULE LiveFeed ------------------------------
(***************************************************************************)
(* The live feed: an EventSource, another one five seconds after it fails, *)
(* and the events of the API counted and listed by tabs.                   *)
(***************************************************************************)
EXTENDS Browser

ASSUME LiveAssumption == None \notin Nat

VARIABLES streams,     \* streams open or opening
          source,      \* eventSourceRef, the number of the last stream
          timers,      \* connections that wait for their five seconds
          connected,   \* isConnected
          left,        \* None, or how many timers were there on leaving
          feed         \* events listed, and the counters of the badges

liveVars == <<streams, source, timers, connected, left, feed>>

Channels == {"player_activity", "map_changed", "infraction_new", "other"}
Badges == Channels \ {"other"}

LiveInit == /\ streams = {1} /\ source = 1 /\ timers = 0
            /\ connected = TRUE /\ left = None
            /\ feed = [events |-> <<>>, counters |-> [c \in Badges |-> 0]]

-----------------------------------------------------------------------------
(* A page that was left sets no state any more. *)
StreamOpens ==
    /\ ~connected /\ streams # {} /\ left = None /\ Alone
    /\ connected' = TRUE
    /\ UNCHANGED <<streams, source, timers, left, feed>>

(* Heartbeats and the places of players are not listed. *)
EventComes ==
    /\ connected /\ left = None /\ Click
    /\ \E c \in Channels \cup {"heartbeat"} :
         feed' = IF c = "heartbeat" THEN feed
                 ELSE [events |-> <<c>> \o feed.events,
                       counters |-> [b \in Badges |-> feed.counters[b]
                                       + IF b = c THEN 1 ELSE 0]]
    /\ UNCHANGED <<streams, source, timers, connected, left>>

(* Mutant: the browser is left to reconnect, too. *)
StreamFailsOpen(s) ==
    /\ Click
    /\ timers' = timers + 1
    /\ connected' = (connected /\ left # None)
    /\ UNCHANGED <<streams, source, left, feed>>

StreamFails(s) ==
    /\ Click
    /\ streams' = streams \ {s}
    /\ timers' = timers + 1
    /\ connected' = (connected /\ left # None)
    /\ UNCHANGED <<source, left, feed>>

(* The timer is not cleared when the page is left. *)
ConnectEventSource ==
    /\ timers > 0 /\ Alone
    /\ source' = source + 1
    /\ streams' = streams \cup {source'}
    /\ timers' = timers - 1
    /\ UNCHANGED <<connected, left, feed>>

LeaveFeed ==
    /\ left = None /\ Click
    /\ left' = timers
    /\ streams' = streams \ {source}
    /\ UNCHANGED <<source, timers, connected, feed>>

LiveNext ==
    \/ EventComes \/ ConnectEventSource \/ LeaveFeed \/ StreamOpens
    \/ \E s \in streams : StreamFails(s)

(* Timers run, and a stream that is tried again opens. *)
LiveAnswers == ConnectEventSource \/ StreamOpens

(* While it says "Reconnecting...". *)
LiveWaits == ~connected /\ left = None

-----------------------------------------------------------------------------
LiveTypeOK ==
    /\ streams \subseteq 1..source /\ source \in Nat
    /\ timers \in Nat /\ left \in Nat \cup {None} /\ connected \in BOOLEAN
    /\ feed.events \in Seq(Channels) /\ feed.counters \in [Badges -> Nat]

(***************************************************************************)
(* A tab never has two streams, nor one and a timer for another, so no     *)
(* event is listed twice; once left the page has none, except the one of a *)
(* timer that nothing cleared; and each badge counts what its tab lists.   *)
(***************************************************************************)
LiveInStep ==
    /\ Cardinality(streams) + timers <= 1
    /\ left = 0 => streams = {}
    /\ \A b \in Badges :
         feed.counters[b] = Cardinality({i \in DOMAIN feed.events :
                                            feed.events[i] = b})
=============================================================================

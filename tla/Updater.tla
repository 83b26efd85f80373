------------------------------ MODULE Updater ------------------------------
(***************************************************************************)
(* core/updater.rs: what keeps the caches of players and maps warm.  The   *)
(* listener hears that a player has left and, two minutes later, asks for  *)
(* the pages of that player; the pass at startup asks for the pages of     *)
(* every map, unless a mark in the cache says it did so today.             *)
(***************************************************************************)
EXTENDS FastCache

CONSTANTS Visitors,     \* readers of the player's page
          Warmers,      \* tasks spawned by the listener
          Passes,       \* {"pass"}, or {} without PRECALCULATE_MAP
          Maps,
          Endpoints,    \* calls that refresh a player
          Delay,        \* ticks the listener's tasks sleep
          Day,          \* the same as the TTL of the mark
          MaxSessions,  \* bound: sessions the player ends
          MaxAttempts,  \* bound: connections that fail in a row
          UpdateFaults  \* "disconnect", "crash", "call_fail", "db_error",
                        \* "listen_fail"

ASSUME UpdaterAssumption ==
    /\ Visitors \union Warmers \union Passes \subseteq Readers
    /\ Visitors \intersect Warmers = {}
    /\ (Visitors \union Warmers) \intersect Passes = {}
    /\ {"session", "mark"} \subseteq CacheKeys
    /\ MaxSessions \in Nat /\ \A n \in 0..MaxSessions : 1..n \in Bodies
    /\ Endpoints \in Nat \ {0} /\ MaxAttempts \in Nat
    /\ Delay \in Nat /\ Ttl["session"] <= Delay /\ MemoryTtl <= Delay
    /\ Day = Ttl["mark"]

VARIABLES
    ended,      \* sessions of the player in the database that have ended
    listener,   \* "waiting" to connect, "listening", or "deaf": connected
                \* without a channel
    attempt,
    refresh,    \* of each task
    quiet,      \* history: the tasks since whose event nobody else has read
    pass,       \* maps_updater
    starts      \* history: of its passes

updaterVars == <<ended, listener, attempt, refresh, quiet, pass, starts>>
allVars == <<cacheVars, updaterVars>>

Refresh == [pc : {"idle", "sleep", "calls"}, left : 0..Delay,
            event : {"leave", "join"}, session : 0..MaxSessions,
            made : 0..(Endpoints - 1)]

NoRefresh == [pc |-> "idle", left |-> 0, event |-> "join", session |-> 0,
              made |-> 0]

Pass == [pc : {"off", "mark", "list", "work", "skipped", "over"},
         todo : SUBSET Maps]

Booting == [pc |-> "off", todo |-> {}]

(* since: ticks since the last pass began; gap: from the one before to it; *)
(* complete: since a pass was over with all maps; cut: the last pass was   *)
(* not; unmarked: a pass began without a mark of its own; missed: one was  *)
(* skipped although the last was neither complete that day nor cut.        *)
NoStarts == [since |-> Day, gap |-> Day, complete |-> Day + 1,
             cut |-> FALSE, unmarked |-> FALSE, missed |-> FALSE]

UpdaterInit ==
    /\ CacheInit
    /\ ended = 0
    /\ listener = "waiting" /\ attempt = 0
    /\ refresh = [t \in Warmers |-> NoRefresh]
    /\ quiet = {}
    /\ pass = Booting
    /\ starts = NoStarts

-----------------------------------------------------------------------------
(* The player joins or leaves; who listens is told, and spawns a task.     *)
Notified(t, event) ==
    /\ refresh[t].pc = "idle"
    /\ ended < MaxSessions
    /\ ended' = IF event = "leave" THEN ended + 1 ELSE ended
    /\ IF listener = "listening"
       THEN /\ refresh' = [refresh EXCEPT ![t] =
                             [NoRefresh EXCEPT !.pc = "sleep", !.left = Delay,
                                               !.event = event,
                                               !.session = ended']]
            /\ quiet' = IF \A r \in Readers : ~InFlight(r)
                        THEN quiet \union {t} ELSE quiet \ {t}
       ELSE UNCHANGED <<refresh, quiet>>
    /\ UNCHANGED <<cacheVars, listener, attempt, pass, starts>>

\* Mutant: the tasks do not sleep.
WakesAtOnce(t) ==
    /\ refresh[t].pc = "sleep"
    /\ refresh' = [refresh EXCEPT ![t] =
                     IF refresh[t].event = "leave"
                     THEN [refresh[t] EXCEPT !.pc = "calls"] ELSE NoRefresh]
    /\ UNCHANGED <<cacheVars, ended, listener, attempt, quiet, pass, starts>>

\* Mutant: the task of another event waits for a leave.
WakesForLeave(t) ==
    /\ refresh[t].pc = "sleep" /\ refresh[t].left = 0
    /\ refresh[t].event = "leave"
    /\ refresh' = [refresh EXCEPT ![t].pc = "calls"]
    /\ UNCHANGED <<cacheVars, ended, listener, attempt, quiet, pass, starts>>

(* Only a leave is of interest. *)
Wakes(t) ==
    /\ refresh[t].pc = "sleep" /\ refresh[t].left = 0
    /\ refresh' = [refresh EXCEPT ![t] =
                     IF refresh[t].event = "leave"
                     THEN [refresh[t] EXCEPT !.pc = "calls"] ELSE NoRefresh]
    /\ UNCHANGED <<cacheVars, ended, listener, attempt, quiet, pass, starts>>

Disturbed(r) == quiet' = quiet \intersect {r}

(* An endpoint of the player first reads the key of the last session.      *)
Visit(r) ==
    /\ r \in Visitors \/ (r \in Warmers /\ refresh[r].pc = "calls")
    /\ AskCache(r, "session")
    /\ Disturbed(r)
    /\ UNCHANGED <<ended, listener, attempt, refresh, pass, starts>>

(* Redis has the mark and does not answer, or did not store it. *)
Unmarked(r) ==
    /\ read[r].key = "mark"
    /\ \/ /\ read[r].pc = "redis" /\ Has(far, "mark")
          /\ read'[r].pc = "call"
       \/ read[r].pc = "store" /\ far'["mark"] # CopyOf(r, Day)

(* cached_response, around the sessions that have ended.                   *)
Answer(r) ==
    /\ \/ LookInRedis(r) \/ Keep(r) \/ Store(r)
       \/ CallReturns(r, IF read[r].key = "session" THEN 1..ended ELSE {})
    /\ starts' = [starts EXCEPT !.unmarked = @ \/ Unmarked(r)]
    /\ UNCHANGED <<ended, listener, attempt, refresh, quiet, pass>>

VisitorGoes(r) ==
    /\ r \in Visitors
    /\ Leave(r) \/ CallFails(r)
    /\ UNCHANGED updaterVars

\* Mutant: one call too many.
MadeOneMore(t) ==
    refresh' = [refresh EXCEPT ![t] =
                  IF refresh[t].made < Endpoints
                  THEN [refresh[t] EXCEPT !.made = @ + 1] ELSE NoRefresh]

(* update_player_metadata goes on to its next call. *)
Made(t) ==
    refresh' = [refresh EXCEPT ![t] =
                  IF refresh[t].made + 1 < Endpoints
                  THEN [refresh[t] EXCEPT !.made = @ + 1] ELSE NoRefresh]

(* A call is answered, or is not, and the next one follows.                *)
CallMade(t) ==
    /\ refresh[t].pc = "calls"
    /\ \/ read[t].pc = "done" /\ Leave(t)
       \/ "call_fail" \in UpdateFaults /\ InFlight(t) /\ Leave(t)
    /\ Made(t)
    /\ UNCHANGED <<ended, listener, attempt, quiet, pass, starts>>

-----------------------------------------------------------------------------
(* connect_and_listen: a LISTEN that fails is logged, and the connection   *)
(* is kept without it.                                                     *)
Connects ==
    /\ listener = "waiting"
    /\ \/ listener' = "listening"
       \/ "listen_fail" \in UpdateFaults /\ listener' = "deaf"
    /\ attempt' = 0
    /\ UNCHANGED <<cacheVars, ended, refresh, quiet, pass, starts>>

(* attempt sets how long the next wait is. *)
ConnectFails ==
    /\ "disconnect" \in UpdateFaults
    /\ listener = "waiting"
    /\ attempt < MaxAttempts /\ attempt' = attempt + 1
    /\ UNCHANGED <<cacheVars, ended, listener, refresh, quiet, pass, starts>>

(* recv fails. *)
Disconnects ==
    /\ "disconnect" \in UpdateFaults
    /\ listener # "waiting" /\ attempt < MaxAttempts
    /\ listener' = "waiting" /\ attempt' = attempt + 1
    /\ UNCHANGED <<cacheVars, ended, refresh, quiet, pass, starts>>

-----------------------------------------------------------------------------
(* maps_updater starts with the backend, and looks for its mark. *)
Boots(p) ==
    /\ pass.pc = "off"
    /\ AskCache(p, "mark")
    /\ pass' = [pass EXCEPT !.pc = "mark"]
    /\ UNCHANGED <<ended, listener, attempt, refresh, quiet, starts>>

(* A pass begins; its mark is new, or an old one is left as it is. *)
Begins(p) ==
    /\ pass' = [pass EXCEPT !.pc = "list"]
    /\ starts' = [starts EXCEPT !.since = 0, !.gap = starts.since,
                                !.cut = FALSE,
                                !.unmarked =
                                   @ \/ (~read[p].isNew /\ read[p].age >= Day)]

\* Mutant: the mark is written and never read.
DecidesToRun(p) ==
    /\ pass.pc = "mark" /\ read[p].pc = "done"
    /\ Leave(p)
    /\ Begins(p)
    /\ UNCHANGED <<ended, listener, attempt, refresh, quiet>>

(* The time in the mark is that of its query. *)
Decides(p) ==
    /\ pass.pc = "mark" /\ read[p].pc = "done"
    /\ Leave(p)
    /\ IF ~read[p].isNew /\ read[p].age < Day
       THEN /\ pass' = [pass EXCEPT !.pc = "skipped"]
            /\ starts' = [starts EXCEPT
                             !.missed = @ \/ (~starts.cut /\ starts.complete > Day)]
       ELSE Begins(p)
    /\ UNCHANGED <<ended, listener, attempt, refresh, quiet>>

(* The query of the maps; when it fails there is no pass. *)
ListsMaps ==
    /\ pass.pc = "list"
    /\ \/ pass' = [pc |-> "work", todo |-> Maps] /\ UNCHANGED starts
       \/ /\ "db_error" \in UpdateFaults
          /\ pass' = [pc |-> "over", todo |-> {}]
          /\ starts' = [starts EXCEPT !.cut = TRUE]
    /\ UNCHANGED <<cacheVars, ended, listener, attempt, refresh, quiet>>

(* update_map_metadata of each map in turn. *)
UpdatesMap(m) ==
    /\ pass.pc = "work" /\ m \in pass.todo
    /\ pass' = [pass EXCEPT !.todo = @ \ {m}]
    /\ UNCHANGED <<cacheVars, ended, listener, attempt, refresh, quiet, starts>>

Finishes ==
    /\ pass.pc = "work" /\ pass.todo = {}
    /\ pass' = [pass EXCEPT !.pc = "over"]
    /\ starts' = [starts EXCEPT !.complete = 0]
    /\ UNCHANGED <<cacheVars, ended, listener, attempt, refresh, quiet>>

-----------------------------------------------------------------------------
(* The backend is started again: Redis stays. *)
Restarts ==
    /\ "crash" \in UpdateFaults
    /\ near' = [k \in CacheKeys |-> Absent]
    /\ read' = [r \in Readers |-> NoRead]
    /\ listener' = "waiting" /\ attempt' = 0
    /\ refresh' = [t \in Warmers |-> NoRefresh]
    /\ quiet' = {}
    /\ pass' = Booting
    /\ starts' = [starts EXCEPT
                     !.cut = @ \/ pass.pc \in {"mark", "list", "work"}]
    /\ UNCHANGED <<far, ended>>

UpTo(n, bound) == IF n < bound THEN n + 1 ELSE bound

(* A task that is due wakes before time goes on. *)
TimePasses ==
    /\ CacheTick
    /\ \A t \in Warmers : refresh[t].pc = "sleep" => refresh[t].left > 0
    /\ refresh' = [t \in Warmers |->
                     IF refresh[t].pc = "sleep"
                     THEN [refresh[t] EXCEPT !.left = @ - 1] ELSE refresh[t]]
    /\ starts' = [starts EXCEPT !.since = UpTo(@, Day),
                                !.complete = UpTo(@, Day + 1)]
    /\ UNCHANGED <<ended, listener, attempt, quiet, pass>>

Forgotten == (\E k \in CacheKeys : Evict(k)) /\ UNCHANGED updaterVars

(* Steps of a call that its client waits for, and of a task. *)
VisitGoesOn(r) == Answer(r) \/ VisitorGoes(r)
TaskGoesOn(t) == Wakes(t) \/ Visit(t) \/ Answer(t) \/ CallMade(t)

ListenerNext ==
    \/ \E t \in Warmers, event \in {"leave", "join"} : Notified(t, event)
    \/ \E t \in Warmers : TaskGoesOn(t)
    \/ \E r \in Visitors : Visit(r) \/ VisitGoesOn(r)
    \/ Connects \/ ConnectFails \/ Disconnects

StartupNext ==
    \/ \E p \in Passes : Boots(p) \/ Answer(p) \/ Decides(p)
    \/ ListsMaps \/ Finishes
    \/ \E m \in Maps : UpdatesMap(m)

UpdaterNext ==
    \/ ListenerNext \/ StartupNext
    \/ Restarts \/ Forgotten \/ TimePasses

UpdaterSpec == UpdaterInit /\ [][UpdaterNext]_allVars

-----------------------------------------------------------------------------
(* Types of the listener, its tasks, the pass and the cache. *)
UpdaterTypeOK ==
    /\ CacheTypeOK
    /\ ended \in 0..MaxSessions
    /\ listener \in {"waiting", "listening", "deaf"} /\ attempt \in 0..MaxAttempts
    /\ refresh \in [Warmers -> Refresh] /\ quiet \subseteq Warmers
    /\ pass \in Pass
    /\ starts.since \in 0..Day /\ starts.gap \in 0..Day
    /\ starts.complete \in 0..(Day + 1)

(***************************************************************************)
(* The two minutes are as long as a session key is cached: if nobody else  *)
(* read it since the player left, the refresh asks with the session it was *)
(* sent for, whatever was cached then.                                     *)
(***************************************************************************)
QuietRefreshIsCurrent ==
    \A t \in Warmers :
        refresh[t].pc = "calls" /\ read[t].pc = "done" /\ t \in quiet
            => refresh[t].session \in read[t].body

(***************************************************************************)
(* However often the backend is restarted, and wherever it stops, passes   *)
(* over all maps begin a day apart: only a mark that Redis did not keep or *)
(* did not answer, or one that is about to expire, makes another.          *)
(***************************************************************************)
OnePassADay == starts.unmarked \/ starts.gap >= Day - MaxDelay

(***************************************************************************)
(* "Updating maps from cache is not needed. Last update was less than a    *)
(* day ago." (maps_updater): all maps were updated then, unless a restart  *)
(* or a failed query ended the pass of that mark, which is stored first.   *)
(***************************************************************************)
SkippedWasUpdated == ~starts.missed

(* What the listener and the pass promise together. *)
UpdatesInStep == QuietRefreshIsCurrent /\ OnePassADay /\ SkippedWasUpdated

(***************************************************************************)
(* A task that was spawned is done with its calls, whichever of them fail  *)
(* and whatever becomes of the listener.                                   *)
(***************************************************************************)
UpdatesEnd ==
    \A t \in Warmers : refresh[t].pc # "idle" ~> refresh[t].pc = "idle"
=============================================================================

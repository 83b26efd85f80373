--------------------------- MODULE PlayerMapTime ---------------------------
(***************************************************************************)
(* The incremental playtime aggregation of core/workers.rs: background     *)
(* tasks add the sessions of one player on one server to                   *)
(* website.player_map_time under a Redis lock, remember in                 *)
(* website.player_server_worker the last session they covered, and derive  *)
(* website.player_playtime from the totals.                                *)
(*                                                                         *)
(* Sessions are numbered in the order they start; a player has one session *)
(* at a time on a server, so they end in that order too.  A total is not a *)
(* duration but, for each map, how many times each session's time on that  *)
(* map was added into it.  Every await of the code is a step boundary.     *)
(***************************************************************************)
EXTENDS Naturals

CONSTANTS Workers,      \* background tasks that may run at once
          Nobody,       \* the lock key does not exist
          NumSessions,  \* bound: sessions the player ever plays
          Maps,
          MapsOf,       \* maps played while each session lasted
          MaxRequests,  \* bound: refresh tasks ever spawned
          Faults        \* what the environment may do, a subset of FaultKinds

(***************************************************************************)
(* crash     the backend restarts                                          *)
(* db_error  a query of the calculation returns an error                   *)
(* busy      a task uses up its 60 attempts at the lock, or has no         *)
(*           connection to try with                                        *)
(* torn      SETNX succeeded and EXPIRE did not                            *)
(* slow      a calculation outlives the lock's 300 s                       *)
(* stale     a session ends while a task is waiting or running, or a       *)
(*           request carries the session key cached for 120 s              *)
(***************************************************************************)
FaultKinds == {"crash", "db_error", "busy", "torn", "slow", "stale"}

Sessions == 1..NumSessions
NoSession == 0          \* PLAYER_DEFAULT_KEY; a NULL or missing session

ASSUME ConstantsAssumption ==
    /\ NumSessions \in Nat
    /\ MaxRequests \in Nat
    /\ Nobody \notin Workers
    /\ MapsOf \in [Sessions -> SUBSET Maps]
    /\ Faults \subseteq FaultKinds

VARIABLES
    ended,      \* sessions 1..ended have an ended_at
    mapTime,    \* player_map_time: mapTime[m][s] times s was added to m
    lastCalc,   \* player_server_worker.last_calculated of each worker type
    playtime,   \* player_playtime: the sessions its total includes
    lock,       \* the key lock:player_map_time:<server>:<player>
    task,       \* the background tasks
    requests,   \* refresh tasks spawned so far
    spoiled     \* history: a calculation stopped between the totals and
                \* its progress, outlived its lock, or was behind the totals

vars == <<ended, mapTime, lastCalc, playtime, lock, task, requests, spoiled>>

WorkerTypes == {"playermap", "player_playtime"}
Kinds == {"map_played", "detail"}

\* Where a task is: the await it is about to perform.
Critical == {"worker_key", "plays", "upsert", "save", "release"}
Holding == Critical \union {"expire"}
Places == Holding \union {"idle", "detail_key", "acquire", "read",
                          "playtime", "playtime_key"}

Task == [pc     : Places,
         kind   : Kinds,
         end    : 0..NumSessions,      \* ctx.data.current_session
         start  : 0..NumSessions,      \* LastWorkerCalculate.start
         no_data: BOOLEAN,             \* LastWorkerCalculate.no_data
         plays  : SUBSET Sessions,     \* rows of the range query
         failed : BOOLEAN,             \* the calculation returned Err
         fresh  : BOOLEAN,             \* detail's has_no_completed_session
         seen   : SUBSET Sessions]     \* sessions in the totals it read

Idle == [pc |-> "idle", kind |-> "map_played", end |-> NoSession,
         start |-> NoSession, no_data |-> FALSE, plays |-> {},
         failed |-> FALSE, fresh |-> FALSE, seen |-> {}]

Free == [holder |-> Nobody, ttl |-> FALSE]

At(w, place) == task[w].pc = place
AllIdle == \A w \in Workers : At(w, "idle")
Become(w, t) == task' = [task EXCEPT ![w] = t]
Goto(w, place) == Become(w, [task[w] EXCEPT !.pc = place])

Init ==
    /\ ended = 0
    /\ mapTime = [m \in Maps |-> [s \in Sessions |-> 0]]
    /\ lastCalc = [t \in WorkerTypes |-> NoSession]
    /\ playtime = {}
    /\ lock = Free
    /\ task = [w \in Workers |-> Idle]
    /\ requests = 0
    /\ spoiled = FALSE

-----------------------------------------------------------------------------
(* The scraper closes the player's session. *)
SessionEnds ==
    /\ ended < NumSessions
    /\ AllIdle \/ "stale" \in Faults
    /\ ended' = ended + 1
    /\ UNCHANGED <<mapTime, lastCalc, playtime, lock, task, requests,
                   spoiled>>

\* Mutant: the query forgets "AND ended_at IS NOT NULL".
SessionKeysOpen == 0..NumSessions

(* get_player_cache_key: the last ended session, or the first-time key. *)
SessionKeys == IF "stale" \in Faults THEN 0..ended ELSE {ended}

(***************************************************************************)
(* A refresh task starts.  active_tasks admits one task per cache key,     *)
(* and the key names the query and the session.                            *)
(***************************************************************************)
Request(w, kind, key) ==
    /\ At(w, "idle")
    /\ requests < MaxRequests
    /\ \A v \in Workers :
          At(v, "idle") \/ task[v].kind # kind \/ task[v].end # key
    /\ Become(w, [Idle EXCEPT
                    !.pc = IF kind = "detail" THEN "detail_key" ELSE "acquire",
                    !.kind = kind,
                    !.end = key])
    /\ requests' = requests + 1
    /\ UNCHANGED <<ended, mapTime, lastCalc, playtime, lock, spoiled>>

(* get_worker_player_key: the last covered session, else the first ended. *)
StartFor(type) ==
    IF lastCalc[type] # NoSession THEN lastCalc[type]
    ELSE IF ended > 0 THEN 1 ELSE NoSession

(* DbPlayerDetail reads its own worker key before the map query. *)
DetailReadKey(w) ==
    /\ At(w, "detail_key")
    /\ Become(w, [task[w] EXCEPT
                    !.pc = "acquire",
                    !.fresh = StartFor("player_playtime") = NoSession])
    /\ UNCHANGED <<ended, mapTime, lastCalc, playtime, lock, requests,
                   spoiled>>

-----------------------------------------------------------------------------
(* acquire_redis_lock and release_redis_lock *)

\* Mutant: SET instead of SETNX.
LockSetAlways(w) ==
    /\ At(w, "acquire")
    /\ lock' = [holder |-> w, ttl |-> FALSE]
    /\ Goto(w, "expire")
    /\ UNCHANGED <<ended, mapTime, lastCalc, playtime, requests, spoiled>>

LockSetNx(w) ==
    /\ At(w, "acquire")
    /\ lock = Free
    /\ lock' = [holder |-> w, ttl |-> FALSE]
    /\ Goto(w, "expire")
    /\ UNCHANGED <<ended, mapTime, lastCalc, playtime, requests, spoiled>>

\* Mutant: the key is never given a TTL.
LockSetNoTtl(w) ==
    /\ At(w, "expire")
    /\ Goto(w, "worker_key")
    /\ UNCHANGED <<ended, mapTime, lastCalc, playtime, lock, requests,
                   spoiled>>

LockSetTtl(w) ==
    /\ At(w, "expire")
    /\ lock' = [lock EXCEPT !.ttl = TRUE]
    /\ Goto(w, "worker_key")
    /\ UNCHANGED <<ended, mapTime, lastCalc, playtime, requests, spoiled>>

(* No lock: the map query answers with no rows, which detail takes as zero. *)
NoLock(w) ==
    /\ Become(w, IF task[w].kind = "detail"
                 THEN [task[w] EXCEPT !.pc = "playtime"] ELSE Idle)
    /\ UNCHANGED <<ended, mapTime, lastCalc, playtime, lock, requests,
                   spoiled>>

LockGiveUp(w) == "busy" \in Faults /\ At(w, "acquire") /\ NoLock(w)

LockTorn(w) == "torn" \in Faults /\ At(w, "expire") /\ NoLock(w)

(* Redis drops the key after 300 s; slow lets it outrun its holder. *)
LockExpires ==
    /\ lock.ttl
    /\ \/ "slow" \in Faults
       \/ task[lock.holder].pc \notin Critical
    /\ lock' = Free
    /\ spoiled' = (spoiled \/ task[lock.holder].pc \in Critical)
    /\ UNCHANGED <<ended, mapTime, lastCalc, playtime, task, requests>>

\* Mutant: DEL without comparing the value.
LockReleaseAny(w) ==
    /\ At(w, "release")
    /\ lock' = Free
    /\ Become(w, IF task[w].failed THEN Idle
                 ELSE [task[w] EXCEPT !.pc = "read"])
    /\ UNCHANGED <<ended, mapTime, lastCalc, playtime, requests, spoiled>>

\* Mutant: the calculation's error is not propagated after the release.
LockReleaseOk(w) ==
    /\ At(w, "release")
    /\ lock' = IF lock.holder = w THEN Free ELSE lock
    /\ Goto(w, "read")
    /\ UNCHANGED <<ended, mapTime, lastCalc, playtime, requests, spoiled>>

(***************************************************************************)
(* Compare-and-delete; without a connection it does nothing and the key is *)
(* left to its TTL.  An error of the calculation is propagated only now.   *)
(***************************************************************************)
LockRelease(w) ==
    /\ At(w, "release")
    /\ \/ lock' = IF lock.holder = w THEN Free ELSE lock
       \/ lock' = lock
    /\ Become(w, IF task[w].failed THEN Idle
                 ELSE [task[w] EXCEPT !.pc = "read"])
    /\ UNCHANGED <<ended, mapTime, lastCalc, playtime, requests, spoiled>>

-----------------------------------------------------------------------------
(* calculate_db_player_map *)

ReadWorkerKey(w) ==
    /\ At(w, "worker_key")
    /\ Become(w, [task[w] EXCEPT
                    !.pc = "plays",
                    !.start = StartFor("playermap"),
                    !.no_data = lastCalc["playermap"] = NoSession])
    /\ UNCHANGED <<ended, mapTime, lastCalc, playtime, lock, requests,
                   spoiled>>

\* Mutant: BETWEEN starts at the covered session's started_at, not ended_at.
RangePlaysInclusive(t) == {s \in 1..ended : t.start <= s /\ s <= t.end}

(***************************************************************************)
(* pss.started_at BETWEEN the start's started_at (nothing covered yet) or  *)
(* its ended_at AND the end's started_at, ended sessions only.             *)
(***************************************************************************)
RangePlays(t) ==
    {s \in 1..ended : /\ s <= t.end
                      /\ IF t.no_data THEN t.start <= s ELSE t.start < s}

(***************************************************************************)
(* Without a completed session: everything up to now, the session in       *)
(* progress included.  The join has no overlap condition on the player's   *)
(* sessions, only on the span from the first one to now: with one session  *)
(* that is the session itself.  A second one that begins between the two   *)
(* queries makes the durations wrong as well; these totals are replaced,   *)
(* not added to, by the next calculation.                                  *)
(***************************************************************************)
PartialPlays == {s \in Sessions : s <= ended + 1}

ComputePlays(w) ==
    LET t == task[w] IN
    /\ At(w, "plays")
    /\ \/ /\ t.start = NoSession
          /\ Become(w, [t EXCEPT !.pc = "upsert", !.plays = PartialPlays])
       \/ /\ t.start # NoSession
          /\ t.end # NoSession \* 'first-time' is not a uuid
          /\ Become(w, [t EXCEPT !.pc = "upsert",
                                 !.plays = IF t.no_data \/ t.start # t.end
                                           THEN RangePlays(t) ELSE {}])
       \/ /\ t.start # NoSession
          /\ t.end = NoSession
          /\ Become(w, [t EXCEPT !.pc = "release", !.failed = TRUE])
    /\ UNCHANGED <<ended, mapTime, lastCalc, playtime, lock, requests,
                   spoiled>>

Played(plays, m, s) == IF s \in plays /\ m \in MapsOf[s] THEN 1 ELSE 0
HasRow(plays, m) == \E s \in plays : m \in MapsOf[s]

ReplaceTotals(plays) ==
    [m \in Maps |-> IF HasRow(plays, m)
                    THEN [s \in Sessions |-> Played(plays, m, s)]
                    ELSE mapTime[m]]
AddTotals(plays) ==
    [m \in Maps |-> [s \in Sessions |-> mapTime[m][s] + Played(plays, m, s)]]

(* A task's session key is older than what the totals include. *)
Behind(t) ==
    /\ t.start # NoSession
    /\ \E m \in Maps, s \in Sessions : t.end < s /\ mapTime[m][s] > 0

UpsertTotals(w) ==
    LET t == task[w] IN
    /\ At(w, "upsert")
    /\ mapTime' = IF t.no_data \/ t.start = NoSession
                  THEN ReplaceTotals(t.plays) ELSE AddTotals(t.plays)
    /\ spoiled' = (spoiled \/ Behind(t))
    /\ Goto(w, IF t.start = NoSession THEN "release" ELSE "save")
    /\ UNCHANGED <<ended, lastCalc, playtime, lock, requests>>

\* Mutant: progress jumps to the last session, not to the one calculated.
SaveProgressLatest(w) ==
    /\ At(w, "save")
    /\ lastCalc' = [lastCalc EXCEPT !["playermap"] = ended]
    /\ Goto(w, "release")
    /\ UNCHANGED <<ended, mapTime, playtime, lock, requests, spoiled>>

(* update_worker_time *)
SaveProgress(w) ==
    /\ At(w, "save")
    /\ lastCalc' = [lastCalc EXCEPT !["playermap"] = task[w].end]
    /\ Goto(w, "release")
    /\ UNCHANGED <<ended, mapTime, playtime, lock, requests, spoiled>>

CalculationFails(w) ==
    /\ "db_error" \in Faults
    /\ task[w].pc \in Critical \ {"release"}
    /\ Become(w, [task[w] EXCEPT !.pc = "release", !.failed = TRUE])
    /\ spoiled' = (spoiled \/ At(w, "save"))
    /\ UNCHANGED <<ended, mapTime, lastCalc, playtime, lock, requests>>

-----------------------------------------------------------------------------
(* After the lock: the totals, and for detail the row derived from them.   *)

Counted(s) == \A m \in MapsOf[s] : mapTime[m][s] > 0

ReadTotals(w) ==
    /\ At(w, "read")
    /\ Become(w, IF task[w].kind = "map_played" THEN Idle
                 ELSE [task[w] EXCEPT !.pc = "playtime",
                                      !.seen = {s \in Sessions : Counted(s)}])
    /\ UNCHANGED <<ended, mapTime, lastCalc, playtime, lock, requests,
                   spoiled>>

UpsertPlaytime(w) ==
    /\ At(w, "playtime")
    /\ playtime' = task[w].seen
    /\ Become(w, IF task[w].fresh THEN Idle
                 ELSE [task[w] EXCEPT !.pc = "playtime_key"])
    /\ UNCHANGED <<ended, mapTime, lastCalc, lock, requests, spoiled>>

SavePlaytimeKey(w) ==
    /\ At(w, "playtime_key")
    /\ IF task[w].end = NoSession  \* 'first-time' is not a uuid
       THEN UNCHANGED lastCalc
       ELSE lastCalc' = [lastCalc EXCEPT !["player_playtime"] = task[w].end]
    /\ Become(w, Idle)
    /\ UNCHANGED <<ended, mapTime, playtime, lock, requests, spoiled>>

(* The process dies with its tasks; the lock key stays in Redis. *)
Restart ==
    /\ "crash" \in Faults
    /\ ~AllIdle
    /\ "torn" \in Faults \/ \A w \in Workers : ~At(w, "expire")
    /\ task' = [w \in Workers |-> Idle]
    /\ spoiled' = (spoiled \/ \E w \in Workers : At(w, "save"))
    /\ UNCHANGED <<ended, mapTime, lastCalc, playtime, lock, requests>>

-----------------------------------------------------------------------------
Acquire(w) == LockSetNx(w) \/ LockSetTtl(w) \/ LockGiveUp(w) \/ LockTorn(w)

Calculate(w) ==
    \/ ReadWorkerKey(w) \/ ComputePlays(w) \/ UpsertTotals(w)
    \/ SaveProgress(w) \/ CalculationFails(w) \/ LockRelease(w)

Detail(w) == DetailReadKey(w) \/ ReadTotals(w) \/ UpsertPlaytime(w)
             \/ SavePlaytimeKey(w)

Next ==
    \/ SessionEnds
    \/ \E w \in Workers, kind \in Kinds, key \in SessionKeys :
          Request(w, kind, key)
    \/ \E w \in Workers : Acquire(w) \/ Calculate(w) \/ Detail(w)
    \/ LockExpires
    \/ Restart

Spec == Init /\ [][Next]_vars

(***************************************************************************)
(* Tokio polls every task that is ready, and Redis drops an expired key.   *)
(***************************************************************************)
Fairness ==
    /\ \A w \in Workers : WF_vars(Acquire(w) \/ Calculate(w) \/ Detail(w))
    /\ WF_vars(LockExpires)

FairSpec == Spec /\ Fairness

-----------------------------------------------------------------------------
(* Types of the tables, the lock and the tasks; progress keys name ended   *)
(* sessions (last_calculated references player_server_session).            *)
TypeOK ==
    /\ ended \in 0..NumSessions
    /\ mapTime \in [Maps -> [Sessions -> Nat]]
    /\ lastCalc \in [WorkerTypes -> 0..ended]
    /\ playtime \in SUBSET Sessions
    /\ lock \in [holder : Workers \union {Nobody}, ttl : BOOLEAN]
    /\ task \in [Workers -> Task]
    /\ requests \in 0..MaxRequests
    /\ spoiled \in BOOLEAN

(* As long as no calculation outlives the lock's TTL, whoever is between   *)
(* acquire_redis_lock and release_redis_lock holds the key, so no two      *)
(* tasks calculate the same player at once, whatever crashes or fails.     *)
LockExcludes ==
    "slow" \notin Faults =>
        \A w \in Workers : task[w].pc \in Holding => lock.holder = w

(* Unless a calculation outlives the lock, last_calculated never runs      *)
(* ahead of the totals: every session up to it is in player_map_time, for  *)
(* every map it was played on, through crashes, failed queries, stale      *)
(* session keys and lock timeouts.                                         *)
NothingLost ==
    "slow" \notin Faults =>
        \A s \in Sessions : s <= lastCalc["playermap"] => Counted(s)

(* "Incremental delta: add new sessions to existing cumulative total"      *)
(* (workers.rs:1149): no session is ever added twice to a map's total.     *)
NoDoubleCount ==
    \A m \in Maps, s \in Sessions : mapTime[m][s] <= 1

(* A session is counted twice only after one of three things: a task that  *)
(* stopped between the upsert of the totals and update_worker_time, which  *)
(* are not one transaction, one that outlived its lock, or one whose key   *)
(* is older than the totals.  No other failure or order of tasks does it.  *)
CountsOnce == ~spoiled => NoDoubleCount

(* As long as none of the three happened, the totals are, at every step,   *)
(* those of the first k sessions: the aggregation does what PlaytimeLedger *)
(* promises.                                                               *)
Ledger == INSTANCE PlaytimeLedger WITH total <- mapTime
ImplementsLedger ==
    Ledger!Init /\ [][~spoiled' => [Ledger!Advance]_mapTime]_vars

(* player_playtime, cached for 60 days under a session key, includes every *)
(* session up to the one its worker row names.                             *)
PlaytimeComplete == 1..lastCalc["player_playtime"] \subseteq playtime

(* release_redis_lock compares before it deletes: a task that outlived its *)
(* lock never frees the key of the task that took it over.                 *)
LockKeptFromOthers ==
    [][\A v, w \in Workers :
          v # w /\ lock.holder = w /\ lock' = Free => task'[v] = task[v]]_vars

(* Every refresh task ends: waiting for the lock or for a dead holder's    *)
(* key to expire never blocks one for ever.  And a lock whose holder died, *)
(* or whose key could not be deleted, is free again.                       *)
TasksFinish ==
    /\ \A w \in Workers : ~At(w, "idle") ~> At(w, "idle")
    /\ lock # Free ~> lock = Free
=============================================================================

-------------------------- MODULE BackgroundWorker --------------------------
(***************************************************************************)
(* The cache of core/workers.rs: a request looks a key up in memory (moka) *)
(* and in Redis, falls back to the key of the session before, and leaves   *)
(* the calculation to a background task.  active_tasks admits one task for *)
(* a key, and a semaphore bounds the heavy ones.                           *)
(*                                                                         *)
(* A key names its session, so any value kept under it is an answer: only  *)
(* which keys are kept is modelled.  Every await is a step boundary; the   *)
(* runtime has several threads, so a task may run before the request that  *)
(* spawned it has recorded its handle.                                     *)
(***************************************************************************)
EXTENDS Naturals, FiniteSets

CONSTANTS Keys,         \* cache keys, the session included
          Heavy,        \* keys of queries with QueryPriority::Heavy
          Fallback,     \* the key of the previous session, or None
          Requests,     \* requests that may be in flight at once
          Tasks,        \* background tasks that may exist at once
          Permits,      \* max_heavy_concurrent
          MaxFailures,  \* bound: failures of queries and of Redis
          Faults,       \* what the environment may do
          None          \* no task, no key, lock not held

(***************************************************************************)
(* memory_expires  60 s pass after an insert into memory                   *)
(* redis_expires   the TTL of the key passes                               *)
(* redis_down      the pool has no connection, or a command fails          *)
(* db_error        a query returns an error                                *)
(* panic           a query panics                                          *)
(* disconnect      a client goes away and its request is dropped           *)
(***************************************************************************)
FaultKinds == {"memory_expires", "redis_expires", "redis_down", "db_error",
               "panic", "disconnect"}

ASSUME ConstantsAssumption ==
    /\ Keys # {} /\ Heavy \subseteq Keys
    /\ Fallback \in [Keys -> Keys \union {None}]
    /\ Permits \in Nat \ {0}
    /\ MaxFailures \in Nat
    /\ Faults \subseteq FaultKinds
    /\ IsFiniteSet(Tasks)
    /\ None \notin Keys \union Tasks \union Requests

VARIABLES
    memory,     \* keys in moka, 60 s
    redis,      \* keys k with gfl-ze-watcher:<k> in Redis
    active,     \* active_tasks: the handle under refresh:<key>
    lock,       \* who holds the write lock of active_tasks
    permits,    \* free permits of heavy_semaphore
    req,
    task,
    failures    \* failures so far

vars == <<memory, redis, active, lock, permits, req, task, failures>>
store == <<memory, redis, failures>>
pool == <<active, lock, permits, task>>

RequestPlaces == {"idle", "memory", "redis", "fill", "lock", "insert"}
TaskPlaces == {"finished", "permit", "query", "memory", "redis", "remove"}

Request == [pc      : RequestPlaces,
            key     : Keys,             \* current_key
            look    : Keys,             \* the key it is looking up
            backup  : BOOLEAN,          \* the fallback was found
            spawned : Tasks \union {None},
            kept    : SUBSET Keys,      \* history: in Redis since it began
            wants   : BOOLEAN]          \* its client waits for current data

Task == [pc     : TaskPlaces,
         key    : Keys,
         permit : BOOLEAN]

SomeKey == CHOOSE k \in Keys : TRUE

Asking(place, k, kept, wants) ==
    [pc |-> place, key |-> k, look |-> k, backup |-> FALSE,
     spawned |-> None, kept |-> kept, wants |-> wants]

(* The request is answered with its key's data, or the client has to wait. *)
Current == Asking("idle", SomeKey, {}, FALSE)
Refreshed(q) == Asking("idle", q.key, {}, TRUE)

Ended == [pc |-> "finished", key |-> SomeKey, permit |-> FALSE]

Init ==
    /\ memory = {}
    /\ redis = {}
    /\ active = [k \in Keys |-> None]
    /\ lock = None
    /\ permits = Permits
    /\ req = [r \in Requests |-> Current]
    /\ task = [t \in Tasks |-> Ended]
    /\ failures = 0

AtR(r, place) == req[r].pc = place
AtT(t, place) == task[t].pc = place
Become(r, q) == req' = [req EXCEPT ![r] = q]
Run(t, s) == task' = [task EXCEPT ![t] = s]

Failure == failures < MaxFailures /\ failures' = failures + 1

-----------------------------------------------------------------------------
(* get_with_fallback: try_cache_lookup on the key, then on the fallback *)

(* A client asks for a key; one that was told to wait asks again. *)
Ask(r, k) ==
    /\ AtR(r, "idle")
    /\ req[r].wants => k = req[r].key
    /\ Become(r, Asking("memory", k, redis \intersect {k, Fallback[k]}, TRUE))
    /\ UNCHANGED <<store, pool>>

Hit(q) == IF q.look = q.key THEN Current
          ELSE [q EXCEPT !.pc = "lock", !.backup = TRUE]

Miss(q) ==
    IF q.look = q.key /\ Fallback[q.key] # None
    THEN [q EXCEPT !.pc = "memory", !.look = Fallback[q.key]]
    ELSE [q EXCEPT !.pc = "lock"]

LookupMemory(r) ==
    LET q == req[r] IN
    /\ AtR(r, "memory")
    /\ Become(r, IF q.look \in memory THEN Hit(q)
                 ELSE [q EXCEPT !.pc = "redis"])
    /\ UNCHANGED <<store, pool>>

\* Mutant: the fallback is looked up before Redis is asked for the key.
LookupRedisLate(r) ==
    LET q == req[r] IN
    /\ AtR(r, "redis")
    /\ Become(r, IF q.look \in redis /\ q.look # q.key
                 THEN [q EXCEPT !.pc = "fill"] ELSE Miss(q))
    /\ UNCHANGED <<store, pool>>

LookupRedis(r) ==
    LET q == req[r] IN
    /\ AtR(r, "redis")
    /\ \/ /\ Become(r, IF q.look \in redis THEN [q EXCEPT !.pc = "fill"]
                       ELSE Miss(q))
          /\ UNCHANGED failures
       \/ /\ "redis_down" \in Faults
          /\ Failure
          /\ Become(r, Miss([q EXCEPT !.kept = @ \ {q.look}]))
    /\ UNCHANGED <<memory, redis, pool>>

(* What Redis returned goes into memory, over what is there by now. *)
FillMemory(r) ==
    LET q == req[r] IN
    /\ AtR(r, "fill")
    /\ memory' = memory \union {q.look}
    /\ Become(r, Hit(q))
    /\ UNCHANGED <<redis, failures, pool>>

-----------------------------------------------------------------------------
(* spawn_refresh_task *)

(* JoinHandle::is_finished; a task that panicked leaves such an entry. *)
Finished(t) == AtT(t, "finished")

(* A heavy task begins by waiting for a permit. *)
Spawned(k) == [pc |-> IF k \in Heavy THEN "permit" ELSE "query", key |-> k,
               permit |-> FALSE]

\* Mutant: the task is spawned under a read lock.
SpawnShared(r) ==
    LET q == req[r] IN
    /\ AtR(r, "lock")
    /\ IF active[q.key] # None /\ ~Finished(active[q.key])
       THEN /\ Become(r, Refreshed(q))
            /\ UNCHANGED <<lock, task>>
       ELSE \E t \in Tasks :
               /\ Finished(t)
               /\ \A k \in Keys \ {q.key} : active[k] # t
               /\ Run(t, Spawned(q.key))
               /\ Become(r, [q EXCEPT !.pc = "insert", !.spawned = t])
               /\ UNCHANGED lock
    /\ UNCHANGED <<store, active, permits>>

\* Mutant: is_finished is not asked.
SpawnTrusting(r) ==
    LET q == req[r] IN
    /\ AtR(r, "lock")
    /\ lock = None
    /\ IF active[q.key] # None
       THEN /\ Become(r, Refreshed(q))
            /\ UNCHANGED <<lock, task>>
       ELSE \E t \in Tasks :
               /\ Finished(t)
               /\ \A k \in Keys : active[k] # t
               /\ Run(t, Spawned(q.key))
               /\ Become(r, [q EXCEPT !.pc = "insert", !.spawned = t])
               /\ lock' = r
    /\ UNCHANGED <<store, active, permits>>

(***************************************************************************)
(* Under the write lock: nothing if a task of the key is alive, else a     *)
(* task is spawned.  A slot is free when no handle of it is kept.          *)
(***************************************************************************)
Spawn(r) ==
    LET q == req[r] IN
    /\ AtR(r, "lock")
    /\ lock = None
    /\ IF active[q.key] # None /\ ~Finished(active[q.key])
       THEN /\ Become(r, Refreshed(q))
            /\ UNCHANGED <<lock, task>>
       ELSE \E t \in Tasks :
               /\ Finished(t)
               /\ \A k \in Keys \ {q.key} : active[k] # t
               /\ Run(t, Spawned(q.key))
               /\ Become(r, [q EXCEPT !.pc = "insert", !.spawned = t])
               /\ lock' = r
    /\ UNCHANGED <<store, active, permits>>

(* tasks.insert, and the guard is dropped. *)
Insert(r) ==
    LET q == req[r] IN
    /\ AtR(r, "insert")
    /\ active' = [active EXCEPT ![q.key] = q.spawned]
    /\ lock' = None
    /\ Become(r, Refreshed(q))
    /\ UNCHANGED <<store, permits, task>>

(* The client goes away at one of the request's awaits. *)
Disconnect(r) ==
    /\ "disconnect" \in Faults
    /\ req[r].pc \in {"memory", "redis", "fill", "lock"}
    /\ Become(r, Current)
    /\ UNCHANGED <<store, pool>>

-----------------------------------------------------------------------------
(* The background task *)

\* Mutant: a task that finds no permit runs without one (try_acquire).
TryPermit(t) ==
    /\ AtT(t, "permit")
    /\ permits' = IF permits > 0 THEN permits - 1 ELSE 0
    /\ Run(t, [task[t] EXCEPT !.pc = "query", !.permit = permits > 0])
    /\ UNCHANGED <<store, active, lock, req>>

AcquirePermit(t) ==
    /\ AtT(t, "permit")
    /\ permits > 0
    /\ permits' = permits - 1
    /\ Run(t, [task[t] EXCEPT !.pc = "query", !.permit = TRUE])
    /\ UNCHANGED <<store, active, lock, req>>

QueryOk(t) ==
    /\ AtT(t, "query")
    /\ Run(t, [task[t] EXCEPT !.pc = "memory"])
    /\ UNCHANGED <<store, active, lock, permits, req>>

QueryErr(t) ==
    /\ "db_error" \in Faults
    /\ AtT(t, "query")
    /\ Failure
    /\ Run(t, [task[t] EXCEPT !.pc = "remove"])
    /\ UNCHANGED <<memory, redis, active, lock, permits, req>>

\* Mutant: the permit is forgotten instead of dropped.
ReleasedNever(t) == permits

\* Mutant: a permit is added whether or not the task took one.
ReleasedAlways(t) == permits + 1

(* Dropping the task's locals gives its permit back. *)
Released(t) == IF task[t].permit THEN permits + 1 ELSE permits

(* The permit is dropped as the task unwinds; its entry stays. *)
QueryPanics(t) ==
    /\ "panic" \in Faults
    /\ AtT(t, "query")
    /\ Failure
    /\ Run(t, Ended)
    /\ permits' = Released(t)
    /\ UNCHANGED <<memory, redis, active, lock, req>>

CacheInMemory(t) ==
    /\ AtT(t, "memory")
    /\ memory' = memory \union {task[t].key}
    /\ Run(t, [task[t] EXCEPT !.pc = "redis"])
    /\ UNCHANGED <<redis, failures, active, lock, permits, req>>

CacheInRedis(t) ==
    /\ AtT(t, "redis")
    /\ \/ redis' = redis \union {task[t].key} /\ UNCHANGED failures
       \/ "redis_down" \in Faults /\ Failure /\ UNCHANGED redis
    /\ Run(t, [task[t] EXCEPT !.pc = "remove"])
    /\ UNCHANGED <<memory, active, lock, permits, req>>

(* The end of the task: the guard of active_tasks, then the permit, are     *)
(* dropped, and nothing is awaited or read between the two.                *)
RemoveEntry(t) ==
    /\ AtT(t, "remove")
    /\ lock = None
    /\ active' = [active EXCEPT ![task[t].key] = None]
    /\ Run(t, Ended)
    /\ permits' = Released(t)
    /\ UNCHANGED <<store, lock, req>>

-----------------------------------------------------------------------------
MemoryExpires(k) ==
    /\ "memory_expires" \in Faults
    /\ k \in memory
    /\ memory' = memory \ {k}
    /\ UNCHANGED <<redis, failures, pool, req>>

RedisExpires(k) ==
    /\ "redis_expires" \in Faults
    /\ k \in redis
    /\ Failure
    /\ redis' = redis \ {k}
    /\ req' = [r \in Requests |->
                 [req[r] EXCEPT !.kept = @ \ {k}]]
    /\ UNCHANGED <<memory, pool>>

Serve(r) == LookupMemory(r) \/ LookupRedis(r) \/ FillMemory(r)
            \/ Spawn(r) \/ Insert(r)
Execute(t) ==
    AcquirePermit(t) \/ QueryOk(t) \/ QueryErr(t) \/ QueryPanics(t)
    \/ CacheInMemory(t) \/ CacheInRedis(t) \/ RemoveEntry(t)

Next ==
    \/ \E r \in Requests :
          Serve(r) \/ Disconnect(r) \/ \E k \in Keys : Ask(r, k)
    \/ \E t \in Tasks : Execute(t)
    \/ \E k \in Keys : MemoryExpires(k) \/ RedisExpires(k)

Spec == Init /\ [][Next]_vars

(***************************************************************************)
(* The runtime polls requests and tasks; tokio's lock and semaphore are    *)
(* fair queues, so who waits for them gets its turn; a page that was told  *)
(* to wait, or was given older data, asks again.                           *)
(***************************************************************************)
Asks(r) == req[r].wants /\ \E k \in Keys : Ask(r, k)
Works(t) ==
    AcquirePermit(t) \/ QueryOk(t) \/ CacheInMemory(t) \/ CacheInRedis(t)
    \/ RemoveEntry(t)

Fairness ==
    /\ \A r \in Requests : SF_vars(Serve(r) \/ Asks(r))
    /\ \A t \in Tasks : SF_vars(Works(t))

FairSpec == Spec /\ Fairness

-----------------------------------------------------------------------------
(* Every variable has its type; the permits stay within the semaphore. *)
TypeOK ==
    /\ memory \in SUBSET Keys
    /\ redis \in SUBSET Keys
    /\ active \in [Keys -> Tasks \union {None}]
    /\ lock \in Requests \union {None}
    /\ permits \in 0..Permits
    /\ req \in [Requests -> Request]
    /\ task \in [Tasks -> Task]
    /\ failures \in 0..MaxFailures

(***************************************************************************)
(* Two tasks of one key are never alive at the same time, although the     *)
(* cache is read before the lock is taken and a handle is recorded after   *)
(* its task has started.                                                   *)
(***************************************************************************)
SingleFlight ==
    \A s, t \in Tasks :
        ~Finished(s) /\ ~Finished(t) /\ task[s].key = task[t].key => s = t

(***************************************************************************)
(* No more heavy queries are in flight than the semaphore has permits, and *)
(* no permit is lost when a query fails or panics.                         *)
(***************************************************************************)
HeavyBound ==
    /\ permits + Cardinality({t \in Tasks : task[t].permit}) = Permits
    /\ \A t \in Tasks :
          task[t].key \in Heavy /\ ~AtT(t, "finished") /\ ~AtT(t, "permit")
              => task[t].permit

Answered(r) == req[r].pc # "idle" /\ req'[r].pc = "idle"

(***************************************************************************)
(* What Redis keeps, and answers for, while a request is served is used:   *)
(* with its key nobody is told to wait, with the key's fallback nobody is  *)
(* told "Still calculating", whatever the 60 s of the memory cache and     *)
(* other requests do meanwhile.                                            *)
(***************************************************************************)
CachedIsServed ==
    [][\A r \in Requests :
          Answered(r) /\ req'[r].wants
              => /\ req[r].key \notin req[r].kept
                 /\ Fallback[req[r].key] \in req[r].kept
                       => req[r].backup]_vars

(***************************************************************************)
(* A client that keeps asking is served current data in the end: a task    *)
(* that fails or panics does not block its key, nor does a time without    *)
(* Redis or a key that Redis dropped.                                      *)
(***************************************************************************)
PollingEnds ==
    \A r \in Requests : req[r].wants ~> ~req[r].wants
=============================================================================

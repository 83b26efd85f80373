---------------------------- MODULE CachesProofs ----------------------------
(***************************************************************************)
(* Theorems about the caches, for every instance.  Of the background       *)
(* worker: types, one task of a key, and the permits of the semaphore.  Of *)
(* the announcements and the cache they are listed through: no answer is   *)
(* older than MaxAge, and none differs from the table for longer.  Of the  *)
(* listener and the pass at startup: what a refresh asks with, and when a  *)
(* pass begins or is skipped.  Of the pictures: what is answered.          *)
(***************************************************************************)
EXTENDS Caches, FiniteSetTheorems, TLAPS

(* Who is between Spawn and Insert holds the lock, and nobody else does.   *)
LockInv == \A r \in Requests : AtR(r, "insert") <=> lock = r

(* The handle to be inserted is of its key, and no other task of the key   *)
(* has an entry that is alive.                                             *)
Inserting(q) ==
    /\ q.spawned \in Tasks
    /\ ~Finished(q.spawned) => task[q.spawned].key = q.key
    /\ \A k \in Keys \ {q.key} : active[k] # q.spawned
    /\ \/ active[q.key] \in {None, q.spawned}
       \/ Finished(active[q.key])

InsertInv == \A r \in Requests : AtR(r, "insert") => Inserting(req[r])

EntryInv ==
    \A k \in Keys :
        active[k] = None \/ Finished(active[k]) \/ task[active[k]].key = k

(* Whoever is alive is the entry of its key, or is about to be. *)
AliveInv ==
    \A t \in Tasks :
        \/ Finished(t)
        \/ active[task[t].key] = t
        \/ \E r \in Requests : AtR(r, "insert") /\ req[r].spawned = t

FlightInv == LockInv /\ InsertInv /\ EntryInv /\ AliveInv

(* A task has a permit, or does not, by its place. *)
PermitOf(s) ==
    /\ s.permit => s.pc \notin {"finished", "permit"}
    /\ s.key \in Heavy /\ s.pc \notin {"finished", "permit"} => s.permit

Taken(s) == {t \in Tasks : s[t].permit}

Counted == permits + Cardinality(Taken(task)) = Permits

PermitInv == Counted /\ \A t \in Tasks : PermitOf(task[t])

(* The types, but for the upper bound of the permits, which Counted gives. *)
Typed ==
    /\ memory \in SUBSET Keys
    /\ redis \in SUBSET Keys
    /\ active \in [Keys -> Tasks \union {None}]
    /\ lock \in Requests \union {None}
    /\ permits \in Nat
    /\ req \in [Requests -> Request]
    /\ task \in [Tasks -> Task]
    /\ failures \in 0..MaxFailures

Inv == Typed /\ FlightInv /\ PermitInv

(* What a request knows of Redis.  What it saw kept is still kept; it asks *)
(* for the fallback only when its key is gone, and comes to the lock only  *)
(* when it has missed both or found the fallback.                          *)
Served(q) ==
    /\ q.pc = "idle" => q.kept = {}
    /\ q.kept \subseteq redis
    /\ q.look # q.key => q.key \notin q.kept /\ q.look = Fallback[q.key]
    /\ q.pc \in {"lock", "insert"} =>
          /\ q.key \notin q.kept
          /\ Fallback[q.key] \in q.kept => q.backup

ServedInv == \A r \in Requests : Served(req[r])

-----------------------------------------------------------------------------
LEMMA SomeKeyIsKey == SomeKey \in Keys
  BY ConstantsAssumption DEF SomeKey

LEMMA AskingTyped ==
    ASSUME NEW place \in RequestPlaces, NEW k \in Keys,
           NEW known \in SUBSET Keys, NEW wants \in BOOLEAN
    PROVE  Asking(place, k, known, wants) \in Request
  BY DEF Asking, Request

LEMMA CurrentTyped == Current \in Request /\ Current.pc = "idle"
  BY SomeKeyIsKey, AskingTyped DEF Current, Asking, RequestPlaces

LEMMA RefreshedTyped ==
    ASSUME NEW q \in Request
    PROVE  Refreshed(q) \in Request /\ Refreshed(q).pc = "idle"
  <1>1. q.key \in Keys
    BY DEF Request
  <1>. QED  BY <1>1, AskingTyped DEF Refreshed, Asking, RequestPlaces

LEMMA EndedTyped ==
    /\ Ended \in Task
    /\ Ended.pc = "finished" /\ Ended.permit = FALSE
  BY SomeKeyIsKey DEF Ended, Task, TaskPlaces

LEMMA SpawnedTyped ==
    ASSUME NEW k \in Keys
    PROVE  /\ Spawned(k) \in Task
           /\ Spawned(k).pc \in {"permit", "query"} /\ Spawned(k).key = k
           /\ Spawned(k).permit = FALSE
           /\ k \in Heavy => Spawned(k).pc = "permit"
  BY DEF Spawned, Task, TaskPlaces

LEMMA HitTyped ==
    ASSUME NEW q \in Request
    PROVE  Hit(q) \in Request /\ Hit(q).pc # "insert"
  BY CurrentTyped DEF Hit, Request, RequestPlaces

LEMMA MissTyped ==
    ASSUME NEW q \in Request
    PROVE  Miss(q) \in Request /\ Miss(q).pc # "insert"
  <1>1. Fallback[q.key] \in Keys \union {None}
    BY ConstantsAssumption DEF Request
  <1>. QED  BY <1>1 DEF Miss, Request, RequestPlaces

-----------------------------------------------------------------------------
(* The permits that are out are counted one by one. *)
LEMMA TakenFinite == ASSUME NEW s PROVE IsFiniteSet(Taken(s))
  BY ConstantsAssumption, FS_Subset DEF Taken

LEMMA OneMore ==
    ASSUME NEW s \in [Tasks -> Task], NEW t \in Tasks, NEW u \in Task,
           ~s[t].permit, u.permit
    PROVE  Cardinality(Taken([s EXCEPT ![t] = u])) = Cardinality(Taken(s)) + 1
  <1>1. Taken([s EXCEPT ![t] = u]) = Taken(s) \union {t}
    BY DEF Taken
  <1>2. t \notin Taken(s)
    BY DEF Taken
  <1>. QED  BY <1>1, <1>2, TakenFinite, FS_AddElement

LEMMA OneLess ==
    ASSUME NEW s \in [Tasks -> Task], NEW t \in Tasks, NEW u \in Task,
           s[t].permit, ~u.permit
    PROVE  Cardinality(Taken([s EXCEPT ![t] = u])) = Cardinality(Taken(s)) - 1
  <1>1. Taken([s EXCEPT ![t] = u]) = Taken(s) \ {t}
    BY DEF Taken
  <1>2. t \in Taken(s)
    BY DEF Taken
  <1>. QED  BY <1>1, <1>2, TakenFinite, FS_RemoveElement

LEMMA SameTaken ==
    ASSUME NEW s \in [Tasks -> Task], NEW t \in Tasks, NEW u \in Task,
           s[t].permit = u.permit
    PROVE  Taken([s EXCEPT ![t] = u]) = Taken(s)
  BY DEF Taken

(* A task goes on, and keeps the permit it has. *)
LEMMA PermitsKept ==
    ASSUME Typed, PermitInv, NEW t \in Tasks, NEW u \in Task,
           PermitOf(u), u.permit = task[t].permit,
           Run(t, u), permits' = permits
    PROVE  PermitInv'
  <1>1. Taken(task') = Taken(task)
    BY SameTaken DEF Typed, Run
  <1>2. \A s \in Tasks : PermitOf(task'[s])
    BY DEF Typed, Run, PermitInv
  <1>. QED  BY <1>1, <1>2 DEF PermitInv, Counted

(* A task ends, and gives back what it has. *)
LEMMA PermitsReleased ==
    ASSUME Typed, PermitInv, NEW t \in Tasks,
           Run(t, Ended), permits' = Released(t)
    PROVE  PermitInv' /\ permits' \in Nat
  <1>1. \A s \in Tasks : PermitOf(task'[s])
    BY EndedTyped DEF Typed, Run, PermitInv, PermitOf
  <1>2. Cardinality(Taken(task)) \in Nat
    BY TakenFinite, FS_CardinalityType
  <1>3. Counted' /\ permits' \in Nat
    <2>1. CASE task[t].permit
      <3>1. Cardinality(Taken(task')) = Cardinality(Taken(task)) - 1
        BY <2>1, OneLess, EndedTyped DEF Typed, Run
      <3>2. permits' = permits + 1
        BY <2>1 DEF Released
      <3>. QED  BY <1>2, <3>1, <3>2 DEF PermitInv, Counted, Typed
    <2>2. CASE ~task[t].permit
      <3>1. task[t].permit = Ended.permit
        BY <2>2, EndedTyped DEF Typed, Task
      <3>2. Taken(task') = Taken(task)
        BY <3>1, SameTaken, EndedTyped DEF Typed, Run
      <3>3. permits' = permits
        BY <2>2 DEF Released
      <3>. QED  BY <3>2, <3>3 DEF PermitInv, Counted, Typed
    <2>. QED  BY <2>1, <2>2
  <1>. QED  BY <1>1, <1>3 DEF PermitInv

-----------------------------------------------------------------------------
(* A request that inserts nothing goes on. *)
LEMMA RequestGoesOn ==
    ASSUME Typed, FlightInv, UNCHANGED pool,
           req' \in [Requests -> Request],
           \A r \in Requests :
               \/ req'[r].pc # "insert" /\ ~AtR(r, "insert")
               \/ /\ req'[r].pc = req[r].pc
                  /\ req'[r].key = req[r].key
                  /\ req'[r].spawned = req[r].spawned
    PROVE  FlightInv'
  <1>1. LockInv'
    BY DEF FlightInv, LockInv, AtR, pool
  <1>2. InsertInv'
    BY DEF FlightInv, InsertInv, Inserting, AtR, pool, Finished, AtT
  <1>3. EntryInv'
    BY DEF FlightInv, EntryInv, pool, Finished, AtT
  <1>4. AliveInv'
    <2>. SUFFICES ASSUME NEW t \in Tasks, ~Finished(t)',
                         active'[task'[t].key] # t
                  PROVE  \E r \in Requests :
                            AtR(r, "insert")' /\ req'[r].spawned = t
      BY DEF AliveInv
    <2>1. PICK r \in Requests : AtR(r, "insert") /\ req[r].spawned = t
      BY DEF FlightInv, AliveInv, pool, Finished, AtT
    <2>. QED  BY <2>1 DEF AtR
  <1>. QED  BY <1>1, <1>2, <1>3, <1>4 DEF FlightInv

(* A task that is alive goes on. *)
LEMMA WorkGoesOn ==
    ASSUME Typed, FlightInv, UNCHANGED <<active, lock, req>>,
           NEW t \in Tasks, NEW u \in Task, Run(t, u),
           ~Finished(t), u.pc # "finished", u.key = task[t].key
    PROVE  FlightInv'
  <1>1. \A s \in Tasks : /\ Finished(s)' <=> Finished(s)
                         /\ task'[s].key = task[s].key
    BY DEF Typed, Run, Finished, AtT
  <1>2. \A k \in Keys : active[k] = None \/ active[k] \in Tasks
    BY DEF Typed
  <1>3. LockInv'
    BY DEF FlightInv, LockInv, AtR
  <1>4. InsertInv'
    <2>. SUFFICES ASSUME NEW r \in Requests, AtR(r, "insert")
                  PROVE  Inserting(req[r])'
      BY DEF InsertInv, AtR
    <2>1. Inserting(req[r]) /\ req[r].key \in Keys
      BY DEF FlightInv, InsertInv, Typed, Request
    <2>. QED  BY <1>1, <1>2, <2>1 DEF Inserting
  <1>5. EntryInv'
    BY <1>1, <1>2 DEF FlightInv, EntryInv
  <1>6. AliveInv'
    BY <1>1 DEF FlightInv, AliveInv, AtR
  <1>. QED  BY <1>3, <1>4, <1>5, <1>6 DEF FlightInv

(* A task that ends leaves its entry, which is finished. *)
LEMMA TaskEnds ==
    ASSUME Typed, FlightInv, UNCHANGED <<active, lock, req>>,
           NEW t \in Tasks, Run(t, Ended)
    PROVE  FlightInv'
  <1>1. /\ Finished(t)'
        /\ \A s \in Tasks \ {t} : task'[s] = task[s]
    BY EndedTyped DEF Typed, Run, Finished, AtT
  <1>2. \A k \in Keys : active[k] = None \/ active[k] \in Tasks
    BY DEF Typed
  <1>3. LockInv'
    BY DEF FlightInv, LockInv, AtR
  <1>4. InsertInv'
    <2>. SUFFICES ASSUME NEW r \in Requests, AtR(r, "insert")
                  PROVE  Inserting(req[r])'
      BY DEF InsertInv, AtR
    <2>1. Inserting(req[r]) /\ req[r].key \in Keys
      BY DEF FlightInv, InsertInv, Typed, Request
    <2>. QED  BY <1>1, <1>2, <2>1 DEF Inserting, Finished, AtT
  <1>5. EntryInv'
    BY <1>1, <1>2 DEF FlightInv, EntryInv, Finished, AtT
  <1>6. AliveInv'
    BY <1>1 DEF FlightInv, AliveInv, AtR, Finished, AtT
  <1>. QED  BY <1>3, <1>4, <1>5, <1>6 DEF FlightInv

(* A request finds its key free, and spawns a task. *)
LEMMA SpawnFlies ==
    ASSUME Typed, FlightInv, NEW r \in Requests, NEW t \in Tasks,
           AtR(r, "lock"), lock = None, lock' = r, active' = active,
           active[req[r].key] = None \/ Finished(active[req[r].key]),
           Finished(t), \A k \in Keys \ {req[r].key} : active[k] # t,
           Run(t, Spawned(req[r].key)),
           Become(r, [req[r] EXCEPT !.pc = "insert", !.spawned = t])
    PROVE  FlightInv'
  <1>. DEFINE q == req[r]
  <1>1. /\ q \in Request /\ q.key \in Keys
        /\ r # None
    BY ConstantsAssumption DEF Typed, Request
  <1>2. /\ task'[t] = Spawned(q.key)
        /\ task'[t].key = q.key
        /\ \A s \in Tasks \ {t} : task'[s] = task[s]
        /\ ~Finished(t)'
        /\ \A s \in Tasks \ {t} : Finished(s)' <=> Finished(s)
    BY <1>1, SpawnedTyped DEF Typed, Run, Finished, AtT
  <1>3. /\ req'[r].pc = "insert" /\ req'[r].spawned = t /\ req'[r].key = q.key
        /\ \A p \in Requests \ {r} : req'[p] = req[p]
    BY <1>1 DEF Typed, Become, Request
  <1>4. \A k \in Keys : active[k] = None \/ active[k] \in Tasks
    BY DEF Typed
  <1>5. \A p \in Requests : ~AtR(p, "insert")
    BY ConstantsAssumption DEF FlightInv, LockInv
  <1>6. LockInv'
    BY <1>1, <1>3, <1>5 DEF LockInv, AtR
  <1>7. InsertInv'
    <2>. SUFFICES ASSUME NEW p \in Requests, AtR(p, "insert")'
                  PROVE  Inserting(req[p])'
      BY DEF InsertInv
    <2>1. p = r
      BY <1>3, <1>5 DEF AtR
    <2>. QED  BY <1>1, <1>2, <1>3, <1>4, <2>1 DEF Inserting
  <1>8. EntryInv'
    <2>. SUFFICES ASSUME NEW k \in Keys, active[k] # None, ~Finished(active[k])'
                  PROVE  task'[active[k]].key = k
      BY DEF EntryInv
    <2>1. CASE active[k] = t
      BY <1>2, <2>1
    <2>2. CASE active[k] # t
      BY <1>2, <1>4, <2>2 DEF FlightInv, EntryInv
    <2>. QED  BY <2>1, <2>2
  <1>9. AliveInv'
    <2>. SUFFICES ASSUME NEW s \in Tasks, ~Finished(s)',
                         active[task'[s].key] # s
                  PROVE  \E p \in Requests :
                            AtR(p, "insert")' /\ req'[p].spawned = s
      BY DEF AliveInv
    <2>1. s = t
      BY <1>2, <1>5 DEF FlightInv, AliveInv
    <2>. QED  BY <1>3, <2>1 DEF AtR
  <1>. QED  BY <1>6, <1>7, <1>8, <1>9 DEF FlightInv

(* The handle of the task becomes the entry of its key. *)
LEMMA InsertFlies ==
    ASSUME Typed, FlightInv, NEW r \in Requests, Insert(r)
    PROVE  FlightInv'
  <1>. DEFINE q == req[r]
              t == q.spawned
  <1>1. /\ q \in Request /\ q.key \in Keys /\ r # None
        /\ Inserting(q) /\ t \in Tasks
    BY ConstantsAssumption
    DEF Typed, Request, Insert, FlightInv, InsertInv, Inserting
  <1>2. /\ active'[q.key] = t
        /\ \A k \in Keys \ {q.key} : active'[k] = active[k]
        /\ task' = task /\ lock' = None
    BY <1>1 DEF Typed, Insert
  <1>3. /\ req'[r].pc = "idle"
        /\ \A p \in Requests \ {r} : req'[p] = req[p]
    BY <1>1, RefreshedTyped DEF Typed, Insert, Become
  <1>4. \A p \in Requests : AtR(p, "insert") => p = r
    BY DEF FlightInv, LockInv, Insert
  <1>5. \A p \in Requests : ~AtR(p, "insert")'
    BY <1>3, <1>4 DEF AtR
  <1>6. LockInv' /\ InsertInv'
    <2>1. \A p \in Requests : p # None
      BY ConstantsAssumption
    <2>. QED  BY <1>2, <1>5, <2>1 DEF LockInv, InsertInv
  <1>7. EntryInv'
    BY <1>1, <1>2 DEF FlightInv, EntryInv, Inserting, Finished, AtT
  <1>8. AliveInv'
    <2>. SUFFICES ASSUME NEW s \in Tasks, ~Finished(s)
                  PROVE  active'[task[s].key] = s
      BY <1>2 DEF AliveInv, Finished, AtT
    <2>1. task[s].key \in Keys
      BY DEF Typed, Task
    <2>2. CASE active[task[s].key] = s
      <3>1. CASE task[s].key = q.key
        <4>1. s = t
          BY <1>1, <2>2, <3>1, ConstantsAssumption DEF Inserting
        <4>. QED  BY <1>2, <3>1, <4>1
      <3>2. CASE task[s].key # q.key
        BY <1>2, <2>1, <2>2, <3>2
      <3>. QED  BY <3>1, <3>2
    <2>3. CASE \E p \in Requests : AtR(p, "insert") /\ req[p].spawned = s
      <3>1. s = t
        BY <1>4, <2>3
      <3>. QED  BY <1>1, <1>2, <3>1 DEF Inserting
    <2>. QED  BY <2>2, <2>3 DEF FlightInv, AliveInv
  <1>. QED  BY <1>6, <1>7, <1>8 DEF FlightInv

(* A task removes the entry of its key, which is its own. *)
LEMMA RemoveFlies ==
    ASSUME Typed, FlightInv, NEW t \in Tasks, RemoveEntry(t)
    PROVE  FlightInv'
  <1>. DEFINE k == task[t].key
  <1>1. /\ k \in Keys /\ ~Finished(t)
        /\ active' = [active EXCEPT ![k] = None] /\ active \in [Keys -> Tasks \union {None}]
        /\ \A p \in Requests : ~AtR(p, "insert")
    BY ConstantsAssumption
    DEF Typed, Task, RemoveEntry, FlightInv, LockInv, Finished, AtT
  <1>2. active[k] = t
    BY <1>1 DEF FlightInv, AliveInv
  <1>3. /\ Finished(t)'
        /\ \A s \in Tasks \ {t} : task'[s] = task[s]
        /\ req' = req /\ lock' = lock
    BY EndedTyped DEF Typed, RemoveEntry, Run, Finished, AtT
  <1>4. LockInv' /\ InsertInv'
    BY <1>1, <1>3 DEF FlightInv, LockInv, InsertInv, AtR
  <1>5. EntryInv'
    BY <1>1, <1>3 DEF FlightInv, EntryInv, Finished, AtT
  <1>6. AliveInv'
    <2>. SUFFICES ASSUME NEW s \in Tasks, ~Finished(s)'
                  PROVE  active'[task'[s].key] = s
      BY DEF AliveInv
    <2>1. /\ s # t /\ task'[s] = task[s] /\ ~Finished(s)
          /\ task[s].key \in Keys
      BY <1>3 DEF Finished, AtT, Typed, Task
    <2>2. active[task[s].key] = s
      BY <1>1, <2>1 DEF FlightInv, AliveInv
    <2>. QED  BY <1>1, <1>2, <2>1, <2>2
  <1>. QED  BY <1>4, <1>5, <1>6 DEF FlightInv

-----------------------------------------------------------------------------
(* The invariant joins the types, the flights and the permits.             *)
LEMMA InvStarts == Init => Inv
  <1>. SUFFICES ASSUME Init PROVE Inv
    OBVIOUS
  <1>1. Typed
    BY CurrentTyped, EndedTyped, ConstantsAssumption DEF Init, Typed
  <1>2. \A r \in Requests : r # None /\ ~AtR(r, "insert")
    BY ConstantsAssumption, CurrentTyped DEF Init, AtR
  <1>3. \A t \in Tasks : Finished(t)
    BY EndedTyped DEF Init, Finished, AtT
  <1>4. FlightInv
    BY <1>2, <1>3
    DEF Init, FlightInv, LockInv, InsertInv, EntryInv, AliveInv
  <1>5. Taken(task) = {}
    BY EndedTyped DEF Init, Taken
  <1>6. Counted
    BY <1>5, FS_EmptySet, ConstantsAssumption DEF Init, Counted
  <1>7. \A t \in Tasks : PermitOf(task[t])
    BY EndedTyped DEF Init, PermitOf
  <1>. QED  BY <1>1, <1>4, <1>6, <1>7 DEF Inv, PermitInv

(* Caches fill and expire; tasks and handles stay as they are. *)
LEMMA StoresOnly ==
    ASSUME Inv, UNCHANGED pool, Typed',
           \A r \in Requests :
               \/ req'[r].pc # "insert" /\ ~AtR(r, "insert")
               \/ /\ req'[r].pc = req[r].pc
                  /\ req'[r].key = req[r].key
                  /\ req'[r].spawned = req[r].spawned
    PROVE  Inv'
  <1>1. FlightInv'
    BY RequestGoesOn DEF Inv, Typed
  <1>2. PermitInv'
    BY DEF Inv, PermitInv, Counted, Taken, pool
  <1>. QED  BY <1>1, <1>2 DEF Inv

(* One request goes on, and inserts nothing. *)
LEMMA OneRequest ==
    ASSUME Inv, UNCHANGED pool, NEW r \in Requests, ~AtR(r, "insert"),
           NEW q \in Request, q.pc # "insert", Become(r, q),
           memory' \in SUBSET Keys, redis' \in SUBSET Keys,
           failures' \in 0..MaxFailures
    PROVE  Inv'
  <1>1. Typed'
    BY DEF Inv, Typed, Become, pool
  <1>2. req'[r].pc # "insert" /\ \A p \in Requests \ {r} : req'[p] = req[p]
    BY DEF Inv, Typed, Become
  <1>. QED  BY <1>1, <1>2, StoresOnly

LEMMA ServeStep ==
    ASSUME Inv, NEW r \in Requests, Serve(r) \/ Disconnect(r)
    PROVE  Inv'
  <1>. DEFINE q == req[r]
  <1>1. /\ q \in Request /\ q.key \in Keys /\ q.look \in Keys
        /\ q.kept \in SUBSET Keys
        /\ memory \in SUBSET Keys /\ redis \in SUBSET Keys
        /\ failures \in 0..MaxFailures
    BY DEF Inv, Typed, Request
  <1>2. \A p \in RequestPlaces : [q EXCEPT !.pc = p] \in Request
    BY <1>1 DEF Request
  <1>3. Failure => failures' \in 0..MaxFailures
    BY <1>1, ConstantsAssumption DEF Failure
  <1>4. CASE LookupMemory(r)
    <2>1. PICK p \in Request : p.pc # "insert" /\ Become(r, p)
      <3>1. [q EXCEPT !.pc = "redis"] \in Request
        BY <1>2 DEF RequestPlaces
      <3>2. [q EXCEPT !.pc = "redis"].pc = "redis"
        BY <1>1 DEF Request
      <3>3. Hit(q) \in Request /\ Hit(q).pc # "insert"
        BY <1>1, HitTyped
      <3>4. \/ Become(r, Hit(q))
            \/ Become(r, [q EXCEPT !.pc = "redis"])
        BY <1>4 DEF LookupMemory
      <3>. QED  BY <3>1, <3>2, <3>3, <3>4
    <2>2. ~AtR(r, "insert") /\ UNCHANGED <<store, pool>>
      BY <1>4 DEF LookupMemory, AtR
    <2>. QED  BY <1>1, <2>1, <2>2, OneRequest DEF store
  <1>5. CASE LookupRedis(r)
    <2>1. [q EXCEPT !.kept = @ \ {q.look}] \in Request
      BY <1>1 DEF Request
    <2>2. PICK p \in Request : p.pc # "insert" /\ Become(r, p)
      <3>1. CASE Become(r, IF q.look \in redis THEN [q EXCEPT !.pc = "fill"]
                           ELSE Miss(q))
        <4>1. [q EXCEPT !.pc = "fill"] \in Request
          BY <1>2 DEF RequestPlaces
        <4>2. [q EXCEPT !.pc = "fill"].pc = "fill"
          BY <1>1 DEF Request
        <4>3. Miss(q) \in Request /\ Miss(q).pc # "insert"
          BY <1>1, MissTyped
        <4>. QED  BY <3>1, <4>1, <4>2, <4>3
      <3>2. CASE Become(r, Miss([q EXCEPT !.kept = @ \ {q.look}]))
        BY <2>1, <3>2, MissTyped
      <3>. QED  BY <1>5, <3>1, <3>2 DEF LookupRedis
    <2>3. /\ ~AtR(r, "insert") /\ UNCHANGED <<memory, redis, pool>>
          /\ failures' \in 0..MaxFailures
      BY <1>1, <1>3, <1>5 DEF LookupRedis, AtR
    <2>. QED  BY <1>1, <2>2, <2>3, OneRequest
  <1>6. CASE FillMemory(r)
    <2>1. memory' \in SUBSET Keys
      BY <1>1, <1>6 DEF FillMemory
    <2>. QED  BY <1>1, <1>6, <2>1, HitTyped, OneRequest DEF FillMemory, AtR
  <1>7. CASE Spawn(r)
    <2>1. CASE active[q.key] # None /\ ~Finished(active[q.key])
      <3>1. Become(r, Refreshed(q)) /\ UNCHANGED <<store, pool>>
        BY <1>7, <2>1 DEF Spawn, store, pool
      <3>2. ~AtR(r, "insert")
        BY <1>7 DEF Spawn, AtR
      <3>. QED  BY <1>1, <3>1, <3>2, RefreshedTyped, OneRequest DEF store
    <2>2. CASE active[q.key] = None \/ Finished(active[q.key])
      <3>1. PICK t \in Tasks :
               /\ Finished(t)
               /\ \A k \in Keys \ {q.key} : active[k] # t
               /\ Run(t, Spawned(q.key))
               /\ Become(r, [q EXCEPT !.pc = "insert", !.spawned = t])
               /\ lock' = r
        BY <1>7, <2>2 DEF Spawn
      <3>2. /\ AtR(r, "lock") /\ lock = None
            /\ UNCHANGED <<store, active, permits>>
        BY <1>7 DEF Spawn
      <3>3. FlightInv'
        BY <2>2, <3>1, <3>2, SpawnFlies DEF Inv
      <3>4. [q EXCEPT !.pc = "insert", !.spawned = t] \in Request
        BY <1>1 DEF Request, RequestPlaces
      <3>5. Typed'
        BY <1>1, <3>1, <3>2, <3>4, SpawnedTyped
        DEF Inv, Typed, Become, Run, store
      <3>6. PermitInv'
        <4>1. PermitOf(Spawned(q.key)) /\ Spawned(q.key) \in Task
          BY <1>1, SpawnedTyped DEF PermitOf
        <4>2. Spawned(q.key).permit = task[t].permit
          <5>1. task[t].permit \in BOOLEAN /\ task[t].pc = "finished"
            BY <3>1 DEF Inv, Typed, Task, Finished, AtT
          <5>2. PermitOf(task[t])
            BY DEF Inv, PermitInv
          <5>3. task[t].permit = FALSE
            BY <5>1, <5>2 DEF PermitOf
          <5>. QED  BY <1>1, <5>3, SpawnedTyped
        <4>. QED  BY <3>1, <3>2, <4>1, <4>2, PermitsKept DEF Inv
      <3>. QED  BY <3>3, <3>5, <3>6 DEF Inv
    <2>. QED  BY <2>1, <2>2
  <1>8. CASE Insert(r)
    <2>1. FlightInv'
      BY <1>8, InsertFlies DEF Inv
    <2>2. q.spawned \in Tasks
      BY <1>8 DEF Insert, Inv, FlightInv, InsertInv, Inserting
    <2>3. Typed'
      BY <1>1, <1>8, <2>2, RefreshedTyped DEF Inv, Typed, Insert, Become, store
    <2>4. PermitInv'
      BY <1>8 DEF Inv, PermitInv, Counted, Taken, Insert
    <2>. QED  BY <2>1, <2>3, <2>4 DEF Inv
  <1>9. CASE Disconnect(r)
    <2>1. ~AtR(r, "insert") /\ Become(r, Current) /\ UNCHANGED <<store, pool>>
      BY <1>9 DEF Disconnect, AtR
    <2>. QED  BY <1>1, <2>1, CurrentTyped, OneRequest DEF store
  <1>. QED  BY <1>4, <1>5, <1>6, <1>7, <1>8, <1>9 DEF Serve

LEMMA AskStep ==
    ASSUME Inv, NEW r \in Requests, NEW k \in Keys, Ask(r, k)
    PROVE  Inv'
  <1>. DEFINE q == Asking("memory", k, redis \intersect {k, Fallback[k]}, TRUE)
  <1>1. q \in Request /\ q.pc = "memory"
    <2>1. redis \intersect {k, Fallback[k]} \in SUBSET Keys
      BY DEF Inv, Typed
    <2>. QED  BY <2>1, AskingTyped DEF Asking, RequestPlaces
  <1>2. /\ ~AtR(r, "insert") /\ Become(r, q)
        /\ UNCHANGED <<memory, redis, failures, pool>>
    BY DEF Ask, AtR, store
  <1>3. /\ memory \in SUBSET Keys /\ redis \in SUBSET Keys
        /\ failures \in 0..MaxFailures
    BY DEF Inv, Typed
  <1>. QED  BY <1>1, <1>2, <1>3, OneRequest

LEMMA ExpiryStep ==
    ASSUME Inv, NEW k \in Keys, MemoryExpires(k) \/ RedisExpires(k)
    PROVE  Inv'
  <1>1. CASE MemoryExpires(k)
    <2>1. Typed'
      BY <1>1 DEF Inv, Typed, MemoryExpires, pool
    <2>. QED  BY <1>1, <2>1, StoresOnly DEF MemoryExpires
  <1>2. CASE RedisExpires(k)
    <2>1. ASSUME NEW r \in Requests
          PROVE  /\ req'[r] \in Request
                 /\ req'[r].pc = req[r].pc
                 /\ req'[r].key = req[r].key
                 /\ req'[r].spawned = req[r].spawned
      BY <1>2 DEF Inv, Typed, RedisExpires, Request
    <2>2. req' \in [Requests -> Request]
      BY <1>2, <2>1 DEF RedisExpires
    <2>3. failures' \in 0..MaxFailures
      BY <1>2, ConstantsAssumption DEF Inv, Typed, RedisExpires, Failure
    <2>4. Typed'
      BY <1>2, <2>2, <2>3 DEF Inv, Typed, RedisExpires, pool
    <2>. QED  BY <1>2, <2>1, <2>4, StoresOnly DEF RedisExpires
  <1>. QED  BY <1>1, <1>2

-----------------------------------------------------------------------------
(* A task goes on, and keeps its permit or takes one. *)
LEMMA TaskStep ==
    ASSUME Inv, NEW t \in Tasks, Execute(t)
    PROVE  Inv'
  <1>. DEFINE s == task[t]
  <1>1. /\ s \in Task /\ s.key \in Keys /\ s.permit \in BOOLEAN
        /\ PermitOf(s)
        /\ memory \in SUBSET Keys /\ redis \in SUBSET Keys
        /\ failures \in 0..MaxFailures
    BY DEF Inv, Typed, Task, PermitInv
  <1>2. Failure => failures' \in 0..MaxFailures
    BY <1>1, ConstantsAssumption DEF Failure
  <1>3. ASSUME NEW p \in {"memory", "redis", "remove"}, s.pc \notin {"finished", "permit"},
               Run(t, [s EXCEPT !.pc = p]),
               UNCHANGED <<active, lock, permits, req>>,
               memory' \in SUBSET Keys, redis' \in SUBSET Keys,
               failures' \in 0..MaxFailures
        PROVE  Inv'
    <2>. DEFINE u == [s EXCEPT !.pc = p]
    <2>1. /\ u \in Task /\ u.pc = p /\ u.key = s.key
          /\ u.permit = s.permit
      BY <1>1 DEF Task, TaskPlaces
    <2>2. PermitOf(u)
      BY <1>1, <1>3, <2>1 DEF PermitOf
    <2>3. Typed'
      BY <1>3, <2>1 DEF Inv, Typed, Run
    <2>4. PermitInv'
      BY <1>3, <2>1, <2>2, PermitsKept DEF Inv
    <2>5. FlightInv'
      BY <1>3, <2>1, WorkGoesOn DEF Inv, Finished, AtT
    <2>. QED  BY <2>3, <2>4, <2>5 DEF Inv
  <1>4. ASSUME AcquirePermit(t) PROVE Inv'
    <2>. DEFINE u == [s EXCEPT !.pc = "query", !.permit = TRUE]
    <2>1. /\ u \in Task /\ u.pc = "query" /\ u.key = s.key
          /\ u.permit = TRUE
      BY <1>1 DEF Task, TaskPlaces
    <2>2. ~s.permit /\ ~Finished(t)
      BY <1>1, <1>4 DEF AcquirePermit, AtT, PermitOf, Finished
    <2>3. permits \in Nat /\ permits > 0 /\ permits' = permits - 1
      BY <1>4 DEF AcquirePermit, Inv, Typed
    <2>4. Run(t, u) /\ UNCHANGED <<store, active, lock, req>>
      BY <1>4 DEF AcquirePermit
    <2>5. Typed'
      BY <2>1, <2>3, <2>4 DEF Inv, Typed, Run, store
    <2>6. Cardinality(Taken(task')) = Cardinality(Taken(task)) + 1
      BY <2>1, <2>2, <2>4, OneMore DEF Inv, Typed, Run
    <2>7. Cardinality(Taken(task)) \in Nat
      BY TakenFinite, FS_CardinalityType
    <2>8. Counted'
      BY <2>3, <2>6, <2>7 DEF Inv, PermitInv, Counted
    <2>9. \A w \in Tasks : PermitOf(task'[w])
      BY <2>1, <2>4 DEF Inv, Typed, Run, PermitInv, PermitOf
    <2>10. FlightInv'
      BY <2>1, <2>2, <2>4, WorkGoesOn DEF Inv
    <2>. QED  BY <2>5, <2>8, <2>9, <2>10 DEF Inv, PermitInv
  <1>5. CASE QueryOk(t)
    BY <1>1, <1>3, <1>5 DEF QueryOk, AtT, store
  <1>6. CASE QueryErr(t)
    BY <1>1, <1>2, <1>3, <1>6 DEF QueryErr, AtT
  <1>7. CASE CacheInMemory(t)
    BY <1>1, <1>3, <1>7 DEF CacheInMemory, AtT
  <1>8. CASE CacheInRedis(t)
    <2>1. redis' \in SUBSET Keys /\ failures' \in 0..MaxFailures
      BY <1>1, <1>2, <1>8 DEF CacheInRedis
    <2>. QED  BY <1>1, <1>3, <1>8, <2>1 DEF CacheInRedis, AtT
  <1>9. CASE QueryPanics(t)
    <2>1. PermitInv' /\ permits' \in Nat
      BY <1>9, PermitsReleased DEF QueryPanics, Inv
    <2>2. FlightInv'
      BY <1>9, TaskEnds DEF QueryPanics, Inv
    <2>3. Typed'
      BY <1>2, <1>9, <2>1, EndedTyped DEF Inv, Typed, QueryPanics, Run
    <2>. QED  BY <2>1, <2>2, <2>3 DEF Inv
  <1>10. CASE RemoveEntry(t)
    <2>1. PermitInv' /\ permits' \in Nat
      BY <1>10, PermitsReleased DEF RemoveEntry, Inv
    <2>2. FlightInv'
      BY <1>10, RemoveFlies DEF Inv
    <2>3. Typed'
      BY <1>1, <1>10, <2>1, EndedTyped DEF Inv, Typed, RemoveEntry, Run, store
    <2>. QED  BY <2>1, <2>2, <2>3 DEF Inv
  <1>. QED  BY <1>4, <1>5, <1>6, <1>7, <1>8, <1>9, <1>10 DEF Execute

LEMMA InvSteps == Inv /\ [Next]_vars => Inv'
  <1>. SUFFICES ASSUME Inv, [Next]_vars PROVE Inv'
    OBVIOUS
  <1>1. CASE UNCHANGED vars
    BY <1>1
    DEF vars, Inv, Typed, FlightInv, LockInv, InsertInv, Inserting, EntryInv,
        AliveInv, PermitInv, Counted, Taken, Finished, AtT, AtR
  <1>2. CASE Next
    BY <1>2, ServeStep, AskStep, TaskStep, ExpiryStep DEF Next
  <1>. QED  BY <1>1, <1>2

LEMMA InvHolds == Spec => []Inv
  <1>. QED  BY InvStarts, InvSteps, PTL DEF Spec

LEMMA WorkerTypes == Inv => TypeOK
  <1>. SUFFICES ASSUME Inv PROVE TypeOK
    OBVIOUS
  <1>1. Cardinality(Taken(task)) \in Nat
    BY TakenFinite, FS_CardinalityType
  <1>2. permits \in 0..Permits
    BY <1>1, ConstantsAssumption DEF Inv, Typed, PermitInv, Counted
  <1>. QED  BY <1>2 DEF Inv, Typed, TypeOK

LEMMA OneTaskHolds == Inv => SingleFlight
  <1>. SUFFICES ASSUME Inv,
                       NEW s \in Tasks, NEW t \in Tasks,
                       ~Finished(s), ~Finished(t), task[s].key = task[t].key
                PROVE  s = t
    BY DEF SingleFlight
  <1>. DEFINE k == task[t].key
  <1>1. k \in Keys /\ None \notin Tasks
    BY ConstantsAssumption DEF Inv, Typed, Task
  <1>2. ASSUME NEW u \in Tasks, ~Finished(u), task[u].key = k,
               NEW r \in Requests, AtR(r, "insert"), req[r].spawned = u,
               NEW v \in Tasks, ~Finished(v), active[k] = v
        PROVE  u = v
    <2>1. Inserting(req[r]) /\ req[r].key = k
      BY <1>2 DEF Inv, FlightInv, InsertInv, Inserting
    <2>. QED  BY <1>1, <1>2, <2>1 DEF Inserting
  <1>3. \A r, p \in Requests : AtR(r, "insert") /\ AtR(p, "insert") => r = p
    BY DEF Inv, FlightInv, LockInv
  <1>4. \A u \in Tasks : ~Finished(u) /\ task[u].key = k =>
           \/ active[k] = u
           \/ \E r \in Requests : AtR(r, "insert") /\ req[r].spawned = u
    BY DEF Inv, FlightInv, AliveInv
  <1>. QED  BY <1>2, <1>3, <1>4

LEMMA PermitsHold == Inv => HeavyBound
  BY DEF Inv, PermitInv, Counted, Taken, PermitOf, HeavyBound, AtT

(* The types hold in every state; the permits stay within the semaphore.   *)
THEOREM WorkerTyping == Spec => []TypeOK
  <1>. QED  BY WorkerTypes, InvHolds, PTL

(***************************************************************************)
(* Two tasks of one key are never alive at the same time, for every number *)
(* of requests and tasks.  Of two that were, each is the entry of the key  *)
(* or is being inserted; there is one entry and one holder of the lock,    *)
(* and the holder checked that the entry is not alive.                     *)
(***************************************************************************)
THEOREM OneTaskOfAKey == Spec => []SingleFlight
  <1>. QED  BY OneTaskHolds, InvHolds, PTL

(***************************************************************************)
(* The permits that are free and those the tasks hold are the semaphore's, *)
(* and a heavy query runs under one: none is lost or made up, whatever     *)
(* ends a task.                                                            *)
(***************************************************************************)
THEOREM HeavyIsBounded == Spec => []HeavyBound
  <1>. QED  BY PermitsHold, InvHolds, PTL

-----------------------------------------------------------------------------
(* What a request knows of Redis stays true, and decides its answer.       *)
LEMMA HitServed ==
    ASSUME NEW q \in Request, Served(q), q.pc # "idle"
    PROVE  Served(Hit(q)) /\ (Hit(q).pc = "idle" => ~Hit(q).wants)
  <1>1. CASE q.look = q.key
    <2>1. Hit(q) = Current
      BY <1>1 DEF Hit
    <2>. QED  BY <2>1 DEF Current, Asking, Served
  <1>2. CASE q.look # q.key
    <2>1. Hit(q) = [q EXCEPT !.pc = "lock", !.backup = TRUE]
      BY <1>2 DEF Hit
    <2>2. /\ Hit(q).pc = "lock" /\ Hit(q).backup = TRUE
          /\ Hit(q).key = q.key /\ Hit(q).look = q.look
          /\ Hit(q).kept = q.kept
      BY <2>1 DEF Request
    <2>. QED  BY <1>2, <2>2 DEF Served
  <1>. QED  BY <1>1, <1>2

LEMMA MissServed ==
    ASSUME NEW q \in Request, Served(q), q.pc # "idle", q.look \notin q.kept
    PROVE  Served(Miss(q)) /\ Miss(q).pc # "idle"
  <1>1. /\ q.key \in Keys /\ q.kept \in SUBSET Keys
        /\ None \notin Keys
    BY ConstantsAssumption DEF Request
  <1>2. CASE q.look = q.key /\ Fallback[q.key] # None
    <2>1. Miss(q) = [q EXCEPT !.pc = "memory", !.look = Fallback[q.key]]
      BY <1>2 DEF Miss
    <2>2. /\ Miss(q).pc = "memory" /\ Miss(q).look = Fallback[q.key]
          /\ Miss(q).key = q.key /\ Miss(q).kept = q.kept
      BY <2>1 DEF Request
    <2>. QED  BY <1>2, <2>2 DEF Served
  <1>3. CASE ~(q.look = q.key /\ Fallback[q.key] # None)
    <2>1. Miss(q) = [q EXCEPT !.pc = "lock"]
      BY <1>3 DEF Miss
    <2>2. /\ Miss(q).pc = "lock" /\ Miss(q).backup = q.backup
          /\ Miss(q).key = q.key /\ Miss(q).look = q.look
          /\ Miss(q).kept = q.kept
      BY <2>1 DEF Request
    <2>3. q.key \notin q.kept /\ Fallback[q.key] \notin q.kept
      BY <1>1, <1>3 DEF Served
    <2>. QED  BY <2>2, <2>3 DEF Served
  <1>. QED  BY <1>2, <1>3

(* The answer of r in this step, if there is one, is what CachedIsServed asks. *)
AnswersWell(r) ==
    Answered(r) /\ req'[r].wants
        => /\ req[r].key \notin req[r].kept
           /\ Fallback[req[r].key] \in req[r].kept => req[r].backup

(* A step of one request leaves what the others know. *)
LEMMA OneServed ==
    ASSUME Typed, ServedInv, redis' = redis, NEW r \in Requests,
           NEW q \in Request, Become(r, q), Served(q),
           \/ ~(q.pc = "idle" /\ q.wants)
           \/ req[r].pc \in {"idle", "lock", "insert"}
    PROVE  ServedInv' /\ \A p \in Requests : AnswersWell(p)
  <1>1. /\ req'[r] = q
        /\ \A p \in Requests \ {r} : req'[p] = req[p]
    BY DEF Typed, Become
  <1>2. Served(req[r])
    BY DEF ServedInv
  <1>. QED  BY <1>1, <1>2 DEF ServedInv, Served, AnswersWell, Answered

LEMMA ServeServes ==
    ASSUME Inv, ServedInv, NEW r \in Requests, Serve(r) \/ Disconnect(r)
    PROVE  ServedInv' /\ \A p \in Requests : AnswersWell(p)
  <1>. DEFINE q == req[r]
  <1>1. Typed /\ q \in Request /\ Served(q) /\ q.kept \subseteq redis
    BY DEF Inv, Typed, ServedInv, Served
  <1>2. ASSUME NEW p \in {"redis", "fill"}, q.pc \in {"memory", "redis"}
        PROVE  LET u == [q EXCEPT !.pc = p]
               IN  u \in Request /\ Served(u) /\ u.pc # "idle"
    BY <1>1, <1>2 DEF Request, RequestPlaces, Served
  <1>3. Current \in Request /\ Served(Current) /\ ~Current.wants
    BY CurrentTyped DEF Current, Asking, Served
  <1>4. Refreshed(q) \in Request /\ Served(Refreshed(q))
    BY <1>1, RefreshedTyped DEF Refreshed, Asking, Served
  <1>5. CASE LookupMemory(r)
    <2>1. q.pc = "memory" /\ redis' = redis
      BY <1>5 DEF LookupMemory, AtR, store
    <2>2. CASE Become(r, Hit(q))
      BY <1>1, <2>1, <2>2, HitTyped, HitServed, OneServed
    <2>3. CASE Become(r, [q EXCEPT !.pc = "redis"])
      BY <1>1, <1>2, <2>1, <2>3, OneServed
    <2>. QED  BY <1>5, <2>2, <2>3 DEF LookupMemory
  <1>6. CASE LookupRedis(r)
    <2>1. q.pc = "redis" /\ redis' = redis
      BY <1>6 DEF LookupRedis, AtR
    <2>2. CASE q.look \in redis /\ Become(r, [q EXCEPT !.pc = "fill"])
      BY <1>1, <1>2, <2>1, <2>2, OneServed
    <2>3. CASE q.look \notin redis /\ Become(r, Miss(q))
      <3>1. q.look \notin q.kept
        BY <1>1, <2>3
      <3>2. Miss(q) \in Request /\ Served(Miss(q)) /\ Miss(q).pc # "idle"
        BY <1>1, <2>1, <3>1, MissTyped, MissServed
      <3>. QED  BY <1>1, <2>1, <2>3, <3>2, OneServed
    <2>4. CASE Become(r, Miss([q EXCEPT !.kept = @ \ {q.look}]))
      <3>. DEFINE u == [q EXCEPT !.kept = @ \ {q.look}]
      <3>1. /\ u \in Request /\ u.pc = "redis"
            /\ u.look = q.look /\ u.key = q.key /\ u.kept = q.kept \ {q.look}
        BY <1>1, <2>1 DEF Request
      <3>2. Served(u) /\ u.look \notin u.kept
        BY <1>1, <3>1 DEF Served
      <3>3. Miss(u) \in Request /\ Served(Miss(u)) /\ Miss(u).pc # "idle"
        BY <3>1, <3>2, MissTyped, MissServed
      <3>. QED  BY <1>1, <2>1, <2>4, <3>3, OneServed
    <2>. QED  BY <1>6, <2>2, <2>3, <2>4 DEF LookupRedis
  <1>7. CASE FillMemory(r)
    <2>1. q.pc = "fill" /\ redis' = redis /\ Become(r, Hit(q))
      BY <1>7 DEF FillMemory, AtR
    <2>. QED  BY <1>1, <2>1, HitTyped, HitServed, OneServed
  <1>8. CASE Spawn(r)
    <2>1. q.pc = "lock" /\ redis' = redis
      BY <1>8 DEF Spawn, AtR, store
    <2>2. CASE Become(r, Refreshed(q))
      BY <1>1, <1>4, <2>1, <2>2, OneServed
    <2>3. ASSUME NEW t \in Tasks,
                 Become(r, [q EXCEPT !.pc = "insert", !.spawned = t])
          PROVE  ServedInv' /\ \A p \in Requests : AnswersWell(p)
      <3>. DEFINE u == [q EXCEPT !.pc = "insert", !.spawned = t]
      <3>1. /\ u \in Request /\ u.pc = "insert" /\ u.backup = q.backup
            /\ u.look = q.look /\ u.key = q.key /\ u.kept = q.kept
        BY <1>1 DEF Request, RequestPlaces
      <3>2. Served(u)
        BY <1>1, <2>1, <3>1 DEF Served
      <3>. QED  BY <1>1, <2>1, <2>3, <3>1, <3>2, OneServed
    <2>. QED  BY <1>8, <2>2, <2>3 DEF Spawn
  <1>9. CASE Insert(r)
    <2>1. q.pc = "insert" /\ redis' = redis /\ Become(r, Refreshed(q))
      BY <1>9 DEF Insert, AtR, store
    <2>. QED  BY <1>1, <1>4, <2>1, OneServed
  <1>10. CASE Disconnect(r)
    <2>1. redis' = redis /\ Become(r, Current)
      BY <1>10 DEF Disconnect, store
    <2>. QED  BY <1>1, <1>3, <2>1, OneServed
  <1>. QED  BY <1>5, <1>6, <1>7, <1>8, <1>9, <1>10 DEF Serve

LEMMA AskServes ==
    ASSUME Inv, ServedInv, NEW r \in Requests, NEW k \in Keys, Ask(r, k)
    PROVE  ServedInv' /\ \A p \in Requests : AnswersWell(p)
  <1>. DEFINE known == redis \intersect {k, Fallback[k]}
              q == Asking("memory", k, known, TRUE)
  <1>1. known \in SUBSET Keys
    BY DEF Inv, Typed
  <1>2. /\ q \in Request /\ q.pc = "memory" /\ q.look = q.key
        /\ q.kept = known
    BY <1>1, AskingTyped DEF Asking, RequestPlaces
  <1>3. Served(q)
    BY <1>2 DEF Served
  <1>4. Typed /\ redis' = redis /\ Become(r, q)
    BY DEF Inv, Ask, store
  <1>. QED  BY <1>2, <1>3, <1>4, OneServed

(* Tasks add to Redis, and requests stand still. *)
LEMMA TaskServes ==
    ASSUME Inv, ServedInv, NEW t \in Tasks, Execute(t)
    PROVE  ServedInv' /\ \A p \in Requests : AnswersWell(p)
  <1>1. req' = req /\ redis \subseteq redis'
    BY DEF Execute, AcquirePermit, QueryOk, QueryErr, QueryPanics,
           CacheInMemory, CacheInRedis, RemoveEntry, store
  <1>. QED  BY <1>1 DEF ServedInv, Served, AnswersWell, Answered

LEMMA ExpiryServes ==
    ASSUME Inv, ServedInv, NEW k \in Keys, MemoryExpires(k) \/ RedisExpires(k)
    PROVE  ServedInv' /\ \A p \in Requests : AnswersWell(p)
  <1>1. CASE MemoryExpires(k)
    <2>1. req' = req /\ redis' = redis
      BY <1>1 DEF MemoryExpires
    <2>. QED  BY <2>1 DEF ServedInv, Served, AnswersWell, Answered
  <1>2. CASE RedisExpires(k)
    <2>. SUFFICES ASSUME NEW r \in Requests
                  PROVE  Served(req[r])' /\ AnswersWell(r)
      BY DEF ServedInv
    <2>1. /\ req'[r].pc = req[r].pc /\ req'[r].key = req[r].key
          /\ req'[r].look = req[r].look /\ req'[r].backup = req[r].backup
          /\ req'[r].kept = req[r].kept \ {k}
          /\ redis' = redis \ {k}
      BY <1>2 DEF RedisExpires, Inv, Typed, Request
    <2>2. Served(req[r])
      BY DEF ServedInv
    <2>. QED  BY <2>1, <2>2 DEF Served, AnswersWell, Answered
  <1>. QED  BY <1>1, <1>2

LEMMA ServedSteps ==
    Inv /\ ServedInv /\ [Next]_vars
        => ServedInv' /\ \A p \in Requests : AnswersWell(p)
  <1>. SUFFICES ASSUME Inv, ServedInv, [Next]_vars
                PROVE  ServedInv' /\ \A p \in Requests : AnswersWell(p)
    OBVIOUS
  <1>1. CASE UNCHANGED vars
    BY <1>1 DEF vars, ServedInv, Served, AnswersWell, Answered
  <1>2. CASE Next
    BY <1>2, ServeServes, AskServes, TaskServes, ExpiryServes DEF Next
  <1>. QED  BY <1>1, <1>2

LEMMA ServedStarts == Init => ServedInv
  <1>. SUFFICES ASSUME Init PROVE ServedInv
    OBVIOUS
  <1>1. /\ Current.pc = "idle" /\ Current.kept = {}
        /\ Current.look = Current.key
    BY DEF Current, Asking
  <1>. QED  BY <1>1 DEF Init, ServedInv, Served

(***************************************************************************)
(* What Redis keeps while a request is served is used, whatever expires    *)
(* from memory and whatever other requests and tasks do meanwhile.         *)
(***************************************************************************)
THEOREM KeptIsUsed == Spec => CachedIsServed
  <1>1. Inv /\ ServedInv /\ [Next]_vars
          => [\A r \in Requests :
                Answered(r) /\ req'[r].wants
                    => /\ req[r].key \notin req[r].kept
                       /\ Fallback[req[r].key] \in req[r].kept
                             => req[r].backup]_vars
    BY ServedSteps DEF AnswersWell
  <1>. QED  BY ServedStarts, <1>1, InvHolds, ServedSteps, PTL
            DEF Spec, CachedIsServed

-----------------------------------------------------------------------------
(* A list so old was the one of the table then: what differs now changed   *)
(* since.                                                                  *)
Told(body, age, listed, h) ==
    \A i \in Announced : (i \in body) # (i \in listed) => h[i] <= age

RedisGood(c, k, listed, h) ==
    /\ c.age + c.left <= Ttl[k] + MaxDelay
    /\ c.left >= 1
    /\ Told(c.body, c.age, listed, h)

MemoryGood(c, k, listed, h) ==
    /\ c.age + c.left <= Ttl[k] - 1 + MemoryTtl + 2 * MaxDelay
    /\ c.left >= 1
    /\ Told(c.body, c.age, listed, h)

ReadGood(s, listed, h) ==
    /\ s.waited <= MaxDelay
    /\ s.pc \in {"keep", "store"} => s.age <= s.waited
    /\ s.pc = "fill" => s.age <= Ttl[s.key] - 1 + MaxDelay + s.waited
    /\ s.pc = "done" =>
         s.age <= Ttl[s.key] - 1 + MemoryTtl - 1 + 2 * MaxDelay + s.waited
    /\ s.pc \in {"fill", "keep", "store", "done"}
         => Told(s.body, s.age, listed, h)

CopiesGood(redis_, memory_, listed, h) ==
    \A k \in CacheKeys :
       /\ redis_[k] # Absent => RedisGood(redis_[k], k, listed, h)
       /\ memory_[k] # Absent => MemoryGood(memory_[k], k, listed, h)

ReadsGood(read_, listed, h) ==
    \A r \in Readers : ReadGood(read_[r], listed, h)

(* How old each copy may be, and what it may say: inductive.               *)
NewsInv ==
    /\ NewsTypeOK
    /\ CopiesGood(far, near, Active(announce), held)
    /\ ReadsGood(read, Active(announce), held)

-----------------------------------------------------------------------------
LEMMA Numbers ==
    /\ \A k \in CacheKeys : Ttl[k] \in Nat \ {0}
    /\ MemoryTtl \in Nat \ {0}
    /\ MaxDelay \in Nat
  BY CacheAssumption

LEMMA NoReadGood ==
    /\ NoRead \in Read
    /\ NoRead.pc = "idle" /\ NoRead.waited = 0 /\ NoRead.age = 0
  <1>1. (CHOOSE k \in CacheKeys : TRUE) \in CacheKeys
    BY CacheAssumption
  <1>2. (CHOOSE b \in Bodies : TRUE) \in Bodies
    BY CacheAssumption
  <1>. QED  BY <1>1, <1>2 DEF NoRead, Read, ReadPlaces

LEMMA NoEditTyped == NoEdit \in Edit
  <1>1. (CHOOSE i \in Announced : TRUE) \in Announced
    BY AnnouncementAssumption
  <1>. QED  BY <1>1, AnnouncementAssumption DEF NoEdit, Edit, Row, Date

(* The WHERE of the listing and the admins' filter agree. *)
LEMMA ListedActive ==
    \A rows : Listed(rows) \in Bodies /\ Listed(rows) = Active(rows)
  BY AnnouncementAssumption DEF Listed, Active

LEMMA NewsStarts == NewsInit => NewsInv
  <1>. SUFFICES ASSUME NewsInit PROVE NewsInv
    OBVIOUS
  <1>1. NewsTypeOK
    BY NoReadGood, NoEditTyped DEF NewsInit, CacheInit, NewsTypeOK, CacheTypeOK
  <1>2. CopiesGood(far, near, Active(announce), held)
    BY DEF NewsInit, CacheInit, CopiesGood
  <1>3. ReadsGood(read, Active(announce), held)
    BY NoReadGood, Numbers DEF NewsInit, CacheInit, ReadsGood, ReadGood
  <1>. QED  BY <1>1, <1>2, <1>3 DEF NewsInv

-----------------------------------------------------------------------------
(* The table changes, no time passes: what has changed since starts again. *)
LEMMA ToldOn ==
    ASSUME held \in [Announced -> Nat], Held(0),
           NEW body, NEW age \in Nat,
           Told(body, age, Active(announce), held)
    PROVE  Told(body, age, Active(announce'), held')
  <1>. SUFFICES ASSUME NEW i \in Announced,
                       (i \in body) # (i \in Active(announce'))
                PROVE  held'[i] <= age
    BY DEF Told
  <1>1. CASE (i \in Active(announce)) # (i \in Active(announce'))
    BY <1>1 DEF Held
  <1>2. CASE (i \in Active(announce)) = (i \in Active(announce'))
    <2>1. held[i] <= age /\ held[i] \in Nat
      BY <1>2 DEF Told
    <2>2. held'[i] = held[i]
      BY <1>2, <2>1 DEF Held
    <2>. QED  BY <2>1, <2>2
  <1>. QED  BY <1>1, <1>2

(* A tick passes: what was told is older by one.                           *)
LEMMA ToldLater ==
    ASSUME held \in [Announced -> Nat], Held(1),
           NEW body, NEW age \in Nat,
           Told(body, age, Active(announce), held)
    PROVE  Told(body, age + 1, Active(announce'), held')
  <1>. SUFFICES ASSUME NEW i \in Announced,
                       (i \in body) # (i \in Active(announce'))
                PROVE  held'[i] <= age + 1
    BY DEF Told
  <1>1. CASE (i \in Active(announce)) # (i \in Active(announce'))
    BY <1>1 DEF Held
  <1>2. CASE (i \in Active(announce)) = (i \in Active(announce'))
    <2>1. held[i] <= age /\ held[i] \in Nat
      BY <1>2 DEF Told
    <2>2. held'[i] \in {held[i], held[i] + 1}
      BY <1>2, <2>1 DEF Held
    <2>. QED  BY <2>1, <2>2
  <1>. QED  BY <1>1, <1>2

(* What was told a tick ago is as old as its copy, whether the table has   *)
(* changed since or is none of the group that is used.                     *)
ToldGoesOn ==
    \A body : \A age \in Nat :
        Told(body, age, Active(announce), held)
            => Told(body, age + 1, Active(announce'), held')

LEMMA ToldHeld ==
    ASSUME held \in [Announced -> Nat], Held(1)
    PROVE  ToldGoesOn
  BY ToldLater DEF ToldGoesOn

LEMMA ToldStays ==
    ASSUME held \in [Announced -> Nat], UNCHANGED <<announce, held>>
    PROVE  ToldGoesOn
  <1>. SUFFICES ASSUME NEW body, NEW age \in Nat,
                       Told(body, age, Active(announce), held)
                PROVE  Told(body, age + 1, Active(announce'), held')
    BY DEF ToldGoesOn
  <1>1. \A i \in Announced : held[i] \in Nat
    OBVIOUS
  <1>2. Active(announce') = Active(announce)
    BY DEF Active, Stored
  <1>. QED  BY <1>1, <1>2 DEF Told

LEMMA HeldTyped ==
    ASSUME held \in [Announced -> Nat], NEW n \in {0, 1}, Held(n)
    PROVE  held' \in [Announced -> Nat]
  BY DEF Held

(* An admin's step leaves the cache alone. *)
LEMMA TableStep ==
    ASSUME NewsInv, Held(0), UNCHANGED cacheVars
    PROVE  /\ CopiesGood(far, near, Active(announce), held)'
           /\ ReadsGood(read, Active(announce), held)'
  <1>. USE DEF NewsInv, NewsTypeOK, CacheTypeOK, cacheVars
  <1>1. ASSUME NEW k \in CacheKeys, far'[k] # Absent
        PROVE  RedisGood(far'[k], k, Active(announce'), held')
    <2>1. far[k] \in Copy /\ RedisGood(far[k], k, Active(announce), held)
      BY <1>1 DEF CopiesGood
    <2>2. far[k].age \in Nat
      BY <2>1 DEF Copy
    <2>. QED  BY <2>1, <2>2, ToldOn DEF RedisGood
  <1>2. ASSUME NEW k \in CacheKeys, near'[k] # Absent
        PROVE  MemoryGood(near'[k], k, Active(announce'), held')
    <2>1. near[k] \in Copy /\ MemoryGood(near[k], k, Active(announce), held)
      BY <1>2 DEF CopiesGood
    <2>2. near[k].age \in Nat
      BY <2>1 DEF Copy
    <2>. QED  BY <2>1, <2>2, ToldOn DEF MemoryGood
  <1>3. ASSUME NEW r \in Readers
        PROVE  ReadGood(read'[r], Active(announce'), held')
    <2>1. read[r] \in Read /\ ReadGood(read[r], Active(announce), held)
      BY DEF ReadsGood
    <2>2. read[r].age \in Nat
      BY <2>1 DEF Read
    <2>. QED  BY <2>1, <2>2, ToldOn DEF ReadGood
  <1>4. CopiesGood(far', near', Active(announce'), held')
    BY <1>1, <1>2 DEF CopiesGood
  <1>5. ReadsGood(read', Active(announce'), held')
    BY <1>3 DEF ReadsGood
  <1>. QED  BY <1>4, <1>5

-----------------------------------------------------------------------------
(* A step of one call: what it leaves in its place is good if that one is. *)
LEMMA OneRead ==
    ASSUME NewsInv, NEW r \in Readers, NEW s \in Read, Reads(r, s),
           ReadGood(s, Active(announce), held)
    PROVE  /\ read' \in [Readers -> Read]
           /\ ReadsGood(read', Active(announce), held)
  BY DEF NewsInv, NewsTypeOK, CacheTypeOK, Reads, ReadsGood

LEMMA AskKeeps ==
    ASSUME NewsInv, NEW r \in Readers, NEW k \in CacheKeys, AskCache(r, k)
    PROVE  /\ CacheTypeOK'
           /\ CopiesGood(far', near', Active(announce), held)
           /\ ReadsGood(read', Active(announce), held)
  <1>. USE DEF NewsInv, NewsTypeOK, CacheTypeOK
  <1>. DEFINE s == [NoRead EXCEPT !.pc = "redis", !.key = k]
              t == [s EXCEPT !.pc = "done", !.body = near[k].body,
                             !.age = near[k].age]
  <1>1. s \in Read /\ ReadGood(s, Active(announce), held)
    <2>1. s \in Read /\ s.pc = "redis" /\ s.waited = 0
      BY NoReadGood DEF Read, ReadPlaces
    <2>. HIDE DEF s
    <2>. QED  BY <2>1, Numbers DEF ReadGood
  <1>2. ASSUME Has(near, k)
        PROVE  t \in Read /\ ReadGood(t, Active(announce), held)
    <2>1. near[k] \in Copy /\ MemoryGood(near[k], k, Active(announce), held)
      BY <1>2 DEF Has, CopiesGood
    <2>2. /\ near[k].age \in Nat /\ near[k].left \in Nat
          /\ near[k].body \in Bodies
      BY <2>1 DEF Copy
    <2>3. /\ t.pc = "done" /\ t.key = k /\ t.waited = 0
          /\ t.body = near[k].body /\ t.age = near[k].age
          /\ t \in Read
      BY <1>1, <2>2, NoReadGood DEF Read, ReadPlaces
    <2>4. t.age <= Ttl[k] - 1 + MemoryTtl - 1 + 2 * MaxDelay + t.waited
      BY <2>1, <2>2, <2>3, Numbers DEF MemoryGood
    <2>. QED  BY <2>1, <2>3, <2>4, Numbers DEF ReadGood, MemoryGood
  <1>3. Reads(r, IF Has(near, k) THEN t ELSE s)
    BY DEF AskCache
  <1>4. /\ read' \in [Readers -> Read]
        /\ ReadsGood(read', Active(announce), held)
    BY <1>1, <1>2, <1>3, OneRead
  <1>. QED  BY <1>4 DEF AskCache

LEMMA LookKeeps ==
    ASSUME NewsInv, NEW r \in Readers, LookInRedis(r)
    PROVE  /\ CacheTypeOK'
           /\ CopiesGood(far', near', Active(announce), held)
           /\ ReadsGood(read', Active(announce), held)
  <1>. USE DEF NewsInv, NewsTypeOK, CacheTypeOK
  <1>. DEFINE k == read[r].key
              s == [read[r] EXCEPT !.pc = "fill", !.body = far[k].body,
                                   !.age = far[k].age]
              t == [read[r] EXCEPT !.pc = "call"]
  <1>1. read[r] \in Read /\ ReadGood(read[r], Active(announce), held)
    BY DEF ReadsGood
  <1>2. k \in CacheKeys /\ read[r].waited \in Nat
    BY <1>1 DEF Read
  <1>3. t \in Read /\ ReadGood(t, Active(announce), held)
    BY <1>1 DEF Read, ReadPlaces, ReadGood
  <1>4. ASSUME Has(far, k)
        PROVE  s \in Read /\ ReadGood(s, Active(announce), held)
    <2>1. far[k] \in Copy /\ RedisGood(far[k], k, Active(announce), held)
      BY <1>2, <1>4 DEF Has, CopiesGood
    <2>2. /\ far[k].age \in Nat /\ far[k].left \in Nat
          /\ far[k].body \in Bodies
      BY <2>1 DEF Copy
    <2>3. /\ s.pc = "fill" /\ s.key = k /\ s.waited = read[r].waited
          /\ s.body = far[k].body /\ s.age = far[k].age
          /\ s \in Read
      BY <1>1, <2>2 DEF Read, ReadPlaces
    <2>4. s.age <= Ttl[k] - 1 + MaxDelay + s.waited
      BY <1>2, <2>1, <2>2, <2>3, Numbers DEF RedisGood
    <2>. QED  BY <1>1, <2>1, <2>3, <2>4 DEF ReadGood, RedisGood
  <1>5. \/ Has(far, k) /\ Reads(r, s)
        \/ Reads(r, t)
    BY DEF LookInRedis
  <1>6. /\ read' \in [Readers -> Read]
        /\ ReadsGood(read', Active(announce), held)
    BY <1>3, <1>4, <1>5, OneRead
  <1>. QED  BY <1>6 DEF LookInRedis

(* What a call writes into memory or Redis is as old as the call says. *)
LEMMA KeepKeeps ==
    ASSUME NewsInv, NEW r \in Readers, Keep(r)
    PROVE  /\ CacheTypeOK'
           /\ CopiesGood(far', near', Active(announce), held)
           /\ ReadsGood(read', Active(announce), held)
  <1>. USE DEF NewsInv, NewsTypeOK, CacheTypeOK
  <1>. DEFINE k == read[r].key
              c == CopyOf(r, MemoryTtl)
              s == [read[r] EXCEPT
                      !.pc = IF read[r].pc = "fill" THEN "done" ELSE "store"]
  <1>1. /\ read[r] \in Read /\ ReadGood(read[r], Active(announce), held)
        /\ read[r].pc \in {"fill", "keep"}
    BY DEF ReadsGood, Keep
  <1>2. /\ k \in CacheKeys /\ read[r].waited \in Nat /\ read[r].age \in Nat
        /\ read[r].body \in Bodies
    BY <1>1 DEF Read
  <1>3. /\ read[r].age <= Ttl[k] - 1 + MaxDelay + read[r].waited
        /\ read[r].waited <= MaxDelay
    BY <1>1, <1>2, Numbers DEF ReadGood
  <1>4. s \in Read /\ ReadGood(s, Active(announce), held)
    BY <1>1, <1>2, <1>3, Numbers DEF Read, ReadPlaces, ReadGood
  <1>5. c \in Copy /\ MemoryGood(c, k, Active(announce), held)
    <2>1. /\ c.age = read[r].age /\ c.left = MemoryTtl
          /\ c.body = read[r].body /\ c \in Copy
      BY <1>2, Numbers DEF CopyOf, Copy
    <2>. QED  BY <1>1, <1>2, <1>3, <2>1, Numbers DEF MemoryGood, ReadGood
  <1>6. /\ read' \in [Readers -> Read]
        /\ ReadsGood(read', Active(announce), held)
    BY <1>4, OneRead DEF Keep
  <1>7. /\ near' = [near EXCEPT ![k] = c]
        /\ far' = far
    BY DEF Keep
  <1>8. near' \in [CacheKeys -> Copy \union {Absent}]
    BY <1>5, <1>7
  <1>9. CopiesGood(far', near', Active(announce), held)
    BY <1>5, <1>7 DEF CopiesGood
  <1>. QED  BY <1>6, <1>7, <1>8, <1>9

LEMMA StoreKeeps ==
    ASSUME NewsInv, NEW r \in Readers, Store(r)
    PROVE  /\ CacheTypeOK'
           /\ CopiesGood(far', near', Active(announce), held)
           /\ ReadsGood(read', Active(announce), held)
  <1>. USE DEF NewsInv, NewsTypeOK, CacheTypeOK
  <1>. DEFINE k == read[r].key
              c == CopyOf(r, Ttl[k])
              s == [read[r] EXCEPT !.pc = "done"]
  <1>1. /\ read[r] \in Read /\ ReadGood(read[r], Active(announce), held)
        /\ read[r].pc = "store"
    BY DEF ReadsGood, Store
  <1>2. /\ k \in CacheKeys /\ read[r].waited \in Nat /\ read[r].age \in Nat
        /\ read[r].body \in Bodies
    BY <1>1 DEF Read
  <1>3. read[r].age <= read[r].waited /\ read[r].waited <= MaxDelay
    BY <1>1 DEF ReadGood
  <1>4. s \in Read /\ ReadGood(s, Active(announce), held)
    <2>1. /\ s.pc = "done" /\ s.key = k /\ s.waited = read[r].waited
          /\ s.body = read[r].body /\ s.age = read[r].age
          /\ s \in Read
      BY <1>1 DEF Read, ReadPlaces
    <2>2. /\ Ttl[k] \in Nat \ {0} /\ MemoryTtl \in Nat \ {0}
          /\ MaxDelay \in Nat
          /\ s.age \in Nat /\ s.waited \in Nat /\ s.age <= s.waited
      BY <1>2, <1>3, <2>1, Numbers
    <2>. HIDE DEF s, k, NewsInv
    <2>3. s.age <= Ttl[k] - 1 + MemoryTtl - 1 + 2 * MaxDelay + s.waited
      BY <2>2
    <2>. QED  BY <1>1, <2>1, <2>3 DEF ReadGood
  <1>5. c \in Copy /\ RedisGood(c, k, Active(announce), held)
    <2>1. /\ c.age = read[r].age /\ c.left = Ttl[k]
          /\ c.body = read[r].body /\ c \in Copy
      BY <1>2, Numbers DEF CopyOf, Copy
    <2>. QED  BY <1>1, <1>2, <1>3, <2>1, Numbers DEF RedisGood, ReadGood
  <1>6. /\ read' \in [Readers -> Read]
        /\ ReadsGood(read', Active(announce), held)
    BY <1>4, OneRead DEF Store
  <1>7. /\ far' = [far EXCEPT ![k] = c] \/ far' = far
        /\ near' = near
    BY DEF Store
  <1>8. far' \in [CacheKeys -> Copy \union {Absent}]
    BY <1>5, <1>7
  <1>9. CopiesGood(far', near', Active(announce), held)
    BY <1>5, <1>7 DEF CopiesGood
  <1>. QED  BY <1>6, <1>7, <1>8, <1>9

(* The query returns what the database has. *)
LEMMA ReturnKeeps ==
    ASSUME NewsInv, NEW r \in Readers, NEW body \in Bodies,
           Told(body, 0, Active(announce), held), CallReturns(r, body)
    PROVE  /\ CacheTypeOK'
           /\ CopiesGood(far', near', Active(announce), held)
           /\ ReadsGood(read', Active(announce), held)
  <1>. USE DEF NewsInv, NewsTypeOK, CacheTypeOK
  <1>. DEFINE s == [read[r] EXCEPT !.pc = "keep", !.body = body,
                                   !.age = 0, !.isNew = TRUE]
  <1>1. read[r] \in Read /\ ReadGood(read[r], Active(announce), held)
    BY DEF ReadsGood
  <1>2. s \in Read
    BY <1>1 DEF Read, ReadPlaces
  <1>3. /\ s.pc = "keep" /\ s.age = 0 /\ s.body = body
        /\ s.waited = read[r].waited /\ s.waited \in Nat
    BY <1>1 DEF Read
  <1>4. ReadGood(s, Active(announce), held)
    BY <1>1, <1>3 DEF ReadGood
  <1>5. /\ read' \in [Readers -> Read]
        /\ ReadsGood(read', Active(announce), held)
    BY <1>2, <1>4, OneRead DEF CallReturns
  <1>. QED  BY <1>5 DEF CallReturns

(* A call that fails or is given up. *)
LEMMA GoneKeeps ==
    ASSUME NewsInv, NEW r \in Readers, Leave(r) \/ CallFails(r)
    PROVE  /\ CacheTypeOK'
           /\ CopiesGood(far', near', Active(announce), held)
           /\ ReadsGood(read', Active(announce), held)
  <1>. USE DEF NewsInv, NewsTypeOK, CacheTypeOK
  <1>1. ReadGood(NoRead, Active(announce), held)
    BY NoReadGood, Numbers DEF ReadGood
  <1>2. Reads(r, NoRead) /\ UNCHANGED <<near, far>>
    BY DEF Leave, CallFails
  <1>3. /\ read' \in [Readers -> Read]
        /\ ReadsGood(read', Active(announce), held)
    BY <1>1, <1>2, NoReadGood, OneRead
  <1>. QED  BY <1>2, <1>3

LEMMA EvictKeeps ==
    ASSUME NewsInv, NEW k \in CacheKeys, Evict(k)
    PROVE  /\ CacheTypeOK'
           /\ CopiesGood(far', near', Active(announce), held)
           /\ ReadsGood(read', Active(announce), held)
  <1>. USE DEF NewsInv, NewsTypeOK, CacheTypeOK, Evict
  <1>1. near' \in [CacheKeys -> Copy \union {Absent}]
    OBVIOUS
  <1>2. CopiesGood(far', near', Active(announce), held)
    BY DEF CopiesGood
  <1>. QED  BY <1>1, <1>2

LEMMA OlderCopy ==
    ASSUME NEW c \in Copy, c.left >= 2
    PROVE  /\ Older(c) \in Copy
           /\ Older(c).age = c.age + 1 /\ Older(c).left = c.left - 1
           /\ Older(c).body = c.body
           /\ c.age \in Nat /\ c.left \in Nat
  <1>1. c.age \in Nat /\ c.left \in Nat /\ c.left - 1 \in Nat
    BY DEF Copy
  <1>. QED  BY <1>1 DEF Older, Copy

LEMMA OlderRead ==
    ASSUME NEW s \in Read
    PROVE  LET t == [s EXCEPT !.age = @ + 1, !.waited = @ + 1] IN
           /\ t \in Read
           /\ t.pc = s.pc /\ t.key = s.key /\ t.body = s.body
           /\ t.age = s.age + 1 /\ t.waited = s.waited + 1
  <1>1. s.age + 1 \in Nat /\ s.waited + 1 \in Nat
    BY DEF Read
  <1>. QED  BY <1>1 DEF Read

(* A tick: copies that stay are older by one and are kept one less. *)
LEMMA TickKeeps ==
    ASSUME NewsInv, CacheTick, ToldGoesOn
    PROVE  /\ CacheTypeOK'
           /\ CopiesGood(far, near, Active(announce), held)'
           /\ ReadsGood(read, Active(announce), held)'
  <1>. USE DEF NewsInv, NewsTypeOK, CacheTypeOK
  <1>1. ASSUME NEW k \in CacheKeys, NEW c \in Copy, c.left >= 2,
               NEW d, d = Older(c),
               Told(c.body, c.age, Active(announce), held)
        PROVE  /\ d \in Copy /\ d.left >= 1
               /\ d.age + d.left = c.age + c.left
               /\ Told(d.body, d.age, Active(announce'), held')
    <2>1. /\ d.age = c.age + 1 /\ d.left = c.left - 1 /\ d.body = c.body
          /\ d \in Copy /\ c.age \in Nat /\ c.left \in Nat
      BY <1>1, OlderCopy
    <2>. QED  BY <1>1, <2>1 DEF ToldGoesOn
  <1>2. ASSUME NEW k \in CacheKeys
        PROVE  /\ far'[k] \in Copy \union {Absent}
               /\ far'[k] # Absent
                    => RedisGood(far'[k], k, Active(announce'), held')
    <2>1. CASE far[k] = Absent \/ far[k].left <= 1
      BY <2>1 DEF CacheTick, Aged
    <2>2. CASE ~(far[k] = Absent \/ far[k].left <= 1)
      <3>1. /\ far[k] \in Copy /\ far[k].left \in Nat
            /\ RedisGood(far[k], k, Active(announce), held)
        BY <2>2 DEF CopiesGood, Copy
      <3>2. far'[k] = Older(far[k])
        BY <2>2 DEF CacheTick, Aged
      <3>3. far[k].left >= 2 /\ Told(far[k].body, far[k].age,
                                       Active(announce), held)
        BY <2>2, <3>1 DEF RedisGood
      <3>4. /\ far'[k] \in Copy /\ far'[k].left >= 1
            /\ far'[k].age + far'[k].left = far[k].age + far[k].left
            /\ Told(far'[k].body, far'[k].age, Active(announce'), held')
        BY <1>1, <3>1, <3>2, <3>3
      <3>. QED  BY <3>1, <3>4 DEF RedisGood
    <2>. QED  BY <2>1, <2>2
  <1>3. ASSUME NEW k \in CacheKeys
        PROVE  /\ near'[k] \in Copy \union {Absent}
               /\ near'[k] # Absent
                    => MemoryGood(near'[k], k, Active(announce'), held')
    <2>1. CASE near[k] = Absent \/ near[k].left <= 1
      BY <2>1 DEF CacheTick, Aged
    <2>2. CASE ~(near[k] = Absent \/ near[k].left <= 1)
      <3>1. /\ near[k] \in Copy /\ near[k].left \in Nat
            /\ MemoryGood(near[k], k, Active(announce), held)
        BY <2>2 DEF CopiesGood, Copy
      <3>2. near'[k] = Older(near[k])
        BY <2>2 DEF CacheTick, Aged
      <3>3. near[k].left >= 2 /\ Told(near[k].body, near[k].age,
                                        Active(announce), held)
        BY <2>2, <3>1 DEF MemoryGood
      <3>4. /\ near'[k] \in Copy /\ near'[k].left >= 1
            /\ near'[k].age + near'[k].left = near[k].age + near[k].left
            /\ Told(near'[k].body, near'[k].age, Active(announce'), held')
        BY <1>1, <3>1, <3>2, <3>3
      <3>. QED  BY <3>1, <3>4 DEF MemoryGood
    <2>. QED  BY <2>1, <2>2
  <1>4. ASSUME NEW r \in Readers
        PROVE  /\ read'[r] \in Read
               /\ ReadGood(read'[r], Active(announce'), held')
    <2>. DEFINE s == read[r]
                t == read'[r]
    <2>. SUFFICES t \in Read /\ ReadGood(t, Active(announce'), held')
      OBVIOUS
    <2>1. /\ s \in Read /\ ReadGood(s, Active(announce), held)
          /\ s.age \in Nat /\ s.waited \in Nat /\ s.key \in CacheKeys
      BY DEF ReadsGood, Read
    <2>2. CASE s.pc = "idle"
      <3>1. t = s
        BY <2>2 DEF CacheTick, InFlight
      <3>. HIDE DEF s, t, NewsInv
      <3>. QED  BY <2>1, <2>2, <3>1 DEF ReadGood
    <2>3. CASE s.pc # "idle"
      <3>1. t = [s EXCEPT !.age = @ + 1, !.waited = @ + 1]
        BY <2>3 DEF CacheTick, InFlight
      <3>2. s.waited < MaxDelay
        BY <2>3 DEF CacheTick, InFlight
      <3>3. /\ t \in Read /\ t.pc = s.pc /\ t.key = s.key /\ t.body = s.body
            /\ t.age = s.age + 1 /\ t.waited = s.waited + 1
        BY <2>1, <3>1, OlderRead
      <3>4. s.pc \in {"fill", "keep", "store", "done"}
              => Told(t.body, t.age, Active(announce'), held')
        BY <2>1, <3>3 DEF ReadGood, ToldGoesOn
      <3>5. Ttl[s.key] \in Nat /\ MemoryTtl \in Nat /\ MaxDelay \in Nat
        BY <2>1, Numbers
      <3>. HIDE DEF s, t, NewsInv
      <3>6. /\ t.waited <= MaxDelay
            /\ t.pc \in {"keep", "store"} => t.age <= t.waited
        BY <2>1, <3>2, <3>3, <3>5 DEF ReadGood
      <3>7. t.pc = "fill" => t.age <= Ttl[t.key] - 1 + MaxDelay + t.waited
        BY <2>1, <3>3, <3>5 DEF ReadGood
      <3>8. t.pc = "done" => t.age <= Ttl[t.key] - 1 + MemoryTtl - 1
                                        + 2 * MaxDelay + t.waited
        BY <2>1, <3>3, <3>5 DEF ReadGood
      <3>. QED  BY <3>3, <3>4, <3>6, <3>7, <3>8 DEF ReadGood
    <2>. QED  BY <2>2, <2>3
  <1>5. /\ far' \in [CacheKeys -> Copy \union {Absent}]
        /\ near' \in [CacheKeys -> Copy \union {Absent}]
    BY <1>2, <1>3 DEF CacheTick, Aged
  <1>6. read' \in [Readers -> Read]
    BY <1>4 DEF CacheTick
  <1>7. CopiesGood(far', near', Active(announce'), held')
    BY <1>2, <1>3 DEF CopiesGood
  <1>8. ReadsGood(read', Active(announce'), held')
    BY <1>4 DEF ReadsGood
  <1>. QED  BY <1>5, <1>6, <1>7, <1>8

-----------------------------------------------------------------------------
(* The table and the edits keep their types. *)
LEMMA SentTyped ==
    ASSUME NEW sent \in Row, NEW old \in Row
    PROVE  /\ [sent EXCEPT !.expires_at = old.expires_at] \in Row
           /\ Later(sent) \in Row
  <1>1. ASSUME NEW d \in Date \union {Absent}
        PROVE  /\ Sooner(d) \in Date \union {Absent}
               /\ d \in Date => Sooner(d) \in Date
    BY AnnouncementAssumption DEF Sooner, Date
  <1>2. /\ sent.published_at \in Date /\ sent.expires_at \in Date \union {Absent}
        /\ old.expires_at \in Date \union {Absent}
    BY DEF Row
  <1>3. /\ Sooner(sent.published_at) \in Date
        /\ Sooner(sent.expires_at) \in Date \union {Absent}
    BY <1>1, <1>2
  <1>. QED  BY <1>2, <1>3 DEF Row, Later

LEMMA AdminKeeps ==
    ASSUME NewsInv,
           \/ \E i \in Announced : Delete(i) \/ \E sent \in Sent : Create(i, sent)
           \/ \E a \in Admins :
                 \/ Update(a) \/ UpdateFails(a)
                 \/ \E i \in Announced, sent \in Sent : FetchCurrent(a, i, sent)
    PROVE  NewsInv'
  <1>. USE DEF NewsInv, NewsTypeOK
  <1>. DEFINE Kept ==
         /\ announce' \in [Announced -> Row \union {Absent, Deleted}]
         /\ edit' \in [Admins -> Edit]
         /\ Held(0) \/ UNCHANGED <<announce, held>>
         /\ UNCHANGED cacheVars
  <1>0. Sent \subseteq Row
    BY SentAssumption
  <1>1. Kept
    <2>1. ASSUME NEW i \in Announced, Delete(i) PROVE Kept
      BY <2>1 DEF Delete, Stores
    <2>2. ASSUME NEW i \in Announced, NEW sent \in Sent, Create(i, sent)
          PROVE  Kept
      BY <1>0, <2>2 DEF Create, Stores
    <2>3. ASSUME NEW a \in Admins, Update(a) PROVE Kept
      <3>1. edit[a] \in Edit
        OBVIOUS
      <3>2. edit[a].next \in Row
        BY <3>1 DEF Edit
      <3>. QED  BY <2>3, <3>2, NoEditTyped DEF Update, Stores
    <2>4. ASSUME NEW a \in Admins, UpdateFails(a) PROVE Kept
      BY <2>4, NoEditTyped DEF UpdateFails
    <2>5. ASSUME NEW a \in Admins, NEW i \in Announced, NEW sent \in Sent,
                 FetchCurrent(a, i, sent)
          PROVE  Kept
      <3>1. announce[i] \in Row
        BY <2>5 DEF FetchCurrent, Stored
      <3>2. Merged(i, sent) \in Row
        BY <1>0, <3>1, SentTyped DEF Merged
      <3>3. [pc |-> "update", id |-> i, next |-> Merged(i, sent)] \in Edit
        BY <3>2 DEF Edit
      <3>. QED  BY <2>5, <3>3 DEF FetchCurrent
    <2>. QED  BY <2>1, <2>2, <2>3, <2>4, <2>5
  <1>2. held' \in [Announced -> Nat]
    BY <1>1, HeldTyped
  <1>3. CacheTypeOK'
    BY <1>1 DEF CacheTypeOK, cacheVars
  <1>4. /\ CopiesGood(far, near, Active(announce), held)'
        /\ ReadsGood(read, Active(announce), held)'
    <2>1. CASE Held(0)
      BY <1>1, <2>1, TableStep
    <2>2. CASE UNCHANGED <<announce, held>>
      <3>1. UNCHANGED Active(announce)
        BY <2>2 DEF Active, Stored
      <3>. QED  BY <1>1, <2>2, <3>1 DEF cacheVars, CopiesGood, ReadsGood
    <2>. QED  BY <1>1, <2>1, <2>2
  <1>. QED  BY <1>1, <1>2, <1>3, <1>4

LEMMA TickedTable ==
    ASSUME NewsInv, Tick
    PROVE  NewsInv'
  <1>. USE DEF NewsInv, NewsTypeOK
  <1>1. announce' \in [Announced -> Row \union {Absent, Deleted}]
    <2>1. ASSUME NEW i \in Announced, Stored(announce, i)
          PROVE  Later(announce[i]) \in Row
      BY <2>1, SentTyped DEF Stored
    <2>. QED  BY <2>1 DEF Tick
  <1>2. edit' \in [Admins -> Edit]
    <2>1. ASSUME NEW a \in Admins
          PROVE  [edit[a] EXCEPT !.next = Later(@)] \in Edit
      <3>1. edit[a] \in Edit /\ edit[a].next \in Row
        BY DEF Edit
      <3>2. Later(edit[a].next) \in Row
        BY <3>1, SentTyped
      <3>. QED  BY <3>1, <3>2 DEF Edit
    <2>. QED  BY <2>1 DEF Tick
  <1>3. CacheTick /\ Held(1)
    BY DEF Tick
  <1>4. held' \in [Announced -> Nat]
    BY <1>3, HeldTyped
  <1>5. ToldGoesOn
    BY <1>3, ToldHeld
  <1>. QED  BY <1>1, <1>2, <1>3, <1>4, <1>5, TickKeeps

LEMMA ListingKeeps ==
    ASSUME NewsInv,
           \/ \E r \in Guests : Listing(r)
           \/ Forget
    PROVE  NewsInv'
  <1>1. UNCHANGED announceVars
    BY DEF Listing, Forget
  <1>2. UNCHANGED <<announce, edit, held>> /\ UNCHANGED Active(announce)
    BY <1>1 DEF announceVars, Active, Stored
  <1>3. Guests \subseteq Readers /\ "announced" \in CacheKeys
    BY AnnouncementAssumption
  <1>4. /\ Listed(announce) \in Bodies
        /\ Told(Listed(announce), 0, Active(announce), held)
    BY ListedActive DEF Told
  <1>5. /\ CacheTypeOK'
        /\ CopiesGood(far', near', Active(announce), held)
        /\ ReadsGood(read', Active(announce), held)
    BY <1>3, <1>4, AskKeeps, LookKeeps, KeepKeeps, StoreKeeps, GoneKeeps,
       ReturnKeeps, EvictKeeps DEF Listing, Forget
  <1>. QED  BY <1>2, <1>5 DEF NewsInv, NewsTypeOK

(* Every step keeps how old the copies may be and what they say. *)
LEMMA NewsSteps == NewsInv /\ [NewsNext]_newsVars => NewsInv'
  <1>. SUFFICES ASSUME NewsInv, [NewsNext]_newsVars PROVE NewsInv'
    OBVIOUS
  <1>1. CASE UNCHANGED newsVars
    <2>1. /\ UNCHANGED <<announce, edit, held, near, far, read>>
          /\ UNCHANGED Active(announce)
      BY <1>1 DEF newsVars, cacheVars, announceVars, Active, Stored
    <2>. QED  BY <2>1 DEF NewsInv, NewsTypeOK, CacheTypeOK, CopiesGood, ReadsGood
  <1>2. CASE NewsNext
    BY <1>2, ListingKeeps, AdminKeeps, TickedTable DEF NewsNext
  <1>. QED  BY <1>1, <1>2

LEMMA NewsHolds == NewsInv => AnswersFresh /\ ListFresh
  <1>. SUFFICES ASSUME NewsInv, NEW r \in Readers, read[r].pc = "done"
                PROVE  /\ read[r].age <= MaxAge(read[r].key)
                       /\ \A i \in Announced :
                             (i \in read[r].body) # (i \in Active(announce))
                                => held[i] <= MaxAge(read[r].key)
    BY DEF AnswersFresh, ListFresh
  <1>1. /\ read[r] \in Read /\ ReadGood(read[r], Active(announce), held)
        /\ held \in [Announced -> Nat]
    BY DEF NewsInv, NewsTypeOK, CacheTypeOK, ReadsGood
  <1>2. /\ read[r].key \in CacheKeys
        /\ read[r].age \in Nat /\ read[r].waited \in Nat
    BY <1>1 DEF Read
  <1>3. /\ Ttl[read[r].key] \in Nat /\ MemoryTtl \in Nat /\ MaxDelay \in Nat
        /\ MaxAge(read[r].key) \in Int
    BY <1>2, Numbers DEF MaxAge
  <1>4. read[r].age <= MaxAge(read[r].key)
    BY <1>1, <1>2, <1>3 DEF ReadGood, MaxAge
  <1>5. Told(read[r].body, read[r].age, Active(announce), held)
    BY <1>1 DEF ReadGood
  <1>6. ASSUME NEW i \in Announced,
               (i \in read[r].body) # (i \in Active(announce))
        PROVE  held[i] <= MaxAge(read[r].key)
    <2>1. held[i] <= read[r].age /\ held[i] \in Nat
      BY <1>1, <1>5, <1>6 DEF Told
    <2>. QED  BY <1>2, <1>3, <1>4, <2>1
  <1>. QED  BY <1>4, <1>6

-----------------------------------------------------------------------------
(* The types of the table, of the edits under way and of the cache         *)
(* (cached_response and the admin endpoints), for every instance.          *)
THEOREM NewsTyping == NewsSpec => []NewsTypeOK
  <1>1. NewsInv => NewsTypeOK
    BY DEF NewsInv
  <1>. QED  BY NewsStarts, NewsSteps, <1>1, PTL DEF NewsSpec

(* Whatever fails and however calls overlap, cached_response answers with  *)
(* nothing older than both TTLs and three calls, and what visitors see of  *)
(* the announcements (get_annouce) is never further behind the table.      *)
THEOREM NewsStaysInStep == NewsSpec => []NewsInStep
  <1>1. NewsInv => NewsInStep
    BY NewsHolds DEF NewsInStep
  <1>. QED  BY NewsStarts, NewsSteps, <1>1, PTL DEF NewsSpec
-----------------------------------------------------------------------------
(* The pictures.  A request has asked every provider before the one whose  *)
(* turn it is, retries no more than it was told to, and has the whole url  *)
(* of a provider: nothing is kept under the prefix that is looked up.      *)
SeekGood(s, l, a) ==
    /\ s.attempt <= MaxRetries + l
    /\ \A n \in Providers : n < s.next => n \in a
    /\ s.pc \in {"keep", "done"} => s.answer \in Picture /\ s.answer.whole
    /\ s.pc = "none" => a = Providers

PictureInv ==
    /\ PictureTypeOK
    /\ \A p \in Players : kept[ReadPrefix][p] = NoPicture
    /\ \A r \in Seekers : SeekGood(request[r], limited[r], asked[r])

LEMMA ProviderNumbers ==
    /\ Scrapers \in Nat /\ MaxLimited \in Nat /\ MaxRetries = 7
    /\ Official = Scrapers + 1
    /\ \A n : n \in Providers <=> n \in Nat /\ 1 <= n /\ n <= Official
  BY PictureAssumption DEF Official, Providers, MaxRetries

LEMMA IdleSeeking ==
    /\ Idle \in Seeking
    /\ Idle.pc = "idle" /\ Idle.next = 1 /\ Idle.attempt = 0
  <1>1. (CHOOSE p \in Players : TRUE) \in Players
    BY PictureAssumption
  <1>2. 1 \in Providers /\ 0 \in 0..(MaxRetries + MaxLimited)
    BY ProviderNumbers
  <1>. QED  BY <1>1, <1>2 DEF Idle, Seeking, Places

LEMMA PicturesStart == PictureInit => PictureInv
  <1>. SUFFICES ASSUME PictureInit PROVE PictureInv
    OBVIOUS
  <1>1. PictureTypeOK
    BY IdleSeeking, ProviderNumbers DEF PictureInit, PictureTypeOK, Prefixes
  <1>2. \A p \in Players : kept[ReadPrefix][p] = NoPicture
    BY DEF PictureInit, Prefixes, ReadPrefix
  <1>3. \A r \in Seekers : SeekGood(request[r], limited[r], asked[r])
    BY IdleSeeking, ProviderNumbers DEF PictureInit, SeekGood
  <1>. QED  BY <1>1, <1>2, <1>3 DEF PictureInv

(* A request goes on: what it has become is good, the others are as good   *)
(* as they were.                                                           *)
LEMMA OneSeeks ==
    ASSUME PictureInv, NEW r \in Seekers, NEW s \in Seeking, Goes(r, s),
           NEW l \in 0..MaxLimited, limited' = [limited EXCEPT ![r] = l],
           NEW a \in SUBSET Providers, asked' = [asked EXCEPT ![r] = a],
           SeekGood(s, l, a), UNCHANGED kept
    PROVE  PictureInv'
  <1>. USE DEF PictureInv, PictureTypeOK
  <1>1. /\ request' \in [Seekers -> Seeking]
        /\ limited' \in [Seekers -> 0..MaxLimited]
        /\ asked' \in [Seekers -> SUBSET Providers]
    BY DEF Goes
  <1>2. \A q \in Seekers : SeekGood(request'[q], limited'[q], asked'[q])
    BY DEF Goes
  <1>. QED  BY <1>1, <1>2

LEMMA SeekTyped ==
    ASSUME PictureInv, NEW r \in Seekers
    PROVE  /\ request[r] \in Seeking
           /\ SeekGood(request[r], limited[r], asked[r])
           /\ request[r].next \in Providers /\ request[r].next \in Nat
           /\ request[r].attempt \in Nat
           /\ limited[r] \in 0..MaxLimited /\ limited[r] \in Nat
           /\ asked[r] \in SUBSET Providers
           /\ limited = [limited EXCEPT ![r] = limited[r]]
           /\ asked = [asked EXCEPT ![r] = asked[r]]
  BY ProviderNumbers DEF PictureInv, PictureTypeOK, Seeking

(* What a provider that has no picture leaves, and an API that is to be    *)
(* asked again.                                                            *)
LEMMA FailsOn ==
    ASSUME NEW s \in Seeking, NEW l \in Nat, NEW a \in SUBSET Providers,
           SeekGood(s, l, a)
    PROVE  /\ Fails(s) \in Seeking
           /\ SeekGood(Fails(s), l, a \union {s.next})
  <1>. DEFINE t == Fails(s)
              b == a \union {s.next}
  <1>1. /\ s.next \in Providers /\ s.next \in Nat /\ s.attempt \in Nat
        /\ Official \in Nat /\ MaxRetries \in Nat
    BY ProviderNumbers DEF Seeking
  <1>2. CASE s.next = Official
    <2>1. /\ t \in Seeking /\ t.pc = "none" /\ t.next = s.next
          /\ t.attempt = s.attempt
      BY <1>2 DEF Fails, Seeking, Places
    <2>2. b = Providers
      <3>1. \A n \in Providers : n < s.next \/ n = s.next
        BY <1>1, <1>2, ProviderNumbers
      <3>. QED  BY <1>1, <3>1 DEF SeekGood
    <2>. HIDE DEF t, b
    <2>. QED  BY <2>1, <2>2 DEF SeekGood, t, b
  <1>3. CASE s.next # Official
    <2>1. s.next + 1 \in Providers
      BY <1>1, <1>3, ProviderNumbers
    <2>2. /\ t \in Seeking /\ t.pc = "ask" /\ t.next = s.next + 1
          /\ t.attempt = s.attempt
      BY <1>3, <2>1 DEF Fails, Seeking, Places
    <2>3. \A n \in Providers : n < t.next => n \in b
      <3>1. \A n \in Providers : n < s.next + 1 => n < s.next \/ n = s.next
        BY <1>1, ProviderNumbers
      <3>. QED  BY <2>2, <3>1 DEF SeekGood
    <2>. HIDE DEF t, b
    <2>. QED  BY <2>2, <2>3 DEF SeekGood, t, b
  <1>. QED  BY <1>2, <1>3

LEMMA RetriesOn ==
    ASSUME NEW s \in Seeking, NEW l \in 0..MaxLimited,
           NEW a \in SUBSET Providers,
           SeekGood(s, l, a), s.attempt + 1 <= MaxRetries + l
    PROVE  /\ Retries(s) \in Seeking
           /\ SeekGood(Retries(s), l, a \union {s.next})
  <1>. DEFINE t == Retries(s)
              b == a \union {s.next}
  <1>1. s.attempt \in Nat /\ s.attempt + 1 \in 0..(MaxRetries + MaxLimited)
    BY ProviderNumbers DEF Seeking
  <1>2. /\ t \in Seeking /\ t.pc = "wait" /\ t.next = s.next
        /\ t.attempt = s.attempt + 1
    BY <1>1 DEF Retries, Seeking, Places
  <1>. HIDE DEF t
  <1>. QED  BY <1>2 DEF SeekGood, t

(* What is written under one prefix is not found under the other. *)
LEMMA KeptElsewhere ==
    ASSUME PictureInv, NEW q \in Players, NEW x \in Picture \union {NoPicture},
           \/ kept' = [kept EXCEPT ![WritePrefix][q] = x]
           \/ kept' = kept
    PROVE  /\ kept' \in [Prefixes -> [Players -> Picture \union {NoPicture}]]
           /\ \A p \in Players : kept'[ReadPrefix][p] = NoPicture
  <1>1. /\ ReadPrefix \in Prefixes /\ WritePrefix \in Prefixes
        /\ ReadPrefix # WritePrefix
    BY DEF ReadPrefix, WritePrefix, Prefixes
  <1>2. /\ kept \in [Prefixes -> [Players -> Picture \union {NoPicture}]]
        /\ \A p \in Players : kept[ReadPrefix][p] = NoPicture
    BY DEF PictureInv, PictureTypeOK
  <1>3. CASE kept' = [kept EXCEPT ![WritePrefix][q] = x]
    <2>1. PICK row : row = [kept[WritePrefix] EXCEPT ![q] = x]
      OBVIOUS
    <2>2. row \in [Players -> Picture \union {NoPicture}]
      BY <1>1, <1>2, <2>1
    <2>3. kept' = [kept EXCEPT ![WritePrefix] = row]
      BY <1>3, <2>1
    <2>. QED  BY <1>1, <1>2, <2>2, <2>3
  <1>. QED  BY <1>2, <1>3

LEMMA PictureSteps == PictureInv /\ [PictureNext]_pictureVars => PictureInv'
  <1>. SUFFICES ASSUME PictureInv, [PictureNext]_pictureVars PROVE PictureInv'
    OBVIOUS
  <1>. USE DEF Turn
  <1>1. ASSUME NEW r \in Seekers, NEW p \in Players, Seeks(r, p)
        PROVE  PictureInv'
    <2>. DEFINE s == [Idle EXCEPT !.pc = "cache", !.player = p]
    <2>1. s \in Seeking /\ s.pc = "cache" /\ s.next = 1 /\ s.attempt = 0
      BY IdleSeeking DEF Seeking, Places
    <2>2. Goes(r, s) /\ UNCHANGED kept
          /\ limited' = [limited EXCEPT ![r] = 0]
          /\ asked' = [asked EXCEPT ![r] = {}]
      BY <1>1 DEF Seeks
    <2>. HIDE DEF s
    <2>3. SeekGood(s, 0, {})
      BY <2>1, ProviderNumbers DEF SeekGood
    <2>4. 0 \in 0..MaxLimited
      BY ProviderNumbers
    <2>. QED  BY <2>1, <2>2, <2>3, <2>4, OneSeeks
  <1>2. ASSUME NEW r \in Seekers, LooksInCache(r) PROVE PictureInv'
    <2>. DEFINE s == [request[r] EXCEPT !.pc = "ask"]
    <2>1. request[r].player \in Players
      BY SeekTyped DEF Seeking
    <2>2. kept[ReadPrefix][request[r].player] = NoPicture
      BY <2>1 DEF PictureInv
    <2>3. Goes(r, s) /\ UNCHANGED <<kept, limited, asked>>
      BY <1>2, <2>2 DEF LooksInCache
    <2>4. /\ s \in Seeking /\ s.pc = "ask" /\ s.next = request[r].next
          /\ s.attempt = request[r].attempt
      BY SeekTyped DEF Seeking, Places
    <2>. HIDE DEF s
    <2>5. SeekGood(s, limited[r], asked[r])
      BY <2>4, SeekTyped DEF SeekGood
    <2>6. /\ limited' = [limited EXCEPT ![r] = limited[r]]
          /\ asked' = [asked EXCEPT ![r] = asked[r]]
      BY <2>3, SeekTyped
    <2>. QED  BY <2>3, <2>4, <2>5, <2>6, SeekTyped, OneSeeks
  <1>3. ASSUME NEW r \in Seekers, HasPicture(r) PROVE PictureInv'
    <2>. DEFINE x == [by |-> request[r].next, whole |-> TRUE]
                s == [request[r] EXCEPT !.pc = "keep", !.answer = x]
                a == asked[r] \union {request[r].next}
    <2>1. x \in Picture /\ x.whole
      BY SeekTyped DEF Picture
    <2>2. /\ Goes(r, s) /\ UNCHANGED <<kept, limited>>
          /\ asked' = [asked EXCEPT ![r] = a]
      BY <1>3 DEF HasPicture
    <2>. HIDE DEF x
    <2>3. /\ s \in Seeking /\ s.pc = "keep" /\ s.next = request[r].next
          /\ s.attempt = request[r].attempt /\ s.answer = x
      BY <2>1, SeekTyped DEF Seeking, Places
    <2>. HIDE DEF s
    <2>4. SeekGood(s, limited[r], a) /\ a \in SUBSET Providers
      BY <2>1, <2>3, SeekTyped DEF SeekGood
    <2>5. limited' = [limited EXCEPT ![r] = limited[r]]
      BY <2>2, SeekTyped
    <2>. HIDE DEF a
    <2>. QED  BY <2>2, <2>3, <2>4, <2>5, SeekTyped, OneSeeks
  <1>4. ASSUME NEW r \in Seekers, HasNone(r) PROVE PictureInv'
    <2>. DEFINE a == asked[r] \union {request[r].next}
    <2>1. /\ Goes(r, Fails(request[r])) /\ UNCHANGED <<kept, limited>>
          /\ asked' = [asked EXCEPT ![r] = a]
      BY <1>4 DEF HasNone
    <2>2. /\ Fails(request[r]) \in Seeking
          /\ SeekGood(Fails(request[r]), limited[r], a)
          /\ a \in SUBSET Providers
      BY SeekTyped, FailsOn
    <2>3. limited' = [limited EXCEPT ![r] = limited[r]]
      BY <2>1, SeekTyped
    <2>. HIDE DEF a
    <2>. QED  BY <2>1, <2>2, <2>3, SeekTyped, OneSeeks
  <1>5. ASSUME NEW r \in Seekers, Unreachable(r) PROVE PictureInv'
    <2>. DEFINE a == asked[r] \union {request[r].next}
    <2>1. /\ UNCHANGED <<kept, limited>>
          /\ asked' = [asked EXCEPT ![r] = a]
          /\ limited' = [limited EXCEPT ![r] = limited[r]]
          /\ a \in SUBSET Providers
      BY <1>5, SeekTyped DEF Unreachable
    <2>2. CASE request[r].attempt + 1 > MaxRetries
      <3>1. Goes(r, Fails(request[r]))
        BY <1>5, <2>2 DEF Unreachable
      <3>2. /\ Fails(request[r]) \in Seeking
            /\ SeekGood(Fails(request[r]), limited[r], a)
        BY SeekTyped, FailsOn
      <3>. HIDE DEF a
      <3>. QED  BY <2>1, <3>1, <3>2, SeekTyped, OneSeeks
    <2>3. CASE ~(request[r].attempt + 1 > MaxRetries)
      <3>1. Goes(r, Retries(request[r]))
        BY <1>5, <2>3 DEF Unreachable
      <3>2. request[r].attempt + 1 <= MaxRetries + limited[r]
        BY <2>3, SeekTyped, ProviderNumbers
      <3>3. /\ Retries(request[r]) \in Seeking
            /\ SeekGood(Retries(request[r]), limited[r], a)
        BY <3>2, SeekTyped, RetriesOn
      <3>. HIDE DEF a
      <3>. QED  BY <2>1, <3>1, <3>3, SeekTyped, OneSeeks
    <2>. QED  BY <2>2, <2>3
  <1>6. ASSUME NEW r \in Seekers, TooMany(r) PROVE PictureInv'
    <2>. DEFINE a == asked[r] \union {request[r].next}
                l == limited[r] + 1
    <2>1. /\ Goes(r, Retries(request[r])) /\ UNCHANGED kept
          /\ asked' = [asked EXCEPT ![r] = a]
          /\ limited' = [limited EXCEPT ![r] = l]
      BY <1>6 DEF TooMany
    <2>2. /\ l \in 0..MaxLimited /\ a \in SUBSET Providers
          /\ SeekGood(request[r], l, asked[r])
          /\ request[r].attempt + 1 <= MaxRetries + l
      BY <1>6, SeekTyped, ProviderNumbers DEF TooMany, SeekGood
    <2>. HIDE DEF l
    <2>3. /\ Retries(request[r]) \in Seeking
          /\ SeekGood(Retries(request[r]), l, a)
      BY <2>2, SeekTyped, RetriesOn
    <2>. HIDE DEF a
    <2>. QED  BY <2>1, <2>2, <2>3, OneSeeks
  <1>7. ASSUME NEW r \in Seekers, WaitEnds(r) PROVE PictureInv'
    <2>. DEFINE s == [request[r] EXCEPT !.pc = "ask"]
    <2>1. Goes(r, s) /\ UNCHANGED <<kept, limited, asked>>
      BY <1>7 DEF WaitEnds
    <2>2. /\ s \in Seeking /\ s.pc = "ask" /\ s.next = request[r].next
          /\ s.attempt = request[r].attempt
      BY SeekTyped DEF Seeking, Places
    <2>. HIDE DEF s
    <2>3. SeekGood(s, limited[r], asked[r])
      BY <2>2, SeekTyped DEF SeekGood
    <2>4. /\ limited' = [limited EXCEPT ![r] = limited[r]]
          /\ asked' = [asked EXCEPT ![r] = asked[r]]
      BY <2>1, SeekTyped
    <2>. QED  BY <2>1, <2>2, <2>3, <2>4, SeekTyped, OneSeeks
  <1>8. ASSUME NEW r \in Seekers, Keeps(r) PROVE PictureInv'
    <2>. DEFINE s == [request[r] EXCEPT !.pc = "done"]
    <2>1. /\ Goes(r, s) /\ UNCHANGED <<limited, asked>>
          /\ request[r].pc = "keep"
      BY <1>8 DEF Keeps
    <2>2. /\ s \in Seeking /\ s.pc = "done" /\ s.next = request[r].next
          /\ s.attempt = request[r].attempt /\ s.answer = request[r].answer
      BY SeekTyped DEF Seeking, Places
    <2>. HIDE DEF s
    <2>3. SeekGood(s, limited[r], asked[r])
      BY <2>1, <2>2, SeekTyped DEF SeekGood
    <2>4. /\ kept' \in [Prefixes -> [Players -> Picture \union {NoPicture}]]
          /\ \A p \in Players : kept'[ReadPrefix][p] = NoPicture
      <3>1. /\ request[r].answer \in Picture
            /\ request[r].player \in Players
        BY <2>1, SeekTyped DEF SeekGood, Seeking
      <3>. QED  BY <1>8, <3>1, KeptElsewhere DEF Keeps
    <2>5. /\ request' \in [Seekers -> Seeking]
          /\ \A q \in Seekers : SeekGood(request'[q], limited[q], asked[q])
      BY <2>1, <2>2, <2>3 DEF Goes, PictureInv, PictureTypeOK
    <2>6. limited' = limited /\ asked' = asked
      BY <2>1
    <2>. QED  BY <2>4, <2>5, <2>6 DEF PictureInv, PictureTypeOK
  <1>9. ASSUME NEW r \in Seekers, Leaves(r) PROVE PictureInv'
    <2>1. Goes(r, Idle) /\ UNCHANGED <<kept, limited, asked>>
      BY <1>9 DEF Leaves
    <2>2. SeekGood(Idle, limited[r], asked[r])
      BY IdleSeeking, SeekTyped, ProviderNumbers DEF SeekGood
    <2>3. /\ limited' = [limited EXCEPT ![r] = limited[r]]
          /\ asked' = [asked EXCEPT ![r] = asked[r]]
      BY <2>1, SeekTyped
    <2>. QED  BY <2>1, <2>2, <2>3, IdleSeeking, SeekTyped, OneSeeks
  <1>10. ASSUME NEW p \in Players, Expires(p) PROVE PictureInv'
    <2>1. /\ kept' \in [Prefixes -> [Players -> Picture \union {NoPicture}]]
          /\ \A q \in Players : kept'[ReadPrefix][q] = NoPicture
      BY <1>10, KeptElsewhere DEF Expires
    <2>2. UNCHANGED <<request, limited, asked>>
      BY <1>10 DEF Expires
    <2>. QED  BY <2>1, <2>2 DEF PictureInv, PictureTypeOK
  <1>11. CASE UNCHANGED pictureVars
    BY <1>11 DEF pictureVars, PictureInv, PictureTypeOK
  <1>12. CASE PictureNext
    BY <1>1, <1>2, <1>3, <1>4, <1>5, <1>6, <1>7, <1>8, <1>9, <1>10, <1>12
       DEF PictureNext, PictureStep
  <1>. QED  BY <1>11, <1>12

LEMMA PicturesHold == PictureInv => PicturesInStep
  BY DEF PictureInv, SeekGood, PicturesInStep, PicturesAreWhole,
         NoneOnlyAfterAll

-----------------------------------------------------------------------------
(* The listener and the pass.  Who is on the way to a copy: a visitor or a *)
(* task of the listener to the session's, the one pass there is to the     *)
(* mark's.                                                                 *)
OneReads(r, s, refreshing, passing) ==
    s.pc # "idle" =>
       \/ r \in Passes /\ s.key = "mark" /\ passing.pc = "mark"
       \/ /\ r \in Visitors \union Warmers /\ s.key = "session"
          /\ r \in Warmers => refreshing[r].pc = "calls"

FreshOnly(s) ==
    /\ s.isNew => s.pc \in {"keep", "store", "done"}
    /\ s.pc \in {"keep", "store"} => s.isNew

WhoReads ==
    /\ \A r \in Readers : OneReads(r, read[r], refresh, pass)
                          /\ FreshOnly(read[r])
    /\ \A p, q \in Passes : InFlight(p) /\ InFlight(q) => p = q

(* No copy is kept for longer than its TTL. *)
KeptInTime ==
    \A k \in CacheKeys :
        /\ Has(far, k) => far[k].left <= Ttl[k]
        /\ Has(near, k) => near[k].left <= MemoryTtl

(* A task nobody has disturbed is the only one to read the session's key:  *)
(* what was cached before it was spawned is gone when it wakes, and what   *)
(* is cached since says what it was spawned for.                           *)
SessionSays(copies, f) ==
    Has(copies, "session") =>
       /\ f.pc = "sleep" => copies["session"].left <= f.left
       /\ f.pc = "calls" => f.session \in copies["session"].body

ReadSays(s, f) ==
    f.pc = "calls" /\ s.pc \in {"fill", "keep", "store", "done"}
        => f.session \in s.body

Undisturbed(t) ==
    /\ \A r \in Readers : r # t /\ InFlight(r) => read[r].key # "session"
    /\ SessionSays(far, refresh[t]) /\ SessionSays(near, refresh[t])
    /\ ReadSays(read[t], refresh[t])

SpawnedFor(f, e) ==
    /\ f.pc # "idle" /\ f.event = "leave" => f.session \in 1..e
    /\ f.pc = "calls" => f.event = "leave"

RefreshGood(t) ==
    /\ SpawnedFor(refresh[t], ended)
    /\ refresh[t].pc # "idle" /\ t \in quiet => Undisturbed(t)

(* A mark in Redis is as young as the pass that wrote it. *)
MarkLasts(copies, n) == Has(copies, "mark") /\ copies["mark"].left >= Day - n

(* Who finds no mark that is a day from its end begins a pass.             *)
Looked(s) ==
    s.pc \in {"call", "keep", "store"} \/ (s.pc = "done" /\ s.isNew)

PassGood(s, since, copies) ==
    /\ Looked(s) => since >= Day - MaxDelay
    /\ s.pc = "done" /\ s.isNew
         => s.waited >= Day \/ MarkLasts(copies, s.waited)

(* A pass that has begun left a mark for a day. *)
MarkIsKept ==
    /\ starts.gap >= Day - MaxDelay
    /\ \/ starts.since >= Day - MaxDelay
       \/ MarkLasts(far, MaxDelay + starts.since)
    /\ \A p \in Passes : PassGood(read[p], starts.since, far)

(* All maps were updated since a mark was written. *)
Updated(h, age) == h.cut \/ h.complete <= age

(* Unless its pass is under way, whoever finds a mark may skip.            *)
MarkIsTrue ==
    /\ \/ pass.pc \in {"list", "work"}
       \/ \E p \in Passes : read[p].isNew
       \/ /\ Has(far, "mark") => Updated(starts, far["mark"].age)
          /\ Has(near, "mark") => Updated(starts, near["mark"].age)
    /\ \A p \in Passes :
         read[p].pc \in {"fill", "done"} /\ ~read[p].isNew
           => Updated(starts, read[p].age)
    /\ ~starts.missed

Starts == [since : 0..Day, gap : 0..Day, complete : 0..(Day + 1),
           cut : BOOLEAN, unmarked : BOOLEAN, missed : BOOLEAN]

UpdaterTyped == /\ ended \in 0..MaxSessions
                /\ listener \in {"waiting", "listening", "deaf"}
                /\ attempt \in 0..MaxAttempts
                /\ refresh \in [Warmers -> Refresh] /\ quiet \subseteq Warmers
                /\ pass \in Pass /\ starts \in Starts

(* What the promises of the listener and the pass need to be inductive,    *)
(* besides NewsInv: that copies and calls are no older than they may be.   *)
UpdaterInv ==
    /\ UpdaterTyped /\ WhoReads /\ KeptInTime
    /\ \A t \in Warmers : RefreshGood(t)
    /\ starts.unmarked \/ MarkIsKept
    /\ MarkIsTrue

LEMMA UpdaterNumbers ==
    /\ "session" \in CacheKeys /\ "mark" \in CacheKeys
    /\ Day = Ttl["mark"] /\ Day \in Nat \ {0}
    /\ Ttl["session"] \in Nat /\ Delay \in Nat
    /\ Ttl["session"] <= Delay /\ MemoryTtl <= Delay
    /\ MaxDelay \in Nat /\ MemoryTtl \in Nat \ {0}
    /\ MaxSessions \in Nat /\ MaxAttempts \in Nat
    /\ Endpoints \in Nat \ {0}
    /\ Visitors \subseteq Readers /\ Warmers \subseteq Readers
    /\ Passes \subseteq Readers
    /\ \A r \in Visitors : r \notin Warmers /\ r \notin Passes
    /\ \A r \in Warmers : r \notin Passes
  BY UpdaterAssumption, CacheAssumption

(* What each step of a call does to it; the other calls stay.              *)
Alone(r) == \A q \in Readers : q # r => read'[q] = read[q]

LEMMA AskFacts ==
    ASSUME NewsInv, NEW r \in Readers, NEW k \in CacheKeys, AskCache(r, k)
    PROVE  /\ near' = near /\ far' = far /\ Alone(r)
           /\ read[r].pc = "idle"
           /\ read'[r].key = k /\ read'[r].isNew = FALSE
           /\ read'[r].pc \in {"redis", "done"}
           /\ read'[r].pc = "done" => /\ Has(near, k)
                                      /\ read'[r].body = near[k].body
                                      /\ read'[r].age = near[k].age
  <1>. DEFINE s == [NoRead EXCEPT !.pc = "redis", !.key = k]
              t == [s EXCEPT !.pc = "done", !.body = near[k].body,
                             !.age = near[k].age]
  <1>1. s.pc = "redis" /\ s.key = k /\ s.isNew = FALSE
    BY DEF NoRead
  <1>2. /\ t.pc = "done" /\ t.key = k /\ t.isNew = FALSE
        /\ t.body = near[k].body /\ t.age = near[k].age
    BY DEF NoRead
  <1>3. /\ read[r].pc = "idle" /\ near' = near /\ far' = far
        /\ read' = [read EXCEPT ![r] = IF Has(near, k) THEN t ELSE s]
    BY DEF AskCache, Reads
  <1>. HIDE DEF s, t
  <1>4. read \in [Readers -> Read]
    BY DEF NewsInv, NewsTypeOK, CacheTypeOK
  <1>5. read'[r] = (IF Has(near, k) THEN t ELSE s) /\ Alone(r)
    BY <1>3, <1>4 DEF Alone
  <1>. QED  BY <1>1, <1>2, <1>3, <1>5

LEMMA LookFacts ==
    ASSUME NewsInv, NEW r \in Readers, LookInRedis(r)
    PROVE  LET k == read[r].key IN
           /\ near' = near /\ far' = far /\ Alone(r)
           /\ read[r].pc = "redis"
           /\ read'[r].key = k /\ read'[r].isNew = read[r].isNew
           /\ read'[r].pc \in {"fill", "call"}
           /\ read'[r].pc = "fill" => /\ Has(far, k)
                                      /\ read'[r].body = far[k].body
                                      /\ read'[r].age = far[k].age
  <1>. DEFINE k == read[r].key
              s == [read[r] EXCEPT !.pc = "fill", !.body = far[k].body,
                                   !.age = far[k].age]
              t == [read[r] EXCEPT !.pc = "call"]
  <1>1. read \in [Readers -> Read] /\ read[r] \in Read
    BY DEF NewsInv, NewsTypeOK, CacheTypeOK
  <1>2. /\ s.pc = "fill" /\ s.key = k /\ s.isNew = read[r].isNew
        /\ s.body = far[k].body /\ s.age = far[k].age
        /\ t.pc = "call" /\ t.key = k /\ t.isNew = read[r].isNew
    BY <1>1 DEF Read
  <1>3. /\ read[r].pc = "redis" /\ near' = near /\ far' = far
        /\ \/ Has(far, k) /\ read' = [read EXCEPT ![r] = s]
           \/ read' = [read EXCEPT ![r] = t]
    BY DEF LookInRedis, Reads
  <1>. HIDE DEF s, t
  <1>4. /\ Alone(r)
        /\ \/ Has(far, k) /\ read'[r] = s
           \/ read'[r] = t
    BY <1>1, <1>3 DEF Alone
  <1>. QED  BY <1>2, <1>3, <1>4

LEMMA KeepFacts ==
    ASSUME NewsInv, NEW r \in Readers, Keep(r)
    PROVE  LET k == read[r].key IN
           /\ far' = far /\ Alone(r)
           /\ \A l \in CacheKeys : l # k => near'[l] = near[l]
           /\ Has(near', k)
           /\ near'[k].body = read[r].body /\ near'[k].age = read[r].age
           /\ near'[k].left = MemoryTtl
           /\ read[r].pc \in {"fill", "keep"}
           /\ read'[r].pc = IF read[r].pc = "fill" THEN "done" ELSE "store"
           /\ read'[r].key = k /\ read'[r].isNew = read[r].isNew
           /\ read'[r].body = read[r].body /\ read'[r].age = read[r].age
           /\ read'[r].waited = read[r].waited
  <1>. DEFINE k == read[r].key
              c == CopyOf(r, MemoryTtl)
              s == [read[r] EXCEPT
                      !.pc = IF read[r].pc = "fill" THEN "done" ELSE "store"]
  <1>1. /\ read \in [Readers -> Read] /\ read[r] \in Read
        /\ near \in [CacheKeys -> Copy \union {Absent}]
    BY DEF NewsInv, NewsTypeOK, CacheTypeOK
  <1>2. k \in CacheKeys
    BY <1>1 DEF Read
  <1>3. /\ s.pc = IF read[r].pc = "fill" THEN "done" ELSE "store"
        /\ s.key = k /\ s.isNew = read[r].isNew /\ s.body = read[r].body
        /\ s.age = read[r].age /\ s.waited = read[r].waited
    BY <1>1 DEF Read
  <1>4. /\ c.body = read[r].body /\ c.age = read[r].age
        /\ c.left = MemoryTtl /\ c \in Copy
    BY <1>1, Numbers DEF CopyOf, Copy, Read
  <1>5. /\ read[r].pc \in {"fill", "keep"} /\ far' = far
        /\ near' = [near EXCEPT ![k] = c]
        /\ read' = [read EXCEPT ![r] = s]
    BY DEF Keep, Reads
  <1>6. c # Absent
    BY <1>4, AbsentAssumption
  <1>. HIDE DEF s, c
  <1>7. /\ Alone(r) /\ read'[r] = s /\ near'[k] = c
        /\ \A l \in CacheKeys : l # k => near'[l] = near[l]
    BY <1>1, <1>2, <1>5 DEF Alone
  <1>. QED  BY <1>3, <1>4, <1>5, <1>6, <1>7 DEF Has

LEMMA StoreFacts ==
    ASSUME NewsInv, NEW r \in Readers, Store(r)
    PROVE  LET k == read[r].key IN
           /\ near' = near /\ Alone(r)
           /\ \/ far' = far
              \/ /\ \A l \in CacheKeys : l # k => far'[l] = far[l]
                 /\ Has(far', k) /\ far'[k] = CopyOf(r, Ttl[k])
           /\ CopyOf(r, Ttl[k]).body = read[r].body
           /\ CopyOf(r, Ttl[k]).age = read[r].age
           /\ CopyOf(r, Ttl[k]).left = Ttl[k]
           /\ CopyOf(r, Ttl[k]) # Absent
           /\ read[r].pc = "store" /\ read'[r].pc = "done"
           /\ read'[r].key = k /\ read'[r].isNew = read[r].isNew
           /\ read'[r].body = read[r].body /\ read'[r].age = read[r].age
           /\ read'[r].waited = read[r].waited
  <1>. DEFINE k == read[r].key
              c == CopyOf(r, Ttl[k])
              s == [read[r] EXCEPT !.pc = "done"]
  <1>1. /\ read \in [Readers -> Read] /\ read[r] \in Read
        /\ far \in [CacheKeys -> Copy \union {Absent}]
    BY DEF NewsInv, NewsTypeOK, CacheTypeOK
  <1>2. k \in CacheKeys /\ Ttl[k] \in Nat
    BY <1>1, Numbers DEF Read
  <1>3. /\ s.pc = "done"
        /\ s.key = k /\ s.isNew = read[r].isNew /\ s.body = read[r].body
        /\ s.age = read[r].age /\ s.waited = read[r].waited
    BY <1>1 DEF Read
  <1>4. /\ c.body = read[r].body /\ c.age = read[r].age
        /\ c.left = Ttl[k] /\ c \in Copy
    BY <1>1, <1>2 DEF CopyOf, Copy, Read
  <1>5. /\ read[r].pc = "store" /\ near' = near
        /\ \/ far' = [far EXCEPT ![k] = c]
           \/ far' = far
        /\ read' = [read EXCEPT ![r] = s]
    BY DEF Store, Reads
  <1>6. c # Absent
    BY <1>4, AbsentAssumption
  <1>. HIDE DEF s, c
  <1>7. Alone(r) /\ read'[r] = s
    BY <1>1, <1>5 DEF Alone
  <1>8. CASE far' = [far EXCEPT ![k] = c]
    <2>1. /\ \A l \in CacheKeys : l # k => far'[l] = far[l]
          /\ far'[k] = c
      BY <1>1, <1>2, <1>8
    <2>. QED  BY <2>1, <1>3, <1>4, <1>5, <1>6, <1>7 DEF Has, c
  <1>9. CASE far' = far
    BY <1>3, <1>4, <1>5, <1>6, <1>7, <1>9 DEF c
  <1>. QED  BY <1>5, <1>8, <1>9

LEMMA ReturnFacts ==
    ASSUME NewsInv, NEW r \in Readers, NEW body, CallReturns(r, body)
    PROVE  /\ near' = near /\ far' = far /\ Alone(r)
           /\ read[r].pc = "call" /\ read'[r].pc = "keep"
           /\ read'[r].key = read[r].key /\ read'[r].isNew = TRUE
           /\ read'[r].body = body
  <1>. DEFINE s == [read[r] EXCEPT !.pc = "keep", !.body = body, !.age = 0,
                                   !.isNew = TRUE]
  <1>1. read \in [Readers -> Read] /\ read[r] \in Read
    BY DEF NewsInv, NewsTypeOK, CacheTypeOK
  <1>2. /\ s.pc = "keep" /\ s.key = read[r].key /\ s.isNew = TRUE
        /\ s.body = body
    BY <1>1 DEF Read
  <1>3. /\ read[r].pc = "call" /\ near' = near /\ far' = far
        /\ read' = [read EXCEPT ![r] = s]
    BY DEF CallReturns, Reads
  <1>. HIDE DEF s
  <1>4. Alone(r) /\ read'[r] = s
    BY <1>1, <1>3 DEF Alone
  <1>. QED  BY <1>2, <1>3, <1>4

LEMMA GoneFacts ==
    ASSUME NewsInv, NEW r \in Readers, Leave(r) \/ CallFails(r)
    PROVE  /\ near' = near /\ far' = far /\ Alone(r)
           /\ read[r].pc # "idle" /\ read'[r] = NoRead
           /\ NoRead.pc = "idle" /\ NoRead.isNew = FALSE
  <1>1. read \in [Readers -> Read]
    BY DEF NewsInv, NewsTypeOK, CacheTypeOK
  <1>2. /\ read[r].pc # "idle" /\ near' = near /\ far' = far
        /\ read' = [read EXCEPT ![r] = NoRead]
    BY DEF Leave, CallFails, Reads
  <1>3. Alone(r) /\ read'[r] = NoRead
    BY <1>1, <1>2 DEF Alone
  <1>. QED  BY <1>2, <1>3 DEF NoRead

-----------------------------------------------------------------------------
(* What the listener and the pass do to the caches. *)
Rebooted == /\ near' = [k \in CacheKeys |-> Absent]
            /\ read' = [r \in Readers |-> NoRead]
            /\ far' = far

LEMMA UpdaterBodies ==
    ASSUME UpdaterTyped
    PROVE  1..ended \in Bodies /\ {} \in Bodies
  <1>1. 1..ended \in Bodies
    BY UpdaterAssumption DEF UpdaterTyped
  <1>2. {} \in Bodies
    BY AnnouncementAssumption
  <1>. QED  BY <1>1, <1>2

LEMMA AnswerReads ==
    ASSUME UpdaterTyped, NEW r \in Readers, Answer(r)
    PROVE  CacheStep(r)
  <1>1. (IF read[r].key = "session" THEN 1..ended ELSE {}) \in Bodies
    BY UpdaterBodies
  <1>. QED  BY <1>1 DEF Answer, CacheStep

LEMMA CacheIsUsed ==
    ASSUME UpdaterTyped, UpdaterNext
    PROVE  \/ \E r \in Readers : CacheStep(r)
           \/ \E k \in CacheKeys : Evict(k)
           \/ CacheTick
           \/ UNCHANGED cacheVars
           \/ Rebooted
  <1>. USE UpdaterNumbers
  <1>1. ASSUME NEW t \in Warmers, TaskGoesOn(t)
        PROVE  CacheStep(t) \/ UNCHANGED cacheVars
    BY <1>1, AnswerReads DEF TaskGoesOn, Wakes, Visit, CallMade, CacheStep
  <1>2. ASSUME NEW r \in Visitors, Visit(r) \/ VisitGoesOn(r)
        PROVE  CacheStep(r)
    BY <1>2, AnswerReads DEF VisitGoesOn, Visit, VisitorGoes, CacheStep
  <1>3. ASSUME NEW p \in Passes, Boots(p) \/ Answer(p) \/ Decides(p)
        PROVE  CacheStep(p)
    BY <1>3, AnswerReads DEF Boots, Decides, CacheStep
  <1>4. CASE ListenerNext
    <2>1. ASSUME NEW t \in Warmers, NEW event \in {"leave", "join"},
                 Notified(t, event)
          PROVE  UNCHANGED cacheVars
      BY <2>1 DEF Notified
    <2>2. ASSUME Connects \/ ConnectFails \/ Disconnects
          PROVE  UNCHANGED cacheVars
      BY <2>2 DEF Connects, ConnectFails, Disconnects
    <2>. QED  BY <1>1, <1>2, <1>4, <2>1, <2>2 DEF ListenerNext
  <1>5. CASE StartupNext
    <2>1. ASSUME ListsMaps \/ Finishes \/ \E m \in Maps : UpdatesMap(m)
          PROVE  UNCHANGED cacheVars
      BY <2>1 DEF ListsMaps, Finishes, UpdatesMap
    <2>. QED  BY <1>3, <1>5, <2>1 DEF StartupNext
  <1>6. CASE Restarts \/ Forgotten \/ TimePasses
    BY <1>6 DEF Restarts, Rebooted, Forgotten, TimePasses
  <1>. QED  BY <1>4, <1>5, <1>6 DEF UpdaterNext

(* Copies and calls are no older than they may be, whoever reads.          *)
LEMMA AgesStep ==
    ASSUME NewsInv, UpdaterTyped, UpdaterNext, UNCHANGED announceVars,
           \A i \in Announced : held[i] = 0
    PROVE  NewsInv'
  <1>1. /\ announce' = announce /\ edit' = edit /\ held' = held
        /\ Active(announce') = Active(announce)
    BY DEF announceVars, Active, Stored
  <1>. DEFINE Good == /\ CacheTypeOK'
                      /\ CopiesGood(far', near', Active(announce), held)
                      /\ ReadsGood(read', Active(announce), held)
  <1>2. ASSUME NEW r \in Readers, CacheStep(r) PROVE Good
    <2>1. ASSUME NEW body \in Bodies
          PROVE  Told(body, 0, Active(announce), held)
      BY DEF Told
    <2>. QED  BY <1>2, <2>1, AskKeeps, LookKeeps, KeepKeeps, StoreKeeps,
                 GoneKeeps, ReturnKeeps DEF CacheStep
  <1>3. ASSUME NEW k \in CacheKeys, Evict(k) PROVE Good
    BY <1>3, EvictKeeps
  <1>4. ASSUME CacheTick PROVE Good
    <2>1. ToldGoesOn
      BY <1>1, ToldStays DEF NewsInv, NewsTypeOK
    <2>. QED  BY <1>1, <1>4, <2>1, TickKeeps
  <1>5. ASSUME UNCHANGED cacheVars PROVE Good
    BY <1>5 DEF cacheVars, NewsInv, NewsTypeOK, CacheTypeOK
  <1>6. ASSUME Rebooted PROVE Good
    <2>1. ReadGood(NoRead, Active(announce), held)
      BY NoReadGood, Numbers DEF ReadGood
    <2>2. CacheTypeOK' /\ ReadsGood(read', Active(announce), held)
      BY <1>6, <2>1, NoReadGood
         DEF Rebooted, NewsInv, NewsTypeOK, CacheTypeOK, ReadsGood
    <2>3. CopiesGood(far', near', Active(announce), held)
      BY <1>6 DEF Rebooted, NewsInv, CopiesGood
    <2>. QED  BY <2>2, <2>3
  <1>7. Good
    BY <1>2, <1>3, <1>4, <1>5, <1>6, CacheIsUsed
  <1>. QED  BY <1>1, <1>7 DEF NewsInv, NewsTypeOK

LEMMA CopiesLeft ==
    ASSUME NewsInv, NEW k \in CacheKeys
    PROVE  /\ Has(far, k) => /\ far[k] \in Copy
                             /\ far[k].left \in Nat /\ far[k].left >= 1
                             /\ far[k].age \in Nat
           /\ Has(near, k) => /\ near[k] \in Copy
                              /\ near[k].left \in Nat /\ near[k].left >= 1
                              /\ near[k].age \in Nat
  BY DEF NewsInv, NewsTypeOK, CacheTypeOK, CopiesGood, RedisGood, MemoryGood,
         Has, Copy

(* What a tick leaves of the copies. *)
LEMMA TickedCopies ==
    ASSUME NewsInv, CacheTick, NEW k \in CacheKeys
    PROVE  /\ Has(far', k) <=> Has(far, k) /\ far[k].left > 1
           /\ Has(far', k) => /\ far'[k].left = far[k].left - 1
                              /\ far'[k].age = far[k].age + 1
                              /\ far'[k].body = far[k].body
           /\ Has(near', k) <=> Has(near, k) /\ near[k].left > 1
           /\ Has(near', k) => /\ near'[k].left = near[k].left - 1
                               /\ near'[k].age = near[k].age + 1
                               /\ near'[k].body = near[k].body
  <1>1. ASSUME NEW copies \in [CacheKeys -> Copy \union {Absent}],
               NEW later, later = Aged(copies)
        PROVE  /\ Has(later, k) <=> Has(copies, k) /\ copies[k].left > 1
               /\ Has(later, k) => /\ later[k].left = copies[k].left - 1
                                   /\ later[k].age = copies[k].age + 1
                                   /\ later[k].body = copies[k].body
    <2>1. CASE copies[k] = Absent \/ copies[k].left <= 1
      <3>1. later[k] = Absent
        BY <1>1, <2>1 DEF Aged
      <3>2. copies[k] # Absent => copies[k].left \in Nat
        BY DEF Copy
      <3>. QED  BY <2>1, <3>1, <3>2 DEF Has
    <2>2. CASE ~(copies[k] = Absent \/ copies[k].left <= 1)
      <3>1. later[k] = Older(copies[k])
        BY <1>1, <2>2 DEF Aged
      <3>2. copies[k] \in Copy /\ copies[k].left \in Nat
        BY <2>2 DEF Copy
      <3>3. copies[k].left > 1
        BY <2>2, <3>2
      <3>4. /\ Older(copies[k]) \in Copy
            /\ Older(copies[k]).left = copies[k].left - 1
            /\ Older(copies[k]).age = copies[k].age + 1
            /\ Older(copies[k]).body = copies[k].body
        BY <3>2, <3>3, OlderCopy
      <3>5. later[k] # Absent
        BY <3>1, <3>4, AbsentAssumption
      <3>. QED  BY <2>2, <3>1, <3>3, <3>4, <3>5 DEF Has
    <2>. QED  BY <2>1, <2>2
  <1>2. /\ far \in [CacheKeys -> Copy \union {Absent}]
        /\ near \in [CacheKeys -> Copy \union {Absent}]
        /\ far' = Aged(far) /\ near' = Aged(near)
    BY DEF NewsInv, NewsTypeOK, CacheTypeOK, CacheTick
  <1>. QED  BY <1>1, <1>2

(* And of the calls. *)
LEMMA TickedReads ==
    ASSUME NewsInv, CacheTick, NEW r \in Readers
    PROVE  /\ read'[r].pc = read[r].pc /\ read'[r].key = read[r].key
           /\ read'[r].body = read[r].body
           /\ read'[r].isNew = read[r].isNew
           /\ read[r].pc # "idle" =>
                /\ read'[r].age = read[r].age + 1
                /\ read'[r].waited = read[r].waited + 1
           /\ read[r].age \in Nat /\ read[r].waited \in Nat
           /\ read[r].waited <= MaxDelay
  <1>1. read \in [Readers -> Read] /\ read[r] \in Read
    BY DEF NewsInv, NewsTypeOK, CacheTypeOK
  <1>2. read[r].waited <= MaxDelay
    BY DEF NewsInv, ReadsGood, ReadGood
  <1>3. read'[r] = IF InFlight(r)
                   THEN [read[r] EXCEPT !.age = @ + 1, !.waited = @ + 1]
                   ELSE read[r]
    BY DEF CacheTick
  <1>. QED  BY <1>1, <1>2, <1>3 DEF InFlight, Read

LEMMA CopiesInTime ==
    ASSUME NewsInv, UpdaterTyped, KeptInTime, UpdaterNext
    PROVE  KeptInTime'
  <1>. USE DEF KeptInTime
  <1>1. ASSUME NEW r \in Readers, CacheStep(r) PROVE KeptInTime'
    <2>1. read[r].key \in CacheKeys
      BY DEF NewsInv, NewsTypeOK, CacheTypeOK, Read
    <2>2. ASSUME Keep(r) PROVE KeptInTime'
      BY <2>1, <2>2, KeepFacts, Numbers DEF Has
    <2>3. ASSUME Store(r) PROVE KeptInTime'
      BY <2>1, <2>3, StoreFacts, Numbers DEF Has
    <2>4. ASSUME UNCHANGED <<near, far>> PROVE KeptInTime'
      BY <2>4 DEF Has
    <2>5. Keep(r) \/ Store(r) \/ UNCHANGED <<near, far>>
      BY <1>1 DEF CacheStep, AskCache, LookInRedis, Leave, CallFails,
                  CallReturns
    <2>. QED  BY <2>2, <2>3, <2>4, <2>5
  <1>2. ASSUME NEW l \in CacheKeys, Evict(l) PROVE KeptInTime'
    BY <1>2 DEF Evict, Has, NewsInv, NewsTypeOK, CacheTypeOK
  <1>3. ASSUME CacheTick PROVE KeptInTime'
    BY <1>3, TickedCopies, CopiesLeft, Numbers
  <1>4. ASSUME UNCHANGED cacheVars PROVE KeptInTime'
    BY <1>4 DEF cacheVars, Has
  <1>5. ASSUME Rebooted PROVE KeptInTime'
    BY <1>5 DEF Rebooted, Has
  <1>. QED  BY <1>1, <1>2, <1>3, <1>4, <1>5, CacheIsUsed

-----------------------------------------------------------------------------
(* Types of the listener, its tasks, the pass and its history.             *)
LEMMA StartsMarked ==
    ASSUME starts \in Starts, NEW F,
           starts' = [starts EXCEPT !.unmarked = @ \/ F]
    PROVE  /\ starts' \in Starts
           /\ starts'.since = starts.since /\ starts'.gap = starts.gap
           /\ starts'.complete = starts.complete
           /\ starts'.cut = starts.cut /\ starts'.missed = starts.missed
           /\ starts'.unmarked <=> starts.unmarked \/ F
  BY DEF Starts

LEMMA BootingTyped ==
    /\ Booting \in Pass /\ Booting.pc = "off"
    /\ NoRefresh \in Refresh /\ NoRefresh.pc = "idle"
  <1>1. Booting \in Pass /\ Booting.pc = "off"
    BY DEF Booting, Pass
  <1>2. 0 \in 0..Delay /\ 0 \in 0..MaxSessions /\ 0 \in 0..(Endpoints - 1)
    BY UpdaterNumbers
  <1>. QED  BY <1>1, <1>2 DEF NoRefresh, Refresh

(* A task goes on to its next call or ends. *)
LEMMA MadeTyped ==
    ASSUME UpdaterTyped, NEW t \in Warmers, Made(t)
    PROVE  /\ refresh' \in [Warmers -> Refresh]
           /\ \A q \in Warmers : q # t => refresh'[q] = refresh[q]
           /\ \/ refresh'[t] = NoRefresh
              \/ /\ refresh'[t].pc = refresh[t].pc
                 /\ refresh'[t].event = refresh[t].event
                 /\ refresh'[t].session = refresh[t].session
  <1>. DEFINE f == refresh[t]
              g == [f EXCEPT !.made = @ + 1]
  <1>1. refresh \in [Warmers -> Refresh] /\ f \in Refresh
    BY DEF UpdaterTyped
  <1>2. f.made \in 0..(Endpoints - 1)
    BY <1>1 DEF Refresh
  <1>3. g.pc = f.pc /\ g.event = f.event /\ g.session = f.session
    BY <1>1 DEF Refresh
  <1>4. f.made + 1 < Endpoints => g \in Refresh
    <2>1. f.made + 1 < Endpoints => f.made + 1 \in 0..(Endpoints - 1)
      BY <1>2, UpdaterNumbers
    <2>. QED  BY <1>1, <2>1 DEF Refresh
  <1>5. refresh' = [refresh EXCEPT ![t] =
                      IF f.made + 1 < Endpoints THEN g ELSE NoRefresh]
    BY DEF Made
  <1>. HIDE DEF f, g
  <1>. QED  BY <1>1, <1>3, <1>4, <1>5, BootingTyped DEF f

LEMMA WakesFacts ==
    ASSUME UpdaterTyped, NEW t \in Warmers, Wakes(t)
    PROVE  /\ refresh' \in [Warmers -> Refresh]
           /\ \A q \in Warmers : q # t => refresh'[q] = refresh[q]
           /\ refresh[t].pc = "sleep" /\ refresh[t].left = 0
           /\ \/ refresh'[t] = NoRefresh
              \/ /\ refresh'[t].pc = "calls"
                 /\ refresh[t].event = "leave"
                 /\ refresh'[t].event = "leave"
                 /\ refresh'[t].session = refresh[t].session
  <1>. DEFINE f == refresh[t]
              g == [f EXCEPT !.pc = "calls"]
  <1>1. refresh \in [Warmers -> Refresh] /\ f \in Refresh
    BY DEF UpdaterTyped
  <1>2. /\ g \in Refresh /\ g.pc = "calls" /\ g.event = f.event
        /\ g.session = f.session
    BY <1>1 DEF Refresh
  <1>3. /\ f.pc = "sleep" /\ f.left = 0
        /\ refresh' = [refresh EXCEPT ![t] =
                         IF f.event = "leave" THEN g ELSE NoRefresh]
    BY DEF Wakes
  <1>. HIDE DEF g
  <1>. QED  BY <1>1, <1>2, <1>3, BootingTyped

LEMMA NotifiedFacts ==
    ASSUME UpdaterTyped, NEW t \in Warmers, NEW event \in {"leave", "join"},
           Notified(t, event)
    PROVE  /\ refresh[t].pc = "idle" /\ ended' \in 0..MaxSessions
           /\ ended' \in {ended, ended + 1}
           /\ event = "leave" => ended' = ended + 1
           /\ refresh' \in [Warmers -> Refresh]
           /\ \A q \in Warmers : q # t => /\ refresh'[q] = refresh[q]
                                          /\ q \in quiet' => q \in quiet
           /\ \/ refresh'[t] = refresh[t]
              \/ /\ refresh'[t].pc = "sleep" /\ refresh'[t].left = Delay
                 /\ refresh'[t].event = event
                 /\ refresh'[t].session = ended'
                 /\ t \in quiet' => \A r \in Readers : ~InFlight(r)
           /\ quiet' \subseteq Warmers
           /\ UNCHANGED <<cacheVars, listener, attempt, pass, starts>>
  <1>. DEFINE g == [NoRefresh EXCEPT !.pc = "sleep", !.left = Delay,
                                     !.event = event, !.session = ended']
  <1>1. /\ refresh[t].pc = "idle" /\ ended < MaxSessions
        /\ ended' = IF event = "leave" THEN ended + 1 ELSE ended
        /\ UNCHANGED <<cacheVars, listener, attempt, pass, starts>>
    BY DEF Notified
  <1>2. ended' \in 0..MaxSessions /\ ended' \in {ended, ended + 1}
    BY <1>1, UpdaterNumbers DEF UpdaterTyped
  <1>3. /\ g \in Refresh /\ g.pc = "sleep" /\ g.left = Delay
        /\ g.event = event /\ g.session = ended'
    <2>1. Delay \in 0..Delay /\ 0 \in 0..(Endpoints - 1)
      BY UpdaterNumbers
    <2>. QED  BY <1>2, <2>1 DEF NoRefresh, Refresh
  <1>4. \/ /\ refresh' = [refresh EXCEPT ![t] = g]
           /\ quiet' = IF \A r \in Readers : ~InFlight(r)
                       THEN quiet \union {t} ELSE quiet \ {t}
        \/ UNCHANGED <<refresh, quiet>>
    BY DEF Notified
  <1>. HIDE DEF g
  <1>. QED  BY <1>1, <1>2, <1>3, <1>4 DEF UpdaterTyped

(* A pass is skipped, or begins; what its history says then.               *)
LEMMA DecidesFacts ==
    ASSUME UpdaterTyped, NEW p \in Passes, Decides(p)
    PROVE  /\ pass.pc = "mark" /\ read[p].pc = "done"
           /\ pass' \in Pass /\ starts' \in Starts
           /\ \/ /\ ~read[p].isNew /\ read[p].age < Day
                 /\ pass'.pc = "skipped"
                 /\ starts'.since = starts.since /\ starts'.gap = starts.gap
                 /\ starts'.complete = starts.complete
                 /\ starts'.cut = starts.cut
                 /\ starts'.unmarked = starts.unmarked
                 /\ starts'.missed <=> \/ starts.missed
                                       \/ ~starts.cut /\ starts.complete > Day
              \/ /\ read[p].isNew \/ ~(read[p].age < Day)
                 /\ pass'.pc = "list"
                 /\ starts'.since = 0 /\ starts'.gap = starts.since
                 /\ starts'.complete = starts.complete
                 /\ starts'.cut = FALSE
                 /\ starts'.missed = starts.missed
                 /\ starts'.unmarked <=> \/ starts.unmarked
                                         \/ ~read[p].isNew /\ read[p].age >= Day
  <1>1. pass \in Pass /\ starts \in Starts /\ 0 \in 0..Day
    BY UpdaterNumbers DEF UpdaterTyped
  <1>2. pass.pc = "mark" /\ read[p].pc = "done"
    BY DEF Decides
  <1>3. CASE ~read[p].isNew /\ read[p].age < Day
    <2>1. /\ pass' = [pass EXCEPT !.pc = "skipped"]
          /\ starts' = [starts EXCEPT
                          !.missed = @ \/ (~starts.cut /\ starts.complete > Day)]
      BY <1>3 DEF Decides
    <2>2. pass' \in Pass /\ pass'.pc = "skipped"
      BY <1>1, <2>1 DEF Pass
    <2>3. /\ starts' \in Starts
          /\ starts'.since = starts.since /\ starts'.gap = starts.gap
          /\ starts'.complete = starts.complete /\ starts'.cut = starts.cut
          /\ starts'.unmarked = starts.unmarked
          /\ starts'.missed <=> \/ starts.missed
                                \/ ~starts.cut /\ starts.complete > Day
      BY <1>1, <2>1 DEF Starts
    <2>. QED  BY <1>2, <1>3, <2>2, <2>3
  <1>4. CASE ~(~read[p].isNew /\ read[p].age < Day)
    <2>1. /\ pass' = [pass EXCEPT !.pc = "list"]
          /\ starts' = [starts EXCEPT
                          !.since = 0, !.gap = starts.since, !.cut = FALSE,
                          !.unmarked =
                             @ \/ (~read[p].isNew /\ read[p].age >= Day)]
      BY <1>4 DEF Decides, Begins
    <2>2. pass' \in Pass /\ pass'.pc = "list"
      BY <1>1, <2>1 DEF Pass
    <2>3. /\ starts' \in Starts
          /\ starts'.since = 0 /\ starts'.gap = starts.since
          /\ starts'.complete = starts.complete /\ starts'.cut = FALSE
          /\ starts'.missed = starts.missed
          /\ starts'.unmarked <=> \/ starts.unmarked
                                  \/ ~read[p].isNew /\ read[p].age >= Day
      BY <1>1, <2>1 DEF Starts
    <2>. QED  BY <1>2, <1>4, <2>2, <2>3
  <1>. QED  BY <1>3, <1>4

LEMMA TimeFacts ==
    ASSUME UpdaterTyped, TimePasses
    PROVE  /\ refresh' \in [Warmers -> Refresh] /\ starts' \in Starts
           /\ \A t \in Warmers :
                 /\ refresh'[t].pc = refresh[t].pc
                 /\ refresh'[t].event = refresh[t].event
                 /\ refresh'[t].session = refresh[t].session
                 /\ refresh[t].pc = "sleep" =>
                      /\ refresh[t].left \in Nat /\ refresh[t].left > 0
                      /\ refresh'[t].left = refresh[t].left - 1
           /\ starts'.since = UpTo(starts.since, Day)
           /\ starts'.complete = UpTo(starts.complete, Day + 1)
           /\ starts'.gap = starts.gap /\ starts'.cut = starts.cut
           /\ starts'.unmarked = starts.unmarked
           /\ starts'.missed = starts.missed
  <1>1. /\ starts' \in Starts
        /\ starts'.since = UpTo(starts.since, Day)
        /\ starts'.complete = UpTo(starts.complete, Day + 1)
        /\ starts'.gap = starts.gap /\ starts'.cut = starts.cut
        /\ starts'.unmarked = starts.unmarked
        /\ starts'.missed = starts.missed
    <2>1. starts \in Starts
      BY DEF UpdaterTyped
    <2>2. /\ UpTo(starts.since, Day) \in 0..Day
          /\ UpTo(starts.complete, Day + 1) \in 0..(Day + 1)
      <3>1. /\ starts.since \in 0..Day /\ starts.complete \in 0..(Day + 1)
            /\ Day \in Nat
        BY <2>1, UpdaterNumbers DEF Starts
      <3>. QED  BY <3>1 DEF UpTo
    <2>3. starts' = [starts EXCEPT !.since = UpTo(@, Day),
                                   !.complete = UpTo(@, Day + 1)]
      BY DEF TimePasses
    <2>. QED  BY <2>1, <2>2, <2>3 DEF Starts
  <1>2. ASSUME NEW t \in Warmers
        PROVE  /\ refresh'[t] \in Refresh
               /\ refresh'[t].pc = refresh[t].pc
               /\ refresh'[t].event = refresh[t].event
               /\ refresh'[t].session = refresh[t].session
               /\ refresh[t].pc = "sleep" =>
                    /\ refresh[t].left \in Nat /\ refresh[t].left > 0
                    /\ refresh'[t].left = refresh[t].left - 1
    <2>1. refresh[t] \in Refresh
      BY DEF UpdaterTyped
    <2>2. refresh'[t] = IF refresh[t].pc = "sleep"
                        THEN [refresh[t] EXCEPT !.left = @ - 1]
                        ELSE refresh[t]
      BY DEF TimePasses
    <2>3. refresh[t].pc = "sleep" => refresh[t].left > 0
      BY DEF TimePasses
    <2>4. refresh[t].left \in 0..Delay /\ Delay \in Nat
      BY <2>1, UpdaterNumbers DEF Refresh
    <2>5. refresh[t].pc = "sleep" => refresh[t].left - 1 \in 0..Delay
      BY <2>3, <2>4
    <2>. QED  BY <2>1, <2>2, <2>3, <2>4, <2>5 DEF Refresh
  <1>3. refresh' \in [Warmers -> Refresh]
    BY <1>2 DEF TimePasses
  <1>. QED  BY <1>1, <1>2, <1>3

LEMMA TypedStep ==
    ASSUME UpdaterTyped, UpdaterNext
    PROVE  UpdaterTyped'
  <1>. USE DEF UpdaterTyped
  <1>1. ASSUME NEW t \in Warmers, NEW event \in {"leave", "join"},
               Notified(t, event)
        PROVE  UpdaterTyped'
    BY <1>1, NotifiedFacts
  <1>2. ASSUME NEW t \in Warmers, Wakes(t) PROVE UpdaterTyped'
    BY <1>2, WakesFacts DEF Wakes
  <1>3. ASSUME NEW r \in Readers, Visit(r) PROVE UpdaterTyped'
    BY <1>3 DEF Visit, Disturbed
  <1>4. ASSUME NEW r \in Readers, Answer(r) PROVE UpdaterTyped'
    BY <1>4, StartsMarked DEF Answer
  <1>5. ASSUME NEW r \in Readers, VisitorGoes(r) PROVE UpdaterTyped'
    BY <1>5 DEF VisitorGoes, updaterVars
  <1>6. ASSUME NEW t \in Warmers, CallMade(t) PROVE UpdaterTyped'
    BY <1>6, MadeTyped DEF CallMade
  <1>7. ASSUME Connects \/ ConnectFails \/ Disconnects PROVE UpdaterTyped'
    <2>1. attempt \in Nat /\ 0 \in 0..MaxAttempts
          /\ (attempt < MaxAttempts => attempt + 1 \in 0..MaxAttempts)
      BY UpdaterNumbers
    <2>2. CASE Connects
      BY <2>1, <2>2 DEF Connects
    <2>3. CASE ConnectFails
      BY <2>1, <2>3 DEF ConnectFails
    <2>4. CASE Disconnects
      BY <2>1, <2>4 DEF Disconnects
    <2>. QED  BY <1>7, <2>2, <2>3, <2>4
  <1>8. ASSUME NEW p \in Passes, Boots(p) PROVE UpdaterTyped'
    BY <1>8 DEF Boots, Pass
  <1>9. ASSUME NEW p \in Passes, Decides(p) PROVE UpdaterTyped'
    BY <1>9, DecidesFacts DEF Decides
  <1>10. ASSUME ListsMaps \/ Finishes \/ \E m \in Maps : UpdatesMap(m)
         PROVE  UpdaterTyped'
    <2>1. 0 \in 0..(Day + 1)
      BY UpdaterNumbers
    <2>2. CASE ListsMaps
      <3>1. [pc |-> "work", todo |-> Maps] \in Pass
            /\ [pc |-> "over", todo |-> {}] \in Pass
        BY DEF Pass
      <3>2. [starts EXCEPT !.cut = TRUE] \in Starts
        BY DEF Starts
      <3>. QED  BY <2>2, <3>1, <3>2 DEF ListsMaps
    <2>3. CASE Finishes
      BY <2>1, <2>3 DEF Finishes, Pass, Starts
    <2>4. ASSUME NEW m \in Maps, UpdatesMap(m) PROVE UpdaterTyped'
      BY <2>4 DEF UpdatesMap, Pass
    <2>. QED  BY <1>10, <2>2, <2>3, <2>4
  <1>11. ASSUME Restarts PROVE UpdaterTyped'
    <2>1. 0 \in 0..MaxAttempts
      BY UpdaterNumbers
    <2>. QED  BY <1>11, <2>1, BootingTyped DEF Restarts, Starts
  <1>12. ASSUME TimePasses PROVE UpdaterTyped'
    BY <1>12, TimeFacts DEF TimePasses
  <1>13. ASSUME Forgotten PROVE UpdaterTyped'
    BY <1>13 DEF Forgotten, updaterVars
  <1>. USE UpdaterNumbers
  <1>14. ASSUME NEW t \in Warmers, TaskGoesOn(t) PROVE UpdaterTyped'
    BY <1>2, <1>3, <1>4, <1>6, <1>14 DEF TaskGoesOn
  <1>15. ASSUME NEW r \in Visitors, Visit(r) \/ VisitGoesOn(r)
         PROVE  UpdaterTyped'
    BY <1>3, <1>4, <1>5, <1>15 DEF VisitGoesOn
  <1>16. ASSUME NEW p \in Passes, Boots(p) \/ Answer(p) \/ Decides(p)
         PROVE  UpdaterTyped'
    BY <1>4, <1>8, <1>9, <1>16
  <1>. HIDE DEF UpdaterTyped
  <1>17. CASE ListenerNext
    BY <1>1, <1>7, <1>14, <1>15, <1>17 DEF ListenerNext
  <1>18. CASE StartupNext
    BY <1>10, <1>16, <1>18 DEF StartupNext
  <1>. QED  BY <1>11, <1>12, <1>13, <1>17, <1>18 DEF UpdaterNext

-----------------------------------------------------------------------------
(* Who reads. *)
LEMMA WhoOne ==
    ASSUME WhoReads, NEW r \in Readers, Alone(r),
           OneReads(r, read'[r], refresh', pass'), FreshOnly(read'[r]),
           \A q \in Readers : q # r /\ OneReads(q, read[q], refresh, pass)
                                => OneReads(q, read[q], refresh', pass'),
           \A q \in Passes : q # r /\ r \in Passes /\ read'[r].pc # "idle"
                                => read[q].pc = "idle",
           Passes \subseteq Readers
    PROVE  WhoReads'
  <1>1. ASSUME NEW q \in Readers
        PROVE  OneReads(q, read'[q], refresh', pass') /\ FreshOnly(read'[q])
    <2>1. CASE q = r
      BY <2>1
    <2>2. CASE q # r
      BY <2>2 DEF Alone, WhoReads
    <2>. QED  BY <2>1, <2>2
  <1>2. ASSUME NEW p \in Passes, NEW q \in Passes,
               read'[p].pc # "idle", read'[q].pc # "idle"
        PROVE  p = q
    <2>1. CASE p = r
      BY <1>2, <2>1 DEF Alone
    <2>2. CASE q = r
      BY <1>2, <2>2 DEF Alone
    <2>3. CASE p # r /\ q # r
      BY <1>2, <2>3 DEF Alone, WhoReads, InFlight
    <2>. QED  BY <2>1, <2>2, <2>3
  <1>. QED  BY <1>1, <1>2 DEF WhoReads, InFlight

(* A call that is under way goes on. *)
LEMMA WhoGoesOn ==
    ASSUME WhoReads, NEW r \in Readers, Alone(r), read[r].pc # "idle",
           read'[r].key = read[r].key, FreshOnly(read'[r]),
           UNCHANGED <<refresh, pass>>
    PROVE  WhoReads'
  <1>1. /\ OneReads(r, read'[r], refresh', pass')
        /\ \A q \in Readers : OneReads(q, read[q], refresh, pass)
                                => OneReads(q, read[q], refresh', pass')
    BY DEF WhoReads, OneReads
  <1>2. \A q \in Passes : q # r /\ r \in Passes => read[q].pc = "idle"
    BY DEF WhoReads, InFlight
  <1>. QED  BY <1>1, <1>2, WhoOne, UpdaterNumbers

LEMMA AnswerFacts ==
    ASSUME NewsInv, WhoReads, NEW r \in Readers, Answer(r)
    PROVE  /\ Alone(r) /\ read[r].pc # "idle" /\ read'[r].key = read[r].key
           /\ FreshOnly(read'[r]) /\ UNCHANGED <<refresh, pass>>
  <1>1. FreshOnly(read[r])
    BY DEF WhoReads
  <1>2. UNCHANGED <<refresh, pass>>
    BY DEF Answer
  <1>3. CASE LookInRedis(r)
    BY <1>1, <1>2, <1>3, LookFacts DEF FreshOnly
  <1>4. CASE Keep(r)
    BY <1>1, <1>2, <1>4, KeepFacts DEF FreshOnly
  <1>5. CASE Store(r)
    BY <1>1, <1>2, <1>5, StoreFacts DEF FreshOnly
  <1>6. ASSUME NEW body, CallReturns(r, body)
        PROVE  /\ Alone(r) /\ read[r].pc # "idle"
               /\ read'[r].key = read[r].key /\ FreshOnly(read'[r])
    BY <1>6, ReturnFacts DEF FreshOnly
  <1>. QED  BY <1>2, <1>3, <1>4, <1>5, <1>6 DEF Answer

LEMMA WhoStep ==
    ASSUME NewsInv, UpdaterTyped, WhoReads, UpdaterNext
    PROVE  WhoReads'
  <1>. USE UpdaterNumbers
  <1>0. UNCHANGED <<read, pass, refresh>> => WhoReads'
    BY DEF WhoReads, OneReads, FreshOnly, InFlight
  <1>1. ASSUME NEW t \in Warmers, NEW event \in {"leave", "join"},
               Notified(t, event)
        PROVE  WhoReads'
    <2>1. /\ \A q \in Warmers : q # t => refresh'[q] = refresh[q]
          /\ refresh[t].pc = "idle" /\ UNCHANGED <<read, pass>>
      BY <1>1, NotifiedFacts DEF cacheVars
    <2>2. \A q \in Readers : OneReads(q, read[q], refresh, pass)
                               => OneReads(q, read[q], refresh', pass)
      BY <2>1 DEF OneReads
    <2>. QED  BY <2>1, <2>2 DEF WhoReads, InFlight
  <1>2. ASSUME NEW t \in Warmers, Wakes(t) PROVE WhoReads'
    <2>1. /\ \A q \in Warmers : q # t => refresh'[q] = refresh[q]
          /\ refresh[t].pc = "sleep" /\ UNCHANGED <<read, pass>>
      BY <1>2, WakesFacts DEF Wakes, cacheVars
    <2>2. \A q \in Readers : OneReads(q, read[q], refresh, pass)
                               => OneReads(q, read[q], refresh', pass)
      BY <2>1 DEF OneReads
    <2>. QED  BY <2>1, <2>2 DEF WhoReads, InFlight
  <1>3. ASSUME NEW r \in Readers, r \in Visitors \union Warmers, Visit(r)
        PROVE  WhoReads'
    <2>1. /\ Alone(r) /\ read'[r].key = "session" /\ read'[r].isNew = FALSE
          /\ read'[r].pc \in {"redis", "done"}
      BY <1>3, AskFacts DEF Visit
    <2>2. /\ r \in Warmers => refresh[r].pc = "calls"
          /\ UNCHANGED <<refresh, pass>>
      BY <1>3 DEF Visit
    <2>3. /\ OneReads(r, read'[r], refresh', pass') /\ FreshOnly(read'[r])
          /\ \A q \in Readers : OneReads(q, read[q], refresh, pass)
                                  => OneReads(q, read[q], refresh', pass')
      BY <1>3, <2>1, <2>2 DEF OneReads, FreshOnly
    <2>4. r \notin Passes
      BY <1>3
    <2>. QED  BY <2>1, <2>3, <2>4, WhoOne
  <1>4. ASSUME NEW r \in Readers, Answer(r) PROVE WhoReads'
    BY <1>4, AnswerFacts, WhoGoesOn
  <1>5. ASSUME NEW r \in Visitors, VisitorGoes(r) PROVE WhoReads'
    <2>1. /\ Alone(r) /\ read'[r].pc = "idle" /\ read'[r].isNew = FALSE
          /\ UNCHANGED <<refresh, pass>>
      BY <1>5, GoneFacts DEF VisitorGoes, updaterVars
    <2>2. /\ OneReads(r, read'[r], refresh', pass') /\ FreshOnly(read'[r])
          /\ \A q \in Readers : OneReads(q, read[q], refresh, pass)
                                  => OneReads(q, read[q], refresh', pass')
      BY <2>1 DEF OneReads, FreshOnly
    <2>. QED  BY <2>1, <2>2, WhoOne
  <1>6. ASSUME NEW t \in Warmers, CallMade(t) PROVE WhoReads'
    <2>1. /\ Alone(t) /\ read'[t].pc = "idle" /\ read'[t].isNew = FALSE
          /\ pass' = pass
      BY <1>6, GoneFacts DEF CallMade
    <2>2. \A q \in Warmers : q # t => refresh'[q] = refresh[q]
      BY <1>6, MadeTyped DEF CallMade
    <2>3. /\ OneReads(t, read'[t], refresh', pass') /\ FreshOnly(read'[t])
          /\ \A q \in Readers : q # t /\ OneReads(q, read[q], refresh, pass)
                                  => OneReads(q, read[q], refresh', pass')
      BY <2>1, <2>2 DEF OneReads, FreshOnly
    <2>. QED  BY <2>1, <2>3, WhoOne
  <1>7. ASSUME Connects \/ ConnectFails \/ Disconnects PROVE WhoReads'
    <2>1. UNCHANGED <<read, pass, refresh>>
      BY <1>7 DEF Connects, ConnectFails, Disconnects, cacheVars
    <2>. QED  BY <1>0, <2>1
  <1>8. ASSUME NEW p \in Passes, Boots(p) PROVE WhoReads'
    <2>1. /\ pass.pc = "off" /\ pass'.pc = "mark" /\ refresh' = refresh
      BY <1>8 DEF Boots, UpdaterTyped, Pass
    <2>2. /\ Alone(p) /\ read'[p].key = "mark" /\ read'[p].isNew = FALSE
          /\ read'[p].pc \in {"redis", "done"}
      BY <1>8, AskFacts DEF Boots
    <2>3. \A q \in Passes : read[q].pc = "idle"
      BY <2>1 DEF WhoReads, OneReads
    <2>4. /\ OneReads(p, read'[p], refresh', pass') /\ FreshOnly(read'[p])
          /\ \A q \in Readers : OneReads(q, read[q], refresh, pass)
                                  => OneReads(q, read[q], refresh', pass')
      BY <2>1, <2>2 DEF OneReads, FreshOnly
    <2>. QED  BY <2>2, <2>3, <2>4, WhoOne
  <1>9. ASSUME NEW p \in Passes, Decides(p) PROVE WhoReads'
    <2>1. /\ Alone(p) /\ read'[p].pc = "idle" /\ read'[p].isNew = FALSE
          /\ read[p].pc # "idle"
      BY <1>9, GoneFacts DEF Decides
    <2>2. \A q \in Passes : q # p => read[q].pc = "idle"
      BY <2>1 DEF WhoReads, InFlight
    <2>3. refresh' = refresh
      BY <1>9 DEF Decides
    <2>4. /\ OneReads(p, read'[p], refresh', pass') /\ FreshOnly(read'[p])
          /\ \A q \in Readers : q # p /\ OneReads(q, read[q], refresh, pass)
                                  => OneReads(q, read[q], refresh', pass')
      BY <2>1, <2>2, <2>3 DEF OneReads, FreshOnly
    <2>. QED  BY <2>1, <2>4, WhoOne
  <1>10. ASSUME ListsMaps \/ Finishes \/ \E m \in Maps : UpdatesMap(m)
         PROVE  WhoReads'
    <2>1. pass.pc # "mark" /\ UNCHANGED <<read, refresh>>
      BY <1>10 DEF ListsMaps, Finishes, UpdatesMap, cacheVars
    <2>2. \A q \in Readers : OneReads(q, read[q], refresh, pass)
                               => OneReads(q, read[q], refresh, pass')
      BY <2>1 DEF OneReads
    <2>. QED  BY <2>1, <2>2 DEF WhoReads, InFlight
  <1>11. ASSUME Restarts PROVE WhoReads'
    <2>1. \A r \in Readers : /\ read'[r] = NoRead
                             /\ NoRead.pc = "idle" /\ NoRead.isNew = FALSE
      BY <1>11 DEF Restarts, NoRead
    <2>. QED  BY <2>1 DEF WhoReads, OneReads, FreshOnly, InFlight
  <1>12. ASSUME TimePasses PROVE WhoReads'
    <2>1. /\ CacheTick /\ pass' = pass
          /\ \A t \in Warmers : refresh'[t].pc = refresh[t].pc
      BY <1>12, TimeFacts DEF TimePasses
    <2>2. \A r \in Readers : /\ read'[r].pc = read[r].pc
                             /\ read'[r].key = read[r].key
                             /\ read'[r].isNew = read[r].isNew
      BY <2>1, TickedReads
    <2>. QED  BY <2>1, <2>2 DEF WhoReads, OneReads, FreshOnly, InFlight
  <1>13. ASSUME Forgotten PROVE WhoReads'
    BY <1>0, <1>13 DEF Forgotten, updaterVars, Evict
  <1>14. ASSUME NEW t \in Warmers, TaskGoesOn(t) PROVE WhoReads'
    BY <1>2, <1>3, <1>4, <1>6, <1>14 DEF TaskGoesOn
  <1>15. ASSUME NEW r \in Visitors, Visit(r) \/ VisitGoesOn(r)
         PROVE  WhoReads'
    BY <1>3, <1>4, <1>5, <1>15 DEF VisitGoesOn
  <1>16. ASSUME NEW p \in Passes, Boots(p) \/ Answer(p) \/ Decides(p)
         PROVE  WhoReads'
    BY <1>4, <1>8, <1>9, <1>16
  <1>17. CASE ListenerNext
    BY <1>1, <1>7, <1>14, <1>15, <1>17 DEF ListenerNext
  <1>18. CASE StartupNext
    BY <1>10, <1>16, <1>18 DEF StartupNext
  <1>. QED  BY <1>11, <1>12, <1>13, <1>17, <1>18 DEF UpdaterNext

-----------------------------------------------------------------------------
(* The tasks of the listener: one whose own state, read and copies stay as *)
(* they are is as good as it was.                                          *)
Others(t) == \A r \in Readers : r # t /\ InFlight(r) => read[r].key # "session"

LEMMA RefreshStays ==
    ASSUME NEW t \in Warmers, RefreshGood(t), UpdaterTyped,
           refresh'[t] = refresh[t], ended' \in {ended, ended + 1},
           t \in quiet' => t \in quiet,
           Undisturbed(t) /\ t \in quiet' /\ refresh[t].pc # "idle" =>
              /\ far'["session"] = far["session"]
              /\ near'["session"] \in {near["session"], Absent}
              /\ read'[t] = read[t] /\ Others(t)'
    PROVE  RefreshGood(t)'
  <1>1. SpawnedFor(refresh'[t], ended')
    <2>1. ended \in Nat
      BY UpdaterNumbers DEF UpdaterTyped
    <2>. QED  BY <2>1 DEF RefreshGood, SpawnedFor
  <1>2. ASSUME refresh'[t].pc # "idle", t \in quiet'
        PROVE  Undisturbed(t)'
    <2>1. Undisturbed(t) /\ refresh[t].pc # "idle"
      BY <1>2 DEF RefreshGood
    <2>2. /\ far'["session"] = far["session"]
          /\ near'["session"] \in {near["session"], Absent}
          /\ read'[t] = read[t] /\ Others(t)'
      BY <1>2, <2>1
    <2>. QED  BY <2>1, <2>2
              DEF Undisturbed, SessionSays, ReadSays, Has, Others
  <1>. QED  BY <1>1, <1>2 DEF RefreshGood

LEMMA RefreshNotified ==
    ASSUME NewsInv, UpdaterInv, NEW s \in Warmers,
           NEW event \in {"leave", "join"}, Notified(s, event),
           NEW t \in Warmers
    PROVE  RefreshGood(t)'
  <1>1. RefreshGood(t) /\ UpdaterTyped /\ KeptInTime
    BY DEF UpdaterInv
  <1>2. /\ ended' \in {ended, ended + 1} /\ ended \in Nat
        /\ event = "leave" => ended' = ended + 1
        /\ UNCHANGED <<near, far, read>>
    BY <1>1, NotifiedFacts, UpdaterNumbers DEF cacheVars, UpdaterTyped
  <1>3. CASE t # s
    <2>1. refresh'[t] = refresh[t] /\ (t \in quiet' => t \in quiet)
      BY <1>1, <1>3, NotifiedFacts
    <2>2. Undisturbed(t) => Others(t)'
      BY <1>2 DEF Undisturbed, Others, InFlight
    <2>. QED  BY <1>1, <1>2, <2>1, <2>2, RefreshStays
  <1>4. CASE t = s
    <2>1. CASE refresh'[t] = refresh[t]
      <3>1. refresh'[t].pc = "idle"
        BY <1>1, <1>4, <2>1, NotifiedFacts
      <3>. QED  BY <3>1 DEF RefreshGood, SpawnedFor
    <2>2. CASE refresh'[t] # refresh[t]
      <3>1. /\ refresh'[t].pc = "sleep" /\ refresh'[t].left = Delay
            /\ refresh'[t].event = event /\ refresh'[t].session = ended'
            /\ t \in quiet' => \A r \in Readers : ~InFlight(r)
        BY <1>1, <1>4, <2>2, NotifiedFacts
      <3>2. SpawnedFor(refresh'[t], ended')
        BY <1>2, <3>1 DEF SpawnedFor
      <3>3. /\ Has(far, "session") => far["session"].left <= Delay
            /\ Has(near, "session") => near["session"].left <= Delay
        <4>1. /\ Has(far, "session") => far["session"].left \in Nat
              /\ Has(near, "session") => near["session"].left \in Nat
          BY CopiesLeft, UpdaterNumbers
        <4>2. /\ Has(far, "session") => far["session"].left <= Ttl["session"]
              /\ Has(near, "session") => near["session"].left <= MemoryTtl
          BY <1>1, UpdaterNumbers DEF KeptInTime
        <4>. QED  BY <4>1, <4>2, UpdaterNumbers
      <3>4. /\ SessionSays(far', refresh'[t]) /\ SessionSays(near', refresh'[t])
            /\ ReadSays(read'[t], refresh'[t])
        BY <1>2, <3>1, <3>3 DEF SessionSays, ReadSays, Has
      <3>5. t \in quiet' => Others(t)'
        BY <1>2, <3>1 DEF Others, InFlight
      <3>. QED  BY <3>2, <3>4, <3>5 DEF RefreshGood, Undisturbed, Others
    <2>. QED  BY <2>1, <2>2
  <1>. QED  BY <1>3, <1>4

LEMMA RefreshWakes ==
    ASSUME NewsInv, UpdaterInv, NEW s \in Warmers, Wakes(s),
           NEW t \in Warmers
    PROVE  RefreshGood(t)'
  <1>1. RefreshGood(t) /\ UpdaterTyped /\ WhoReads
    BY DEF UpdaterInv
  <1>2. /\ ended' = ended /\ quiet' = quiet
        /\ UNCHANGED <<near, far, read>>
    BY DEF Wakes, cacheVars
  <1>3. Undisturbed(t) => Others(t)'
    BY <1>2 DEF Undisturbed, Others, InFlight
  <1>4. CASE t # s
    <2>1. refresh'[t] = refresh[t]
      BY <1>1, <1>4, WakesFacts
    <2>. QED  BY <1>1, <1>2, <1>3, <2>1, RefreshStays
  <1>5. CASE t = s
    <2>1. /\ refresh[t].pc = "sleep" /\ refresh[t].left = 0
          /\ \/ refresh'[t] = NoRefresh
             \/ /\ refresh'[t].pc = "calls"
                /\ refresh[t].event = "leave"
                /\ refresh'[t].event = "leave"
                /\ refresh'[t].session = refresh[t].session
      BY <1>1, <1>5, WakesFacts
    <2>2. CASE refresh'[t] = NoRefresh
      BY <2>2, BootingTyped DEF RefreshGood, SpawnedFor
    <2>3. CASE refresh'[t] # NoRefresh
      <3>1. SpawnedFor(refresh'[t], ended')
        BY <1>1, <1>2, <2>1, <2>3 DEF RefreshGood, SpawnedFor
      <3>2. ASSUME t \in quiet PROVE Undisturbed(t)'
        <4>1. Undisturbed(t)
          BY <1>1, <2>1, <3>2 DEF RefreshGood
        <4>2. ~Has(far, "session") /\ ~Has(near, "session")
          BY <2>1, <4>1, CopiesLeft, UpdaterNumbers
             DEF Undisturbed, SessionSays
        <4>3. read[t].pc = "idle"
          BY <1>1, <2>1, UpdaterNumbers DEF WhoReads, OneReads
        <4>. QED  BY <1>2, <1>3, <4>1, <4>2, <4>3
                  DEF Undisturbed, Others, SessionSays, ReadSays, Has
      <3>. QED  BY <1>2, <3>1, <3>2 DEF RefreshGood
    <2>. QED  BY <2>2, <2>3
  <1>. QED  BY <1>4, <1>5

LEMMA RefreshVisit ==
    ASSUME NewsInv, UpdaterInv, NEW r \in Readers, Visit(r),
           NEW t \in Warmers
    PROVE  RefreshGood(t)'
  <1>1. RefreshGood(t) /\ UpdaterTyped
    BY DEF UpdaterInv
  <1>2. /\ UNCHANGED <<near, far>> /\ Alone(r)
        /\ read'[r].pc \in {"redis", "done"}
        /\ read'[r].pc = "done" => /\ Has(near, "session")
                                   /\ read'[r].body = near["session"].body
        /\ ended' = ended /\ refresh' = refresh
        /\ quiet' = quiet \intersect {r}
    BY AskFacts, UpdaterNumbers DEF Visit, Disturbed
  <1>3. CASE t # r
    BY <1>1, <1>2, <1>3 DEF RefreshGood
  <1>4. CASE t = r
    <2>1. SpawnedFor(refresh'[t], ended')
      BY <1>1, <1>2 DEF RefreshGood
    <2>2. ASSUME refresh[t].pc # "idle", t \in quiet' PROVE Undisturbed(t)'
      <3>1. Undisturbed(t)
        BY <1>1, <1>2, <2>2 DEF RefreshGood
      <3>2. /\ SessionSays(far', refresh'[t]) /\ SessionSays(near', refresh'[t])
        BY <1>2, <3>1 DEF Undisturbed
      <3>3. ReadSays(read'[t], refresh'[t])
        BY <1>2, <1>4, <3>1 DEF Undisturbed, SessionSays, ReadSays
      <3>4. Others(t)'
        BY <1>2, <1>4, <3>1 DEF Undisturbed, Others, Alone, InFlight
      <3>. QED  BY <3>2, <3>3, <3>4 DEF Undisturbed, Others
    <2>. QED  BY <1>2, <2>1, <2>2 DEF RefreshGood
  <1>. QED  BY <1>3, <1>4

LEMMA RefreshAnswer ==
    ASSUME NewsInv, UpdaterInv, NEW r \in Readers, Answer(r),
           NEW t \in Warmers
    PROVE  RefreshGood(t)'
  <1>1. RefreshGood(t) /\ UpdaterTyped /\ WhoReads
    BY DEF UpdaterInv
  <1>2. /\ Alone(r) /\ read[r].pc # "idle" /\ read'[r].key = read[r].key
        /\ read[r].key \in CacheKeys
        /\ ended' = ended /\ refresh' = refresh /\ quiet' = quiet
    BY <1>1, AnswerFacts
       DEF Answer, NewsInv, NewsTypeOK, CacheTypeOK, Read
  <1>3. ASSUME read[r].key # "session"
        PROVE  far'["session"] = far["session"] /\ near'["session"] = near["session"]
    <2>1. ASSUME UNCHANGED <<near, far>>
          PROVE  far'["session"] = far["session"] /\ near'["session"] = near["session"]
      BY <2>1
    <2>2. CASE Keep(r)
      BY <1>3, <2>2, KeepFacts, UpdaterNumbers
    <2>3. CASE Store(r)
      BY <1>3, <2>3, StoreFacts, UpdaterNumbers
    <2>. QED  BY <2>1, <2>2, <2>3 DEF Answer, LookInRedis, CallReturns
  <1>4. CASE t # r
    <2>1. ASSUME Undisturbed(t)
          PROVE  /\ far'["session"] = far["session"]
                 /\ near'["session"] = near["session"]
                 /\ read'[t] = read[t] /\ Others(t)'
      <3>1. read[r].key # "session"
        BY <1>2, <1>4, <2>1 DEF Undisturbed, InFlight
      <3>2. read'[t] = read[t]
        BY <1>2, <1>4, UpdaterNumbers DEF Alone
      <3>3. Others(t)'
        BY <1>2, <2>1, <3>1 DEF Undisturbed, Others, InFlight, Alone
      <3>. QED  BY <1>3, <3>1, <3>2, <3>3
    <2>. QED  BY <1>1, <1>2, <2>1, RefreshStays
  <1>5. CASE t = r
    <2>1. SpawnedFor(refresh'[t], ended')
      BY <1>1, <1>2 DEF RefreshGood
    <2>2. read[t].key = "session" /\ refresh[t].pc = "calls"
      BY <1>1, <1>2, <1>5, UpdaterNumbers DEF WhoReads, OneReads
    <2>3. refresh[t].session \in 1..ended
      BY <1>1, <2>2 DEF RefreshGood, SpawnedFor
    <2>4. ASSUME t \in quiet PROVE Undisturbed(t)'
      <3>1. Undisturbed(t)
        BY <1>1, <2>2, <2>4 DEF RefreshGood
      <3>2. Others(t)'
        BY <1>2, <1>5, <3>1 DEF Undisturbed, Others, Alone, InFlight
      <3>3. /\ Has(far, "session") => refresh[t].session \in far["session"].body
            /\ Has(near, "session") => refresh[t].session \in near["session"].body
            /\ read[t].pc \in {"fill", "keep", "store", "done"}
                 => refresh[t].session \in read[t].body
        BY <2>2, <3>1 DEF Undisturbed, SessionSays, ReadSays
      <3>4. /\ Has(far', "session") => refresh[t].session \in far'["session"].body
            /\ Has(near', "session") => refresh[t].session \in near'["session"].body
            /\ read'[t].pc \in {"fill", "keep", "store", "done"}
                 => refresh[t].session \in read'[t].body
        <4>1. CASE LookInRedis(r)
          BY <1>5, <2>2, <3>3, <4>1, LookFacts DEF Has
        <4>2. CASE Keep(r)
          BY <1>5, <2>2, <3>3, <4>2, KeepFacts DEF Has
        <4>3. CASE Store(r)
          <5>1. /\ near' = near /\ read'[r].body = read[r].body
                /\ read[r].pc = "store"
            BY <4>3, StoreFacts
          <5>2. \/ far' = far
                \/ far'["session"].body = read[r].body
            BY <1>5, <2>2, <4>3, StoreFacts
          <5>. QED  BY <1>5, <3>3, <5>1, <5>2 DEF Has
        <4>4. CASE CallReturns(r, IF read[r].key = "session" THEN 1..ended
                                  ELSE {})
          <5>1. CallReturns(r, 1..ended)
            BY <1>5, <2>2, <4>4
          <5>2. /\ near' = near /\ far' = far /\ read'[r].body = 1..ended
            BY <5>1, ReturnFacts
          <5>. QED  BY <1>5, <2>3, <3>3, <5>2 DEF Has
        <4>. QED  BY <4>1, <4>2, <4>3, <4>4 DEF Answer
      <3>. QED  BY <1>2, <2>2, <3>2, <3>4
                DEF Undisturbed, Others, SessionSays, ReadSays
    <2>. QED  BY <1>2, <2>1, <2>4 DEF RefreshGood
  <1>. QED  BY <1>4, <1>5

(* A call that is not a task's ends, or the pass asks for its mark.        *)
LEMMA RefreshBeside ==
    ASSUME UpdaterInv, NEW r \in Readers, Alone(r), r \notin Warmers,
           read'[r].pc = "idle" \/ read'[r].key # "session",
           UNCHANGED <<near, far, ended, refresh, quiet>>, NEW t \in Warmers
    PROVE  RefreshGood(t)'
  <1>1. RefreshGood(t) /\ UpdaterTyped
    BY DEF UpdaterInv
  <1>2. read'[t] = read[t]
    BY UpdaterNumbers DEF Alone
  <1>3. Undisturbed(t) => Others(t)'
    BY DEF Undisturbed, Others, Alone, InFlight
  <1>. QED  BY <1>1, <1>2, <1>3, RefreshStays

LEMMA RefreshCallMade ==
    ASSUME NewsInv, UpdaterInv, NEW s \in Warmers, CallMade(s),
           NEW t \in Warmers
    PROVE  RefreshGood(t)'
  <1>1. RefreshGood(t) /\ UpdaterTyped
    BY DEF UpdaterInv
  <1>2. /\ UNCHANGED <<near, far>> /\ Alone(s) /\ read'[s].pc = "idle"
        /\ ended' = ended /\ quiet' = quiet /\ refresh[s].pc = "calls"
    BY GoneFacts, UpdaterNumbers DEF CallMade
  <1>3. Undisturbed(t) => Others(t)'
    BY <1>2 DEF Undisturbed, Others, Alone, InFlight
  <1>4. CASE t # s
    <2>1. refresh'[t] = refresh[t]
      BY <1>1, <1>4, MadeTyped DEF CallMade
    <2>2. read'[t] = read[t]
      BY <1>2, <1>4, UpdaterNumbers DEF Alone
    <2>. QED  BY <1>1, <1>2, <1>3, <2>1, <2>2, RefreshStays
  <1>5. CASE t = s
    <2>1. \/ refresh'[t] = NoRefresh
          \/ /\ refresh'[t].pc = refresh[t].pc
             /\ refresh'[t].event = refresh[t].event
             /\ refresh'[t].session = refresh[t].session
      BY <1>1, <1>5, MadeTyped DEF CallMade
    <2>2. CASE refresh'[t] = NoRefresh
      BY <2>2, BootingTyped DEF RefreshGood, SpawnedFor
    <2>3. CASE refresh'[t] # NoRefresh
      BY <1>1, <1>2, <1>3, <1>5, <2>1, <2>3
         DEF RefreshGood, SpawnedFor, Undisturbed, Others, SessionSays,
             ReadSays, Has
    <2>. QED  BY <2>2, <2>3
  <1>. QED  BY <1>4, <1>5

LEMMA RefreshTime ==
    ASSUME NewsInv, UpdaterInv, TimePasses, NEW t \in Warmers
    PROVE  RefreshGood(t)'
  <1>1. RefreshGood(t) /\ UpdaterTyped /\ CacheTick
        /\ ended' = ended /\ quiet' = quiet
    BY DEF UpdaterInv, TimePasses
  <1>2. /\ refresh'[t].pc = refresh[t].pc
        /\ refresh'[t].event = refresh[t].event
        /\ refresh'[t].session = refresh[t].session
        /\ refresh[t].pc = "sleep" =>
             /\ refresh[t].left \in Nat /\ refresh[t].left > 0
             /\ refresh'[t].left = refresh[t].left - 1
    BY <1>1, TimeFacts
  <1>3. SpawnedFor(refresh'[t], ended')
    BY <1>1, <1>2 DEF RefreshGood, SpawnedFor
  <1>4. ASSUME refresh[t].pc # "idle", t \in quiet PROVE Undisturbed(t)'
    <2>1. Undisturbed(t)
      BY <1>1, <1>4 DEF RefreshGood
    <2>2. Others(t)'
      BY <1>1, <2>1, TickedReads DEF Undisturbed, Others, InFlight
    <2>3. ReadSays(read'[t], refresh'[t])
      BY <1>1, <1>2, <2>1, TickedReads, UpdaterNumbers
         DEF Undisturbed, ReadSays
    <2>4. SessionSays(far', refresh'[t])
      <3>1. Has(far', "session") =>
              /\ Has(far, "session")
              /\ far'["session"].left = far["session"].left - 1
              /\ far'["session"].body = far["session"].body
              /\ far["session"].left \in Nat
        BY <1>1, TickedCopies, CopiesLeft, UpdaterNumbers
      <3>. QED  BY <1>2, <2>1, <3>1 DEF Undisturbed, SessionSays
    <2>5. SessionSays(near', refresh'[t])
      <3>1. Has(near', "session") =>
              /\ Has(near, "session")
              /\ near'["session"].left = near["session"].left - 1
              /\ near'["session"].body = near["session"].body
              /\ near["session"].left \in Nat
        BY <1>1, TickedCopies, CopiesLeft, UpdaterNumbers
      <3>. QED  BY <1>2, <2>1, <3>1 DEF Undisturbed, SessionSays
    <2>. QED  BY <2>2, <2>3, <2>4, <2>5 DEF Undisturbed, Others
  <1>. QED  BY <1>1, <1>2, <1>3, <1>4 DEF RefreshGood

LEMMA RefreshStep ==
    ASSUME NewsInv, UpdaterInv, UpdaterNext, NEW t \in Warmers
    PROVE  RefreshGood(t)'
  <1>. USE UpdaterNumbers
  <1>0. UpdaterTyped /\ RefreshGood(t)
    BY DEF UpdaterInv
  <1>1. ASSUME UNCHANGED <<far, read, ended, refresh, quiet>>,
               near'["session"] \in {near["session"], Absent}
        PROVE  RefreshGood(t)'
    <2>1. Undisturbed(t) => Others(t)'
      BY <1>1 DEF Undisturbed, Others, InFlight
    <2>. QED  BY <1>0, <1>1, <2>1, RefreshStays
  <1>2. ASSUME NEW r \in Visitors, VisitorGoes(r) PROVE RefreshGood(t)'
    <2>1. /\ Alone(r) /\ read'[r].pc = "idle" /\ r \notin Warmers
          /\ UNCHANGED <<near, far, ended, refresh, quiet>>
      BY <1>2, GoneFacts DEF VisitorGoes, updaterVars, UpdaterInv
    <2>. QED  BY <2>1, RefreshBeside
  <1>3. ASSUME Connects \/ ConnectFails \/ Disconnects PROVE RefreshGood(t)'
    <2>1. UNCHANGED <<near, far, read, ended, refresh, quiet>>
      BY <1>3 DEF Connects, ConnectFails, Disconnects, cacheVars
    <2>. QED  BY <1>1, <2>1
  <1>4. ASSUME NEW p \in Passes, Boots(p) PROVE RefreshGood(t)'
    <2>1. /\ Alone(p) /\ read'[p].key = "mark" /\ p \notin Warmers
          /\ UNCHANGED <<near, far, ended, refresh, quiet>>
      BY <1>4, AskFacts DEF Boots
    <2>. QED  BY <2>1, RefreshBeside
  <1>5. ASSUME NEW p \in Passes, Decides(p) PROVE RefreshGood(t)'
    <2>1. /\ Alone(p) /\ read'[p].pc = "idle" /\ p \notin Warmers
          /\ UNCHANGED <<near, far, ended, refresh, quiet>>
      BY <1>5, GoneFacts DEF Decides
    <2>. QED  BY <2>1, RefreshBeside
  <1>6. ASSUME ListsMaps \/ Finishes \/ \E m \in Maps : UpdatesMap(m)
        PROVE  RefreshGood(t)'
    <2>1. UNCHANGED <<near, far, read, ended, refresh, quiet>>
      BY <1>6 DEF ListsMaps, Finishes, UpdatesMap, cacheVars
    <2>. QED  BY <1>1, <2>1
  <1>7. ASSUME Restarts PROVE RefreshGood(t)'
    <2>1. refresh'[t] = NoRefresh
      BY <1>7 DEF Restarts
    <2>. QED  BY <2>1, BootingTyped DEF RefreshGood, SpawnedFor
  <1>8. ASSUME Forgotten PROVE RefreshGood(t)'
    <2>1. UNCHANGED <<far, read, ended, refresh, quiet>>
      BY <1>8 DEF Forgotten, updaterVars, Evict
    <2>2. near'["session"] \in {near["session"], Absent}
      BY <1>8 DEF Forgotten, Evict, NewsInv, NewsTypeOK, CacheTypeOK
    <2>. QED  BY <1>1, <2>1, <2>2
  <1>9. ASSUME NEW s \in Warmers, TaskGoesOn(s) PROVE RefreshGood(t)'
    BY <1>9, RefreshWakes, RefreshVisit, RefreshAnswer, RefreshCallMade
       DEF TaskGoesOn
  <1>10. ASSUME NEW r \in Visitors, Visit(r) \/ VisitGoesOn(r)
         PROVE  RefreshGood(t)'
    BY <1>2, <1>10, RefreshVisit, RefreshAnswer DEF VisitGoesOn
  <1>11. ASSUME NEW p \in Passes, Boots(p) \/ Answer(p) \/ Decides(p)
         PROVE  RefreshGood(t)'
    BY <1>4, <1>5, <1>11, RefreshAnswer
  <1>12. CASE ListenerNext
    BY <1>3, <1>9, <1>10, <1>12, RefreshNotified DEF ListenerNext
  <1>13. CASE StartupNext
    BY <1>6, <1>11, <1>13 DEF StartupNext
  <1>. QED  BY <1>7, <1>8, <1>12, <1>13, RefreshTime DEF UpdaterNext

-----------------------------------------------------------------------------
(* The mark of the pass: whatever has nothing to do with it leaves it.     *)
MarkInv == (starts.unmarked \/ MarkIsKept) /\ MarkIsTrue

LEMMA MarkStays ==
    ASSUME MarkInv, pass'.pc = pass.pc,
           far'["mark"] = far["mark"],
           near'["mark"] \in {near["mark"], Absent},
           \A p \in Passes : read'[p] = read[p],
           starts'.since = starts.since, starts'.gap = starts.gap,
           starts'.complete = starts.complete, starts'.cut = starts.cut,
           starts'.missed = starts.missed,
           starts.unmarked => starts'.unmarked
    PROVE  MarkInv'
  <1>1. ASSUME MarkIsKept PROVE MarkIsKept'
    BY <1>1 DEF MarkIsKept, MarkLasts, PassGood, Has
  <1>2. MarkIsTrue'
    BY DEF MarkInv, MarkIsTrue, Updated, Has
  <1>. QED  BY <1>1, <1>2 DEF MarkInv

(* One call of the pass is under way at most: what is asked of it.         *)
LEMMA MarkOfOne ==
    ASSUME NEW p \in Passes, \A q \in Passes : q # p => read'[q].pc = "idle",
           starts'.gap >= Day - MaxDelay,
           \/ starts'.since >= Day - MaxDelay
           \/ MarkLasts(far', MaxDelay + starts'.since),
           PassGood(read'[p], starts'.since, far')
    PROVE  MarkIsKept'
  <1>1. ASSUME NEW q \in Passes PROVE PassGood(read'[q], starts'.since, far')
    BY DEF PassGood, Looked
  <1>. QED  BY <1>1 DEF MarkIsKept

LEMMA TrueOfOne ==
    ASSUME NEW p \in Passes, \A q \in Passes : q # p => read'[q].pc = "idle",
           \/ pass'.pc \in {"list", "work"}
           \/ read'[p].isNew
           \/ /\ Has(far', "mark") => Updated(starts', far'["mark"].age)
              /\ Has(near', "mark") => Updated(starts', near'["mark"].age),
           read'[p].pc \in {"fill", "done"} /\ ~read'[p].isNew
              => Updated(starts', read'[p].age),
           ~starts'.missed
    PROVE  MarkIsTrue'
  BY DEF MarkIsTrue

LEMMA PassAlone ==
    ASSUME WhoReads, NEW p \in Passes, read[p].pc # "idle"
    PROVE  /\ pass.pc = "mark" /\ read[p].key = "mark"
           /\ \A q \in Passes : q # p => read[q].pc = "idle" /\ ~read[q].isNew
           /\ FreshOnly(read[p])
  BY UpdaterNumbers DEF WhoReads, OneReads, FreshOnly, InFlight

LEMMA NoPass ==
    ASSUME WhoReads, pass.pc # "mark"
    PROVE  \A q \in Passes : read[q].pc = "idle" /\ ~read[q].isNew
  BY UpdaterNumbers DEF WhoReads, OneReads, FreshOnly

(* cached_response around the time of the last pass. *)
LEMMA MarkAnswer ==
    ASSUME NewsInv, UpdaterInv, NEW p \in Passes, Answer(p)
    PROVE  MarkInv'
  <1>. USE UpdaterNumbers
  <1>1. WhoReads /\ UpdaterTyped /\ MarkInv /\ starts \in Starts
    BY DEF UpdaterInv, MarkInv, UpdaterTyped
  <1>2. /\ Alone(p) /\ read[p].pc # "idle" /\ pass' = pass
    BY <1>1, AnswerFacts
  <1>3. /\ pass.pc = "mark" /\ read[p].key = "mark" /\ FreshOnly(read[p])
        /\ \A q \in Passes : q # p => read[q].pc = "idle" /\ ~read[q].isNew
    BY <1>1, <1>2, PassAlone
  <1>4. \A q \in Passes : q # p => read'[q].pc = "idle"
    BY <1>2, <1>3 DEF Alone
  <1>5. /\ starts'.since = starts.since /\ starts'.gap = starts.gap
        /\ starts'.complete = starts.complete
        /\ starts'.cut = starts.cut /\ starts'.missed = starts.missed
        /\ starts'.unmarked <=> starts.unmarked \/ Unmarked(p)
    <2>1. starts' = [starts EXCEPT !.unmarked = @ \/ Unmarked(p)]
      BY DEF Answer
    <2>. QED  BY <1>1, <2>1, StartsMarked
  <1>6. \A age : Updated(starts', age) <=> Updated(starts, age)
    BY <1>5 DEF Updated
  <1>7. /\ ~starts'.missed
        /\ read[p].isNew \/ /\ Has(far, "mark") => Updated(starts, far["mark"].age)
                            /\ Has(near, "mark") => Updated(starts, near["mark"].age)
        /\ read[p].pc \in {"fill", "done"} /\ ~read[p].isNew
             => Updated(starts, read[p].age)
    BY <1>1, <1>3, <1>5 DEF MarkInv, MarkIsTrue
  <1>8. ASSUME ~starts'.unmarked
        PROVE  /\ ~Unmarked(p) /\ starts'.gap >= Day - MaxDelay
               /\ \/ starts'.since >= Day - MaxDelay
                  \/ MarkLasts(far, MaxDelay + starts'.since)
               /\ PassGood(read[p], starts'.since, far)
    BY <1>1, <1>5, <1>8 DEF MarkInv, MarkIsKept
  <1>9. CASE LookInRedis(p)
    <2>1. /\ near' = near /\ far' = far /\ read[p].pc = "redis"
          /\ read'[p].isNew = read[p].isNew
          /\ read'[p].pc \in {"fill", "call"}
          /\ read'[p].pc = "fill" => /\ Has(far, "mark")
                                     /\ read'[p].age = far["mark"].age
      BY <1>3, <1>9, LookFacts
    <2>2. ~read[p].isNew
      BY <1>3, <2>1 DEF FreshOnly
    <2>3. MarkIsTrue'
      BY <1>4, <1>6, <1>7, <2>1, <2>2, TrueOfOne
    <2>4. ASSUME ~starts'.unmarked PROVE MarkIsKept'
      <3>1. read'[p].pc = "call" => ~Has(far, "mark")
        BY <1>3, <1>8, <2>1, <2>4 DEF Unmarked
      <3>2. PassGood(read'[p], starts'.since, far')
        BY <1>8, <2>1, <2>2, <2>4, <3>1 DEF PassGood, Looked, MarkLasts
      <3>. QED  BY <1>4, <1>8, <2>1, <2>4, <3>2, MarkOfOne
    <2>. QED  BY <2>3, <2>4 DEF MarkInv
  <1>10. CASE Keep(p)
    <2>1. /\ far' = far /\ read[p].pc \in {"fill", "keep"}
          /\ near'["mark"].age = read[p].age
          /\ read'[p].pc = IF read[p].pc = "fill" THEN "done" ELSE "store"
          /\ read'[p].isNew = read[p].isNew /\ read'[p].age = read[p].age
      BY <1>3, <1>10, KeepFacts
    <2>2. read[p].isNew <=> read[p].pc = "keep"
      BY <1>3, <2>1 DEF FreshOnly
    <2>3. MarkIsTrue'
      BY <1>4, <1>6, <1>7, <2>1, <2>2, TrueOfOne
    <2>4. ASSUME ~starts'.unmarked PROVE MarkIsKept'
      <3>1. PassGood(read'[p], starts'.since, far')
        BY <1>8, <2>1, <2>2, <2>4 DEF PassGood, Looked
      <3>. QED  BY <1>4, <1>8, <2>1, <2>4, <3>1, MarkOfOne
    <2>. QED  BY <2>3, <2>4 DEF MarkInv
  <1>11. CASE Store(p)
    <2>1. /\ near' = near /\ read[p].pc = "store" /\ read'[p].pc = "done"
          /\ read'[p].isNew = read[p].isNew
          /\ read'[p].waited = read[p].waited
          /\ CopyOf(p, Day).left = Day /\ CopyOf(p, Day) # Absent
      BY <1>3, <1>11, StoreFacts
    <2>2. read[p].isNew
      BY <1>3, <2>1 DEF FreshOnly
    <2>3. MarkIsTrue'
      BY <1>4, <1>6, <1>7, <2>1, <2>2, TrueOfOne
    <2>4. ASSUME ~starts'.unmarked PROVE MarkIsKept'
      <3>1. far'["mark"] = CopyOf(p, Day)
        BY <1>3, <1>8, <2>1, <2>4 DEF Unmarked
      <3>2. starts'.since \in Nat /\ read'[p].waited \in Nat
        BY <1>1, <1>5, <2>1
           DEF Starts, NewsInv, NewsTypeOK, CacheTypeOK, Read
      <3>3. MarkLasts(far', MaxDelay + starts'.since)
        BY <2>1, <3>1, <3>2 DEF MarkLasts, Has
      <3>4. MarkLasts(far', read'[p].waited)
        BY <2>1, <3>1, <3>2 DEF MarkLasts, Has
      <3>5. starts'.since >= Day - MaxDelay
        BY <1>8, <2>1, <2>4 DEF PassGood, Looked
      <3>6. PassGood(read'[p], starts'.since, far')
        BY <3>4, <3>5 DEF PassGood
      <3>. QED  BY <1>4, <1>8, <2>4, <3>3, <3>6, MarkOfOne
    <2>. QED  BY <2>3, <2>4 DEF MarkInv
  <1>12. ASSUME NEW body, CallReturns(p, body) PROVE MarkInv'
    <2>1. /\ near' = near /\ far' = far
          /\ read[p].pc = "call" /\ read'[p].pc = "keep"
          /\ read'[p].isNew = TRUE
      BY <1>12, ReturnFacts
    <2>2. MarkIsTrue'
      BY <1>4, <1>7, <2>1, TrueOfOne
    <2>3. ASSUME ~starts'.unmarked PROVE MarkIsKept'
      <3>1. PassGood(read'[p], starts'.since, far')
        BY <1>8, <2>1, <2>3 DEF PassGood, Looked
      <3>. QED  BY <1>4, <1>8, <2>1, <2>3, <3>1, MarkOfOne
    <2>. QED  BY <2>2, <2>3 DEF MarkInv
  <1>. QED  BY <1>9, <1>10, <1>11, <1>12 DEF Answer

LEMMA MarkBoots ==
    ASSUME NewsInv, UpdaterInv, NEW p \in Passes, Boots(p)
    PROVE  MarkInv'
  <1>. USE UpdaterNumbers
  <1>1. WhoReads /\ MarkInv
    BY DEF UpdaterInv, MarkInv
  <1>2. /\ near' = near /\ far' = far /\ Alone(p)
        /\ read'[p].isNew = FALSE /\ read'[p].pc \in {"redis", "done"}
        /\ read'[p].pc = "done" => /\ Has(near, "mark")
                                   /\ read'[p].age = near["mark"].age
        /\ pass.pc = "off" /\ starts' = starts
    BY AskFacts DEF Boots
  <1>3. \A q \in Passes : read[q].pc = "idle" /\ ~read[q].isNew
    BY <1>1, <1>2, NoPass
  <1>4. \A q \in Passes : q # p => read'[q].pc = "idle"
    BY <1>2, <1>3 DEF Alone
  <1>5. /\ Has(far, "mark") => Updated(starts, far["mark"].age)
        /\ Has(near, "mark") => Updated(starts, near["mark"].age)
        /\ ~starts.missed
    BY <1>1, <1>2, <1>3 DEF MarkInv, MarkIsTrue
  <1>6. MarkIsTrue'
    BY <1>2, <1>4, <1>5, TrueOfOne
  <1>7. ASSUME ~starts.unmarked PROVE MarkIsKept'
    <2>1. /\ starts'.gap >= Day - MaxDelay
          /\ \/ starts'.since >= Day - MaxDelay
             \/ MarkLasts(far', MaxDelay + starts'.since)
      BY <1>1, <1>2, <1>7 DEF MarkInv, MarkIsKept
    <2>2. PassGood(read'[p], starts'.since, far')
      BY <1>2 DEF PassGood, Looked
    <2>. QED  BY <1>4, <2>1, <2>2, MarkOfOne
  <1>. QED  BY <1>2, <1>6, <1>7 DEF MarkInv

LEMMA MarkDecides ==
    ASSUME NewsInv, UpdaterInv, NEW p \in Passes, Decides(p)
    PROVE  MarkInv'
  <1>. USE UpdaterNumbers
  <1>1. WhoReads /\ MarkInv /\ UpdaterTyped /\ starts \in Starts
    BY DEF UpdaterInv, MarkInv, UpdaterTyped
  <1>2. /\ near' = near /\ far' = far /\ Alone(p)
        /\ read'[p].pc = "idle" /\ read'[p].isNew = FALSE
        /\ read[p].pc = "done"
    BY GoneFacts DEF Decides
  <1>3. /\ pass.pc = "mark" /\ FreshOnly(read[p])
        /\ \A q \in Passes : q # p => read[q].pc = "idle" /\ ~read[q].isNew
    BY <1>1, <1>2, PassAlone
  <1>4. \A q \in Passes : q # p => read'[q].pc = "idle"
    BY <1>2, <1>3 DEF Alone
  <1>5. /\ read[p].age \in Nat /\ read[p].waited \in Nat
        /\ read[p].waited <= MaxDelay
        /\ Has(far, "mark") => far["mark"].left \in Nat
    BY CopiesLeft
       DEF NewsInv, NewsTypeOK, CacheTypeOK, Read, ReadsGood, ReadGood
  <1>6. starts.since \in Nat /\ starts.complete \in Nat
    BY <1>1 DEF Starts
  <1>7. \A since : PassGood(read'[p], since, far')
    BY <1>2 DEF PassGood, Looked
  <1>8. /\ ~starts.missed
        /\ read[p].isNew \/ /\ Has(far, "mark") => Updated(starts, far["mark"].age)
                            /\ Has(near, "mark") => Updated(starts, near["mark"].age)
        /\ ~read[p].isNew => Updated(starts, read[p].age)
    BY <1>1, <1>2, <1>3 DEF MarkInv, MarkIsTrue
  <1>9. CASE pass'.pc = "skipped"
    <2>1. /\ ~read[p].isNew /\ read[p].age < Day
          /\ starts'.since = starts.since /\ starts'.gap = starts.gap
          /\ starts'.complete = starts.complete /\ starts'.cut = starts.cut
          /\ starts'.unmarked = starts.unmarked
          /\ starts'.missed <=> \/ starts.missed
                                \/ ~starts.cut /\ starts.complete > Day
      BY <1>1, <1>9, DecidesFacts
    <2>2. ~starts'.missed
      BY <1>5, <1>6, <1>8, <2>1 DEF Updated
    <2>3. MarkIsTrue'
      BY <1>2, <1>4, <1>8, <2>1, <2>2, TrueOfOne DEF Updated
    <2>4. ASSUME ~starts.unmarked PROVE MarkIsKept'
      <3>1. /\ starts'.gap >= Day - MaxDelay
            /\ \/ starts'.since >= Day - MaxDelay
               \/ MarkLasts(far', MaxDelay + starts'.since)
        BY <1>1, <1>2, <2>1, <2>4 DEF MarkInv, MarkIsKept
      <3>. QED  BY <1>4, <1>7, <3>1, MarkOfOne
    <2>. QED  BY <2>1, <2>3, <2>4 DEF MarkInv
  <1>10. CASE pass'.pc # "skipped"
    <2>1. /\ read[p].isNew \/ ~(read[p].age < Day)
          /\ pass'.pc = "list"
          /\ starts'.since = 0 /\ starts'.gap = starts.since
          /\ starts'.missed = starts.missed
          /\ starts'.unmarked <=> \/ starts.unmarked
                                  \/ ~read[p].isNew /\ read[p].age >= Day
      BY <1>1, <1>10, DecidesFacts
    <2>2. MarkIsTrue'
      BY <1>2, <1>4, <1>8, <2>1, TrueOfOne
    <2>3. ASSUME ~starts'.unmarked PROVE MarkIsKept'
      <3>1. read[p].isNew /\ ~starts.unmarked
        BY <1>5, <2>1, <2>3
      <3>2. PassGood(read[p], starts.since, far)
        BY <1>1, <3>1 DEF MarkInv, MarkIsKept
      <3>3. /\ starts.since >= Day - MaxDelay
            /\ read[p].waited >= Day \/ MarkLasts(far, read[p].waited)
        BY <1>2, <3>1, <3>2 DEF PassGood, Looked
      <3>4. \/ starts'.since >= Day - MaxDelay
            \/ MarkLasts(far', MaxDelay + starts'.since)
        <4>1. CASE read[p].waited >= Day
          BY <1>5, <2>1, <4>1
        <4>2. CASE MarkLasts(far, read[p].waited)
          BY <1>2, <1>5, <2>1, <4>2 DEF MarkLasts
        <4>. QED  BY <3>3, <4>1, <4>2
      <3>. QED  BY <1>4, <1>7, <2>1, <3>3, <3>4, MarkOfOne
    <2>. QED  BY <2>2, <2>3 DEF MarkInv
  <1>. QED  BY <1>9, <1>10

(* The pass goes on, or the backend is started again, while no call of the *)
(* pass is under way: what Redis knows of it is what it did.               *)
LEMMA MarkWhileIdle ==
    ASSUME MarkInv, far' = far,
           \A q \in Passes : read'[q].pc = "idle" /\ ~read'[q].isNew,
           starts'.since = starts.since, starts'.gap = starts.gap,
           starts'.missed = starts.missed, starts'.unmarked = starts.unmarked,
           \/ pass'.pc \in {"list", "work"}
           \/ /\ Has(far', "mark") => Updated(starts', far'["mark"].age)
              /\ Has(near', "mark") => Updated(starts', near'["mark"].age)
    PROVE  MarkInv'
  <1>1. ASSUME ~starts.unmarked PROVE MarkIsKept'
    <2>1. \A q \in Passes : PassGood(read'[q], starts'.since, far')
      BY DEF PassGood, Looked
    <2>. QED  BY <1>1, <2>1 DEF MarkInv, MarkIsKept
  <1>2. MarkIsTrue'
    BY DEF MarkInv, MarkIsTrue
  <1>. QED  BY <1>1, <1>2 DEF MarkInv

LEMMA MarkPass ==
    ASSUME NewsInv, UpdaterInv,
           ListsMaps \/ Finishes \/ \E m \in Maps : UpdatesMap(m)
    PROVE  MarkInv'
  <1>. USE UpdaterNumbers
  <1>1. WhoReads /\ MarkInv /\ starts \in Starts /\ pass \in Pass
    BY DEF UpdaterInv, MarkInv, UpdaterTyped
  <1>2. pass.pc \in {"list", "work"} /\ UNCHANGED <<near, far, read>>
    BY DEF ListsMaps, Finishes, UpdatesMap, cacheVars
  <1>3. \A q \in Passes : read'[q].pc = "idle" /\ ~read'[q].isNew
    BY <1>1, <1>2, NoPass
  <1>4. CASE starts' = starts /\ pass'.pc \in {"list", "work"}
    BY <1>1, <1>2, <1>3, <1>4, MarkWhileIdle
  <1>5. CASE starts' = [starts EXCEPT !.cut = TRUE]
    <2>1. /\ starts'.since = starts.since /\ starts'.gap = starts.gap
          /\ starts'.missed = starts.missed
          /\ starts'.unmarked = starts.unmarked /\ starts'.cut
      BY <1>1, <1>5 DEF Starts
    <2>2. \A age : Updated(starts', age)
      BY <2>1 DEF Updated
    <2>. QED  BY <1>1, <1>2, <1>3, <2>1, <2>2, MarkWhileIdle
  <1>6. CASE starts' = [starts EXCEPT !.complete = 0]
    <2>1. /\ starts'.since = starts.since /\ starts'.gap = starts.gap
          /\ starts'.missed = starts.missed
          /\ starts'.unmarked = starts.unmarked /\ starts'.complete = 0
      BY <1>1, <1>6 DEF Starts
    <2>2. \A age \in Nat : Updated(starts', age)
      BY <2>1 DEF Updated
    <2>3. /\ Has(far', "mark") => Updated(starts', far'["mark"].age)
          /\ Has(near', "mark") => Updated(starts', near'["mark"].age)
      BY <1>2, <2>2, CopiesLeft DEF Has
    <2>. QED  BY <1>1, <1>2, <1>3, <2>1, <2>3, MarkWhileIdle
  <1>7. \/ starts' = starts /\ pass'.pc \in {"list", "work"}
        \/ starts' = [starts EXCEPT !.cut = TRUE]
        \/ starts' = [starts EXCEPT !.complete = 0]
    BY <1>1 DEF ListsMaps, Finishes, UpdatesMap, Pass
  <1>. QED  BY <1>4, <1>5, <1>6, <1>7

LEMMA MarkRestarts ==
    ASSUME NewsInv, UpdaterInv, Restarts
    PROVE  MarkInv'
  <1>. USE UpdaterNumbers
  <1>1. WhoReads /\ MarkInv /\ starts \in Starts
    BY DEF UpdaterInv, MarkInv, UpdaterTyped
  <1>2. far' = far /\ ~Has(near', "mark")
    BY DEF Restarts, Has
  <1>3. \A q \in Passes : read'[q].pc = "idle" /\ ~read'[q].isNew
    BY DEF Restarts, NoRead
  <1>4. /\ starts'.since = starts.since /\ starts'.gap = starts.gap
        /\ starts'.missed = starts.missed
        /\ starts'.unmarked = starts.unmarked
        /\ starts'.complete = starts.complete
        /\ starts'.cut <=> starts.cut \/ pass.pc \in {"mark", "list", "work"}
    BY <1>1 DEF Restarts, Starts
  <1>5. Has(far', "mark") => Updated(starts', far'["mark"].age)
    <2>1. CASE pass.pc \in {"mark", "list", "work"}
      BY <1>4, <2>1 DEF Updated
    <2>2. CASE pass.pc \notin {"mark", "list", "work"}
      <3>1. \A q \in Passes : ~read[q].isNew
        BY <1>1, <2>2, NoPass
      <3>2. Has(far, "mark") => Updated(starts, far["mark"].age)
        BY <1>1, <2>2, <3>1 DEF MarkInv, MarkIsTrue
      <3>. QED  BY <1>2, <1>4, <3>2 DEF Updated
    <2>. QED  BY <2>1, <2>2
  <1>. QED  BY <1>1, <1>2, <1>3, <1>4, <1>5, MarkWhileIdle

LEMMA MarkTime ==
    ASSUME NewsInv, UpdaterInv, TimePasses
    PROVE  MarkInv'
  <1>. USE UpdaterNumbers
  <1>1. WhoReads /\ MarkInv /\ UpdaterTyped /\ CacheTick
        /\ starts \in Starts /\ pass' = pass
    BY DEF UpdaterInv, MarkInv, UpdaterTyped, TimePasses
  <1>2. /\ starts'.since = UpTo(starts.since, Day)
        /\ starts'.complete = UpTo(starts.complete, Day + 1)
        /\ starts'.gap = starts.gap /\ starts'.cut = starts.cut
        /\ starts'.unmarked = starts.unmarked
        /\ starts'.missed = starts.missed
        /\ starts.since \in 0..Day /\ starts.complete \in 0..(Day + 1)
    BY <1>1, TimeFacts DEF Starts
  <1>3. ASSUME NEW age \in Nat, Updated(starts, age)
        PROVE  Updated(starts', age + 1)
    BY <1>2, <1>3 DEF Updated, UpTo
  <1>4. ASSUME NEW p \in Passes
        PROVE  /\ read'[p].pc = read[p].pc /\ read'[p].isNew = read[p].isNew
               /\ read[p].pc # "idle" =>
                    /\ read'[p].age = read[p].age + 1
                    /\ read'[p].waited = read[p].waited + 1
               /\ read[p].age \in Nat /\ read[p].waited \in Nat
    BY <1>1, TickedReads
  <1>5. /\ Has(far', "mark") <=> Has(far, "mark") /\ far["mark"].left > 1
        /\ Has(far', "mark") => /\ far'["mark"].left = far["mark"].left - 1
                                /\ far'["mark"].age = far["mark"].age + 1
        /\ Has(near', "mark") => /\ Has(near, "mark")
                                 /\ near'["mark"].age = near["mark"].age + 1
        /\ Has(far, "mark") => /\ far["mark"].left \in Nat
                               /\ far["mark"].age \in Nat
        /\ Has(near, "mark") => near["mark"].age \in Nat
    BY <1>1, TickedCopies, CopiesLeft
  <1>6. ASSUME MarkIsKept PROVE MarkIsKept'
    <2>1. starts'.gap >= Day - MaxDelay
      BY <1>2, <1>6 DEF MarkIsKept
    <2>2. starts.since >= Day - MaxDelay => starts'.since >= Day - MaxDelay
      BY <1>2 DEF UpTo
    <2>3. \/ starts'.since >= Day - MaxDelay
          \/ MarkLasts(far', MaxDelay + starts'.since)
      <3>1. CASE starts.since >= Day - MaxDelay
        BY <2>2, <3>1
      <3>2. CASE MarkLasts(far, MaxDelay + starts.since)
        BY <1>2, <1>5, <3>2 DEF MarkLasts, UpTo
      <3>. QED  BY <1>6, <3>1, <3>2 DEF MarkIsKept
    <2>4. ASSUME NEW p \in Passes
          PROVE  PassGood(read'[p], starts'.since, far')
      <3>1. PassGood(read[p], starts.since, far)
        BY <1>6 DEF MarkIsKept
      <3>2. Looked(read'[p]) => starts'.since >= Day - MaxDelay
        BY <1>4, <2>2, <3>1 DEF PassGood, Looked
      <3>3. ASSUME read'[p].pc = "done", read'[p].isNew
            PROVE  \/ read'[p].waited >= Day
                   \/ MarkLasts(far', read'[p].waited)
        <4>1. /\ read'[p].waited = read[p].waited + 1
              /\ read[p].waited \in Nat
              /\ read[p].waited >= Day \/ MarkLasts(far, read[p].waited)
          BY <1>4, <3>1, <3>3 DEF PassGood
        <4>2. CASE read[p].waited >= Day
          BY <4>1, <4>2
        <4>3. CASE MarkLasts(far, read[p].waited)
          BY <1>5, <4>1, <4>3 DEF MarkLasts
        <4>. QED  BY <4>1, <4>2, <4>3
      <3>. QED  BY <3>2, <3>3 DEF PassGood
    <2>. QED  BY <2>1, <2>3, <2>4 DEF MarkIsKept
  <1>7. MarkIsTrue'
    <2>1. /\ \/ pass.pc \in {"list", "work"}
             \/ \E p \in Passes : read[p].isNew
             \/ /\ Has(far, "mark") => Updated(starts, far["mark"].age)
                /\ Has(near, "mark") => Updated(starts, near["mark"].age)
          /\ \A p \in Passes :
               read[p].pc \in {"fill", "done"} /\ ~read[p].isNew
                 => Updated(starts, read[p].age)
          /\ ~starts.missed
      BY <1>1 DEF MarkInv, MarkIsTrue
    <2>2. \/ pass'.pc \in {"list", "work"}
          \/ \E p \in Passes : read'[p].isNew
          \/ /\ Has(far', "mark") => Updated(starts', far'["mark"].age)
             /\ Has(near', "mark") => Updated(starts', near'["mark"].age)
      <3>1. CASE pass.pc \in {"list", "work"}
        BY <1>1, <3>1
      <3>2. CASE \E p \in Passes : read[p].isNew
        BY <1>4, <3>2
      <3>3. CASE /\ Has(far, "mark") => Updated(starts, far["mark"].age)
                 /\ Has(near, "mark") => Updated(starts, near["mark"].age)
        BY <1>3, <1>5, <3>3
      <3>. QED  BY <2>1, <3>1, <3>2, <3>3
    <2>3. ASSUME NEW p \in Passes, read'[p].pc \in {"fill", "done"},
                 ~read'[p].isNew
          PROVE  Updated(starts', read'[p].age)
      <3>1. /\ read[p].age \in Nat /\ read'[p].age = read[p].age + 1
            /\ Updated(starts, read[p].age)
        BY <1>4, <2>1, <2>3
      <3>. QED  BY <1>3, <3>1
    <2>. QED  BY <1>2, <2>1, <2>2, <2>3 DEF MarkIsTrue
  <1>. QED  BY <1>1, <1>2, <1>6, <1>7 DEF MarkInv

(* A call that is not the pass's does not touch the mark. *)
LEMMA MarkBeside ==
    ASSUME NewsInv, UpdaterInv, NEW r \in Readers, r \notin Passes,
           Visit(r) \/ Answer(r) \/ VisitorGoes(r) \/ CallMade(r)
    PROVE  MarkInv'
  <1>. USE UpdaterNumbers
  <1>1. /\ MarkInv /\ starts \in Starts /\ WhoReads
        /\ read[r].key \in CacheKeys
    BY DEF UpdaterInv, MarkInv, UpdaterTyped, NewsInv, NewsTypeOK,
           CacheTypeOK, Read
  <1>2. ASSUME Alone(r), UNCHANGED <<near, far, pass, starts>> PROVE MarkInv'
    <2>1. \A p \in Passes : read'[p] = read[p]
      BY <1>2 DEF Alone
    <2>. QED  BY <1>1, <1>2, <2>1, MarkStays
  <1>3. CASE Visit(r)
    BY <1>2, <1>3, AskFacts DEF Visit
  <1>4. CASE VisitorGoes(r) \/ CallMade(r)
    BY <1>2, <1>4, GoneFacts DEF VisitorGoes, CallMade, updaterVars
  <1>5. CASE Answer(r)
    <2>1. Alone(r) /\ read[r].pc # "idle" /\ pass' = pass
      BY <1>1, <1>5, AnswerFacts
    <2>2. read[r].key = "session"
      BY <1>1, <2>1 DEF WhoReads, OneReads
    <2>3. /\ starts'.since = starts.since /\ starts'.gap = starts.gap
          /\ starts'.complete = starts.complete
          /\ starts'.cut = starts.cut /\ starts'.missed = starts.missed
          /\ starts.unmarked => starts'.unmarked
      <3>1. starts' = [starts EXCEPT !.unmarked = @ \/ Unmarked(r)]
        BY <1>5 DEF Answer
      <3>. QED  BY <1>1, <3>1, StartsMarked
    <2>4. far'["mark"] = far["mark"] /\ near'["mark"] = near["mark"]
      <3>1. CASE UNCHANGED <<near, far>>
        BY <3>1
      <3>2. CASE Keep(r)
        BY <2>2, <3>2, KeepFacts
      <3>3. CASE Store(r)
        BY <2>2, <3>3, StoreFacts
      <3>. QED  BY <1>5, <3>1, <3>2, <3>3
                DEF Answer, LookInRedis, CallReturns
    <2>5. \A p \in Passes : read'[p] = read[p]
      BY <2>1 DEF Alone
    <2>. QED  BY <1>1, <2>1, <2>3, <2>4, <2>5, MarkStays
  <1>. QED  BY <1>3, <1>4, <1>5

LEMMA MarkStep ==
    ASSUME NewsInv, UpdaterInv, UpdaterNext
    PROVE  MarkInv'
  <1>. USE UpdaterNumbers
  <1>1. MarkInv /\ UpdaterTyped
    BY DEF UpdaterInv, MarkInv
  <1>2. ASSUME UNCHANGED <<far, read, pass, starts>>,
               near'["mark"] \in {near["mark"], Absent}
        PROVE  MarkInv'
    BY <1>1, <1>2, MarkStays
  <1>3. ASSUME UNCHANGED <<cacheVars, pass, starts>> PROVE MarkInv'
    BY <1>2, <1>3 DEF cacheVars
  <1>4. ASSUME NEW t \in Warmers, NEW event \in {"leave", "join"},
               Notified(t, event)
        PROVE  MarkInv'
    BY <1>1, <1>3, <1>4, NotifiedFacts
  <1>5. ASSUME Connects \/ ConnectFails \/ Disconnects PROVE MarkInv'
    BY <1>3, <1>5 DEF Connects, ConnectFails, Disconnects
  <1>6. ASSUME NEW t \in Warmers, TaskGoesOn(t) PROVE MarkInv'
    <2>1. Wakes(t) => UNCHANGED <<cacheVars, pass, starts>>
      BY DEF Wakes
    <2>. QED  BY <1>3, <1>6, <2>1, MarkBeside DEF TaskGoesOn
  <1>7. ASSUME NEW r \in Visitors, Visit(r) \/ VisitGoesOn(r) PROVE MarkInv'
    BY <1>7, MarkBeside DEF VisitGoesOn
  <1>8. ASSUME Forgotten PROVE MarkInv'
    <2>1. UNCHANGED <<far, read, pass, starts>>
      BY <1>8 DEF Forgotten, updaterVars, Evict
    <2>2. near'["mark"] \in {near["mark"], Absent}
      BY <1>8 DEF Forgotten, Evict, NewsInv, NewsTypeOK, CacheTypeOK
    <2>. QED  BY <1>2, <2>1, <2>2
  <1>9. CASE ListenerNext
    BY <1>4, <1>5, <1>6, <1>7, <1>9 DEF ListenerNext
  <1>10. CASE StartupNext
    BY <1>10, MarkAnswer, MarkBoots, MarkDecides, MarkPass DEF StartupNext
  <1>. QED  BY <1>8, <1>9, <1>10, MarkRestarts, MarkTime DEF UpdaterNext

-----------------------------------------------------------------------------
(* The listener and the pass together. *)
LEMMA UpdaterStarts == UpdaterInit => UpdaterInv
  <1>. SUFFICES ASSUME UpdaterInit PROVE UpdaterInv
    OBVIOUS
  <1>. USE UpdaterNumbers
  <1>1. /\ \A k \in CacheKeys : ~Has(far, k) /\ ~Has(near, k)
        /\ \A r \in Readers : /\ read[r].pc = "idle"
                              /\ read[r].isNew = FALSE
    BY DEF UpdaterInit, CacheInit, Has, NoRead
  <1>2. UpdaterTyped
    BY BootingTyped DEF UpdaterInit, UpdaterTyped, NoStarts, Starts
  <1>3. WhoReads /\ KeptInTime
    BY <1>1 DEF WhoReads, KeptInTime, OneReads, FreshOnly, InFlight
  <1>4. \A t \in Warmers : RefreshGood(t)
    BY BootingTyped DEF UpdaterInit, RefreshGood, SpawnedFor
  <1>5. /\ starts.gap = Day /\ starts.since = Day /\ ~starts.missed
        /\ Day >= Day - MaxDelay
    BY DEF UpdaterInit, NoStarts
  <1>6. MarkIsKept
    BY <1>1, <1>5 DEF MarkIsKept, PassGood, Looked
  <1>7. MarkIsTrue
    BY <1>1, <1>5 DEF MarkIsTrue
  <1>. QED  BY <1>2, <1>3, <1>4, <1>6, <1>7 DEF UpdaterInv

LEMMA UpdaterSteps ==
    ASSUME NewsInv, UpdaterInv, UpdaterNext
    PROVE  UpdaterInv'
  <1>1. UpdaterTyped' /\ WhoReads' /\ KeptInTime'
    BY TypedStep, WhoStep, CopiesInTime DEF UpdaterInv
  <1>2. \A t \in Warmers : RefreshGood(t)'
    BY RefreshStep
  <1>3. MarkInv'
    BY MarkStep
  <1>. QED  BY <1>1, <1>2, <1>3 DEF UpdaterInv, MarkInv

LEMMA UpdaterHolds == UpdaterInv => UpdatesInStep
  <1>. SUFFICES ASSUME UpdaterInv PROVE UpdatesInStep
    OBVIOUS
  <1>1. QuietRefreshIsCurrent
    BY DEF UpdaterInv, RefreshGood, Undisturbed, ReadSays,
           QuietRefreshIsCurrent
  <1>2. OnePassADay
    BY DEF UpdaterInv, MarkIsKept, OnePassADay
  <1>3. SkippedWasUpdated
    BY DEF UpdaterInv, MarkIsTrue, SkippedWasUpdated
  <1>. QED  BY <1>1, <1>2, <1>3 DEF UpdatesInStep
-----------------------------------------------------------------------------
(* The groups together: each keeps what it needs, and what it promises the *)
(* others leave alone.  The announcements and the updater read through one *)
(* cache, of which each asks what the other need not keep: while one is    *)
(* used, the other has not begun.                                          *)
NotBegun ==
    /\ \A t \in Warmers : refresh[t].pc = "idle"
    /\ starts.gap = Day /\ ~starts.missed

CachesInv ==
    /\ Inv /\ ServedInv
    /\ NewsInv
    /\ UpdaterTyped
    /\ \/ cached = "news" /\ NotBegun
       \/ /\ cached # "news" /\ UpdaterInv
          /\ \A i \in Announced : held[i] = 0
    /\ PictureInv

LEMMA UpdaterTypedStays ==
    ASSUME UpdaterTyped, UNCHANGED updaterVars
    PROVE  UpdaterTyped'
  BY DEF updaterVars, UpdaterTyped

LEMMA NotBegunStays ==
    ASSUME NotBegun, UNCHANGED updaterVars
    PROVE  NotBegun'
  BY DEF updaterVars, NotBegun

LEMMA UpdaterStays ==
    ASSUME UpdaterInv, UNCHANGED allVars
    PROVE  UpdaterInv'
  <1>1. /\ near' = near /\ far' = far /\ read' = read
        /\ ended' = ended /\ refresh' = refresh /\ quiet' = quiet
        /\ pass' = pass /\ starts' = starts /\ UNCHANGED updaterVars
    BY DEF allVars, cacheVars, updaterVars
  <1>2. UpdaterTyped'
    BY <1>1, UpdaterTypedStays DEF UpdaterInv
  <1>3. WhoReads' /\ KeptInTime'
    BY <1>1 DEF UpdaterInv, WhoReads, InFlight, KeptInTime
  <1>4. \A t \in Warmers : RefreshGood(t)'
    BY <1>1 DEF UpdaterInv, RefreshGood, Undisturbed, InFlight
  <1>5. starts.unmarked \/ MarkIsKept => (starts.unmarked \/ MarkIsKept)'
    BY <1>1 DEF MarkIsKept
  <1>6. MarkIsTrue'
    BY <1>1 DEF UpdaterInv, MarkIsTrue
  <1>. QED  BY <1>2, <1>3, <1>4, <1>5, <1>6 DEF UpdaterInv

LEMMA CachesStart == CachesInit => CachesInv
  <1>. SUFFICES ASSUME CachesInit PROVE CachesInv
    OBVIOUS
  <1>1. Inv /\ ServedInv /\ NewsInv /\ PictureInv /\ UpdaterInv
    BY InvStarts, ServedStarts, NewsStarts, UpdaterStarts, PicturesStart
       DEF CachesInit
  <1>2. NotBegun
    BY DEF CachesInit, UpdaterInit, NotBegun, NoRefresh, NoStarts
  <1>3. \A i \in Announced : held[i] = 0
    BY DEF CachesInit, NewsInit
  <1>. QED  BY <1>1, <1>2, <1>3 DEF CachesInv, UpdaterInv

LEMMA CachesUpdaterStep ==
    ASSUME CachesInv, cached # "news", UpdaterNext, BesideUpdater
    PROVE  CachesInv'
  <1>1. /\ cached' = cached /\ held' = held
        /\ UNCHANGED vars /\ UNCHANGED announceVars /\ UNCHANGED pictureVars
    BY DEF BesideUpdater, announceVars
  <1>2. Inv' /\ ServedInv' /\ PictureInv'
    BY <1>1, InvSteps, ServedSteps, PictureSteps DEF CachesInv
  <1>3. NewsInv'
    BY <1>1, AgesStep DEF CachesInv
  <1>4. UpdaterInv'
    BY UpdaterSteps DEF CachesInv
  <1>. QED  BY <1>1, <1>2, <1>3, <1>4 DEF CachesInv, UpdaterInv

LEMMA CachesSteps == CachesInv /\ [CachesNext]_cachesVars => CachesInv'
  <1>. SUFFICES ASSUME CachesInv, [CachesNext]_cachesVars PROVE CachesInv'
    OBVIOUS
  <1>1. CASE cached = "worker" /\ Next /\ BesideWorker
    <2>1. /\ cached' = cached /\ held' = held /\ UNCHANGED allVars
          /\ UNCHANGED newsVars /\ UNCHANGED updaterVars
          /\ UNCHANGED pictureVars
      BY <1>1 DEF BesideWorker, newsVars, announceVars, allVars
    <2>2. Inv' /\ ServedInv' /\ NewsInv' /\ PictureInv'
      BY <1>1, <2>1, InvSteps, ServedSteps, NewsSteps, PictureSteps
         DEF CachesInv
    <2>3. UpdaterTyped' /\ UpdaterInv'
      BY <1>1, <2>1, UpdaterTypedStays, UpdaterStays DEF CachesInv
    <2>. QED  BY <1>1, <2>1, <2>2, <2>3 DEF CachesInv
  <1>2. CASE cached = "news" /\ NewsNext /\ BesideNews
    <2>1. /\ cached' = cached /\ UNCHANGED vars
          /\ UNCHANGED updaterVars /\ UNCHANGED pictureVars
      BY <1>2 DEF BesideNews
    <2>2. Inv' /\ ServedInv' /\ NewsInv' /\ PictureInv'
      BY <1>2, <2>1, InvSteps, ServedSteps, NewsSteps, PictureSteps
         DEF CachesInv
    <2>3. UpdaterTyped' /\ NotBegun'
      BY <1>2, <2>1, UpdaterTypedStays, NotBegunStays DEF CachesInv
    <2>. QED  BY <1>2, <2>1, <2>2, <2>3 DEF CachesInv
  <1>3. CASE cached = "listener" /\ BesideUpdater
             /\ (ListenerNext \/ Restarts \/ Forgotten \/ TimePasses)
    BY <1>3, CachesUpdaterStep DEF UpdaterNext
  <1>4. CASE cached = "startup" /\ BesideUpdater
             /\ (StartupNext \/ Restarts \/ Forgotten \/ TimePasses)
    BY <1>4, CachesUpdaterStep DEF UpdaterNext
  <1>5. CASE cached = "pictures" /\ PictureNext /\ BesidePictures
    <2>1. /\ cached' = cached /\ held' = held /\ UNCHANGED allVars
          /\ UNCHANGED vars /\ UNCHANGED newsVars /\ UNCHANGED updaterVars
      BY <1>5 DEF BesidePictures, newsVars, announceVars, allVars
    <2>2. Inv' /\ ServedInv' /\ NewsInv' /\ PictureInv'
      BY <1>5, <2>1, InvSteps, ServedSteps, NewsSteps, PictureSteps
         DEF CachesInv
    <2>3. UpdaterTyped' /\ UpdaterInv'
      BY <1>5, <2>1, UpdaterTypedStays, UpdaterStays DEF CachesInv
    <2>. QED  BY <1>5, <2>1, <2>2, <2>3 DEF CachesInv
  <1>6. CASE UNCHANGED cachesVars
    <2>1. /\ cached' = cached /\ held' = held /\ UNCHANGED allVars
          /\ UNCHANGED vars /\ UNCHANGED newsVars /\ UNCHANGED updaterVars
          /\ UNCHANGED pictureVars
      BY <1>6 DEF cachesVars, newsVars, announceVars, allVars
    <2>2. Inv' /\ ServedInv' /\ NewsInv' /\ PictureInv' /\ UpdaterTyped'
      BY <2>1, InvSteps, ServedSteps, NewsSteps, PictureSteps,
         UpdaterTypedStays DEF CachesInv
    <2>3. /\ cached # "news" => UpdaterInv'
          /\ cached = "news" => NotBegun'
      BY <2>1, UpdaterStays, NotBegunStays DEF CachesInv
    <2>. QED  BY <2>1, <2>2, <2>3 DEF CachesInv
  <1>. QED  BY <1>1, <1>2, <1>3, <1>4, <1>5, <1>6 DEF CachesNext

LEMMA CachesHold == CachesSpec => []CachesInv
  <1>. QED  BY CachesStart, CachesSteps, PTL DEF CachesSpec

LEMMA CachesTypes == CachesInv => CachesTypeOK
  <1>. SUFFICES ASSUME CachesInv PROVE CachesTypeOK
    OBVIOUS
  <1>1. TypeOK /\ NewsTypeOK /\ PictureTypeOK
    BY WorkerTypes DEF CachesInv, NewsInv, PictureInv
  <1>2. UpdaterTypeOK
    BY <1>1 DEF CachesInv, UpdaterTyped, Starts, NewsTypeOK, UpdaterTypeOK
  <1>. QED  BY <1>1, <1>2 DEF CachesTypeOK

LEMMA CachesPromise ==
    CachesInv => /\ SingleFlight /\ HeavyBound
                 /\ NewsInStep /\ UpdatesInStep /\ PicturesInStep
  <1>. SUFFICES ASSUME CachesInv
                PROVE  /\ SingleFlight /\ HeavyBound
                       /\ NewsInStep /\ UpdatesInStep /\ PicturesInStep
    OBVIOUS
  <1>1. UpdatesInStep
    <2>1. CASE NotBegun
      BY <2>1, UpdaterNumbers
         DEF NotBegun, UpdatesInStep, QuietRefreshIsCurrent, OnePassADay,
             SkippedWasUpdated
    <2>. QED  BY <2>1, UpdaterHolds DEF CachesInv
  <1>. QED  BY <1>1, OneTaskHolds, PermitsHold, NewsHolds, PicturesHold
            DEF CachesInv, NewsInStep

(***************************************************************************)
(* The types of the worker, of both caches, of the edits and tasks under   *)
(* way, of the pass and of the pictures, whichever of them is used.        *)
(***************************************************************************)
THEOREM CachesTyping == CachesSpec => []CachesTypeOK
  <1>. QED  BY CachesHold, CachesTypes, PTL

(***************************************************************************)
(* The listener and the pass (core/updater.rs), for every delay, TTL and   *)
(* number of tasks.  A refresh nobody disturbed asks with the session it   *)
(* was sent for: what was cached of the key before is gone when the task   *)
(* wakes, and what is cached since says that session.  Passes begin a day  *)
(* apart unless Redis lost the mark, as a mark in Redis is as young as the *)
(* pass that wrote it; and since a mark that makes one skip was written    *)
(* all maps were updated, or a restart or an error cut that pass short.    *)
(***************************************************************************)
THEOREM UpdatesStayInStep == CachesSpec => []UpdatesInStep
  <1>. QED  BY CachesHold, CachesPromise, PTL

(***************************************************************************)
(* A picture is the url of the player's picture, and "none" is answered    *)
(* only after every provider was asked, for any number of providers and    *)
(* requests: nothing is ever kept where Redis is looked up.                *)
(***************************************************************************)
THEOREM PicturesStayInStep == CachesSpec => []PicturesInStep
  <1>. QED  BY CachesHold, CachesPromise, PTL

(***************************************************************************)
(* What the worker and the announcements promise by themselves they        *)
(* promise beside the other caches.                                        *)
(***************************************************************************)
THEOREM CachesStayInStep ==
    CachesSpec => [](SingleFlight /\ HeavyBound /\ NewsInStep)
  <1>. QED  BY CachesHold, CachesPromise, PTL

(* And what Redis keeps while a request is served is used there, too.      *)
THEOREM CachesServeKept == CachesSpec => CachedIsServed
  <1>1. CachesInv /\ [CachesNext]_cachesVars => [Next]_vars
    BY DEF CachesNext, cachesVars, BesideNews, BesideUpdater, BesidePictures
  <1>2. CachesInv /\ [CachesNext]_cachesVars
          => [\A r \in Requests :
                Answered(r) /\ req'[r].wants
                    => /\ req[r].key \notin req[r].kept
                       /\ Fallback[req[r].key] \in req[r].kept
                             => req[r].backup]_vars
    BY <1>1, ServedSteps DEF CachesInv, AnswersWell
  <1>. QED  BY <1>2, CachesHold, PTL DEF CachesSpec, CachedIsServed
=============================================================================

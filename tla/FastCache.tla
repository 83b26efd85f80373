----------------------------- MODULE FastCache -----------------------------
(***************************************************************************)
(* cached_response of core/utils.rs: a key is looked up in memory (moka)   *)
(* and in Redis; on a miss the caller's query runs, and its result is kept *)
(* in both.  Time passes in ticks; every await is a step boundary, so any  *)
(* number of readers of a key overlap.                                     *)
(***************************************************************************)
EXTENDS Integers

CONSTANTS CacheKeys,
          Readers,     \* calls that may be under way at once
          Bodies,      \* what queries return
          Ttl,         \* of each key in Redis, in ticks
          MemoryTtl,   \* of memory
          MaxDelay,    \* bound: ticks from a call to its answer
          CacheFaults, \* "redis_down", "evict"
          Absent       \* no copy

ASSUME CacheAssumption ==
    /\ Ttl \in [CacheKeys -> Nat \ {0}]
    /\ MemoryTtl \in Nat \ {0}
    /\ MaxDelay \in Nat
    /\ CacheKeys # {} /\ Bodies # {}

VARIABLES
    near,   \* copies in memory, by key
    far,    \* copies in Redis
    read    \* of each reader

cacheVars == <<near, far, read>>

(* age counts the ticks since the query (history), left those it is kept.  *)
Copy == [body : Bodies, age : Nat, left : Nat]

ASSUME AbsentAssumption == Absent \notin Copy

ReadPlaces == {"idle", "redis", "fill", "call", "keep", "store", "done"}

Read == [pc     : ReadPlaces,
         key    : CacheKeys,
         body   : Bodies,
         age    : Nat,
         waited : Nat,
         isNew  : BOOLEAN]      \* is_new of CachedResult

NoRead == [pc |-> "idle", key |-> CHOOSE k \in CacheKeys : TRUE,
           body |-> CHOOSE b \in Bodies : TRUE, age |-> 0, waited |-> 0,
           isNew |-> FALSE]

CacheInit ==
    /\ near = [k \in CacheKeys |-> Absent]
    /\ far = [k \in CacheKeys |-> Absent]
    /\ read = [r \in Readers |-> NoRead]

Reads(r, s) == read' = [read EXCEPT ![r] = s]

Has(copies, k) == copies[k] # Absent

(* memory.get: a hit is the answer. *)
AskCache(r, k) ==
    LET s == [NoRead EXCEPT !.pc = "redis", !.key = k] IN
    /\ read[r].pc = "idle"
    /\ Reads(r, IF Has(near, k)
                THEN [s EXCEPT !.pc = "done", !.body = near[k].body,
                               !.age = near[k].age]
                ELSE s)
    /\ UNCHANGED <<near, far>>

(* No connection, or a command that fails, is a miss. *)
LookInRedis(r) ==
    LET k == read[r].key IN
    /\ read[r].pc = "redis"
    /\ \/ /\ Has(far, k)
          /\ Reads(r, [read[r] EXCEPT !.pc = "fill", !.body = far[k].body,
                                      !.age = far[k].age])
       \/ /\ Has(far, k) => "redis_down" \in CacheFaults
          /\ Reads(r, [read[r] EXCEPT !.pc = "call"])
    /\ UNCHANGED <<near, far>>

CopyOf(r, ttl) ==
    [body |-> read[r].body, age |-> read[r].age, left |-> ttl]

(* memory.insert, of what Redis had or of what the query returned. *)
Keep(r) ==
    /\ read[r].pc \in {"fill", "keep"}
    /\ near' = [near EXCEPT ![read[r].key] = CopyOf(r, MemoryTtl)]
    /\ Reads(r, [read[r] EXCEPT
                    !.pc = IF read[r].pc = "fill" THEN "done" ELSE "store"])
    /\ UNCHANGED far

(* The query returns what is in the database at this moment. *)
CallReturns(r, body) ==
    /\ read[r].pc = "call"
    /\ Reads(r, [read[r] EXCEPT !.pc = "keep", !.body = body, !.age = 0,
                                !.isNew = TRUE])
    /\ UNCHANGED <<near, far>>

(* An error is not kept. *)
CallFails(r) ==
    /\ read[r].pc = "call"
    /\ Reads(r, NoRead)
    /\ UNCHANGED <<near, far>>

\* Mutant: memory is filled after Redis answers, and Redis again after it.
StoreSliding(r) ==
    /\ read[r].pc \in {"store", "done"}
    /\ far' = [far EXCEPT ![read[r].key] = CopyOf(r, Ttl[read[r].key])]
    /\ Reads(r, [read[r] EXCEPT !.pc = "done"])
    /\ UNCHANGED near

(* SET EX; its failure is only logged. *)
Store(r) ==
    /\ read[r].pc = "store"
    /\ \/ far' = [far EXCEPT ![read[r].key] = CopyOf(r, Ttl[read[r].key])]
       \/ "redis_down" \in CacheFaults /\ UNCHANGED far
    /\ Reads(r, [read[r] EXCEPT !.pc = "done"])
    /\ UNCHANGED near

(* The caller has its answer, or goes away at an await. *)
Leave(r) ==
    /\ read[r].pc # "idle"
    /\ Reads(r, NoRead)
    /\ UNCHANGED <<near, far>>

(* moka is at its capacity, or the backend restarts. *)
Evict(k) ==
    /\ "evict" \in CacheFaults
    /\ near' = [near EXCEPT ![k] = Absent]
    /\ UNCHANGED <<far, read>>

Older(c) == [body |-> c.body, age |-> c.age + 1, left |-> c.left - 1]

\* Mutant: nothing expires.
AgedForever(copies) ==
    [k \in CacheKeys |-> IF copies[k] = Absent THEN Absent ELSE Older(copies[k])]

Aged(copies) ==
    [k \in CacheKeys |->
        IF copies[k] = Absent \/ copies[k].left <= 1 THEN Absent
        ELSE Older(copies[k])]

InFlight(r) == read[r].pc # "idle"

CacheTick ==
    /\ \A r \in Readers : InFlight(r) => read[r].waited < MaxDelay
    /\ near' = Aged(near)
    /\ far' = Aged(far)
    /\ read' = [r \in Readers |->
                  IF InFlight(r)
                  THEN [read[r] EXCEPT !.age = @ + 1, !.waited = @ + 1]
                  ELSE read[r]]

CacheStep(r) ==
    \/ \E k \in CacheKeys : AskCache(r, k)
    \/ LookInRedis(r) \/ Keep(r) \/ Store(r) \/ Leave(r)
    \/ CallFails(r) \/ \E body \in Bodies : CallReturns(r, body)

CacheNext ==
    \/ \E r \in Readers : CacheStep(r)
    \/ \E k \in CacheKeys : Evict(k)
    \/ CacheTick

CacheSpec == CacheInit /\ [][CacheNext]_cacheVars

-----------------------------------------------------------------------------
(* The types of the copies and of the calls. *)
CacheTypeOK ==
    /\ near \in [CacheKeys -> Copy \union {Absent}]
    /\ far \in [CacheKeys -> Copy \union {Absent}]
    /\ read \in [Readers -> Read]

(* A copy is last found a tick before it expires, in Redis and then in     *)
(* memory; a call before it was stored, one that carries it from Redis to  *)
(* memory and the one that answers take MaxDelay each at most.             *)
MaxAge(k) == (Ttl[k] - 1) + (MemoryTtl - 1) + 3 * MaxDelay

(***************************************************************************)
(* Nobody is answered with what is older than both TTLs together, though a *)
(* copy goes from Redis to memory when Redis is about to drop it, slow     *)
(* calls store after faster ones and Redis fails.                          *)
(***************************************************************************)
AnswersFresh ==
    \A r \in Readers :
        read[r].pc = "done" => read[r].age <= MaxAge(read[r].key)
=============================================================================

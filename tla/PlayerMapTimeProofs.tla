------------------------ MODULE PlayerMapTimeProofs ------------------------
(***************************************************************************)
(* Type correctness, exclusion by the lock, NothingLost and CountsOnce of  *)
(* PlayerMapTime, that it implements PlaytimeLedger, that a task frees     *)
(* only its own lock, and PlaytimeComplete, for any numbers of tasks,      *)
(* sessions, maps and requests.                                            *)
(***************************************************************************)
EXTENDS PlayerMapTime, TLAPS

\* Names of places, kinds and worker types, so that their sets stay folded.
LEMMA Names ==
    /\ {"idle", "detail_key", "acquire", "read", "playtime", "playtime_key",
        "expire", "worker_key", "plays", "upsert", "save", "release"}
          \subseteq Places
    /\ {"map_played", "detail"} \subseteq Kinds
    /\ {"playermap", "player_playtime"} \subseteq WorkerTypes
  BY DEF Places, Holding, Critical, Kinds, WorkerTypes

LEMMA StartForType ==
    ASSUME TypeOK, NEW t \in WorkerTypes
    PROVE  /\ StartFor(t) \in 0..NumSessions
           /\ StartFor(t) <= ended
           /\ StartFor(t) = NoSession => lastCalc[t] = NoSession
           /\ lastCalc[t] # NoSession => StartFor(t) = lastCalc[t]
           /\ lastCalc[t] = NoSession => StartFor(t) \in {0, 1}
  BY ConstantsAssumption DEF TypeOK, StartFor, NoSession

LEMMA TotalsType ==
    ASSUME TypeOK, NEW plays \in SUBSET Sessions
    PROVE  /\ ReplaceTotals(plays) \in [Maps -> [Sessions -> Nat]]
           /\ AddTotals(plays) \in [Maps -> [Sessions -> Nat]]
  BY ConstantsAssumption DEF TypeOK, ReplaceTotals, AddTotals, Played

LEMMA IdleType == Idle \in Task /\ Idle.end = 0 /\ Idle.pc = "idle"
  BY ConstantsAssumption, Names DEF Idle, Task, NoSession

\* What a task may become: one lemma for each set of fields a step writes.
LEMMA TaskMoves ==
    ASSUME NEW t \in Task, NEW p \in Places
    PROVE  /\ [t EXCEPT !.pc = p] \in Task
           /\ [t EXCEPT !.pc = p].end = t.end
           /\ [t EXCEPT !.pc = p].pc = p
  BY DEF Task

-----------------------------------------------------------------------------
\* Types, and that a task's session key names an ended session.
TypeInv ==
    /\ TypeOK
    /\ \A w \in Workers : task[w].end <= ended

LEMMA BecomeType ==
    ASSUME TypeInv, NEW w \in Workers, NEW t \in Task, t.end <= ended,
           Become(w, t)
    PROVE  task' \in [Workers -> Task] /\ \A v \in Workers : task'[v].end <= ended
  BY DEF TypeInv, TypeOK, Become

LEMMA GotoType ==
    ASSUME TypeInv, NEW w \in Workers, NEW p \in Places, Goto(w, p)
    PROVE  task' \in [Workers -> Task] /\ \A v \in Workers : task'[v].end <= ended
  <1>1. task[w] \in Task /\ task[w].end <= ended
    BY DEF TypeInv, TypeOK
  <1>2. QED
    BY <1>1, TaskMoves, BecomeType DEF Goto

LEMMA TypeInvInit == Init => TypeInv
  <1>1. Init => spoiled \in BOOLEAN
    BY DEF Init
  <1>2. QED
    BY <1>1, ConstantsAssumption, IdleType, Names
    DEF Init, TypeInv, TypeOK, Free, NoSession

LEMMA TypeInvStep == TypeInv /\ [Next]_vars => TypeInv'
  <1> SUFFICES ASSUME TypeInv, [Next]_vars PROVE TypeInv'
    OBVIOUS
  <1> DEFINE TasksTyped == /\ task' \in [Workers -> Task]
                           /\ \A v \in Workers : task'[v].end <= ended
  <1>a. \A w \in Workers : task[w] \in Task /\ task[w].end <= ended
    BY DEF TypeInv, TypeOK
  <1>b. ended \in 0..NumSessions /\ NumSessions \in Nat /\ Idle.end <= ended
    BY ConstantsAssumption, IdleType DEF TypeInv, TypeOK
  <1>1. CASE SessionEnds
    <2>1. \A w \in Workers : task[w].end \in Nat
      BY <1>a DEF Task
    <2>2. QED
      BY <1>1, <1>a, <1>b, <2>1 DEF SessionEnds, TypeInv, TypeOK
  <1>2. ASSUME NEW w \in Workers, NEW kind \in Kinds, NEW key \in SessionKeys,
               Request(w, kind, key)
        PROVE  TypeInv'
    <2>1. key \in 0..NumSessions /\ key <= ended
      BY <1>b DEF SessionKeys
    <2> DEFINE p == IF kind = "detail" THEN "detail_key" ELSE "acquire"
               t == [Idle EXCEPT !.pc = p, !.kind = kind, !.end = key]
    <2>2. p \in Places
      BY Names
    <2>3. t \in Task /\ t.end = key
      <3> HIDE DEF p
      <3>1. QED
        BY <2>1, <2>2, IdleType DEF Task
    <2>4. Become(w, t)
      BY <1>2 DEF Request
    <2>5. TasksTyped
      BY <2>1, <2>3, <2>4, BecomeType
    <2>6. requests' \in 0..MaxRequests
      BY <1>2, ConstantsAssumption DEF Request, TypeInv, TypeOK
    <2>7. QED
      BY <1>2, <2>5, <2>6 DEF Request, TypeInv, TypeOK
  <1>3. ASSUME NEW w \in Workers, Acquire(w) PROVE TypeInv'
    <2>1. CASE LockSetNx(w)
      <3>1. TasksTyped
        BY <2>1, GotoType, Names DEF LockSetNx
      <3>2. QED
        BY <2>1, <3>1 DEF LockSetNx, TypeInv, TypeOK
    <2>2. CASE LockSetTtl(w)
      <3>1. TasksTyped
        BY <2>2, GotoType, Names DEF LockSetTtl
      <3>2. QED
        BY <2>2, <3>1 DEF LockSetTtl, TypeInv, TypeOK
    <2>3. CASE NoLock(w)
      <3> DEFINE t == IF task[w].kind = "detail"
                      THEN [task[w] EXCEPT !.pc = "playtime"] ELSE Idle
      <3>a. t \in Task /\ t.end <= ended
        BY <1>a, <1>b, IdleType, TaskMoves, Names
      <3>b. Become(w, t)
        BY <2>3 DEF NoLock
      <3>1. TasksTyped
        BY <3>a, <3>b, BecomeType
      <3>2. QED
        BY <2>3, <3>1 DEF NoLock, TypeInv, TypeOK
    <2>4. QED
      BY <1>3, <2>1, <2>2, <2>3 DEF Acquire, LockGiveUp, LockTorn
  <1>4. ASSUME NEW w \in Workers, Calculate(w) PROVE TypeInv'
    <2>1. CASE ReadWorkerKey(w)
      <3>1. StartFor("playermap") \in 0..NumSessions
        BY StartForType, Names DEF TypeInv
      <3> DEFINE t == [task[w] EXCEPT
                        !.pc = "plays",
                        !.start = StartFor("playermap"),
                        !.no_data = lastCalc["playermap"] = NoSession]
      <3>a. t \in Task /\ t.end <= ended
        BY <3>1, <1>a, Names DEF Task
      <3>b. Become(w, t)
        BY <2>1 DEF ReadWorkerKey
      <3>2. TasksTyped
        BY <3>a, <3>b, BecomeType
      <3>3. QED
        BY <2>1, <3>2 DEF ReadWorkerKey, TypeInv, TypeOK
    <2>2. CASE ComputePlays(w)
      <3>1. PartialPlays \in SUBSET Sessions
        BY DEF PartialPlays
      <3>2. RangePlays(task[w]) \in SUBSET Sessions
        BY <1>b DEF RangePlays, Sessions
      <3> DEFINE rows == IF task[w].no_data \/ task[w].start # task[w].end
                         THEN RangePlays(task[w]) ELSE {}
                 partial == [task[w] EXCEPT !.pc = "upsert",
                                            !.plays = PartialPlays]
                 range == [task[w] EXCEPT !.pc = "upsert", !.plays = rows]
                 failed == [task[w] EXCEPT !.pc = "release", !.failed = TRUE]
      <3>3. rows \in SUBSET Sessions
        BY <3>2
      <3>4. /\ partial \in Task /\ partial.end <= ended
            /\ range \in Task /\ range.end <= ended
            /\ failed \in Task /\ failed.end <= ended
        BY <3>1, <3>3, <1>a, Names DEF Task
      <3>5. Become(w, partial) \/ Become(w, range) \/ Become(w, failed)
        BY <2>2 DEF ComputePlays
      <3>6. TasksTyped
        BY <3>4, <3>5, BecomeType
      <3>7. QED
        BY <2>2, <3>6 DEF ComputePlays, TypeInv, TypeOK
    <2>3. CASE UpsertTotals(w)
      <3>1. task[w].plays \in SUBSET Sessions
        BY <1>a DEF Task
      <3>2. mapTime' \in [Maps -> [Sessions -> Nat]]
        BY <2>3, <3>1, TotalsType DEF UpsertTotals, TypeInv
      <3>3. TasksTyped
        BY <2>3, GotoType, Names DEF UpsertTotals
      <3>4. QED
        BY <2>3, <3>2, <3>3 DEF UpsertTotals, TypeInv, TypeOK
    <2>4. CASE SaveProgress(w)
      <3>1. TasksTyped
        BY <2>4, GotoType, Names DEF SaveProgress
      <3>2. task[w].end \in 0..ended
        BY <1>a, <1>b DEF Task
      <3>3. QED
        BY <2>4, <3>1, <3>2 DEF SaveProgress, TypeInv, TypeOK
    <2>5. CASE CalculationFails(w)
      <3> DEFINE t == [task[w] EXCEPT !.pc = "release", !.failed = TRUE]
      <3>a. t \in Task /\ t.end <= ended
        BY <1>a, Names DEF Task
      <3>b. Become(w, t)
        BY <2>5 DEF CalculationFails
      <3>1. TasksTyped
        BY <3>a, <3>b, BecomeType
      <3>2. QED
        BY <2>5, <3>1 DEF CalculationFails, TypeInv, TypeOK
    <2>6. CASE LockRelease(w)
      <3> DEFINE t == IF task[w].failed THEN Idle
                      ELSE [task[w] EXCEPT !.pc = "read"]
      <3>a. t \in Task /\ t.end <= ended
        BY <1>a, <1>b, IdleType, TaskMoves, Names
      <3>b. Become(w, t)
        BY <2>6 DEF LockRelease
      <3>1. TasksTyped
        BY <3>a, <3>b, BecomeType
      <3> DEFINE Locks == [holder : Workers \union {Nobody}, ttl : BOOLEAN]
      <3>c. Free \in Locks /\ lock \in Locks
        BY DEF Free, TypeInv, TypeOK
      <3>d. lock' = Free \/ lock' = lock
        BY <2>6 DEF LockRelease
      <3>2. lock' \in Locks
        BY <3>c, <3>d
      <3>3. QED
        BY <2>6, <3>1, <3>2 DEF LockRelease, TypeInv, TypeOK
    <2>7. QED
      BY <1>4, <2>1, <2>2, <2>3, <2>4, <2>5, <2>6 DEF Calculate
  <1>5. ASSUME NEW w \in Workers, Detail(w) PROVE TypeInv'
    <2>1. CASE DetailReadKey(w)
      <3> DEFINE t == [task[w] EXCEPT
                        !.pc = "acquire",
                        !.fresh = StartFor("player_playtime") = NoSession]
      <3>a. t \in Task /\ t.end <= ended
        BY <1>a, Names DEF Task
      <3>b. Become(w, t)
        BY <2>1 DEF DetailReadKey
      <3>1. TasksTyped
        BY <3>a, <3>b, BecomeType
      <3>2. QED
        BY <2>1, <3>1 DEF DetailReadKey, TypeInv, TypeOK
    <2>2. CASE ReadTotals(w)
      <3> DEFINE t == IF task[w].kind = "map_played" THEN Idle
                      ELSE [task[w] EXCEPT
                              !.pc = "playtime",
                              !.seen = {s \in Sessions : Counted(s)}]
      <3>a. t \in Task /\ t.end <= ended
        BY <1>a, <1>b, IdleType, Names DEF Task
      <3>b. Become(w, t)
        BY <2>2 DEF ReadTotals
      <3>1. TasksTyped
        BY <3>a, <3>b, BecomeType
      <3>2. QED
        BY <2>2, <3>1 DEF ReadTotals, TypeInv, TypeOK
    <2>3. CASE UpsertPlaytime(w)
      <3> DEFINE t == IF task[w].fresh THEN Idle
                      ELSE [task[w] EXCEPT !.pc = "playtime_key"]
      <3>a. t \in Task /\ t.end <= ended
        BY <1>a, <1>b, IdleType, TaskMoves, Names
      <3>b. Become(w, t)
        BY <2>3 DEF UpsertPlaytime
      <3>1. TasksTyped
        BY <3>a, <3>b, BecomeType
      <3>2. task[w].seen \in SUBSET Sessions
        BY <1>a DEF Task
      <3>3. QED
        BY <2>3, <3>1, <3>2 DEF UpsertPlaytime, TypeInv, TypeOK
    <2>4. CASE SavePlaytimeKey(w)
      <3>1. TasksTyped
        BY <2>4, <1>b, IdleType, BecomeType DEF SavePlaytimeKey
      <3>2. task[w].end \in 0..ended
        BY <1>a, <1>b DEF Task
      <3>3. QED
        BY <2>4, <3>1, <3>2 DEF SavePlaytimeKey, TypeInv, TypeOK
    <2>5. QED
      BY <1>5, <2>1, <2>2, <2>3, <2>4 DEF Detail
  <1>6. CASE LockExpires
    BY <1>6 DEF LockExpires, Free, TypeInv, TypeOK
  <1>7. CASE Restart
    BY <1>7, <1>b, IdleType DEF Restart, TypeInv, TypeOK
  <1>8. CASE UNCHANGED vars
    BY <1>8 DEF vars, TypeInv, TypeOK
  <1>9. QED
    BY <1>1, <1>2, <1>3, <1>4, <1>5, <1>6, <1>7, <1>8 DEF Next

\* The tables, the lock and the tasks keep their types, whatever faults occur.
THEOREM Typing == Spec => []TypeOK
  <1>1. Init => TypeInv
    BY TypeInvInit
  <1>2. TypeInv => TypeOK
    BY DEF TypeInv
  <1>3. QED
    BY <1>1, <1>2, TypeInvStep, PTL DEF Spec

-----------------------------------------------------------------------------
(* Exclusion.  While no calculation outlives its lock, a task between      *)
(* acquire and release holds the key, and a key without a TTL belongs to   *)
(* the task that is about to set it.                                       *)
HolderInv ==
    \A w \in Workers :
       /\ task[w].pc \in Holding => lock.holder = w
       /\ task[w].pc = "expire" => ~lock.ttl

\* A task's next place decides whether its part of HolderInv can break.
LEMMA BecomeAt ==
    ASSUME TypeInv, NEW w \in Workers, NEW t, Become(w, t)
    PROVE  /\ task'[w] = t
           /\ \A v \in Workers \ {w} : task'[v] = task[v]
  BY DEF TypeInv, TypeOK, Become

LEMMA GotoAt ==
    ASSUME TypeInv, NEW w \in Workers, NEW p \in Places, Goto(w, p)
    PROVE  /\ task'[w] = [task[w] EXCEPT !.pc = p]
           /\ task'[w].pc = p
           /\ \A v \in Workers \ {w} : task'[v] = task[v]
  <1>1. task[w] \in Task
    BY DEF TypeInv, TypeOK
  <1> DEFINE t == [task[w] EXCEPT !.pc = p]
  <1>2. Become(w, t)
    BY DEF Goto
  <1>3. t.pc = p
    BY <1>1, TaskMoves
  <1>4. task'[w] = t /\ \A v \in Workers \ {w} : task'[v] = task[v]
    BY <1>2, BecomeAt
  <1>5. QED
    BY <1>3, <1>4

LEMMA DetailMoves ==
    ASSUME TypeInv, NEW w \in Workers, Detail(w)
    PROVE  /\ task'[w].pc \in {"acquire", "idle", "playtime", "playtime_key"}
           /\ \A v \in Workers \ {w} : task'[v] = task[v]
  <1>a. task[w] \in Task
    BY DEF TypeInv, TypeOK
  <1>c. Idle.pc = "idle"
    BY IdleType
  <1>1. CASE DetailReadKey(w)
    <2> DEFINE t == [task[w] EXCEPT
                      !.pc = "acquire",
                      !.fresh = StartFor("player_playtime") = NoSession]
    <2>1. t.pc = "acquire"
      BY <1>a DEF Task
    <2>2. QED
      BY <1>1, <2>1, BecomeAt DEF DetailReadKey
  <1>2. CASE ReadTotals(w)
    <2> DEFINE t == IF task[w].kind = "map_played" THEN Idle
                    ELSE [task[w] EXCEPT
                            !.pc = "playtime",
                            !.seen = {s \in Sessions : Counted(s)}]
    <2>1. t.pc \in {"idle", "playtime"}
      BY <1>a, <1>c DEF Task
    <2>2. QED
      BY <1>2, <2>1, BecomeAt DEF ReadTotals
  <1>3. CASE UpsertPlaytime(w)
    <2> DEFINE t == IF task[w].fresh THEN Idle
                    ELSE [task[w] EXCEPT !.pc = "playtime_key"]
    <2>1. t.pc \in {"idle", "playtime_key"}
      BY <1>a, <1>c, TaskMoves, Names
    <2>2. QED
      BY <1>3, <2>1, BecomeAt DEF UpsertPlaytime
  <1>4. CASE SavePlaytimeKey(w)
    BY <1>4, <1>c, BecomeAt DEF SavePlaytimeKey
  <1>5. QED
    BY <1>1, <1>2, <1>3, <1>4 DEF Detail

LEMMA HolderStep ==
    ASSUME "slow" \notin Faults \/ ~spoiled', TypeInv, HolderInv, [Next]_vars
    PROVE  HolderInv'
  <1>a. \A w \in Workers : task[w] \in Task
    BY DEF TypeInv, TypeOK
  <1>b. /\ "idle" \notin Holding /\ "acquire" \notin Holding
        /\ "detail_key" \notin Holding /\ "read" \notin Holding
        /\ "playtime" \notin Holding /\ "playtime_key" \notin Holding
        /\ "expire" \in Holding /\ "expire" \notin Critical
        /\ Holding = Critical \union {"expire"}
    BY DEF Holding, Critical
  <1>c. Idle.pc = "idle"
    BY IdleType
  \* A step that leaves the lock alone and does not enter Holding is harmless.
  <1>d. ASSUME NEW w \in Workers, UNCHANGED lock,
               \A v \in Workers \ {w} : task'[v] = task[v],
               task'[w].pc \in Holding => task[w].pc \in Holding,
               task'[w].pc # "expire"
        PROVE  HolderInv'
    BY <1>d, HolderInv DEF HolderInv
  <1>1. CASE SessionEnds
    BY <1>1, HolderInv DEF SessionEnds, HolderInv
  <1>2. ASSUME NEW w \in Workers, NEW kind \in Kinds, NEW key \in SessionKeys,
               Request(w, kind, key)
        PROVE  HolderInv'
    <2> DEFINE p == IF kind = "detail" THEN "detail_key" ELSE "acquire"
               t == [Idle EXCEPT !.pc = p, !.kind = kind, !.end = key]
    <2>1. t.pc \in {"detail_key", "acquire"}
      BY IdleType DEF Task
    <2>2. Become(w, t) /\ UNCHANGED lock
      BY <1>2 DEF Request
    <2>3. task'[w] = t /\ \A v \in Workers \ {w} : task'[v] = task[v]
      BY <2>2, BecomeAt
    <2>4. task'[w].pc \in {"detail_key", "acquire"}
      BY <2>1, <2>3
    <2>5. QED
      BY <1>b, <1>d, <2>2, <2>3, <2>4
  <1>3. ASSUME NEW w \in Workers, Acquire(w) PROVE HolderInv'
    <2>1. CASE LockSetNx(w)
      <3>1. \A v \in Workers : task[v].pc \notin Holding
        BY <2>1, ConstantsAssumption, HolderInv DEF LockSetNx, Free, HolderInv
      <3>2. task'[w].pc = "expire" /\ \A v \in Workers \ {w} : task'[v] = task[v]
        BY <2>1, GotoAt, Names DEF LockSetNx
      <3>3. lock'.holder = w /\ ~lock'.ttl
        BY <2>1 DEF LockSetNx
      <3>4. QED
        BY <3>1, <3>2, <3>3, <1>b DEF HolderInv
    <2>2. CASE LockSetTtl(w)
      <3>1. task[w].pc = "expire" /\ lock.holder = w
        BY <2>2, <1>b, HolderInv DEF LockSetTtl, At, HolderInv
      <3>2. task'[w].pc = "worker_key"
            /\ \A v \in Workers \ {w} : task'[v] = task[v]
        BY <2>2, GotoAt, Names DEF LockSetTtl
      <3>3. lock'.holder = w
        BY <2>2, <3>1 DEF LockSetTtl, TypeInv, TypeOK
      <3>4. \A v \in Workers \ {w} : task[v].pc \notin Holding
        BY <3>1, HolderInv DEF HolderInv
      <3>5. QED
        BY <3>2, <3>3, <3>4, <1>b DEF HolderInv
    <2>3. CASE NoLock(w)
      <3> DEFINE t == IF task[w].kind = "detail"
                      THEN [task[w] EXCEPT !.pc = "playtime"] ELSE Idle
      <3>1. t.pc \in {"playtime", "idle"}
        BY <1>a, <1>c, TaskMoves, Names
      <3>2. Become(w, t) /\ UNCHANGED lock
        BY <2>3 DEF NoLock
      <3>3. task'[w] = t /\ \A v \in Workers \ {w} : task'[v] = task[v]
        BY <3>2, BecomeAt
      <3>4. QED
        BY <1>b, <1>d, <3>1, <3>2, <3>3
    <2>4. QED
      BY <1>3, <2>1, <2>2, <2>3 DEF Acquire, LockGiveUp, LockTorn
  <1>4. ASSUME NEW w \in Workers, Calculate(w) PROVE HolderInv'
    <2>1. CASE LockRelease(w)
      <3>1. lock.holder = w
        BY <2>1, HolderInv DEF LockRelease, At, HolderInv, Holding, Critical
      <3>2. \A v \in Workers \ {w} : task[v].pc \notin Holding
        BY <3>1, HolderInv DEF HolderInv
      <3> DEFINE t == IF task[w].failed THEN Idle
                      ELSE [task[w] EXCEPT !.pc = "read"]
      <3>3. t.pc \in {"idle", "read"}
        BY <1>a, <1>c, TaskMoves, Names
      <3>4. task'[w] = t /\ \A v \in Workers \ {w} : task'[v] = task[v]
        BY <2>1, BecomeAt DEF LockRelease
      <3>5. QED
        BY <3>2, <3>3, <3>4, <1>b DEF HolderInv
    <2>2. CASE ~LockRelease(w)
      <3>1. UNCHANGED lock /\ task[w].pc \in Critical
        BY <1>4, <2>2 DEF Calculate, ReadWorkerKey, ComputePlays, UpsertTotals,
           SaveProgress, CalculationFails, At, Critical
      <3>2. /\ task'[w].pc # "expire"
            /\ \A v \in Workers \ {w} : task'[v] = task[v]
        <4>1. CASE ReadWorkerKey(w)
          <5> DEFINE t == [task[w] EXCEPT
                            !.pc = "plays",
                            !.start = StartFor("playermap"),
                            !.no_data = lastCalc["playermap"] = NoSession]
          <5>1. t.pc = "plays"
            BY <1>a DEF Task
          <5>2. QED
            BY <4>1, <5>1, BecomeAt DEF ReadWorkerKey
        <4>2. CASE ComputePlays(w)
          <5> DEFINE rows == IF task[w].no_data \/ task[w].start # task[w].end
                             THEN RangePlays(task[w]) ELSE {}
                     partial == [task[w] EXCEPT !.pc = "upsert",
                                                !.plays = PartialPlays]
                     range == [task[w] EXCEPT !.pc = "upsert", !.plays = rows]
                     failed == [task[w] EXCEPT !.pc = "release",
                                               !.failed = TRUE]
          <5>1. /\ partial.pc = "upsert" /\ range.pc = "upsert"
                /\ failed.pc = "release"
            BY <1>a DEF Task
          <5>2. Become(w, partial) \/ Become(w, range) \/ Become(w, failed)
            BY <4>2 DEF ComputePlays
          <5>3. QED
            BY <5>1, <5>2, BecomeAt
        <4>3. CASE UpsertTotals(w)
          BY <4>3, GotoAt, Names DEF UpsertTotals
        <4>4. CASE SaveProgress(w)
          BY <4>4, GotoAt, Names DEF SaveProgress
        <4>5. CASE CalculationFails(w)
          <5> DEFINE t == [task[w] EXCEPT !.pc = "release", !.failed = TRUE]
          <5>1. t.pc = "release"
            BY <1>a DEF Task
          <5>2. QED
            BY <4>5, <5>1, BecomeAt DEF CalculationFails
        <4>6. QED
          BY <1>4, <2>2, <4>1, <4>2, <4>3, <4>4, <4>5 DEF Calculate
      <3>3. QED
        BY <1>b, <1>d, <3>1, <3>2
    <2>3. QED
      BY <2>1, <2>2
  <1>5. ASSUME NEW w \in Workers, Detail(w) PROVE HolderInv'
    <2>1. UNCHANGED lock
      BY <1>5 DEF Detail, DetailReadKey, ReadTotals, UpsertPlaytime,
         SavePlaytimeKey
    <2>2. /\ task'[w].pc \in {"acquire", "idle", "playtime", "playtime_key"}
          /\ \A v \in Workers \ {w} : task'[v] = task[v]
      BY <1>5, DetailMoves
    <2>3. QED
      BY <1>b, <1>d, <2>1, <2>2
  <1>6. CASE LockExpires
    <2>1. task[lock.holder].pc \notin Critical /\ lock.ttl
      BY <1>6 DEF LockExpires
    <2>2. \A w \in Workers : task[w].pc \notin Holding
      BY <2>1, <1>b, HolderInv DEF HolderInv
    <2>3. QED
      BY <1>6, <2>2, <1>b DEF LockExpires, HolderInv
  <1>7. CASE Restart
    BY <1>7, <1>b, <1>c DEF Restart, HolderInv
  <1>8. CASE UNCHANGED vars
    BY <1>8, HolderInv DEF vars, HolderInv
  <1>9. QED
    BY <1>1, <1>2, <1>3, <1>4, <1>5, <1>6, <1>7, <1>8 DEF Next

\* The lock excludes: whoever is between acquire and release holds the key,
\* unless a calculation outlives its lock.
THEOREM Exclusion == Spec => []LockExcludes
  <1> DEFINE Held == "slow" \notin Faults => HolderInv
  <1>1. Init => TypeInv /\ Held
    <2>1. Init => TypeInv
      BY TypeInvInit
    <2>2. Init => HolderInv
      BY IdleType DEF Init, HolderInv, Holding, Critical
    <2>3. QED
      BY <2>1, <2>2
  <1>2. TypeInv /\ Held /\ [Next]_vars => TypeInv' /\ Held'
    BY TypeInvStep, HolderStep
  <1>3. TypeInv /\ Held => LockExcludes
    BY DEF HolderInv, LockExcludes
  <1> HIDE DEF Held
  <1>4. QED
    BY <1>1, <1>2, <1>3, PTL DEF Spec

-----------------------------------------------------------------------------
(* Nothing lost.  While a task calculates, last_calculated is still what   *)
(* it read; the rows it is about to write cover every session up to its    *)
(* end that the stored totals do not; and when it saves its progress those *)
(* sessions are in the totals.                                             *)
CoversTo(t) ==
    \A s \in Sessions : s <= t.end => s \in t.plays \/ (~t.no_data /\ s <= t.start)

CalcInv(t) ==
    /\ t.pc \in {"plays", "upsert", "save"} =>
          /\ t.no_data => lastCalc["playermap"] = NoSession
          /\ ~t.no_data => t.start = lastCalc["playermap"]
          /\ t.no_data => t.start \in {0, 1}
    /\ t.pc = "upsert" /\ t.start # NoSession => CoversTo(t)
    /\ t.pc = "save" => \A s \in Sessions : s <= t.end => Counted(s)

Safe ==
    /\ \A s \in Sessions : s <= lastCalc["playermap"] => Counted(s)
    /\ \A w \in Workers : CalcInv(task[w])

Calculating == {"plays", "upsert", "save"}

LEMMA SafeFrame ==
    ASSUME TypeInv, Safe, NEW w \in Workers, UNCHANGED mapTime,
           lastCalc'["playermap"] = lastCalc["playermap"],
           \A v \in Workers \ {w} : task'[v] = task[v],
           CalcInv(task[w])'
    PROVE  Safe'
  <1>1. \A s \in Sessions : Counted(s)' = Counted(s)
    BY DEF Counted
  <1>2. ASSUME NEW v \in Workers \ {w} PROVE CalcInv(task[v])'
    <2>1. CalcInv(task[v]) /\ task'[v] = task[v]
      BY DEF Safe
    <2>2. QED
      BY <1>1, <2>1 DEF CalcInv, CoversTo
  <1>3. \A v \in Workers : CalcInv(task[v])'
    BY <1>2
  <1>4. QED
    BY <1>1, <1>3 DEF Safe

\* What the three steps that do the work leave behind in the task.
LEMMA CalculateMoves ==
    ASSUME TypeInv, NEW w \in Workers
    PROVE  /\ ReadWorkerKey(w) =>
                /\ task'[w].pc = "plays"
                /\ task'[w].start = StartFor("playermap")
                /\ task'[w].no_data = (lastCalc["playermap"] = NoSession)
           /\ ComputePlays(w) =>
                /\ task'[w].end = task[w].end
                /\ task'[w].start = task[w].start
                /\ task'[w].no_data = task[w].no_data
                /\ \/ task'[w].pc = "release"
                   \/ task'[w].pc = "upsert" /\ task[w].start = NoSession
                   \/ /\ task'[w].pc = "upsert"
                      /\ task'[w].plays =
                            IF task[w].no_data \/ task[w].start # task[w].end
                            THEN RangePlays(task[w]) ELSE {}
           /\ UpsertTotals(w) =>
                /\ task'[w] = [task[w] EXCEPT !.pc =
                                  IF task[w].start = NoSession
                                  THEN "release" ELSE "save"]
                /\ task'[w].end = task[w].end
                /\ task'[w].start = task[w].start
                /\ task'[w].no_data = task[w].no_data
                /\ task'[w].pc \in {"release", "save"}
                /\ task'[w].pc = "save" => task[w].start # NoSession
  <1>a. task[w] \in Task
    BY DEF TypeInv, TypeOK
  <1>1. ASSUME ReadWorkerKey(w)
        PROVE  /\ task'[w].pc = "plays"
               /\ task'[w].start = StartFor("playermap")
               /\ task'[w].no_data = (lastCalc["playermap"] = NoSession)
    <2> DEFINE t == [task[w] EXCEPT
                      !.pc = "plays",
                      !.start = StartFor("playermap"),
                      !.no_data = lastCalc["playermap"] = NoSession]
    <2>1. task'[w] = t
      BY <1>1, BecomeAt DEF ReadWorkerKey
    <2>2. /\ t.pc = "plays" /\ t.start = StartFor("playermap")
          /\ t.no_data = (lastCalc["playermap"] = NoSession)
      BY <1>a DEF Task
    <2>3. QED
      BY <2>1, <2>2
  <1>2. ASSUME ComputePlays(w)
        PROVE  /\ task'[w].end = task[w].end
               /\ task'[w].start = task[w].start
               /\ task'[w].no_data = task[w].no_data
               /\ \/ task'[w].pc = "release"
                  \/ task'[w].pc = "upsert" /\ task[w].start = NoSession
                  \/ /\ task'[w].pc = "upsert"
                     /\ task'[w].plays =
                           IF task[w].no_data \/ task[w].start # task[w].end
                           THEN RangePlays(task[w]) ELSE {}
    <2> DEFINE rows == IF task[w].no_data \/ task[w].start # task[w].end
                       THEN RangePlays(task[w]) ELSE {}
               partial == [task[w] EXCEPT !.pc = "upsert",
                                          !.plays = PartialPlays]
               range == [task[w] EXCEPT !.pc = "upsert", !.plays = rows]
               failed == [task[w] EXCEPT !.pc = "release", !.failed = TRUE]
    <2>1. \/ Become(w, partial) /\ task[w].start = NoSession
          \/ Become(w, range)
          \/ Become(w, failed)
      BY <1>2 DEF ComputePlays
    <2>2. \/ task'[w] = partial /\ task[w].start = NoSession
          \/ task'[w] = range
          \/ task'[w] = failed
      BY <2>1, BecomeAt
    <2>3. /\ partial.pc = "upsert" /\ range.pc = "upsert"
          /\ failed.pc = "release" /\ range.plays = rows
          /\ partial.end = task[w].end /\ partial.start = task[w].start
          /\ partial.no_data = task[w].no_data
          /\ range.end = task[w].end /\ range.start = task[w].start
          /\ range.no_data = task[w].no_data
          /\ failed.end = task[w].end /\ failed.start = task[w].start
          /\ failed.no_data = task[w].no_data
      BY <1>a DEF Task
    <2>4. QED
      BY <2>2, <2>3
  <1>3. ASSUME UpsertTotals(w)
        PROVE  /\ task'[w] = [task[w] EXCEPT !.pc =
                                 IF task[w].start = NoSession
                                 THEN "release" ELSE "save"]
               /\ task'[w].end = task[w].end
               /\ task'[w].start = task[w].start
               /\ task'[w].no_data = task[w].no_data
               /\ task'[w].pc \in {"release", "save"}
               /\ task'[w].pc = "save" => task[w].start # NoSession
    <2> DEFINE p == IF task[w].start = NoSession THEN "release" ELSE "save"
               t == [task[w] EXCEPT !.pc = p]
    <2>1. Become(w, t)
      BY <1>3 DEF UpsertTotals, Goto
    <2>2. task'[w] = t
      BY <2>1, BecomeAt
    <2>3. /\ t.pc = p /\ t.end = task[w].end /\ t.start = task[w].start
          /\ t.no_data = task[w].no_data
      BY <1>a DEF Task
    <2>4. QED
      BY <2>2, <2>3
  <1>4. QED
    BY <1>1, <1>2, <1>3

\* The first k sessions are in the totals.
Covered(k) == \A s \in Sessions : s <= k => Counted(s)

\* Upserting rows that cover a task's sessions, beside those that are counted,
\* counts them all.
LEMMA UpsertCovers ==
    ASSUME TypeInv, NEW w \in Workers, UpsertTotals(w),
           task[w].start # NoSession, CoversTo(task[w]),
           ~task[w].no_data => Covered(task[w].start),
           NEW s \in Sessions, s <= task[w].end
    PROVE  Counted(s)'
  <1> DEFINE t == task[w]
  <1>a. /\ mapTime \in [Maps -> [Sessions -> Nat]]
        /\ MapsOf \in [Sessions -> SUBSET Maps]
        /\ Sessions \subseteq Nat
    BY ConstantsAssumption, Names DEF TypeInv, TypeOK, Sessions
  <1>c. s \in t.plays \/ (~t.no_data /\ s <= t.start)
    BY DEF CoversTo
  <1>1. CASE t.no_data
    <2>1. mapTime' = ReplaceTotals(t.plays)
      BY <1>1 DEF UpsertTotals
    <2>2. s \in t.plays
      BY <1>1, <1>c
    <2>3. ASSUME NEW m \in MapsOf[s] PROVE mapTime'[m][s] > 0
      <3>1. HasRow(t.plays, m) /\ m \in Maps
        BY <1>a, <2>2 DEF HasRow
      <3>2. mapTime'[m][s] = Played(t.plays, m, s)
        BY <2>1, <3>1 DEF ReplaceTotals
      <3>3. QED
        BY <2>2, <3>2 DEF Played
    <2>4. QED
      BY <2>3 DEF Counted
  <1>2. CASE ~t.no_data
    <2>1. mapTime' = AddTotals(t.plays)
      BY <1>2 DEF UpsertTotals
    <2>2. s \in t.plays \/ Counted(s)
      BY <1>2, <1>c DEF Covered
    <2>3. ASSUME NEW m \in MapsOf[s] PROVE mapTime'[m][s] > 0
      <3>1. m \in Maps /\ mapTime[m][s] \in Nat
        BY <1>a
      <3>2. mapTime'[m][s] = mapTime[m][s] + Played(t.plays, m, s)
        BY <2>1, <3>1 DEF AddTotals
      <3>3. s \notin t.plays => mapTime[m][s] > 0
        BY <2>2 DEF Counted
      <3>4. QED
        BY <3>1, <3>2, <3>3 DEF Played
    <2>4. QED
      BY <2>3 DEF Counted
  <1>3. QED
    BY <1>1, <1>2

\* Upserting rows leaves nothing counted uncounted that the task vouches for.
LEMMA UpsertCounts ==
    ASSUME TypeInv, NEW w \in Workers, CalcInv(task[w]), Safe,
           UpsertTotals(w), task[w].start # NoSession,
           NEW s \in Sessions, s <= task[w].end
    PROVE  Counted(s)'
  <1>1. task[w].pc = "upsert"
    BY DEF UpsertTotals, At
  <1>2. CoversTo(task[w]) /\ (~task[w].no_data => Covered(task[w].start))
    BY <1>1 DEF CalcInv, Safe, Covered
  <1>3. QED
    BY <1>2, UpsertCovers

\* Upserting never uncounts what last_calculated covers.
LEMMA UpsertKeeps ==
    ASSUME TypeInv, NEW w \in Workers, CalcInv(task[w]), Safe,
           UpsertTotals(w),
           NEW s \in Sessions, s <= lastCalc["playermap"]
    PROVE  Counted(s)'
  <1> DEFINE t == task[w]
  <1>a. /\ mapTime \in [Maps -> [Sessions -> Nat]]
        /\ MapsOf \in [Sessions -> SUBSET Maps]
        /\ s \in Nat /\ s > 0
    BY ConstantsAssumption DEF TypeInv, TypeOK, Sessions
  <1>b. t.pc = "upsert" /\ lastCalc["playermap"] # NoSession
    BY <1>a DEF UpsertTotals, At, NoSession
  <1>c. ~t.no_data /\ t.start # NoSession
    BY <1>b DEF CalcInv
  <1>1. mapTime' = AddTotals(t.plays)
    BY <1>c DEF UpsertTotals
  <1>2. ASSUME NEW m \in MapsOf[s] PROVE mapTime'[m][s] > 0
    <2>1. m \in Maps /\ mapTime[m][s] \in Nat /\ mapTime[m][s] > 0
      BY <1>a DEF Safe, Counted
    <2>2. mapTime'[m][s] = mapTime[m][s] + Played(t.plays, m, s)
      BY <1>1, <2>1 DEF AddTotals
    <2>3. QED
      BY <2>1, <2>2 DEF Played
  <1>3. QED
    BY <1>2 DEF Counted

LEMMA SafeStep ==
    ASSUME TypeInv, HolderInv, Safe, [Next]_vars
    PROVE  Safe'
  <1>a. \A w \in Workers : task[w] \in Task
    BY DEF TypeInv, TypeOK
  <1>b. /\ Idle.pc \notin Calculating
        /\ {"release", "read", "idle", "acquire", "detail_key", "expire",
            "worker_key", "playtime", "playtime_key"}
              \intersect Calculating = {}
    BY IdleType DEF Calculating
  \* While w holds the lock the other tasks are not calculating.
  <1>c. ASSUME NEW w \in Workers, task[w].pc \in Holding,
               NEW v \in Workers \ {w}
        PROVE  task[v].pc \notin Calculating
    BY <1>c DEF HolderInv, Holding, Critical, Calculating
  \* A step of w that leaves the totals and progress alone, and w elsewhere.
  <1>d. ASSUME NEW w \in Workers, UNCHANGED mapTime,
               lastCalc'["playermap"] = lastCalc["playermap"],
               \A v \in Workers \ {w} : task'[v] = task[v],
               task'[w].pc \notin Calculating
        PROVE  Safe'
    <2>1. CalcInv(task[w])'
      BY <1>d DEF CalcInv, Calculating
    <2>2. QED
      BY <1>d, <2>1, SafeFrame
  <1>e. ASSUME UNCHANGED <<mapTime, lastCalc, task>> PROVE Safe'
    BY <1>e DEF Safe, CalcInv, CoversTo, Counted
  <1>1. CASE SessionEnds
    BY <1>1, <1>e DEF SessionEnds
  <1>2. ASSUME NEW w \in Workers, NEW kind \in Kinds, NEW key \in SessionKeys,
               Request(w, kind, key)
        PROVE  Safe'
    <2> DEFINE p == IF kind = "detail" THEN "detail_key" ELSE "acquire"
               t == [Idle EXCEPT !.pc = p, !.kind = kind, !.end = key]
    <2>1. t.pc \in {"detail_key", "acquire"}
      BY IdleType DEF Task
    <2>2. task'[w] = t /\ \A v \in Workers \ {w} : task'[v] = task[v]
      BY <1>2, BecomeAt DEF Request
    <2>3. task'[w].pc \notin Calculating
      BY <2>1, <2>2, <1>b
    <2>4. QED
      BY <1>2, <1>d, <2>2, <2>3 DEF Request
  <1>3. ASSUME NEW w \in Workers, Acquire(w) PROVE Safe'
    <2>1. CASE LockSetNx(w)
      BY <2>1, <1>b, <1>d, GotoAt, Names DEF LockSetNx
    <2>2. CASE LockSetTtl(w)
      BY <2>2, <1>b, <1>d, GotoAt, Names DEF LockSetTtl
    <2>3. CASE NoLock(w)
      <3> DEFINE t == IF task[w].kind = "detail"
                      THEN [task[w] EXCEPT !.pc = "playtime"] ELSE Idle
      <3>1. t.pc \in {"playtime", "idle"}
        BY <1>a, IdleType, TaskMoves, Names
      <3>2. task'[w] = t /\ \A v \in Workers \ {w} : task'[v] = task[v]
        BY <2>3, BecomeAt DEF NoLock
      <3>3. task'[w].pc \notin Calculating
        BY <3>1, <3>2, <1>b
      <3>4. QED
        BY <2>3, <3>2, <3>3, <1>d DEF NoLock
    <2>4. QED
      BY <1>3, <2>1, <2>2, <2>3 DEF Acquire, LockGiveUp, LockTorn
  <1>4. ASSUME NEW w \in Workers, Calculate(w) PROVE Safe'
    <2>a. task[w].pc \in Holding /\ CalcInv(task[w])
      BY <1>4 DEF Calculate, ReadWorkerKey, ComputePlays, UpsertTotals,
         SaveProgress, CalculationFails, LockRelease, At, Holding, Critical,
         Safe
    <2>b. \A v \in Workers \ {w} : task[v].pc \notin Calculating
      BY <2>a, <1>c
    <2>1. CASE ReadWorkerKey(w)
      <3>1. \A v \in Workers \ {w} : task'[v] = task[v]
        BY <2>1, BecomeAt DEF ReadWorkerKey
      <3>2. UNCHANGED <<mapTime, lastCalc>>
        BY <2>1 DEF ReadWorkerKey
      <3>3. CalcInv(task[w])'
        BY <2>1, <3>2, CalculateMoves, StartForType, Names
        DEF CalcInv, TypeInv, NoSession
      <3>4. QED
        BY <3>1, <3>2, <3>3, SafeFrame
    <2>2. CASE ComputePlays(w)
      <3> DEFINE t == task[w]
      <3>1. \A v \in Workers \ {w} : task'[v] = task[v]
        BY <2>2, BecomeAt DEF ComputePlays
      <3>2. UNCHANGED <<mapTime, lastCalc>> /\ t.pc = "plays"
        BY <2>2 DEF ComputePlays, At
      <3>3. /\ t.end \in Nat /\ t.end <= ended /\ ended \in Nat
            /\ t.start \in Nat
        BY <1>a, ConstantsAssumption DEF TypeInv, TypeOK, Task
      <3>4. ASSUME t.start # NoSession,
                   task'[w].plays = IF t.no_data \/ t.start # t.end
                                    THEN RangePlays(t) ELSE {},
                   NEW s \in Sessions, s <= t.end
            PROVE  s \in task'[w].plays \/ (~t.no_data /\ s <= t.start)
        <4>1. s \in 1..ended
          BY <3>3, <3>4, ConstantsAssumption DEF Sessions
        <4>2. t.no_data => t.start = 1
          BY <2>a, <3>2, <3>4 DEF CalcInv, NoSession
        <4>3. QED
          BY <3>3, <3>4, <4>1, <4>2 DEF RangePlays
      <3>5. CalcInv(task[w])'
        <4>1. task'[w].pc \in {"release", "upsert"}
          BY <2>2, CalculateMoves
        <4>2. task'[w].pc = "upsert" /\ task'[w].start # NoSession
                => \A s \in Sessions : s <= task'[w].end
                     => s \in task'[w].plays
                        \/ (~task'[w].no_data /\ s <= task'[w].start)
          BY <2>2, <3>4, CalculateMoves
        <4>3. QED
          BY <2>2, <2>a, <3>2, <4>1, <4>2, CalculateMoves DEF CalcInv, CoversTo
      <3>6. QED
        BY <3>1, <3>2, <3>5, SafeFrame
    <2>3. CASE UpsertTotals(w)
      <3>1. \A v \in Workers \ {w} : task'[v] = task[v]
        BY <2>3, BecomeAt DEF UpsertTotals, Goto
      <3>2. UNCHANGED lastCalc /\ task[w].pc = "upsert"
        BY <2>3 DEF UpsertTotals, At
      <3>3. \A s \in Sessions : s <= lastCalc'["playermap"] => Counted(s)'
        BY <2>3, <2>a, <3>2, UpsertKeeps
      <3>4. \A s \in Sessions : task'[w].pc = "save" /\ s <= task'[w].end
                                   => Counted(s)'
        BY <2>3, <2>a, CalculateMoves, UpsertCounts
      <3>5. CalcInv(task[w])'
        BY <2>3, <2>a, <3>2, <3>4, CalculateMoves DEF CalcInv
      <3>6. ASSUME NEW v \in Workers \ {w} PROVE CalcInv(task[v])'
        BY <2>b, <3>1 DEF CalcInv, Calculating
      <3>7. QED
        BY <3>3, <3>5, <3>6 DEF Safe
    <2>4. CASE SaveProgress(w)
      <3>1. task'[w].pc = "release"
            /\ \A v \in Workers \ {w} : task'[v] = task[v]
        BY <2>4, GotoAt, Names DEF SaveProgress
      <3>2. UNCHANGED mapTime /\ lastCalc'["playermap"] = task[w].end
        BY <2>4, Names DEF SaveProgress, TypeInv, TypeOK
      <3>3. \A s \in Sessions : Counted(s)' = Counted(s)
        BY <3>2 DEF Counted
      <3>4. \A s \in Sessions : s <= lastCalc'["playermap"] => Counted(s)'
        BY <2>4, <2>a, <3>2, <3>3 DEF SaveProgress, At, CalcInv
      <3>5. ASSUME NEW v \in Workers PROVE CalcInv(task[v])'
        BY <2>b, <3>1 DEF CalcInv, Calculating
      <3>6. QED
        BY <3>4, <3>5 DEF Safe
    <2>5. CASE CalculationFails(w)
      <3> DEFINE t == [task[w] EXCEPT !.pc = "release", !.failed = TRUE]
      <3>1. t.pc = "release"
        BY <1>a DEF Task
      <3>2. task'[w] = t /\ \A v \in Workers \ {w} : task'[v] = task[v]
        BY <2>5, BecomeAt DEF CalculationFails
      <3>3. task'[w].pc \notin Calculating
        BY <3>1, <3>2, <1>b
      <3>4. QED
        BY <2>5, <3>2, <3>3, <1>d DEF CalculationFails
    <2>6. CASE LockRelease(w)
      <3> DEFINE t == IF task[w].failed THEN Idle
                      ELSE [task[w] EXCEPT !.pc = "read"]
      <3>1. t.pc \in {"idle", "read"}
        BY <1>a, IdleType, TaskMoves, Names
      <3>2. task'[w] = t /\ \A v \in Workers \ {w} : task'[v] = task[v]
        BY <2>6, BecomeAt DEF LockRelease
      <3>3. task'[w].pc \notin Calculating
        BY <3>1, <3>2, <1>b
      <3>4. QED
        BY <2>6, <3>2, <3>3, <1>d DEF LockRelease
    <2>7. QED
      BY <1>4, <2>1, <2>2, <2>3, <2>4, <2>5, <2>6 DEF Calculate
  <1>5. ASSUME NEW w \in Workers, Detail(w) PROVE Safe'
    <2>1. UNCHANGED mapTime /\ lastCalc'["playermap"] = lastCalc["playermap"]
      <3>1. UNCHANGED mapTime
        BY <1>5 DEF Detail, DetailReadKey, ReadTotals, UpsertPlaytime,
           SavePlaytimeKey
      <3>2. \/ UNCHANGED lastCalc
            \/ lastCalc' = [lastCalc EXCEPT !["player_playtime"] = task[w].end]
        BY <1>5 DEF Detail, DetailReadKey, ReadTotals, UpsertPlaytime,
           SavePlaytimeKey
      <3>3. QED
        BY <3>1, <3>2, Names DEF TypeInv, TypeOK
    <2>2. /\ task'[w].pc \in {"acquire", "idle", "playtime", "playtime_key"}
          /\ \A v \in Workers \ {w} : task'[v] = task[v]
      BY <1>5, DetailMoves
    <2>3. task'[w].pc \notin Calculating
      BY <2>2, <1>b
    <2>4. QED
      BY <1>d, <2>1, <2>2, <2>3
  <1>6. CASE LockExpires
    BY <1>6, <1>e DEF LockExpires
  <1>7. CASE Restart
    BY <1>7, <1>b DEF Restart, Safe, CalcInv, Counted, Calculating
  <1>8. CASE UNCHANGED vars
    BY <1>8, <1>e DEF vars
  <1>9. QED
    BY <1>1, <1>2, <1>3, <1>4, <1>5, <1>6, <1>7, <1>8 DEF Next

\* Every session up to last_calculated is in the totals, through crashes,
\* errors, stale keys and lock timeouts, if no calculation outlives its lock.
THEOREM NoSessionLost == Spec => []NothingLost
  <1> DEFINE Sound == "slow" \notin Faults => HolderInv /\ Safe
  <1>1. Init => TypeInv /\ Sound
    <2>1. Init => TypeInv
      BY TypeInvInit
    <2>2. Init => HolderInv
      BY IdleType DEF Init, HolderInv, Holding, Critical
    <2>3. Init => Safe
      BY ConstantsAssumption, IdleType, Names
      DEF Init, Safe, CalcInv, Sessions, NoSession
    <2>4. QED
      BY <2>1, <2>2, <2>3
  <1>2. TypeInv /\ Sound /\ [Next]_vars => TypeInv' /\ Sound'
    BY TypeInvStep, HolderStep, SafeStep
  <1>3. TypeInv /\ Sound => NothingLost
    BY DEF Safe, NothingLost
  <1> HIDE DEF Sound
  <1>4. QED
    BY <1>1, <1>2, <1>3, PTL DEF Spec
-----------------------------------------------------------------------------
(* Counted once.  As long as the history is not spoiled, nothing after     *)
(* last_calculated has been counted, or after the end of the task that is  *)
(* about to save its own; and a delta begins after what it read, which is  *)
(* still last_calculated.                                                  *)
NoneAfter(k) == \A m \in Maps, s \in Sessions : s > k => mapTime[m][s] = 0

OnceInv(t) ==
    /\ t.pc \in {"plays", "upsert"} =>
          /\ t.no_data => lastCalc["playermap"] = NoSession
          /\ ~t.no_data => /\ lastCalc["playermap"] # NoSession
                           /\ t.start = lastCalc["playermap"]
    /\ t.pc = "upsert" /\ t.start # NoSession =>
          \A s \in t.plays : s <= t.end /\ (t.no_data \/ t.start < s)
    /\ t.pc = "save" => NoneAfter(t.end)

Settled == \A w \in Workers : task[w].pc # "save"

Once ==
    /\ NoDoubleCount
    /\ lastCalc["playermap"] # NoSession /\ Settled
          => NoneAfter(lastCalc["playermap"])
    /\ \A w \in Workers : OnceInv(task[w])

LEMMA OnceFrame ==
    ASSUME TypeInv, Once, NEW w \in Workers, UNCHANGED mapTime,
           lastCalc'["playermap"] = lastCalc["playermap"],
           \A v \in Workers \ {w} : task'[v] = task[v],
           task[w].pc # "save",
           OnceInv(task[w])'
    PROVE  Once'
  <1>1. \A k : NoneAfter(k)' = NoneAfter(k)
    BY DEF NoneAfter
  <1>2. ASSUME NEW v \in Workers \ {w} PROVE OnceInv(task[v])'
    <2>1. OnceInv(task[v]) /\ task'[v] = task[v]
      BY DEF Once
    <2>2. QED
      BY <2>1 DEF OnceInv, NoneAfter
  <1>3. Settled' => Settled
    BY DEF Settled
  <1>4. lastCalc'["playermap"] # NoSession /\ Settled'
           => NoneAfter(lastCalc["playermap"])'
    BY <1>3 DEF Once, NoneAfter
  <1>5. NoDoubleCount'
    BY DEF Once, NoDoubleCount
  <1>6. QED
    BY <1>2, <1>4, <1>5 DEF Once

\* What an upsert leaves: nothing twice, and nothing after the task's end.
LEMMA UpsertOnce ==
    ASSUME TypeInv, Once, Settled, NEW w \in Workers, UpsertTotals(w),
           ~spoiled'
    PROVE  /\ NoDoubleCount'
           /\ task[w].start # NoSession => NoneAfter(task[w].end)'
           /\ task[w].start = NoSession => lastCalc["playermap"] = NoSession
  <1> DEFINE t == task[w]
  <1>a. /\ t \in Task /\ t.plays \subseteq Sessions
        /\ mapTime \in [Maps -> [Sessions -> Nat]]
        /\ lastCalc["playermap"] \in Nat /\ t.end \in Nat /\ t.start \in Nat
        /\ Sessions \subseteq Nat
    BY ConstantsAssumption, Names DEF TypeInv, TypeOK, Task, Sessions
  <1>b. t.pc = "upsert" /\ OnceInv(t)
    BY DEF UpsertTotals, At, Once
  <1>c. ~Behind(t)
    BY DEF UpsertTotals
  <1>d. \A m \in Maps, s \in Sessions : mapTime[m][s] \in Nat
    BY <1>a
  <1>e. t.start # NoSession => NoneAfter(t.end)
    <2> SUFFICES ASSUME t.start # NoSession, NEW m \in Maps,
                        NEW s \in Sessions, s > t.end
                 PROVE  mapTime[m][s] = 0
      BY DEF NoneAfter
    <2>1. ~(mapTime[m][s] > 0)
      BY <1>a, <1>c DEF Behind
    <2>2. QED
      BY <2>1, <1>d
  <1>f. t.start # NoSession => \A s \in t.plays : s <= t.end
    BY <1>b DEF OnceInv
  <1>g. t.end' = t.end
    BY CalculateMoves
  <1>1. t.start = NoSession => lastCalc["playermap"] = NoSession
    BY <1>b DEF OnceInv
  <1>2. CASE t.no_data \/ t.start = NoSession
    <2>1. mapTime' = ReplaceTotals(t.plays)
      BY <1>2 DEF UpsertTotals
    <2>2. ASSUME NEW m \in Maps, NEW s \in Sessions
          PROVE  \/ mapTime'[m][s] = mapTime[m][s]
                 \/ mapTime'[m][s] = Played(t.plays, m, s)
      BY <2>1 DEF ReplaceTotals
    <2>3. NoDoubleCount'
      <3> SUFFICES ASSUME NEW m \in Maps, NEW s \in Sessions
                   PROVE  mapTime'[m][s] <= 1
        BY DEF NoDoubleCount
      <3>1. mapTime[m][s] <= 1 /\ Played(t.plays, m, s) <= 1
        BY DEF Once, NoDoubleCount, Played
      <3>2. QED
        BY <3>1, <2>2
    <2>4. t.start # NoSession => NoneAfter(t.end)'
      <3> SUFFICES ASSUME t.start # NoSession, NEW m \in Maps,
                          NEW s \in Sessions, s > t.end
                   PROVE  mapTime'[m][s] = 0
        BY <1>g DEF NoneAfter
      <3>1. mapTime[m][s] = 0
        BY <1>e DEF NoneAfter
      <3>2. s \notin t.plays
        BY <1>a, <1>f
      <3>3. QED
        BY <3>1, <3>2, <2>2 DEF Played
    <2>5. QED
      BY <1>1, <2>3, <2>4
  <1>3. CASE ~(t.no_data \/ t.start = NoSession)
    <2>1. mapTime' = AddTotals(t.plays)
      BY <1>3 DEF UpsertTotals
    <2>2. ASSUME NEW m \in Maps, NEW s \in Sessions
          PROVE  mapTime'[m][s] = mapTime[m][s] + Played(t.plays, m, s)
      BY <2>1 DEF AddTotals
    <2>3. NoneAfter(t.start)
      BY <1>3, <1>b DEF Once, OnceInv
    <2>4. NoDoubleCount'
      <3> SUFFICES ASSUME NEW m \in Maps, NEW s \in Sessions
                   PROVE  mapTime'[m][s] <= 1
        BY DEF NoDoubleCount
      <3>1. CASE s \in t.plays
        <4>1. s > t.start
          BY <1>a, <1>b, <1>3, <3>1 DEF OnceInv
        <4>2. mapTime[m][s] = 0
          BY <4>1, <2>3 DEF NoneAfter
        <4>3. QED
          BY <4>2, <2>2 DEF Played
      <3>2. CASE s \notin t.plays
        <4>1. mapTime'[m][s] = mapTime[m][s]
          BY <3>2, <2>2, <1>d DEF Played
        <4>2. QED
          BY <4>1 DEF Once, NoDoubleCount
      <3>3. QED
        BY <3>1, <3>2
    <2>5. NoneAfter(t.end)'
      <3> SUFFICES ASSUME NEW m \in Maps, NEW s \in Sessions, s > t.end
                   PROVE  mapTime'[m][s] = 0
        BY <1>g DEF NoneAfter
      <3>1. mapTime[m][s] = 0
        BY <1>e, <1>3 DEF NoneAfter
      <3>2. s \notin t.plays
        BY <1>a, <1>f, <1>3
      <3>3. QED
        BY <3>1, <3>2, <2>2 DEF Played
    <2>6. QED
      BY <1>1, <2>4, <2>5
  <1>4. QED
    BY <1>2, <1>3

LEMMA OnceStep ==
    ASSUME TypeInv, HolderInv, Once, [Next]_vars, ~spoiled'
    PROVE  Once'
  <1>a. \A w \in Workers : task[w] \in Task
    BY DEF TypeInv, TypeOK
  <1>b. /\ Idle.pc \notin Calculating
        /\ {"release", "read", "idle", "acquire", "detail_key", "expire",
            "worker_key", "playtime", "playtime_key"}
              \intersect Calculating = {}
    BY IdleType DEF Calculating
  \* While w holds the lock the other tasks are not calculating.
  <1>c. ASSUME NEW w \in Workers, task[w].pc \in Holding,
               NEW v \in Workers \ {w}
        PROVE  task[v].pc \notin Calculating
    BY <1>c DEF HolderInv, Holding, Critical, Calculating
  \* A step of w that leaves the totals and progress alone, and w elsewhere.
  <1>d. ASSUME NEW w \in Workers, UNCHANGED mapTime,
               lastCalc'["playermap"] = lastCalc["playermap"],
               \A v \in Workers \ {w} : task'[v] = task[v],
               task[w].pc # "save", task'[w].pc \notin Calculating
        PROVE  Once'
    <2>1. OnceInv(task[w])'
      BY <1>d DEF OnceInv, Calculating
    <2>2. QED
      BY <1>d, <2>1, OnceFrame
  <1>e. ASSUME UNCHANGED <<mapTime, lastCalc, task>> PROVE Once'
    BY <1>e DEF Once, OnceInv, Settled, NoneAfter, NoDoubleCount
  <1>1. CASE SessionEnds
    BY <1>1, <1>e DEF SessionEnds
  <1>2. ASSUME NEW w \in Workers, NEW kind \in Kinds, NEW key \in SessionKeys,
               Request(w, kind, key)
        PROVE  Once'
    <2> DEFINE p == IF kind = "detail" THEN "detail_key" ELSE "acquire"
               t == [Idle EXCEPT !.pc = p, !.kind = kind, !.end = key]
    <2>1. t.pc \in {"detail_key", "acquire"}
      BY IdleType DEF Task
    <2>2. task'[w] = t /\ \A v \in Workers \ {w} : task'[v] = task[v]
      BY <1>2, BecomeAt DEF Request
    <2>3. task'[w].pc \notin Calculating
      BY <2>1, <2>2, <1>b
    <2>4. QED
      BY <1>2, <1>d, <2>2, <2>3 DEF Request, At
  <1>3. ASSUME NEW w \in Workers, Acquire(w) PROVE Once'
    <2>1. CASE LockSetNx(w)
      BY <2>1, <1>b, <1>d, GotoAt, Names DEF LockSetNx, At
    <2>2. CASE LockSetTtl(w)
      BY <2>2, <1>b, <1>d, GotoAt, Names DEF LockSetTtl, At
    <2>3. CASE NoLock(w) /\ task[w].pc \in {"acquire", "expire"}
      <3> DEFINE t == IF task[w].kind = "detail"
                      THEN [task[w] EXCEPT !.pc = "playtime"] ELSE Idle
      <3>1. t.pc \in {"playtime", "idle"}
        BY <1>a, IdleType, TaskMoves, Names
      <3>2. task'[w] = t /\ \A v \in Workers \ {w} : task'[v] = task[v]
        BY <2>3, BecomeAt DEF NoLock
      <3>3. task'[w].pc \notin Calculating
        BY <3>1, <3>2, <1>b
      <3>4. QED
        BY <2>3, <3>2, <3>3, <1>d DEF NoLock
    <2>4. QED
      BY <1>3, <2>1, <2>2, <2>3 DEF Acquire, LockGiveUp, LockTorn, At
  <1>4. ASSUME NEW w \in Workers, Calculate(w) PROVE Once'
    <2>a. task[w].pc \in Holding /\ OnceInv(task[w])
      BY <1>4 DEF Calculate, ReadWorkerKey, ComputePlays, UpsertTotals,
         SaveProgress, CalculationFails, LockRelease, At, Holding, Critical,
         Once
    <2>b. \A v \in Workers \ {w} : task[v].pc \notin Calculating
      BY <2>a, <1>c
    <2>1. CASE ReadWorkerKey(w)
      <3>1. \A v \in Workers \ {w} : task'[v] = task[v]
        BY <2>1, BecomeAt DEF ReadWorkerKey
      <3>2. UNCHANGED <<mapTime, lastCalc>> /\ task[w].pc = "worker_key"
        BY <2>1 DEF ReadWorkerKey, At
      <3>3. OnceInv(task[w])'
        BY <2>1, <3>2, CalculateMoves, StartForType, Names
        DEF OnceInv, TypeInv, NoSession
      <3>4. QED
        BY <3>1, <3>2, <3>3, OnceFrame
    <2>2. CASE ComputePlays(w)
      <3> DEFINE t == task[w]
      <3>1. \A v \in Workers \ {w} : task'[v] = task[v]
        BY <2>2, BecomeAt DEF ComputePlays
      <3>2. UNCHANGED <<mapTime, lastCalc>> /\ t.pc = "plays"
        BY <2>2 DEF ComputePlays, At
      <3>3. task'[w].pc = "upsert" /\ task'[w].start # NoSession
              => \A s \in task'[w].plays :
                    s <= task'[w].end
                    /\ (task'[w].no_data \/ task'[w].start < s)
        BY <2>2, CalculateMoves DEF RangePlays
      <3>4. task'[w].pc \in {"release", "upsert"}
        BY <2>2, CalculateMoves
      <3>5. OnceInv(task[w])'
        BY <2>2, <2>a, <3>2, <3>3, <3>4, CalculateMoves DEF OnceInv
      <3>6. QED
        BY <3>1, <3>2, <3>5, OnceFrame
    <2>3. CASE UpsertTotals(w)
      <3>1. \A v \in Workers \ {w} : task'[v] = task[v]
        BY <2>3, BecomeAt DEF UpsertTotals, Goto
      <3>2. UNCHANGED lastCalc /\ task[w].pc = "upsert"
        BY <2>3 DEF UpsertTotals, At
      <3>3. Settled
        BY <2>b, <3>2 DEF Settled, Calculating
      <3>4. /\ NoDoubleCount'
            /\ task[w].start # NoSession => NoneAfter(task[w].end)'
            /\ task[w].start = NoSession => lastCalc["playermap"] = NoSession
        BY <2>3, <3>3, UpsertOnce
      <3>5. task'[w].pc = "save" <=> task[w].start # NoSession
        BY <2>3, <1>a, TaskMoves, Names, GotoAt DEF UpsertTotals
      <3>6. OnceInv(task[w])'
        BY <2>3, <3>4, <3>5, CalculateMoves DEF OnceInv, NoneAfter
      <3>7. ASSUME NEW v \in Workers \ {w} PROVE OnceInv(task[v])'
        BY <2>b, <3>1 DEF OnceInv, Calculating
      <3>8. lastCalc'["playermap"] # NoSession => ~Settled'
        BY <3>2, <3>4, <3>5 DEF Settled
      <3>9. QED
        BY <3>4, <3>6, <3>7, <3>8 DEF Once
    <2>4. CASE SaveProgress(w)
      <3>1. task'[w].pc = "release"
            /\ \A v \in Workers \ {w} : task'[v] = task[v]
        BY <2>4, GotoAt, Names DEF SaveProgress
      <3>2. UNCHANGED mapTime /\ lastCalc'["playermap"] = task[w].end
        BY <2>4, Names DEF SaveProgress, TypeInv, TypeOK
      <3>3. NoneAfter(task[w].end)
        BY <2>4, <2>a DEF SaveProgress, At, OnceInv
      <3>4. NoneAfter(lastCalc["playermap"])'
        BY <3>2, <3>3 DEF NoneAfter
      <3>5. ASSUME NEW v \in Workers PROVE OnceInv(task[v])'
        BY <2>b, <3>1 DEF OnceInv, Calculating
      <3>6. NoDoubleCount'
        BY <3>2 DEF Once, NoDoubleCount
      <3>7. QED
        BY <3>4, <3>5, <3>6 DEF Once
    <2>5. CASE CalculationFails(w)
      <3> DEFINE t == [task[w] EXCEPT !.pc = "release", !.failed = TRUE]
      <3>1. t.pc = "release"
        BY <1>a DEF Task
      <3>2. task'[w] = t /\ \A v \in Workers \ {w} : task'[v] = task[v]
        BY <2>5, BecomeAt DEF CalculationFails
      <3>3. task'[w].pc \notin Calculating
        BY <3>1, <3>2, <1>b
      <3>4. task[w].pc # "save"
        BY <2>5 DEF CalculationFails, At
      <3>5. QED
        BY <2>5, <3>2, <3>3, <3>4, <1>d DEF CalculationFails
    <2>6. CASE LockRelease(w)
      <3> DEFINE t == IF task[w].failed THEN Idle
                      ELSE [task[w] EXCEPT !.pc = "read"]
      <3>1. t.pc \in {"idle", "read"}
        BY <1>a, IdleType, TaskMoves, Names
      <3>2. task'[w] = t /\ \A v \in Workers \ {w} : task'[v] = task[v]
        BY <2>6, BecomeAt DEF LockRelease
      <3>3. task'[w].pc \notin Calculating
        BY <3>1, <3>2, <1>b
      <3>4. QED
        BY <2>6, <3>2, <3>3, <1>d DEF LockRelease, At
    <2>7. QED
      BY <1>4, <2>1, <2>2, <2>3, <2>4, <2>5, <2>6 DEF Calculate
  <1>5. ASSUME NEW w \in Workers, Detail(w) PROVE Once'
    <2>1. UNCHANGED mapTime /\ lastCalc'["playermap"] = lastCalc["playermap"]
      <3>1. UNCHANGED mapTime
        BY <1>5 DEF Detail, DetailReadKey, ReadTotals, UpsertPlaytime,
           SavePlaytimeKey
      <3>2. \/ UNCHANGED lastCalc
            \/ lastCalc' = [lastCalc EXCEPT !["player_playtime"] = task[w].end]
        BY <1>5 DEF Detail, DetailReadKey, ReadTotals, UpsertPlaytime,
           SavePlaytimeKey
      <3>3. QED
        BY <3>1, <3>2, Names DEF TypeInv, TypeOK
    <2>2. /\ task'[w].pc \in {"acquire", "idle", "playtime", "playtime_key"}
          /\ \A v \in Workers \ {w} : task'[v] = task[v]
      BY <1>5, DetailMoves
    <2>3. task'[w].pc \notin Calculating
      BY <2>2, <1>b
    <2>4. task[w].pc # "save"
      BY <1>5 DEF Detail, DetailReadKey, ReadTotals, UpsertPlaytime,
         SavePlaytimeKey, At
    <2>5. QED
      BY <1>d, <2>1, <2>2, <2>3, <2>4
  <1>6. CASE LockExpires
    BY <1>6, <1>e DEF LockExpires
  <1>7. CASE Restart
    <2>1. Settled
      BY <1>7 DEF Restart, Settled, At
    <2>2. NoneAfter(lastCalc["playermap"])' = NoneAfter(lastCalc["playermap"])
      BY <1>7 DEF Restart, NoneAfter
    <2>3. \A v \in Workers : OnceInv(task[v])'
      BY <1>7, <1>b DEF Restart, OnceInv, Calculating
    <2>4. NoDoubleCount'
      BY <1>7 DEF Restart, Once, NoDoubleCount
    <2>5. UNCHANGED lastCalc
      BY <1>7 DEF Restart
    <2>6. QED
      BY <2>1, <2>2, <2>3, <2>4, <2>5 DEF Once
  <1>8. CASE UNCHANGED vars
    BY <1>8, <1>e DEF vars
  <1>9. QED
    BY <1>1, <1>2, <1>3, <1>4, <1>5, <1>6, <1>7, <1>8 DEF Next

\* What has been spoiled stays so.
LEMMA SpoiledStays == TypeInv /\ [Next]_vars /\ spoiled => spoiled'
  BY DEF Next, vars, SessionEnds, Request, Acquire, LockSetNx, LockSetTtl,
     LockGiveUp, LockTorn, NoLock, Calculate, ReadWorkerKey, ComputePlays,
     UpsertTotals, SaveProgress, CalculationFails, LockRelease, Detail,
     DetailReadKey, ReadTotals, UpsertPlaytime, SavePlaytimeKey, LockExpires,
     Restart

\* A session is counted twice only after a task stopped between the totals
\* and its progress, outlived its lock, or came with a key behind the totals.
THEOREM CountedOnce == Spec => []CountsOnce
  <1> DEFINE Sound == ~spoiled => HolderInv /\ Once
  <1>1. Init => TypeInv /\ Sound
    <2>1. Init => TypeInv
      BY TypeInvInit
    <2>2. Init => HolderInv
      BY IdleType DEF Init, HolderInv, Holding, Critical
    <2>3. Init => Once
      BY ConstantsAssumption, IdleType, Names
      DEF Init, Once, OnceInv, NoDoubleCount, NoSession
    <2>4. QED
      BY <2>1, <2>2, <2>3
  <1>2. TypeInv /\ Sound /\ [Next]_vars => TypeInv' /\ Sound'
    BY TypeInvStep, HolderStep, OnceStep, SpoiledStays
  <1>3. TypeInv /\ Sound => CountsOnce
    BY DEF Once, CountsOnce
  <1> HIDE DEF Sound
  <1>4. QED
    BY <1>1, <1>2, <1>3, PTL DEF Spec

-----------------------------------------------------------------------------
(* The ledger.  Until the history is spoiled the totals are those of the   *)
(* first k sessions: they are all counted, on the maps they were played    *)
(* on, and none after them is.                                             *)
Reaches(k) ==
    /\ \A s \in Sessions : s <= k => Counted(s)
    /\ NoneAfter(k)

OnlyPlayed ==
    \A m \in Maps, s \in Sessions : m \notin MapsOf[s] => mapTime[m][s] = 0

(* A first answer, without a completed session, replaces the totals by     *)
(* those of at least as many sessions.                                     *)
FirstInv(t) ==
    t.pc = "upsert" /\ t.start = NoSession =>
        \E p \in 0..NumSessions :
            /\ p <= ended + 1 /\ NoneAfter(p)
            /\ t.plays = {s \in Sessions : s <= p}

LedgerInv ==
    /\ OnlyPlayed
    /\ \E k \in 0..NumSessions : Reaches(k)
    /\ NoneAfter(ended + 1)
    /\ \A w \in Workers : FirstInv(task[w])

LEMMA TotalsAre ==
    ASSUME TypeInv, OnlyPlayed, NoDoubleCount, NEW k \in 0..NumSessions,
           Reaches(k)
    PROVE  mapTime = Ledger!Upto(k)
  <1>a. /\ mapTime \in [Maps -> [Sessions -> Nat]] /\ Sessions = 1..NumSessions
        /\ MapsOf \in [Sessions -> SUBSET Maps] /\ k \in Nat
        /\ Sessions \subseteq Nat
    BY ConstantsAssumption DEF TypeInv, TypeOK, Sessions
  <1>1. ASSUME NEW m \in Maps, NEW s \in Sessions
        PROVE  mapTime[m][s] = IF s <= k /\ m \in MapsOf[s] THEN 1 ELSE 0
    <2>1. mapTime[m][s] \in Nat /\ mapTime[m][s] <= 1 /\ s \in Nat
      BY <1>a DEF NoDoubleCount
    <2>2. CASE s <= k /\ m \in MapsOf[s]
      BY <2>1, <2>2 DEF Reaches, Counted
    <2>3. CASE m \notin MapsOf[s]
      BY <2>3 DEF OnlyPlayed
    <2>4. CASE ~(s <= k)
      BY <1>a, <2>1, <2>4 DEF Reaches, NoneAfter
    <2>5. QED
      BY <2>2, <2>3, <2>4
  <1>2. ASSUME NEW m \in Maps
        PROVE  mapTime[m] = [s \in 1..NumSessions |->
                                IF s <= k /\ m \in MapsOf[s] THEN 1 ELSE 0]
    BY <1>a, <1>1
  <1>3. QED
    BY <1>a, <1>2 DEF Ledger!Upto

\* An upsert leaves the totals of the first k sessions, and none after k was
\* counted before: it never takes a session back.
LEMMA UpsertReaches ==
    ASSUME TypeInv, Safe, Once, LedgerInv, Settled,
           NEW w \in Workers, UpsertTotals(w), ~spoiled'
    PROVE  /\ OnlyPlayed'
           /\ \E k \in 0..NumSessions :
                 k <= ended + 1 /\ NoneAfter(k) /\ Reaches(k)'
  <1> DEFINE t == task[w]
  <1>a. /\ t \in Task /\ t.plays \subseteq Sessions /\ t.end <= ended
        /\ mapTime \in [Maps -> [Sessions -> Nat]]
        /\ MapsOf \in [Sessions -> SUBSET Maps]
        /\ t.end \in 0..NumSessions /\ ended \in Nat
        /\ Sessions \subseteq Nat
    BY ConstantsAssumption, Names DEF TypeInv, TypeOK, Task, Sessions
  <1>b. t.pc = "upsert" /\ OnceInv(t) /\ CalcInv(t) /\ FirstInv(t)
    BY DEF UpsertTotals, At, Once, Safe, LedgerInv
  <1>1. OnlyPlayed'
    <2> SUFFICES ASSUME NEW m \in Maps, NEW s \in Sessions, m \notin MapsOf[s]
                 PROVE  mapTime'[m][s] = 0
      BY DEF OnlyPlayed
    <2>1. mapTime[m][s] = 0 /\ Played(t.plays, m, s) = 0
      BY DEF LedgerInv, OnlyPlayed, Played
    <2>2. CASE mapTime' = ReplaceTotals(t.plays)
      BY <2>1, <2>2 DEF ReplaceTotals
    <2>3. CASE mapTime' = AddTotals(t.plays)
      BY <2>1, <2>3 DEF AddTotals
    <2>4. QED
      BY <2>2, <2>3 DEF UpsertTotals
  <1>2. CASE t.start # NoSession
    <2>1. \A s \in Sessions : s <= t.end => Counted(s)'
      BY <1>2, <1>b, UpsertCounts
    <2>2. NoneAfter(t.end)'
      <3>1. NoneAfter(task[w].end)'
        BY <1>2, UpsertOnce
      <3>2. QED
        BY <3>1, CalculateMoves DEF NoneAfter
    <2>3. NoneAfter(t.end)
      <3> SUFFICES ASSUME NEW m \in Maps, NEW s \in Sessions, s > t.end
                   PROVE  mapTime[m][s] = 0
        BY DEF NoneAfter
      <3>1. ~(mapTime[m][s] > 0)
        BY <1>2, <1>a DEF Behind, UpsertTotals
      <3>2. mapTime[m][s] \in Nat
        BY <1>a
      <3>3. QED
        BY <3>1, <3>2
    <2>4. ASSUME NEW k \in 0..NumSessions, k = t.end
          PROVE  k <= ended + 1 /\ NoneAfter(k) /\ Reaches(k)'
      <3>1. k <= ended + 1 /\ NoneAfter(k)
        BY <1>a, <2>3, <2>4
      <3>2. \A s \in Sessions : s <= k => Counted(s)'
        BY <2>1, <2>4
      <3>3. NoneAfter(k)'
        BY <2>2, <2>4, CalculateMoves DEF NoneAfter
      <3>4. QED
        BY <3>1, <3>2, <3>3 DEF Reaches
    <2>5. QED
      BY <1>1, <1>a, <2>4
  <1>3. CASE t.start = NoSession
    <2>1. PICK p \in 0..NumSessions :
              /\ p <= ended + 1 /\ NoneAfter(p)
              /\ t.plays = {s \in Sessions : s <= p}
      BY <1>3, <1>b DEF FirstInv
    <2>2. mapTime' = ReplaceTotals(t.plays)
      BY <1>3 DEF UpsertTotals
    <2>3. ASSUME NEW s \in Sessions, s <= p, NEW m \in MapsOf[s]
          PROVE  mapTime'[m][s] > 0
      <3>1. m \in Maps /\ s \in t.plays
        BY <1>a, <2>1, <2>3
      <3>2. mapTime'[m][s] = Played(t.plays, m, s)
        BY <2>2, <2>3, <3>1 DEF ReplaceTotals, HasRow
      <3>3. QED
        BY <2>3, <3>1, <3>2 DEF Played
    <2>4. ASSUME NEW m \in Maps, NEW s \in Sessions, s > p
          PROVE  mapTime'[m][s] = 0
      <3>1. mapTime[m][s] = 0 /\ s \notin t.plays
        BY <1>a, <2>1, <2>4 DEF NoneAfter
      <3>2. Played(t.plays, m, s) = 0
        BY <3>1 DEF Played
      <3>3. QED
        BY <2>2, <3>1, <3>2 DEF ReplaceTotals
    <2>5. (\A s \in Sessions : s <= p => Counted(s)')
          /\ \A m \in Maps, s \in Sessions : s > p => mapTime'[m][s] = 0
      BY <2>3, <2>4 DEF Counted
    <2>6. QED
      BY <1>1, <2>1, <2>5 DEF Reaches, NoneAfter
  <1>4. QED
    BY <1>2, <1>3

\* Only an upsert changes the totals, and only ComputePlays leads to one.
LEMMA OnlyUpserts ==
    ASSUME TypeInv, [Next]_vars
    PROVE  /\ ended' \in {ended, ended + 1}
           /\ mapTime' = mapTime \/ \E w \in Workers : UpsertTotals(w)
           /\ \A v \in Workers : \/ task'[v] = task[v]
                                 \/ task'[v].pc # "upsert"
                                 \/ ComputePlays(v)
  <1>a. \A w \in Workers : task[w] \in Task
    BY DEF TypeInv, TypeOK
  <1>1. ASSUME NEW w \in Workers, NEW t, Become(w, t), t.pc # "upsert"
        PROVE  \A v \in Workers : task'[v] = task[v] \/ task'[v].pc # "upsert"
    BY <1>1, BecomeAt
  <1>2. ASSUME NEW w \in Workers, NEW p \in Places, p # "upsert", Goto(w, p)
        PROVE  \A v \in Workers : task'[v] = task[v] \/ task'[v].pc # "upsert"
    BY <1>2, GotoAt
  <1>3. CASE SessionEnds
    BY <1>3 DEF SessionEnds
  <1>4. ASSUME NEW w \in Workers, NEW kind \in Kinds, NEW key \in SessionKeys,
               Request(w, kind, key)
        PROVE  \A v \in Workers : task'[v] = task[v] \/ task'[v].pc # "upsert"
    <2> DEFINE p == IF kind = "detail" THEN "detail_key" ELSE "acquire"
               t == [Idle EXCEPT !.pc = p, !.kind = kind, !.end = key]
    <2>1. t.pc # "upsert"
      BY IdleType DEF Task
    <2>2. QED
      BY <1>1, <1>4, <2>1 DEF Request
  <1>5. ASSUME NEW w \in Workers, Acquire(w)
        PROVE  \A v \in Workers : task'[v] = task[v] \/ task'[v].pc # "upsert"
    <2>1. CASE LockSetNx(w) \/ LockSetTtl(w)
      BY <2>1, <1>2, Names DEF LockSetNx, LockSetTtl
    <2>2. CASE NoLock(w)
      <3> DEFINE t == IF task[w].kind = "detail"
                      THEN [task[w] EXCEPT !.pc = "playtime"] ELSE Idle
      <3>1. t.pc # "upsert"
        BY <1>a, IdleType, TaskMoves, Names
      <3>2. QED
        BY <1>1, <2>2, <3>1 DEF NoLock
    <2>3. QED
      BY <1>5, <2>1, <2>2 DEF Acquire, LockGiveUp, LockTorn
  <1>6. ASSUME NEW w \in Workers, Calculate(w)
        PROVE  \A v \in Workers : \/ task'[v] = task[v]
                                  \/ task'[v].pc # "upsert"
                                  \/ ComputePlays(v)
    <2>1. CASE ReadWorkerKey(w) \/ UpsertTotals(w)
      <3>1. task'[w].pc # "upsert"
        BY <2>1, CalculateMoves
      <3>2. \A v \in Workers \ {w} : task'[v] = task[v]
        BY <2>1, BecomeAt DEF ReadWorkerKey, UpsertTotals, Goto
      <3>3. QED
        BY <3>1, <3>2
    <2>2. CASE ComputePlays(w)
      BY <2>2, BecomeAt DEF ComputePlays
    <2>3. CASE SaveProgress(w)
      BY <2>3, <1>2, Names DEF SaveProgress
    <2>4. CASE CalculationFails(w)
      <3>1. [task[w] EXCEPT !.pc = "release", !.failed = TRUE].pc = "release"
        BY <1>a DEF Task
      <3>2. QED
        BY <1>1, <2>4, <3>1 DEF CalculationFails
    <2>5. CASE LockRelease(w)
      <3> DEFINE t == IF task[w].failed THEN Idle
                      ELSE [task[w] EXCEPT !.pc = "read"]
      <3>1. t.pc # "upsert"
        BY <1>a, IdleType, TaskMoves, Names
      <3>2. QED
        BY <1>1, <2>5, <3>1 DEF LockRelease
    <2>6. QED
      BY <1>6, <2>1, <2>2, <2>3, <2>4, <2>5 DEF Calculate
  <1>7. ASSUME NEW w \in Workers, Detail(w)
        PROVE  \A v \in Workers : task'[v] = task[v] \/ task'[v].pc # "upsert"
    BY <1>7, DetailMoves
  <1>8. CASE LockExpires \/ UNCHANGED vars
    BY <1>8 DEF LockExpires, vars
  <1>9. CASE Restart
    BY <1>9, IdleType DEF Restart
  <1>10. \A v \in Workers : \/ task'[v] = task[v]
                            \/ task'[v].pc # "upsert"
                            \/ ComputePlays(v)
    BY <1>3, <1>4, <1>5, <1>6, <1>7, <1>8, <1>9 DEF Next, SessionEnds
  <1>11. /\ ended' \in {ended, ended + 1}
         /\ mapTime' = mapTime \/ \E w \in Workers : UpsertTotals(w)
    <2>1. CASE SessionEnds \/ LockExpires \/ Restart \/ UNCHANGED vars
      BY <2>1 DEF SessionEnds, LockExpires, Restart, vars
    <2>2. ASSUME NEW w \in Workers, NEW kind \in Kinds, NEW key \in SessionKeys,
                 Request(w, kind, key)
          PROVE  ended' = ended /\ mapTime' = mapTime
      BY <2>2 DEF Request
    <2>3. ASSUME NEW w \in Workers, Acquire(w) \/ Detail(w)
          PROVE  ended' = ended /\ mapTime' = mapTime
      BY <2>3 DEF Acquire, LockSetNx, LockSetTtl, LockGiveUp, LockTorn, NoLock,
                  Detail, DetailReadKey, ReadTotals, UpsertPlaytime,
                  SavePlaytimeKey
    <2>4. ASSUME NEW w \in Workers, Calculate(w)
          PROVE  ended' = ended /\ (mapTime' = mapTime \/ UpsertTotals(w))
      BY <2>4 DEF Calculate, ReadWorkerKey, ComputePlays, UpsertTotals,
                  SaveProgress, CalculationFails, LockRelease
    <2>5. QED
      BY <2>1, <2>2, <2>3, <2>4 DEF Next
  <1>12. QED
    BY <1>10, <1>11

\* The rows of a first answer: all sessions up to the one in progress.
LEMMA FirstPlays ==
    ASSUME TypeInv, LedgerInv, NEW w \in Workers, ComputePlays(w)
    PROVE  FirstInv(task[w])'
  <1> DEFINE t == task[w]
             partial == [t EXCEPT !.pc = "upsert", !.plays = PartialPlays]
             p == IF ended + 1 <= NumSessions THEN ended + 1 ELSE NumSessions
  <1>a. /\ t \in Task /\ ended \in 0..NumSessions /\ NumSessions \in Nat
        /\ ended' = ended /\ mapTime' = mapTime
        /\ Sessions = 1..NumSessions
    BY ConstantsAssumption DEF TypeInv, TypeOK, ComputePlays, Sessions
  <1>1. SUFFICES ASSUME task'[w].pc = "upsert", task'[w].start = NoSession
                 PROVE  task'[w].plays = PartialPlays
    <2>1. p \in 0..NumSessions /\ p <= ended + 1
      BY <1>a
    <2>2. NoneAfter(p)'
      BY <1>a DEF LedgerInv, NoneAfter
    <2>3. PartialPlays = {s \in Sessions : s <= p}
      BY <1>a DEF PartialPlays
    <2>4. (ended + 1)' = ended + 1
      BY <1>a
    <2>5. QED
      BY <1>1, <2>1, <2>2, <2>3, <2>4, <1>a DEF FirstInv, NoneAfter
  <1>2. t.start = NoSession
    BY <1>1, CalculateMoves
  <1>3. Become(w, partial)
    BY <1>2 DEF ComputePlays
  <1>4. task'[w] = partial
    BY <1>3, BecomeAt
  <1>5. QED
    BY <1>4, <1>a DEF Task

LEMMA LedgerStep ==
    ASSUME TypeInv, TypeInv', HolderInv, Safe, Once, LedgerInv, [Next]_vars,
           ~spoiled', Once'
    PROVE  LedgerInv' /\ [Ledger!Advance]_mapTime
  <1>a. /\ ended \in Nat /\ NumSessions \in Nat
        /\ \A w \in Workers : task[w] \in Task
        /\ Sessions \subseteq Nat
    BY ConstantsAssumption DEF TypeInv, TypeOK, Sessions
  <1>1. PICK j \in 0..NumSessions : Reaches(j)
    BY DEF LedgerInv
  <1>2. CASE mapTime' = mapTime
    <2>1. \A k : NoneAfter(k)' = NoneAfter(k) /\ Reaches(k)' = Reaches(k)
      BY <1>2 DEF NoneAfter, Reaches, Counted
    <2>2. NoneAfter(ended + 1)'
      BY <1>2, <1>a, OnlyUpserts DEF LedgerInv, NoneAfter
    <2>3. ASSUME NEW v \in Workers PROVE FirstInv(task[v])'
      <3>1. CASE task'[v] = task[v]
        <4>1. FirstInv(task[v])
          BY DEF LedgerInv
        <4>2. \A p \in 0..NumSessions : p <= ended + 1 => p <= ended' + 1
          BY <1>a, OnlyUpserts
        <4>3. QED
          BY <2>1, <3>1, <4>1, <4>2 DEF FirstInv, NoneAfter
      <3>2. CASE task'[v].pc # "upsert"
        BY <3>2 DEF FirstInv
      <3>3. CASE ComputePlays(v)
        BY <3>3, FirstPlays
      <3>4. QED
        BY <3>1, <3>2, <3>3, OnlyUpserts
    <2>4. OnlyPlayed'
      BY <1>2 DEF LedgerInv, OnlyPlayed
    <2>5. \E k \in 0..NumSessions : Reaches(k)'
      BY <1>1, <2>1
    <2>6. QED
      BY <1>2, <2>2, <2>3, <2>4, <2>5 DEF LedgerInv
  <1>3. ASSUME NEW w \in Workers, UpsertTotals(w)
        PROVE  LedgerInv' /\ [Ledger!Advance]_mapTime
    <2>1. task[w].pc = "upsert" /\ ended' = ended
      BY <1>3 DEF UpsertTotals, At
    <2>2. \A v \in Workers : task[v].pc # "save"
      BY <2>1 DEF HolderInv, Holding, Critical
    <2>3. PICK k \in 0..NumSessions :
              k <= ended + 1 /\ NoneAfter(k) /\ Reaches(k)'
      BY <1>3, <2>2, UpsertReaches DEF Settled
    <2>4. OnlyPlayed /\ OnlyPlayed'
      BY <1>3, <2>2, UpsertReaches DEF Settled, LedgerInv
    <2>5. NoneAfter(ended + 1)'
      <3> SUFFICES ASSUME NEW m \in Maps, NEW s \in Sessions, s > ended + 1
                   PROVE  mapTime'[m][s] = 0
        BY <2>1 DEF NoneAfter
      <3>1. s > k
        BY <1>a, <2>3
      <3>2. QED
        BY <2>3, <3>1 DEF Reaches, NoneAfter
    <2>6. \A v \in Workers : FirstInv(task[v])'
      <3>1. \A v \in Workers \ {w} : task'[v] = task[v]
        BY <1>3, BecomeAt DEF UpsertTotals, Goto
      <3>2. \A v \in Workers \ {w} : task[v].pc # "upsert"
        BY <2>1 DEF HolderInv, Holding, Critical
      <3>3. task'[w].pc # "upsert"
        BY <1>3, CalculateMoves
      <3>4. QED
        BY <3>1, <3>2, <3>3 DEF FirstInv
    <2>7. LedgerInv'
      BY <2>3, <2>4, <2>5, <2>6 DEF LedgerInv
    <2>8. NoDoubleCount /\ NoDoubleCount'
      BY DEF Once
    <2>9. mapTime' = Ledger!Upto(k)
      <3>1. (TypeInv /\ OnlyPlayed /\ NoDoubleCount /\ Reaches(k)
                => mapTime = Ledger!Upto(k))'
        BY TotalsAre, PTL
      <3>2. QED
        BY <2>3, <2>4, <2>8, <3>1 DEF Ledger!Upto
    <2>10. CASE j < k
      <3>1. mapTime = Ledger!Upto(j)
        BY <1>1, <2>4, <2>8, TotalsAre
      <3>2. QED
        BY <2>7, <2>9, <2>10, <3>1 DEF Ledger!Advance
    <2>11. CASE ~(j < k)
      <3>1. Reaches(k)
        BY <1>1, <1>a, <2>3, <2>11 DEF Reaches
      <3>2. mapTime = Ledger!Upto(k)
        BY <2>4, <2>8, <3>1, TotalsAre
      <3>3. QED
        BY <2>7, <2>9, <3>2
    <2>12. QED
      BY <2>10, <2>11
  <1>4. QED
    BY <1>2, <1>3, OnlyUpserts

\* Until a calculation is spoiled the totals are, at every step, those of the
\* first k sessions, and k does not go back: each change of player_map_time is
\* an Advance of PlaytimeLedger.
THEOREM LedgerImplemented == Spec => ImplementsLedger
  <1> DEFINE Sound == ~spoiled => HolderInv /\ Safe /\ Once /\ LedgerInv
  <1>a. NumSessions \in Nat /\ Sessions = 1..NumSessions
    BY ConstantsAssumption, IdleType DEF Sessions
  <1>1. Init => TypeInv /\ Sound
    <2>. SUFFICES ASSUME Init PROVE TypeInv /\ HolderInv /\ Safe /\ Once /\ LedgerInv
      OBVIOUS
    <2>1. TypeInv
      BY TypeInvInit
    <2>2. HolderInv
      BY IdleType DEF Init, HolderInv, Holding, Critical
    <2>3. Safe
      BY ConstantsAssumption, IdleType, Names
      DEF Init, Safe, CalcInv, Sessions, NoSession
    <2>4. Once
      BY ConstantsAssumption, IdleType, Names
      DEF Init, Once, OnceInv, NoDoubleCount, NoSession
    <2>5. \A m \in Maps, s \in Sessions : mapTime[m][s] = 0
      BY DEF Init
    <2>6. Reaches(0) /\ OnlyPlayed /\ NoneAfter(ended + 1)
      BY <1>a, <2>5 DEF Reaches, NoneAfter, OnlyPlayed
    <2>7. \A w \in Workers : FirstInv(task[w])
      BY IdleType DEF Init, FirstInv
    <2>8. LedgerInv
      BY <1>a, <2>6, <2>7 DEF LedgerInv
    <2>9. QED
      BY <2>1, <2>2, <2>3, <2>4, <2>8
  <1>2. TypeInv /\ Sound /\ [Next]_vars => TypeInv' /\ Sound'
    BY TypeInvStep, HolderStep, SafeStep, OnceStep, LedgerStep, SpoiledStays
  <1>3. TypeInv /\ Sound /\ [Next]_vars
           => [~spoiled' => [Ledger!Advance]_mapTime]_vars
    BY TypeInvStep, OnceStep, LedgerStep, SpoiledStays
  <1>4. Init => Ledger!Init
    BY <1>a DEF Init, Ledger!Init, Ledger!Upto
  <1> HIDE DEF Sound
  <1>5. QED
    BY <1>1, <1>2, <1>3, <1>4, PTL DEF Spec, ImplementsLedger

-----------------------------------------------------------------------------
\* A task frees only the key it holds: whoever holds another one's key, no
\* step but the holder's own, or the TTL, makes it free.
THEOREM LockIsKept == Spec => LockKeptFromOthers
  <1>1. ASSUME TypeInv, [Next]_vars, NEW v \in Workers, NEW w \in Workers,
               v # w, lock.holder = w, lock' = Free
        PROVE  task'[v] = task[v]
    <2>a. lock # Free
      BY <1>1, ConstantsAssumption DEF Free
    <2>1. CASE lock' = lock
      BY <1>1, <2>a, <2>1
    <2>2. ASSUME NEW u \in Workers, LockSetNx(u) PROVE FALSE
      BY <1>1, <2>2, ConstantsAssumption DEF LockSetNx, Free
    <2>3. ASSUME NEW u \in Workers, LockSetTtl(u) PROVE FALSE
      BY <1>1, <2>3 DEF LockSetTtl, Free, TypeInv, TypeOK
    <2>4. ASSUME NEW u \in Workers, LockRelease(u) PROVE task'[v] = task[v]
      <3>1. u = w
        BY <1>1, <2>a, <2>4 DEF LockRelease
      <3>2. QED
        BY <1>1, <2>4, <3>1, BecomeAt DEF LockRelease
    <2>5. CASE LockExpires
      BY <2>5 DEF LockExpires
    <2>6. CASE SessionEnds \/ Restart \/ UNCHANGED vars
      BY <2>1, <2>6 DEF SessionEnds, Restart, vars
    <2>7. ASSUME NEW u \in Workers, NEW kind \in Kinds, NEW key \in SessionKeys,
                 Request(u, kind, key)
          PROVE  lock' = lock
      BY <2>7 DEF Request
    <2>8. ASSUME NEW u \in Workers, Acquire(u) \/ Calculate(u) \/ Detail(u)
          PROVE  lock' = lock \/ LockSetNx(u) \/ LockSetTtl(u) \/ LockRelease(u)
      BY <2>8 DEF Acquire, LockGiveUp, LockTorn, NoLock, Calculate,
                  ReadWorkerKey, ComputePlays, UpsertTotals, SaveProgress,
                  CalculationFails, Detail, DetailReadKey, ReadTotals,
                  UpsertPlaytime, SavePlaytimeKey
    <2>9. QED
      BY <1>1, <2>1, <2>2, <2>3, <2>4, <2>5, <2>6, <2>7, <2>8 DEF Next
  <1>2. TypeInv /\ [Next]_vars
           => [\A v, w \in Workers :
                  v # w /\ lock.holder = w /\ lock' = Free
                      => task'[v] = task[v]]_vars
    BY <1>1
  <1>3. QED
    BY <1>2, TypeInvInit, TypeInvStep, PTL DEF Spec, LockKeptFromOthers

-----------------------------------------------------------------------------
(* The derived playtime.  While no session ends under a task and every     *)
(* task has its lock in the end, all tasks calculate the same sessions,    *)
(* even if some outlive the lock, so nothing up to the last that ended is  *)
(* ever taken out of the totals again.                                     *)
PlayOf(t) ==
    /\ t.pc # "idle" => t.end = ended
    /\ t.pc \in {"plays", "upsert"} =>
          /\ t.start <= ended
          /\ t.start = NoSession => ended = 0
          /\ t.no_data => t.start \in {0, 1}
          /\ ~t.no_data => Covered(t.start)
    /\ t.pc = "upsert" /\ t.start # NoSession => CoversTo(t)
    /\ t.pc \in {"save", "read"} => Covered(t.end)
    /\ t.pc = "release" /\ ~t.failed => Covered(t.end)
    /\ t.pc = "playtime" => 1..t.end \subseteq t.seen
    /\ t.pc = "playtime_key" => 1..t.end \subseteq playtime

PlayInv ==
    /\ Covered(lastCalc["playermap"])
    /\ PlaytimeComplete
    /\ \A w \in Workers : PlayOf(task[w])

\* Nothing up to the last ended session is uncounted.
NothingTaken == \A s \in Sessions : s <= ended /\ Counted(s) => Counted(s)'

LEMMA Unchanged == mapTime' = mapTime => NothingTaken
  BY DEF NothingTaken, Counted

LEMMA CoveredStays ==
    ASSUME NothingTaken, NEW k, k <= ended, Covered(k), k \in Nat, TypeInv
    PROVE  \A s \in Sessions : s <= k => Counted(s)'
  <1>1. Sessions \subseteq Nat /\ ended \in Nat
    BY ConstantsAssumption DEF TypeInv, TypeOK, Sessions
  <1>2. QED
    BY <1>1 DEF NothingTaken, Covered

LEMMA PlayKept ==
    ASSUME TypeInv, PlayInv, ended' = ended, NothingTaken,
           playtime' = playtime \/ 1..ended \subseteq playtime',
           NEW v \in Workers, task'[v] = task[v]
    PROVE  PlayOf(task[v])'
  <1> DEFINE t == task[v]
  <1>1. /\ t \in Task /\ PlayOf(t) /\ t.end \in Nat /\ t.start \in Nat
        /\ t.end <= ended /\ ended \in Nat
    BY ConstantsAssumption DEF TypeInv, TypeOK, PlayInv, Task
  <1>2. Covered(t.end) => \A s \in Sessions : s <= t.end => Counted(s)'
    BY <1>1, CoveredStays
  <1>3. Covered(t.start) /\ t.start <= ended
           => \A s \in Sessions : s <= t.start => Counted(s)'
    BY <1>1, CoveredStays
  <1>4. (Covered(t.end) => Covered(t.end)')
        /\ (Covered(t.start) /\ t.start <= ended => Covered(t.start)')
    BY <1>2, <1>3 DEF Covered
  <1>5. 1..t.end \subseteq playtime => 1..t.end \subseteq playtime'
    BY <1>1
  <1>6. CoversTo(t)' = CoversTo(t)
    BY DEF CoversTo
  <1>7. QED
    BY <1>1, <1>4, <1>5, <1>6 DEF PlayOf

LEMMA PlayStored ==
    ASSUME TypeInv, PlayInv, ended' = ended, NothingTaken,
           lastCalc' = lastCalc,
           playtime' = playtime \/ 1..ended \subseteq playtime'
    PROVE  Covered(lastCalc["playermap"])' /\ PlaytimeComplete'
  <1>1. /\ lastCalc["playermap"] \in 0..ended
        /\ lastCalc["player_playtime"] \in 0..ended /\ ended \in Nat
    BY Names, ConstantsAssumption DEF TypeInv, TypeOK
  <1>2. \A s \in Sessions : s <= lastCalc["playermap"] => Counted(s)'
    BY <1>1, CoveredStays DEF PlayInv
  <1>3. PlaytimeComplete'
    BY <1>1 DEF PlayInv, PlaytimeComplete
  <1>4. QED
    BY <1>2, <1>3 DEF Covered

\* An upsert takes nothing out of the totals: a first one replaces them by
\* those of all sessions there are.
LEMMA UpsertTakesNothing ==
    ASSUME TypeInv, PlayInv, NEW w \in Workers, UpsertTotals(w)
    PROVE  NothingTaken
  <1> DEFINE t == task[w]
  <1>a. /\ t.pc = "upsert" /\ PlayOf(t) /\ t.end = ended /\ ended \in Nat
        /\ mapTime \in [Maps -> [Sessions -> Nat]]
        /\ MapsOf \in [Sessions -> SUBSET Maps]
        /\ \A s \in Sessions : s \in Nat /\ s > 0
    BY ConstantsAssumption
    DEF TypeInv, TypeOK, PlayInv, PlayOf, UpsertTotals, At, Sessions
  <1> SUFFICES ASSUME NEW s \in Sessions, s <= ended, Counted(s)
               PROVE  Counted(s)'
    BY DEF NothingTaken
  <1>1. t.start # NoSession
    BY <1>a DEF PlayOf
  <1>2. QED
    BY <1>1, <1>a, UpsertCovers DEF PlayOf

\* A step of a task that leaves the stores alone, by what the task becomes.
LEMMA PlayMoves ==
    ASSUME TypeInv, PlayInv, NEW w \in Workers,
           UNCHANGED <<ended, mapTime, lastCalc, playtime>>,
           \A v \in Workers \ {w} : task'[v] = task[v],
           PlayOf(task[w])'
    PROVE  PlayInv'
  <1>1. NothingTaken
    BY Unchanged
  <1>2. \A v \in Workers : PlayOf(task[v])'
    BY <1>1, PlayKept
  <1>3. QED
    BY <1>1, <1>2, PlayStored DEF PlayInv

\* At these places a task has nothing to vouch for but its session.
LEMMA PlayEasy ==
    ASSUME NEW w \in Workers, ended' = ended,
           task'[w].pc \in {"idle", "detail_key", "acquire", "expire",
                            "worker_key"},
           task'[w].pc = "idle" \/ task'[w].end = ended
    PROVE  PlayOf(task[w])'
  BY DEF PlayOf

LEMMA PlayStep ==
    ASSUME Faults \intersect {"stale", "busy", "torn"} = {},
           TypeInv, PlayInv, [Next]_vars
    PROVE  PlayInv'
  <1>a. /\ \A w \in Workers : task[w] \in Task /\ PlayOf(task[w])
        /\ ended \in 0..NumSessions /\ NumSessions \in Nat
        /\ Sessions = 1..NumSessions
        /\ \A w \in Workers : /\ task[w].end \in Nat /\ task[w].end <= ended
                              /\ task[w].start \in Nat
    BY ConstantsAssumption DEF TypeInv, TypeOK, PlayInv, Task, Sessions
  <1>1. CASE SessionEnds
    <2>1. \A w \in Workers : task[w].pc = "idle" /\ task'[w] = task[w]
      BY <1>1 DEF SessionEnds, AllIdle, At
    <2>2. \A w \in Workers : PlayOf(task[w])'
      BY <2>1 DEF PlayOf
    <2>3. UNCHANGED <<mapTime, lastCalc, playtime>>
      BY <1>1 DEF SessionEnds
    <2>4. Covered(lastCalc["playermap"])' /\ PlaytimeComplete'
      BY <2>3 DEF PlayInv, Covered, Counted, PlaytimeComplete
    <2>5. QED
      BY <2>2, <2>4 DEF PlayInv
  <1>2. ASSUME NEW w \in Workers, NEW kind \in Kinds, NEW key \in SessionKeys,
               Request(w, kind, key)
        PROVE  PlayInv'
    <2> DEFINE p == IF kind = "detail" THEN "detail_key" ELSE "acquire"
               t == [Idle EXCEPT !.pc = p, !.kind = kind, !.end = key]
    <2>1. t.pc \in {"detail_key", "acquire"} /\ t.end = key
      BY IdleType DEF Task
    <2>2. key = ended
      BY DEF SessionKeys
    <2>3. task'[w] = t /\ \A v \in Workers \ {w} : task'[v] = task[v]
      BY <1>2, BecomeAt DEF Request
    <2>4. UNCHANGED <<ended, mapTime, lastCalc, playtime>>
      BY <1>2 DEF Request
    <2>5. PlayOf(task[w])'
      BY <2>1, <2>2, <2>3, <2>4, PlayEasy
    <2>6. QED
      BY <2>3, <2>4, <2>5, PlayMoves
  <1>3. ASSUME NEW w \in Workers, Acquire(w) PROVE PlayInv'
    <2>1. LockSetNx(w) \/ LockSetTtl(w)
      BY <1>3 DEF Acquire, LockGiveUp, LockTorn
    <2>2. task[w].end = ended
      BY <1>a, <2>1 DEF PlayOf, LockSetNx, LockSetTtl, At
    <2>3. /\ task'[w].pc \in {"expire", "worker_key"}
          /\ \E p \in Places : task'[w] = [task[w] EXCEPT !.pc = p]
          /\ \A v \in Workers \ {w} : task'[v] = task[v]
      BY <2>1, GotoAt, Names DEF LockSetNx, LockSetTtl
    <2>4. UNCHANGED <<ended, mapTime, lastCalc, playtime>>
      BY <2>1 DEF LockSetNx, LockSetTtl
    <2>5. task'[w].end = ended
      BY <1>a, <2>2, <2>3, TaskMoves
    <2>6. QED
      BY <2>3, <2>4, <2>5, PlayEasy, PlayMoves
  <1>4. ASSUME NEW w \in Workers, Calculate(w) PROVE PlayInv'
    <2> DEFINE t == task[w]
    <2>a. t.pc # "idle" /\ t.end = ended
      BY <1>a, <1>4 DEF PlayOf, Calculate, ReadWorkerKey, ComputePlays,
         UpsertTotals, SaveProgress, CalculationFails, LockRelease, At, Critical
    <2>1. CASE ReadWorkerKey(w)
      <3> DEFINE r == [task[w] EXCEPT
                         !.pc = "plays",
                         !.start = StartFor("playermap"),
                         !.no_data = lastCalc["playermap"] = NoSession]
      <3>1. task'[w] = r /\ \A v \in Workers \ {w} : task'[v] = task[v]
        BY <2>1, BecomeAt DEF ReadWorkerKey
      <3>2. /\ r.pc = "plays" /\ r.end = t.end
            /\ r.start = StartFor("playermap")
            /\ r.no_data = (lastCalc["playermap"] = NoSession)
        BY <1>a DEF Task
      <3>3. UNCHANGED <<ended, mapTime, lastCalc, playtime>>
        BY <2>1 DEF ReadWorkerKey
      <3>4. /\ r.start <= ended
            /\ r.start = NoSession => ended = 0
            /\ r.no_data => r.start \in {0, 1}
            /\ ~r.no_data => r.start = lastCalc["playermap"]
        <4> HIDE DEF r
        <4>1. TypeOK /\ lastCalc["playermap"] \in Nat
          BY Names DEF TypeInv, TypeOK
        <4>2. StartFor("playermap") = NoSession => ended = 0
          BY <1>a, <4>1 DEF StartFor, NoSession
        <4>3. QED
          BY <1>a, <3>2, <4>1, <4>2, StartForType, Names DEF NoSession
      <3>5. Covered(lastCalc["playermap"])'
        BY <3>3 DEF PlayInv, Covered, Counted
      <3>6. PlayOf(task[w])'
        <4> HIDE DEF r
        <4>1. QED
          BY <2>a, <3>1, <3>2, <3>3, <3>4, <3>5 DEF PlayOf
      <3>7. QED
        BY <3>1, <3>3, <3>6, PlayMoves
    <2>2. CASE ComputePlays(w)
      <3>1. \A v \in Workers \ {w} : task'[v] = task[v]
        BY <2>2, BecomeAt DEF ComputePlays
      <3>2. UNCHANGED <<ended, mapTime, lastCalc, playtime>> /\ t.pc = "plays"
        BY <2>2 DEF ComputePlays, At
      <3>3. /\ task'[w].end = t.end /\ task'[w].start = t.start
            /\ task'[w].no_data = t.no_data
            /\ task'[w].pc \in {"release", "upsert"}
        BY <2>2, CalculateMoves
      <3>4. ASSUME t.start # NoSession,
                   task'[w].plays = IF t.no_data \/ t.start # t.end
                                    THEN RangePlays(t) ELSE {},
                   NEW s \in Sessions, s <= t.end
            PROVE  s \in task'[w].plays \/ (~t.no_data /\ s <= t.start)
        <4>1. s \in 1..ended
          BY <1>a, <3>4
        <4>2. t.no_data => t.start = 1
          BY <1>a, <3>2, <3>4 DEF PlayOf, NoSession
        <4>3. QED
          BY <1>a, <3>4, <4>1, <4>2 DEF RangePlays
      <3>5. task'[w].pc = "upsert" /\ task'[w].start # NoSession
              => CoversTo(task[w])'
        BY <2>2, <3>3, <3>4, CalculateMoves DEF CoversTo
      <3>6. Covered(t.start) => Covered(task[w].start)'
        BY <3>2, <3>3 DEF Covered, Counted
      <3>7. task'[w].pc = "release" => task'[w].failed
        <4> DEFINE rows == IF t.no_data \/ t.start # t.end
                           THEN RangePlays(t) ELSE {}
                   partial == [t EXCEPT !.pc = "upsert", !.plays = PartialPlays]
                   range == [t EXCEPT !.pc = "upsert", !.plays = rows]
                   failed == [t EXCEPT !.pc = "release", !.failed = TRUE]
        <4>1. Become(w, partial) \/ Become(w, range) \/ Become(w, failed)
          BY <2>2 DEF ComputePlays
        <4>2. task'[w] = partial \/ task'[w] = range \/ task'[w] = failed
          BY <4>1, BecomeAt
        <4>3. partial.pc # "release" /\ range.pc # "release" /\ failed.failed
          BY <1>a DEF Task
        <4>4. QED
          BY <4>2, <4>3
      <3>8. PlayOf(task[w])'
        BY <1>a, <2>a, <3>2, <3>3, <3>5, <3>6, <3>7 DEF PlayOf
      <3>9. QED
        BY <3>1, <3>2, <3>8, PlayMoves
    <2>3. CASE UpsertTotals(w)
      <3>1. NothingTaken
        BY <2>3, UpsertTakesNothing
      <3>2. /\ ended' = ended /\ playtime' = playtime /\ lastCalc' = lastCalc
            /\ t.pc = "upsert" /\ \A v \in Workers \ {w} : task'[v] = task[v]
        BY <2>3, BecomeAt DEF UpsertTotals, At, Goto
      <3>3. task'[w].end = ended /\ task'[w].pc \in {"release", "save"}
        BY <2>3, <2>a, CalculateMoves
      <3>4. ASSUME NEW s \in Sessions, s <= ended PROVE Counted(s)'
        <4>1. t.start # NoSession
          BY <1>a, <3>2, <3>4 DEF PlayOf
        <4>2. CoversTo(t) /\ (~t.no_data => Covered(t.start))
          BY <1>a, <3>2, <4>1 DEF PlayOf
        <4>3. QED
          BY <2>3, <2>a, <3>4, <4>1, <4>2, UpsertCovers
      <3>5. PlayOf(task[w])'
        BY <3>2, <3>3, <3>4 DEF PlayOf, Covered
      <3>6. \A v \in Workers : PlayOf(task[v])'
        BY <3>1, <3>2, <3>5, PlayKept
      <3>7. QED
        BY <3>1, <3>2, <3>6, PlayStored DEF PlayInv
    <2>4. CASE SaveProgress(w)
      <3>1. /\ task'[w] = [t EXCEPT !.pc = "release"]
            /\ task'[w].pc = "release"
            /\ \A v \in Workers \ {w} : task'[v] = task[v]
        BY <2>4, GotoAt, Names DEF SaveProgress
      <3>2. task'[w].end = t.end
        BY <1>a, <3>1, TaskMoves, Names
      <3>3. UNCHANGED <<ended, mapTime, playtime>> /\ t.pc = "save"
        BY <2>4 DEF SaveProgress, At
      <3>4. Covered(t.end)
        BY <1>a, <3>3 DEF PlayOf
      <3>5. NothingTaken
        BY <3>3, Unchanged
      <3>6. \A s \in Sessions : s <= t.end => Counted(s)'
        BY <1>a, <3>4, <3>5, CoveredStays
      <3>7. PlayOf(task[w])'
        BY <2>a, <3>1, <3>2, <3>3, <3>6 DEF PlayOf, Covered
      <3>8. \A v \in Workers : PlayOf(task[v])'
        BY <3>1, <3>3, <3>5, <3>7, PlayKept
      <3>9. /\ lastCalc'["playermap"] = t.end
            /\ lastCalc'["player_playtime"] = lastCalc["player_playtime"]
        BY <2>4, Names DEF SaveProgress, TypeInv, TypeOK
      <3>10. Covered(lastCalc["playermap"])' /\ PlaytimeComplete'
        BY <3>3, <3>6, <3>9 DEF Covered, PlayInv, PlaytimeComplete
      <3>11. QED
        BY <3>8, <3>10 DEF PlayInv
    <2>5. CASE CalculationFails(w)
      <3> DEFINE f == [task[w] EXCEPT !.pc = "release", !.failed = TRUE]
      <3>1. task'[w] = f /\ \A v \in Workers \ {w} : task'[v] = task[v]
        BY <2>5, BecomeAt DEF CalculationFails
      <3>2. f.pc = "release" /\ f.failed /\ f.end = t.end
        BY <1>a DEF Task
      <3>3. UNCHANGED <<ended, mapTime, lastCalc, playtime>>
        BY <2>5 DEF CalculationFails
      <3>4. PlayOf(task[w])'
        BY <2>a, <3>1, <3>2, <3>3 DEF PlayOf
      <3>5. QED
        BY <3>1, <3>3, <3>4, PlayMoves
    <2>6. CASE LockRelease(w)
      <3> DEFINE r == IF task[w].failed THEN Idle
                      ELSE [task[w] EXCEPT !.pc = "read"]
      <3>1. task'[w] = r /\ \A v \in Workers \ {w} : task'[v] = task[v]
        BY <2>6, BecomeAt DEF LockRelease
      <3>2. /\ t.failed => r.pc = "idle"
            /\ ~t.failed => r.pc = "read" /\ r.end = t.end
        BY <1>a, IdleType, TaskMoves, Names
      <3>3. UNCHANGED <<ended, mapTime, lastCalc, playtime>> /\ t.pc = "release"
        BY <2>6 DEF LockRelease, At
      <3>4. ~t.failed => Covered(t.end)
        BY <1>a, <3>3 DEF PlayOf
      <3>5. Covered(t.end) /\ r.end = t.end => Covered(task[w].end)'
        BY <3>1, <3>3 DEF Covered, Counted
      <3>6. PlayOf(task[w])'
        <4> HIDE DEF r
        <4>1. QED
          BY <2>a, <3>1, <3>2, <3>3, <3>4, <3>5 DEF PlayOf
      <3>7. QED
        BY <3>1, <3>3, <3>6, PlayMoves
    <2>7. QED
      BY <1>4, <2>1, <2>2, <2>3, <2>4, <2>5, <2>6 DEF Calculate
  <1>5. ASSUME NEW w \in Workers, Detail(w) PROVE PlayInv'
    <2> DEFINE t == task[w]
    <2>a. t.end = ended
      BY <1>a, <1>5 DEF PlayOf, Detail, DetailReadKey, ReadTotals,
         UpsertPlaytime, SavePlaytimeKey, At
    <2>1. CASE DetailReadKey(w)
      <3> DEFINE r == [task[w] EXCEPT
                         !.pc = "acquire",
                         !.fresh = StartFor("player_playtime") = NoSession]
      <3>1. task'[w] = r /\ \A v \in Workers \ {w} : task'[v] = task[v]
        BY <2>1, BecomeAt DEF DetailReadKey
      <3>2. r.pc = "acquire" /\ r.end = t.end
        BY <1>a DEF Task
      <3>3. UNCHANGED <<ended, mapTime, lastCalc, playtime>>
        BY <2>1 DEF DetailReadKey
      <3>4. QED
        BY <2>a, <3>1, <3>2, <3>3, PlayEasy, PlayMoves
    <2>2. CASE ReadTotals(w)
      <3> DEFINE r == IF task[w].kind = "map_played" THEN Idle
                      ELSE [task[w] EXCEPT
                              !.pc = "playtime",
                              !.seen = {s \in Sessions : Counted(s)}]
      <3>1. task'[w] = r /\ \A v \in Workers \ {w} : task'[v] = task[v]
        BY <2>2, BecomeAt DEF ReadTotals
      <3>2. \/ r.pc = "idle"
            \/ /\ r.pc = "playtime" /\ r.end = t.end
               /\ r.seen = {s \in Sessions : Counted(s)}
        BY <1>a, IdleType DEF Task
      <3>3. UNCHANGED <<ended, mapTime, lastCalc, playtime>> /\ t.pc = "read"
        BY <2>2 DEF ReadTotals, At
      <3>4. 1..t.end \subseteq {s \in Sessions : Counted(s)}
        BY <1>a, <2>a, <3>3 DEF PlayOf, Covered
      <3>5. PlayOf(task[w])'
        <4> HIDE DEF r
        <4>1. QED
          BY <2>a, <3>1, <3>2, <3>3, <3>4 DEF PlayOf
      <3>6. QED
        BY <3>1, <3>3, <3>5, PlayMoves
    <2>3. CASE UpsertPlaytime(w)
      <3> DEFINE r == IF task[w].fresh THEN Idle
                      ELSE [task[w] EXCEPT !.pc = "playtime_key"]
      <3>1. task'[w] = r /\ \A v \in Workers \ {w} : task'[v] = task[v]
        BY <2>3, BecomeAt DEF UpsertPlaytime
      <3>2. r.pc = "idle" \/ (r.pc = "playtime_key" /\ r.end = t.end)
        BY <1>a, IdleType, TaskMoves, Names
      <3>3. UNCHANGED <<ended, mapTime, lastCalc>> /\ playtime' = t.seen
            /\ t.pc = "playtime"
        BY <2>3 DEF UpsertPlaytime, At
      <3>4. 1..ended \subseteq playtime'
        BY <1>a, <2>a, <3>3 DEF PlayOf
      <3>5. PlayOf(task[w])'
        <4> HIDE DEF r
        <4>1. QED
          BY <2>a, <3>1, <3>2, <3>3, <3>4 DEF PlayOf
      <3>6. \A v \in Workers : PlayOf(task[v])'
        BY <3>1, <3>3, <3>4, <3>5, Unchanged, PlayKept
      <3>7. QED
        BY <3>3, <3>4, <3>6, Unchanged, PlayStored DEF PlayInv
    <2>4. CASE SavePlaytimeKey(w)
      <3>1. task'[w] = Idle /\ \A v \in Workers \ {w} : task'[v] = task[v]
        BY <2>4, BecomeAt DEF SavePlaytimeKey
      <3>2. UNCHANGED <<ended, mapTime, playtime>> /\ t.pc = "playtime_key"
        BY <2>4 DEF SavePlaytimeKey, At
      <3>3. PlayOf(task[w])'
        BY <3>1, <3>2, IdleType DEF PlayOf
      <3>4. \A v \in Workers : PlayOf(task[v])'
        BY <3>1, <3>2, <3>3, Unchanged, PlayKept
      <3>5. /\ lastCalc'["playermap"] = lastCalc["playermap"]
            /\ \/ lastCalc'["player_playtime"] = lastCalc["player_playtime"]
               \/ lastCalc'["player_playtime"] = t.end
        BY <2>4, Names DEF SavePlaytimeKey, TypeInv, TypeOK
      <3>6. 1..t.end \subseteq playtime
        BY <1>a, <3>2 DEF PlayOf
      <3>7. Covered(lastCalc["playermap"])'
        BY <3>2, <3>5 DEF PlayInv, Covered, Counted
      <3>8. PlaytimeComplete'
        BY <3>2, <3>5, <3>6 DEF PlayInv, PlaytimeComplete
      <3>9. QED
        BY <3>4, <3>7, <3>8 DEF PlayInv
    <2>5. QED
      BY <1>5, <2>1, <2>2, <2>3, <2>4 DEF Detail
  <1>6. CASE LockExpires \/ UNCHANGED vars
    <2>1. UNCHANGED <<ended, mapTime, lastCalc, playtime, task>>
      BY <1>6 DEF LockExpires, vars
    <2>2. \A v \in Workers : PlayOf(task[v])'
      BY <2>1, Unchanged, PlayKept
    <2>3. QED
      BY <2>1, <2>2, Unchanged, PlayStored DEF PlayInv
  <1>7. CASE Restart
    <2>1. UNCHANGED <<ended, mapTime, lastCalc, playtime>>
          /\ \A v \in Workers : task'[v] = Idle
      BY <1>7 DEF Restart
    <2>2. \A v \in Workers : PlayOf(task[v])'
      BY <2>1, IdleType DEF PlayOf
    <2>3. QED
      BY <2>1, <2>2, Unchanged, PlayStored DEF PlayInv
  <1>8. QED
    BY <1>1, <1>2, <1>3, <1>4, <1>5, <1>6, <1>7 DEF Next

\* player_playtime includes every session up to the one its worker row names,
\* through restarts, failed queries and calculations that outlive their lock,
\* as long as tasks come with the present session and wait for their lock.
THEOREM PlaytimeIsComplete ==
    ASSUME Faults \intersect {"stale", "busy", "torn"} = {}
    PROVE  Spec => []PlaytimeComplete
  <1>1. Init => PlayInv
    <2> SUFFICES ASSUME Init PROVE PlayInv
      OBVIOUS
    <2>1. \A s \in Sessions : s \in Nat /\ s > 0
      BY ConstantsAssumption DEF Sessions
    <2>2. lastCalc["playermap"] = 0 /\ lastCalc["player_playtime"] = 0
      BY Names DEF Init, NoSession
    <2>3. \A w \in Workers : PlayOf(task[w])
      BY IdleType DEF Init, PlayOf
    <2>4. QED
      BY <2>1, <2>2, <2>3 DEF PlayInv, Covered, PlaytimeComplete
  <1>2. PlayInv => PlaytimeComplete
    BY DEF PlayInv
  <1>3. TypeInv /\ PlayInv /\ [Next]_vars => TypeInv' /\ PlayInv'
    BY TypeInvStep, PlayStep
  <1>4. QED
    BY <1>1, <1>2, <1>3, TypeInvInit, PTL DEF Spec
=============================================================================

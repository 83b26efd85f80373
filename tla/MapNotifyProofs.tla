-------------------------- MODULE MapNotifyProofs --------------------------
(***************************************************************************)
(* The types and the foreign key of MapNotify (NotifyTyping), and that a   *)
(* subscription is one-shot until changes overlap, the backend restarts or *)
(* a query fails (PushedOnce) and takes one push of each change whatever   *)
(* happens (PushedOncePerChange).                                          *)
(***************************************************************************)
EXTENDS MapNotify, SequenceTheorems, FiniteSetTheorems, TLAPS

-----------------------------------------------------------------------------
(* Until troubles begin one task at a time handles one change.  A row that *)
(* it has still to push was never pushed since it was armed, and one that  *)
(* was pushed is triggered, or is what the task marks next.                *)

Handling == {"lookup", "push", "mark"}

OneAtATime ==
    /\ \A t, u \in Tasks : ~At(t, "idle") /\ ~At(u, "idle") => t = u
    /\ inbox # <<>> => Tail(inbox) = <<>> /\ \A t \in Tasks : At(t, "idle")

Fresh(i) == i \in Rows => subs[i].pushes = 0

TaskInv(t) ==
    LET s == task[t] IN
    /\ s.pc \in Handling => /\ \A x \in s.todo : Fresh(x.id)
                            /\ \A x, y \in s.todo : x.id = y.id => x = y
    /\ s.pc \in {"push", "mark"} => \A x \in s.todo : x.id # s.cur.id
    /\ s.pc = "push" => Fresh(s.cur.id)

RowInv(i) ==
    /\ subs[i].pushes <= 1
    /\ \/ subs[i].pushes = 0
       \/ subs[i].triggered
       \/ \E t \in Tasks : At(t, "mark") /\ task[t].cur.id = i

ShotInv ==
    troubles = {} => /\ OneAtATime
                     /\ \A t \in Tasks : TaskInv(t)
                     /\ \A i \in Rows : RowInv(i)

-----------------------------------------------------------------------------
(* Types *)

LEMMA IdleTask ==
    /\ Idle \in Task
    /\ Idle.pc = "idle" /\ Idle.todo = {}
    /\ \A e \in Event : [Idle EXCEPT !.pc = "select", !.event = e] \in Task
  <1>1. \E e \in Event : TRUE
    <2>1. PICK s \in Servers, m \in Maps : TRUE
      BY ConstantsAssumption
    <2>2. [server |-> s, map |-> m] \in Event
      BY DEF Event
    <2> QED  BY <2>2
  <1> QED  BY <1>1 DEF Idle, Task, TaskPlaces, Kinds

LEMMA ArmedRow ==
    ASSUME NEW d \in Devices, NEW key \in Key
    PROVE  /\ Armed(d, key) \in Row
           /\ Armed(d, key).device = d
           /\ Armed(d, key).pushes = 0
  BY DEF Armed, Row

LEMMA AdvanceType ==
    ASSUME NEW s \in Task
    PROVE  Advance(s) \in Task
  BY IdleTask DEF Advance, Task, TaskPlaces, Kinds

LEMMA RemoveType ==
    ASSUME TypeOK, NEW d, Remove(d)
    PROVE  /\ device' \in [Devices -> DeviceStates]
           /\ subs' \in [Ids -> Row \union {None}]
           /\ \A i \in Rows' : device'[subs'[i].device] = "registered"
  <1>1. \A i \in Rows' : i \in Rows /\ subs'[i] = subs[i] /\ subs[i].device # d
    BY DEF Remove, Rows, TypeOK
  <1>2. \A i \in Rows : subs[i] \in Row /\ subs[i].device \in Devices
    BY DEF TypeOK, Rows, Row
  <1>3. \A i \in Rows' : device'[subs'[i].device] = device[subs[i].device]
    BY <1>1, <1>2 DEF Remove, TypeOK
  <1> QED  BY <1>1, <1>3 DEF Remove, TypeOK, DeviceStates

(* What only takes rows away, or leaves them, keeps the foreign key. *)
LEMMA FewerRows ==
    ASSUME TypeOK, NEW gone,
           subs' = [i \in Ids |-> IF i \in gone THEN None ELSE subs[i]],
           device' = device
    PROVE  /\ subs' \in [Ids -> Row \union {None}]
           /\ \A i \in Rows' : device'[subs'[i].device] = "registered"
  BY DEF TypeOK, Rows

LEMMA TriedType ==
    ASSUME TypeOK, NEW i, NEW n \in {0, 1}, Tried(i, n), device' = device
    PROVE  /\ subs' \in [Ids -> Row \union {None}]
           /\ \A j \in Rows' : device'[subs'[j].device] = "registered"
  <1>1. CASE i \notin Rows
    BY <1>1 DEF Tried, TypeOK, Rows
  <1>2. CASE i \in Rows
    <2>1. i \in Ids /\ subs[i] \in Row
      BY <1>2 DEF Rows, TypeOK
    <2> DEFINE row == [subs[i] EXCEPT !.tried = TRUE, !.pushes = @ + n]
    <2>2. subs' = [subs EXCEPT ![i] = row]
      BY <1>2, <2>1 DEF Tried, TypeOK, Row
    <2>3. row \in Row /\ row.device = subs[i].device
      <3>1. subs[i].pushes \in Nat /\ subs[i].pushes + n \in Nat
        BY <2>1 DEF Row
      <3> QED  BY <2>1, <3>1 DEF Row
    <2> HIDE DEF row
    <2> QED  BY <1>2, <2>1, <2>2, <2>3 DEF TypeOK, Rows
  <1> QED  BY <1>1, <1>2

LEMMA MarkedType ==
    ASSUME TypeOK, NEW i \in Rows, Marked(i), device' = device
    PROVE  /\ subs' \in [Ids -> Row \union {None}]
           /\ \A j \in Rows' : device'[subs'[j].device] = "registered"
  <1>1. i \in Ids /\ subs[i] \in Row
    BY DEF Rows, TypeOK
  <1>2. /\ subs' = [subs EXCEPT ![i] = [subs[i] EXCEPT !.triggered = TRUE]]
        /\ [subs[i] EXCEPT !.triggered = TRUE] \in Row
        /\ [subs[i] EXCEPT !.triggered = TRUE].device = subs[i].device
    BY <1>1 DEF Marked, TypeOK, Row
  <1> QED  BY <1>1, <1>2 DEF TypeOK, Rows

LEMMA TypeStart == Init => TypeOK
  <1> SUFFICES ASSUME Init PROVE TypeOK
    OBVIOUS
  <1>1. Rows = {} /\ subs \in [Ids -> Row \union {None}]
    BY DEF Init, Rows
  <1>2. used \in 0..MaxRows /\ changes \in 0..MaxChanges
    BY ConstantsAssumption DEF Init
  <1>3. inbox \in Seq(Event) /\ task \in [Tasks -> Task]
    BY EmptySeq, IdleTask DEF Init
  <1> QED  BY <1>1, <1>2, <1>3 DEF Init, TypeOK, DeviceStates

LEMMA EndpointTypes ==
    ASSUME TypeOK, UNCHANGED <<listening, inbox, task, changes, troubles>>,
           \/ \E d \in Devices : Register(d) \/ Unregister(d)
           \/ \E d \in Devices, key \in Key : Subscribe(d, key)
           \/ \E user \in Users, key \in Key : Unsubscribe(user, key)
           \/ CleanupTriggered
    PROVE  TypeOK'
  <1>0. MaxRows \in Nat
    BY ConstantsAssumption
  <1> DEFINE RowTypes ==
               /\ device' \in [Devices -> DeviceStates]
               /\ subs' \in [Ids -> Row \union {None}]
               /\ \A i \in Rows' : device'[subs'[i].device] = "registered"
               /\ used' \in 0..MaxRows
  <1>1. ASSUME NEW d \in Devices, Register(d) PROVE RowTypes
    <2>1. \A i \in Rows : subs[i].device \in Devices
      BY DEF TypeOK, Rows, Row
    <2> QED  BY <1>1, <2>1 DEF Register, endpoints, TypeOK, DeviceStates, Rows
  <1>2. ASSUME NEW d \in Devices, Unregister(d) PROVE RowTypes
    BY <1>2, RemoveType DEF Unregister, TypeOK
  <1>3. ASSUME NEW d \in Devices, NEW key \in Key, Subscribe(d, key)
        PROVE RowTypes
    <2>1. device' = device /\ device[d] = "registered"
      BY <1>3 DEF Subscribe
    <2>2. CASE Resubscribe(d, key) /\ UNCHANGED used
      BY <2>1, <2>2, ArmedRow DEF Resubscribe, TypeOK, Rows
    <2>3. CASE /\ used < MaxRows
               /\ subs' = [subs EXCEPT ![used + 1] = Armed(d, key)]
               /\ used' = used + 1
      <3>1. used + 1 \in Ids /\ used' \in 0..MaxRows
        BY <1>0, <2>3 DEF TypeOK, Ids
      <3> QED  BY <2>1, <2>3, <3>1, ArmedRow DEF TypeOK, Rows
    <2> QED  BY <1>3, <2>2, <2>3 DEF Subscribe
  <1>4. ASSUME NEW user \in Users, NEW key \in Key, Unsubscribe(user, key)
        PROVE RowTypes
    BY <1>4, FewerRows DEF Unsubscribe, TypeOK
  <1>5. ASSUME CleanupTriggered PROVE RowTypes
    BY <1>5, FewerRows DEF CleanupTriggered, TypeOK
  <1>6. RowTypes
    BY <1>1, <1>2, <1>3, <1>4, <1>5
  <1> QED  BY <1>6 DEF TypeOK

LEMMA ListenerTypes ==
    ASSUME TypeOK,
           \/ \E e \in Event : MapChanges(e)
           \/ Connect \/ Disconnect \/ Restart
           \/ \E t \in Tasks : Receive(t)
    PROVE  TypeOK'
  <1>0. UNCHANGED endpoints => UNCHANGED <<device, subs, used>>
    BY DEF endpoints
  <1>1. ASSUME NEW e \in Event, MapChanges(e) PROVE TypeOK'
    <2>1. /\ inbox' \in Seq(Event)
          /\ troubles' \subseteq Troubles \intersect Faults
          /\ changes' \in 0..MaxChanges
      <3>1. Append(inbox, e) \in Seq(Event)
        BY AppendProperties DEF TypeOK
      <3>2. changes' \in 0..MaxChanges
        BY <1>1, ConstantsAssumption DEF MapChanges, TypeOK
      <3>3. troubles' \subseteq Troubles \intersect Faults
        BY <1>1 DEF MapChanges, TypeOK, Happens, Troubles
      <3> QED  BY <1>1, <3>1, <3>2, <3>3 DEF MapChanges, TypeOK
    <2> QED  BY <1>0, <1>1, <2>1 DEF MapChanges, TypeOK, Rows
  <1>2. ASSUME Connect PROVE TypeOK'
    BY <1>0, <1>2 DEF Connect, world, TypeOK, Rows
  <1>3. ASSUME Disconnect PROVE TypeOK'
    BY <1>0, <1>3, EmptySeq DEF Disconnect, world, TypeOK, Rows
  <1>4. ASSUME Restart PROVE TypeOK'
    BY <1>0, <1>4, EmptySeq, IdleTask
    DEF Restart, TypeOK, Rows, Happens, Troubles
  <1>5. ASSUME NEW t \in Tasks, Receive(t) PROVE TypeOK'
    <2>1. Head(inbox) \in Event /\ Tail(inbox) \in Seq(Event)
      BY <1>5, HeadTailProperties DEF Receive, TypeOK
    <2>2. task' \in [Tasks -> Task]
      BY <1>5, <2>1, IdleTask DEF Receive, Run, TypeOK
    <2> QED  BY <1>0, <1>5, <2>1, <2>2 DEF Receive, world, TypeOK, Rows
  <1> QED  BY <1>1, <1>2, <1>3, <1>4, <1>5

LEMMA HandleType ==
    ASSUME TypeOK, NEW t \in Tasks, NEW item \in task[t].todo,
           NEW place \in {"push", "mark"}, Handle(t, item, place)
    PROVE  task' \in [Tasks -> Task]
  <1>1. task[t] \in Task /\ item \in Item
    BY DEF TypeOK, Task
  <1> QED  BY <1>1 DEF Handle, Run, TypeOK, Task, TaskPlaces

LEMMA DeliveryTypes ==
    ASSUME TypeOK, NEW t \in Tasks,
           Select(t) \/ Lookup(t) \/ Push(t) \/ Mark(t) \/ QueryFails(t)
    PROVE  TypeOK'
  <1>0. /\ task[t] \in Task
        /\ \A item \in task[t].todo : item \in Item
    BY DEF TypeOK, Task
  <1>1. ASSUME Select(t) PROVE TypeOK'
    <2>1. {[id |-> i, device |-> subs[i].device] : i \in Untriggered(task[t])}
             \subseteq Item
      BY DEF TypeOK, Untriggered, Rows, Row, Item
    <2> QED
      BY <1>0, <1>1, <2>1, AdvanceType
      DEF Select, endpoints, connection, world, Run, TypeOK, Task, Rows
  <1>2. ASSUME Lookup(t) PROVE TypeOK'
    BY <1>2, HandleType DEF Lookup, endpoints, connection, world, TypeOK, Rows
  <1>3. ASSUME Push(t) PROVE TypeOK'
    <2>1. task' \in [Tasks -> Task]
      BY <1>0, <1>3 DEF Push, Run, TypeOK, Task, TaskPlaces
    <2>2. /\ device' \in [Devices -> DeviceStates]
          /\ subs' \in [Ids -> Row \union {None}]
          /\ \A j \in Rows' : device'[subs'[j].device] = "registered"
      <3>1. CASE Remove(task[t].cur.device)
        BY <3>1, RemoveType
      <3>2. CASE /\ device' = device
                 /\ Tried(task[t].cur.id, 1) \/ Tried(task[t].cur.id, 0)
        BY <3>2, TriedType DEF TypeOK
      <3> QED  BY <1>3, <3>1, <3>2 DEF Push
    <2> QED  BY <1>3, <2>1, <2>2 DEF Push, connection, world, TypeOK
  <1>4. ASSUME Mark(t) PROVE TypeOK'
    <2>1. task' \in [Tasks -> Task]
      BY <1>0, <1>4, AdvanceType DEF Mark, Run, TypeOK
    <2>2. /\ subs' \in [Ids -> Row \union {None}]
          /\ \A j \in Rows' : device'[subs'[j].device] = "registered"
      BY <1>4, MarkedType DEF Mark, TypeOK, Rows
    <2> QED  BY <1>4, <2>1, <2>2 DEF Mark, connection, world, TypeOK
  <1>5. ASSUME QueryFails(t) PROVE TypeOK'
    <2>1. task' \in [Tasks -> Task]
      BY <1>0, <1>5, AdvanceType, IdleTask, HandleType
      DEF QueryFails, Run, TypeOK
    <2>2. troubles' \subseteq Troubles \intersect Faults
      BY <1>5 DEF QueryFails, Happens, Troubles, TypeOK
    <2> QED
      BY <1>5, <2>1, <2>2 DEF QueryFails, endpoints, connection, TypeOK, Rows
  <1> QED  BY <1>1, <1>2, <1>3, <1>4, <1>5

LEMMA TypeStep ==
    ASSUME TypeOK, [Next]_vars
    PROVE  TypeOK'
  <1>1. CASE UNCHANGED vars
    BY <1>1 DEF vars, TypeOK, Rows
  <1>2. CASE Next
    BY <1>2, EndpointTypes, ListenerTypes, DeliveryTypes
    DEF Next, Work, Register, Unregister, Subscribe, Unsubscribe,
        CleanupTriggered, connection, world
  <1> QED  BY <1>1, <1>2

(* What every step leaves: rows, devices, tasks and notifications of their *)
(* types, and no subscription of a device that is not registered.          *)
THEOREM NotifyTyping == Spec => []TypeOK
  <1>1. TypeOK /\ [Next]_vars => TypeOK'
    BY TypeStep
  <1> QED  BY <1>1, TypeStart, PTL DEF Spec

-----------------------------------------------------------------------------
(* One push *)

(* The rows there are now are as they were, or armed since. *)
Calmly == \A i \in Rows' : \/ i \in Rows /\ subs'[i] = subs[i]
                           \/ subs'[i].pushes = 0

LEMMA RowsKeep ==
    ASSUME ShotInv, Calmly, task' = task, inbox' \in {inbox, <<>>},
           troubles' = {} => troubles = {}
    PROVE  ShotInv'
  <1> SUFFICES ASSUME troubles = {}, troubles' = {}
               PROVE  /\ OneAtATime'
                      /\ \A t \in Tasks : TaskInv(t)'
                      /\ \A i \in Rows' : RowInv(i)'
    BY DEF ShotInv
  <1>1. OneAtATime'
    BY DEF ShotInv, OneAtATime, At
  <1>2. \A i : Fresh(i) => Fresh(i)'
    BY DEF Calmly, Fresh
  <1>3. \A t \in Tasks : TaskInv(t)'
    BY <1>2 DEF ShotInv, TaskInv
  <1>4. \A i \in Rows' : RowInv(i)'
    BY DEF Calmly, ShotInv, RowInv, At
  <1> QED  BY <1>1, <1>3, <1>4

LEMMA RemoveCalm == ASSUME NEW d, Remove(d) PROVE Calmly
  BY DEF Remove, Calmly, Rows

LEMMA EndpointsCalm ==
    ASSUME TypeOK,
           \/ \E d \in Devices : Register(d) \/ Unregister(d)
           \/ \E d \in Devices, key \in Key : Subscribe(d, key)
           \/ \E user \in Users, key \in Key : Unsubscribe(user, key)
           \/ CleanupTriggered
    PROVE  Calmly
  <1>1. ASSUME NEW d \in Devices, Register(d) PROVE Calmly
    BY <1>1 DEF Register, Calmly, Rows
  <1>2. ASSUME NEW d \in Devices, Unregister(d) PROVE Calmly
    BY <1>2, RemoveCalm DEF Unregister
  <1>3. ASSUME NEW d \in Devices, NEW key \in Key, Subscribe(d, key)
        PROVE Calmly
    <2>1. CASE Resubscribe(d, key)
      BY <2>1, ArmedRow DEF Resubscribe, Calmly, Rows, TypeOK
    <2>2. CASE subs' = [subs EXCEPT ![used + 1] = Armed(d, key)]
      BY <2>2, ArmedRow DEF Calmly, Rows, TypeOK
    <2> QED  BY <1>3, <2>1, <2>2 DEF Subscribe
  <1>4. ASSUME NEW user \in Users, NEW key \in Key, Unsubscribe(user, key)
        PROVE Calmly
    BY <1>4 DEF Unsubscribe, Calmly, Rows
  <1>5. ASSUME CleanupTriggered PROVE Calmly
    BY <1>5 DEF CleanupTriggered, Calmly, Rows
  <1> QED  BY <1>1, <1>2, <1>3, <1>4, <1>5

LEMMA ListenerShots ==
    ASSUME TypeOK, ShotInv,
           \/ \E e \in Event : MapChanges(e)
           \/ Connect \/ Disconnect \/ Restart
           \/ \E t \in Tasks : Receive(t)
    PROVE  ShotInv'
  <1> SUFFICES ASSUME troubles = {}, troubles' = {}
               PROVE  ShotInv'
    BY DEF ShotInv, MapChanges, Connect, Disconnect, Restart, Receive, world,
           Happens
  <1>0. UNCHANGED endpoints => Calmly
    BY DEF endpoints, Calmly, Rows
  <1>1. ASSUME NEW e \in Event, MapChanges(e) PROVE ShotInv'
    <2>1. /\ Calm
          /\ inbox' \in {inbox, Append(inbox, e)}
          /\ task' = task /\ subs' = subs
      BY <1>1 DEF MapChanges, Happens, endpoints
    <2>2. Tail(Append(inbox, e)) = <<>>
      <3>1. inbox = <<>> /\ inbox \in Seq(Event)
        BY <2>1 DEF Calm, TypeOK
      <3> QED  BY <3>1, HeadTailAppend
    <2>3. OneAtATime'
      BY <2>1, <2>2 DEF Calm, OneAtATime, ShotInv, At
    <2>4. \A t \in Tasks : TaskInv(t)'
      BY <2>1 DEF ShotInv, TaskInv, Fresh, Rows
    <2>5. \A i \in Rows' : RowInv(i)'
      BY <2>1 DEF ShotInv, RowInv, At, Rows
    <2> QED  BY <2>3, <2>4, <2>5 DEF ShotInv
  <1>2. ASSUME Connect PROVE ShotInv'
    BY <1>0, <1>2, RowsKeep DEF Connect, world
  <1>3. ASSUME Disconnect PROVE ShotInv'
    BY <1>0, <1>3, RowsKeep DEF Disconnect, world, endpoints
  <1>4. ~Restart
    BY DEF Restart, Happens
  <1>5. ASSUME NEW t \in Tasks, Receive(t) PROVE ShotInv'
    <2>1. /\ \A u \in Tasks : At(u, "idle")
          /\ inbox' = <<>>
          /\ subs' = subs
      BY <1>5 DEF Receive, ShotInv, OneAtATime, endpoints
    <2>2. /\ task'[t].pc = "select"
          /\ \A u \in Tasks \ {t} : task'[u] = task[u]
      <3>1. Head(inbox) \in Event
        BY <1>5, HeadTailProperties DEF Receive, TypeOK
      <3> QED  BY <1>5, <3>1, IdleTask DEF Receive, Run, TypeOK, Task
    <2>3. OneAtATime'
      BY <2>1, <2>2 DEF OneAtATime, At
    <2>4. \A u \in Tasks : TaskInv(u)'
      BY <2>1, <2>2 DEF TaskInv, At, Handling
    <2>5. \A i \in Rows' : RowInv(i)'
      BY <2>1 DEF ShotInv, RowInv, At, Rows
    <2> QED  BY <2>3, <2>4, <2>5 DEF ShotInv
  <1> QED  BY <1>1, <1>2, <1>3, <1>4, <1>5

(* While a task works, it is the only one, and nothing waits for another.  *)
LEMMA Alone ==
    ASSUME ShotInv, troubles = {}, NEW t \in Tasks, ~At(t, "idle")
    PROVE  /\ inbox = <<>>
           /\ \A u \in Tasks \ {t} : At(u, "idle")
  BY DEF ShotInv, OneAtATime

LEMMA AloneStays ==
    ASSUME ShotInv, troubles = {}, NEW t \in Tasks, ~At(t, "idle"),
           inbox' = inbox,
           \A u \in Tasks \ {t} : task'[u] = task[u]
    PROVE  /\ OneAtATime'
           /\ \A u \in Tasks \ {t} : TaskInv(u)'
  BY Alone DEF OneAtATime, At, TaskInv, Handling

(* After a row the task is at its next, at its other query or at rest. *)
LEMMA AdvancePlaces ==
    ASSUME NEW s \in Task
    PROVE  \/ Advance(s).pc = "lookup" /\ Advance(s).todo = s.todo
           \/ Advance(s).pc \in {"select", "idle"}
  BY IdleTask DEF Advance, Task

LEMMA SelectShots ==
    ASSUME TypeOK, ShotInv, troubles = {}, NEW t \in Tasks, Select(t)
    PROVE  ShotInv'
  <1> DEFINE found == {[id |-> i, device |-> subs[i].device] :
                          i \in Untriggered(task[t])}
             s == [task[t] EXCEPT !.todo = found]
  <1>1. /\ At(t, "select")
        /\ inbox' = inbox /\ subs' = subs
        /\ task[t] \in Task
        /\ task' = [task EXCEPT ![t] = Advance(s)]
        /\ \A u \in Tasks \ {t} : task'[u] = task[u]
    BY DEF Select, endpoints, connection, Run, TypeOK
  <1>2. s \in Task /\ s.todo = found
    <2>1. found \subseteq Item
      BY DEF TypeOK, Untriggered, Rows, Row, Item
    <2> HIDE DEF found
    <2> QED  BY <1>1, <2>1 DEF Task
  <1>3. OneAtATime' /\ \A u \in Tasks \ {t} : TaskInv(u)'
    BY <1>1, AloneStays DEF At
  <1>4. \A i \in Rows : subs[i].pushes = 0 \/ subs[i].triggered
    BY <1>1, Alone DEF ShotInv, RowInv, At
  <1>5. \A x \in found : Fresh(x.id)
    BY <1>4 DEF Fresh, Untriggered
  <1>6. \A x, y \in found : x.id = y.id => x = y
    OBVIOUS
  <1> HIDE DEF found, s
  <1>7. TaskInv(t)'
    <2>1. task'[t] = Advance(s)
      BY <1>1 DEF TypeOK
    <2>2. \A i : Fresh(i)' <=> Fresh(i)
      BY <1>1 DEF Fresh, Rows
    <2> QED
      BY <1>2, <1>5, <1>6, <2>1, <2>2, AdvancePlaces DEF TaskInv, Handling
  <1>8. \A i \in Rows' : RowInv(i)'
    BY <1>1, <1>4 DEF ShotInv, RowInv, Rows
  <1> QED  BY <1>3, <1>7, <1>8 DEF ShotInv

LEMMA LookupShots ==
    ASSUME TypeOK, ShotInv, troubles = {}, NEW t \in Tasks, Lookup(t)
    PROVE  ShotInv'
  <1>1. /\ At(t, "lookup")
        /\ inbox' = inbox /\ subs' = subs
        /\ task[t] \in Task
    BY DEF Lookup, endpoints, connection, TypeOK
  <1>2. PICK item \in task[t].todo, place \in {"push", "mark"} :
            Handle(t, item, place)
    BY DEF Lookup
  <1>3. /\ task'[t].pc = place
        /\ task'[t].cur = item
        /\ task'[t].todo = task[t].todo \ {item}
        /\ \A u \in Tasks \ {t} : task'[u] = task[u]
    BY <1>1, <1>2 DEF Handle, Run, TypeOK, Task
  <1>4. OneAtATime' /\ \A u \in Tasks \ {t} : TaskInv(u)'
    BY <1>1, <1>3, AloneStays DEF At
  <1>5. \A i : Fresh(i)' <=> Fresh(i)
    BY <1>1 DEF Fresh, Rows
  <1>6. TaskInv(t)'
    BY <1>1, <1>3, <1>5 DEF TaskInv, ShotInv, At, Handling
  <1>7. \A i \in Rows' : RowInv(i)'
    <2>1. \A i \in Rows : subs[i].pushes = 0 \/ subs[i].triggered
      BY <1>1, Alone DEF ShotInv, RowInv, At
    <2> QED  BY <1>1, <2>1 DEF ShotInv, RowInv, Rows
  <1> QED  BY <1>4, <1>6, <1>7 DEF ShotInv

LEMMA PushShots ==
    ASSUME TypeOK, ShotInv, troubles = {}, NEW t \in Tasks, Push(t)
    PROVE  ShotInv'
  <1> PICK i : i = task[t].cur.id
    OBVIOUS
  <1>1. /\ At(t, "push")
        /\ inbox' = inbox
        /\ task[t] \in Task
        /\ task' = [task EXCEPT ![t] = [task[t] EXCEPT !.pc = "mark"]]
    BY DEF Push, connection, Run, TypeOK
  <1>2. /\ task'[t].pc = "mark"
        /\ task'[t].cur.id = i
        /\ task'[t].todo = task[t].todo
        /\ \A u \in Tasks \ {t} : task'[u] = task[u]
    BY <1>1 DEF TypeOK, Task
  <1>3. OneAtATime' /\ \A u \in Tasks \ {t} : TaskInv(u)'
    BY <1>1, <1>2, AloneStays DEF At
  <1>4. /\ \A x \in task[t].todo : Fresh(x.id) /\ x.id # i
        /\ \A x, y \in task[t].todo : x.id = y.id => x = y
        /\ Fresh(i)
    BY <1>1 DEF ShotInv, TaskInv, Handling, At
  <1>5. /\ \A j \in Rows' \ {i} : j \in Rows /\ subs'[j] = subs[j]
        /\ i \in Rows' => i \in Rows /\ subs'[i].pushes \in {0, 1}
    <2>1. CASE \E n \in {0, 1} : Tried(i, n)
      <3>1. PICK n \in {0, 1} : Tried(i, n)
        BY <2>1
      <3>2. CASE i \in Rows
        <4>1. i \in Ids /\ subs[i] \in Row /\ subs[i].pushes = 0
          BY <1>4, <3>2 DEF Rows, TypeOK, Fresh
        <4>2. subs[i].pushes + n \in {0, 1}
          BY <4>1
        <4> QED  BY <3>1, <3>2, <4>1, <4>2 DEF Tried, Rows, TypeOK, Row
      <3>3. CASE i \notin Rows
        BY <3>1, <3>3 DEF Tried, Rows
      <3> QED  BY <3>2, <3>3
    <2>2. CASE Remove(task[t].cur.device)
      BY <2>2, <1>4 DEF Remove, Rows, Fresh
    <2> QED  BY <2>1, <2>2 DEF Push
  <1>6. TaskInv(t)'
    <2>1. \A x \in task[t].todo : Fresh(x.id)'
      BY <1>4, <1>5 DEF Fresh
    <2> QED  BY <1>2, <1>4, <2>1 DEF TaskInv
  <1>7. \A j \in Rows' : RowInv(j)'
    <2>1. \A j \in Rows : subs[j].pushes = 0 \/ subs[j].triggered
      BY <1>1, Alone DEF ShotInv, RowInv, At
    <2>2. \A j \in Rows' \ {i} : RowInv(j)'
      BY <1>5, <2>1 DEF ShotInv, RowInv
    <2>3. i \in Rows' => RowInv(i)'
      BY <1>2, <1>5 DEF RowInv, At
    <2> QED  BY <2>2, <2>3
  <1> QED  BY <1>3, <1>6, <1>7 DEF ShotInv

LEMMA MarkShots ==
    ASSUME TypeOK, ShotInv, troubles = {}, NEW t \in Tasks, Mark(t)
    PROVE  ShotInv'
  <1> PICK i : i = task[t].cur.id
    OBVIOUS
  <1>1. /\ At(t, "mark")
        /\ inbox' = inbox
        /\ task[t] \in Task
        /\ task' = [task EXCEPT ![t] = Advance(task[t])]
        /\ task'[t] = Advance(task[t])
        /\ \A u \in Tasks \ {t} : task'[u] = task[u]
    BY DEF Mark, connection, Run, TypeOK
  <1>2. OneAtATime' /\ \A u \in Tasks \ {t} : TaskInv(u)'
    BY <1>1, AloneStays DEF At
  <1>3. /\ \A j \in Rows' \ {i} : j \in Rows /\ subs'[j] = subs[j]
        /\ i \in Rows' => /\ i \in Rows /\ subs'[i].triggered
                          /\ subs'[i].pushes = subs[i].pushes
    <2>1. CASE i \in Rows
      <3>1. i \in Ids /\ subs[i] \in Row
        BY <2>1 DEF Rows, TypeOK
      <3> QED  BY <2>1, <3>1 DEF Mark, Marked, Rows, TypeOK, Row
    <2>2. CASE i \notin Rows
      BY <2>2 DEF Mark, Rows
    <2> QED  BY <2>1, <2>2
  <1>4. TaskInv(t)'
    <2>1. /\ \A x \in task[t].todo : Fresh(x.id) /\ x.id # i
          /\ \A x, y \in task[t].todo : x.id = y.id => x = y
      BY <1>1 DEF ShotInv, TaskInv, Handling, At
    <2>2. \A x \in task[t].todo : Fresh(x.id)'
      BY <1>3, <2>1 DEF Fresh
    <2> QED
      BY <1>1, <2>1, <2>2, AdvancePlaces DEF TaskInv, Handling
  <1>5. \A j \in Rows' : RowInv(j)'
    <2>1. \A j \in Rows \ {i} : subs[j].pushes = 0 \/ subs[j].triggered
      BY <1>1, Alone DEF ShotInv, RowInv, At
    <2> QED  BY <1>3, <2>1 DEF ShotInv, RowInv
  <1> QED  BY <1>2, <1>4, <1>5 DEF ShotInv

LEMMA ShotStart == Init => ShotInv
  BY IdleTask
  DEF Init, ShotInv, OneAtATime, TaskInv, Handling, At, Rows

LEMMA ShotStep ==
    ASSUME TypeOK, ShotInv, [Next]_vars
    PROVE  ShotInv'
  <1>1. CASE UNCHANGED vars
    BY <1>1, RowsKeep DEF vars, Calmly, Rows
  <1>2. ASSUME UNCHANGED <<listening, inbox, task, changes, troubles>>,
               \/ \E d \in Devices : Register(d) \/ Unregister(d)
               \/ \E d \in Devices, key \in Key : Subscribe(d, key)
               \/ \E user \in Users, key \in Key : Unsubscribe(user, key)
               \/ CleanupTriggered
        PROVE  ShotInv'
    BY <1>2, EndpointsCalm, RowsKeep
  <1>3. ASSUME NEW t \in Tasks,
               Select(t) \/ Lookup(t) \/ Push(t) \/ Mark(t)
        PROVE  ShotInv'
    <2>1. troubles' = troubles
      BY <1>3 DEF Select, Lookup, Push, Mark, world
    <2>2. CASE troubles = {}
      BY <1>3, <2>2, SelectShots, LookupShots, PushShots, MarkShots
    <2> QED  BY <2>1, <2>2 DEF ShotInv
  <1>4. ASSUME NEW t \in Tasks, QueryFails(t) PROVE ShotInv'
    BY <1>4 DEF QueryFails, Happens, ShotInv
  <1>5. CASE Next
    BY <1>2, <1>3, <1>4, <1>5, ListenerShots
    DEF Next, Work, Register, Unregister, Subscribe, Unsubscribe,
        CleanupTriggered, connection, world
  <1> QED  BY <1>1, <1>5

(* A user gets at most one push each time they arm a subscription, until   *)
(* changes overlap, the backend restarts or a query fails: it takes none   *)
(* of the refused pushes, dead devices and lost connections.               *)
THEOREM PushedOnce == Spec => []OneShot
  <1>1. Init => TypeOK /\ ShotInv
    BY TypeStart, ShotStart
  <1>2. TypeOK /\ ShotInv /\ [Next]_vars => (TypeOK /\ ShotInv)'
    BY TypeStep, ShotStep
  <1>3. TypeOK /\ ShotInv => OneShot
    BY DEF ShotInv, OneShot, RowInv
  <1> QED  BY <1>1, <1>2, <1>3, PTL DEF Spec

-----------------------------------------------------------------------------
(* Once for each change *)

(***************************************************************************)
(* Each change is with the listener, with one task or done.  What a row    *)
(* was pushed since it was armed, the changes with the listener and the    *)
(* tasks that may push it yet are together no more than the changes there  *)
(* were.  A task pushes a row once because only one of its two queries can *)
(* find it, and once only.                                                 *)
(***************************************************************************)

(* The row a task has read under this id has the kind of its query still. *)
ReadAs(i, kind) ==
    /\ i <= used
    /\ i \in Rows => subs[i].key.kind = kind

ReadInv(t) ==
    LET s == task[t] IN
    /\ s.pc \in Handling => /\ \A x \in s.todo : ReadAs(x.id, s.kind)
                            /\ \A x, y \in s.todo : x.id = y.id => x = y
    /\ s.pc \in {"push", "mark"} => /\ s.cur \in Item
                                    /\ ReadAs(s.cur.id, s.kind)
                                    /\ \A x \in s.todo : x.id # s.cur.id

(* A task in state s may push the row i of this kind before it ends. *)
Owes(s, i, kind) ==
    \/ s.pc = "select" /\ s.kind \in {"change", kind}
    \/ s.pc \in Handling /\ s.kind = "change" /\ kind = "notify"
    \/ s.pc \in Handling /\ \E x \in s.todo : x.id = i
    \/ s.pc = "push" /\ s.cur.id = i

Owing(i) == {t \in Tasks : Owes(task[t], i, subs[i].key.kind)}
Busy == {t \in Tasks : ~At(t, "idle")}

RowsUsed == \A i \in Rows : i <= used
ReadsInv == \A t \in Tasks : ReadInv(t)
QueueInv == Len(inbox) + Cardinality(Busy) <= changes
PushesInv == \A i \in Rows :
                subs[i].pushes + Len(inbox) + Cardinality(Owing(i)) <= changes

CountInv == RowsUsed /\ ReadsInv /\ QueueInv /\ PushesInv

LEMMA FewerTasks ==
    ASSUME NEW S \in SUBSET Tasks, NEW T \in SUBSET S
    PROVE  /\ Cardinality(S) \in Nat /\ Cardinality(T) \in Nat
           /\ Cardinality(T) <= Cardinality(S)
  <1>1. IsFiniteSet(S)
    BY FS_Subset, ConstantsAssumption
  <1>2. IsFiniteSet(T) /\ Cardinality(T) <= Cardinality(S)
    BY <1>1, FS_Subset
  <1> QED  BY <1>1, <1>2, FS_CardinalityType

LEMMA TaskLess ==
    ASSUME NEW S \in SUBSET Tasks, NEW t \in S, NEW T \in SUBSET (S \ {t})
    PROVE  Cardinality(T) + 1 <= Cardinality(S)
  <1>1. IsFiniteSet(S)
    BY FS_Subset, ConstantsAssumption
  <1>2. Cardinality(S \ {t}) = Cardinality(S) - 1
    BY <1>1, FS_RemoveElement
  <1>3. Cardinality(T) <= Cardinality(S \ {t})
    BY FewerTasks
  <1> QED  BY <1>1, <1>2, <1>3, FewerTasks, FS_CardinalityType

LEMMA TaskMore ==
    ASSUME NEW S \in SUBSET Tasks, NEW t \in Tasks,
           NEW T \in SUBSET (S \union {t})
    PROVE  Cardinality(T) <= Cardinality(S) + 1
  <1>1. IsFiniteSet(S)
    BY FS_Subset, ConstantsAssumption
  <1>2. Cardinality(S \union {t}) <= Cardinality(S) + 1
    <2>1. Cardinality(S) \in Nat
      BY <1>1, FS_CardinalityType
    <2>2. Cardinality(S \union {t})
             = IF t \in S THEN Cardinality(S) ELSE Cardinality(S) + 1
      BY <1>1, FS_AddElement
    <2> QED  BY <2>1, <2>2
  <1>3. Cardinality(T) <= Cardinality(S \union {t})
    BY FewerTasks
  <1> QED  BY <1>2, <1>3, FewerTasks

LEMMA OwingIsBusy ==
    ASSUME NEW i
    PROVE  Owing(i) \subseteq Busy /\ Busy \subseteq Tasks
  BY DEF Owing, Busy, Owes, Handling, At

(* The rows there are now were there with the same key, or are new. *)
Steady ==
    /\ used <= used'
    /\ \A i \in Rows' : /\ i <= used'
                        /\ \/ i \in Rows /\ subs'[i].key = subs[i].key
                           \/ used < i

LEMMA SteadyReads ==
    ASSUME TypeOK, TypeOK', Steady, NEW i \in Ids, NEW kind, ReadAs(i, kind)
    PROVE  ReadAs(i, kind)'
  <1>1. i \in Nat /\ used \in Nat /\ used' \in Nat
    BY ConstantsAssumption DEF TypeOK, Ids
  <1> QED  BY <1>1 DEF Steady, ReadAs

(* How many pushes of row i there may be yet. *)
RowKeeps(i) ==
    \/ subs'[i].pushes = 0
    \/ /\ i \in Rows
       /\ subs'[i].pushes = subs[i].pushes
       /\ Owing(i)' \subseteq Owing(i)
    \/ /\ i \in Rows
       /\ subs'[i].pushes \in {subs[i].pushes, subs[i].pushes + 1}
       /\ \E t \in Owing(i) : Owing(i)' \subseteq Owing(i) \ {t}

LEMMA CountKeeps ==
    ASSUME TypeOK, TypeOK', QueueInv, PushesInv,
           changes' = changes, Len(inbox') <= Len(inbox),
           Busy' \subseteq Busy,
           \A i \in Rows' : RowKeeps(i)
    PROVE  QueueInv' /\ PushesInv'
  <1>1. /\ changes \in Nat /\ Len(inbox) \in Nat /\ Len(inbox') \in Nat
        /\ Cardinality(Busy) \in Nat /\ Cardinality(Busy') \in Nat
        /\ Cardinality(Busy') <= Cardinality(Busy)
    <2>1. Busy \subseteq Tasks
      BY DEF Busy
    <2> QED
      BY <2>1, FewerTasks, LenProperties, ConstantsAssumption DEF TypeOK
  <1>2. QueueInv'
    BY <1>1 DEF QueueInv
  <1>3. ASSUME NEW i \in Rows'
        PROVE  subs'[i].pushes + Len(inbox') + Cardinality(Owing(i)')
                  <= changes'
    <2>1. /\ Owing(i) \subseteq Tasks
          /\ Owing(i)' \subseteq Busy' /\ Busy' \subseteq Tasks
      BY DEF Owing, Busy, Owes, Handling, At
    <2>2. /\ Cardinality(Owing(i)) \in Nat
          /\ Cardinality(Owing(i)') \in Nat
          /\ Cardinality(Owing(i)') <= Cardinality(Busy')
      BY <2>1, FewerTasks
    <2>3. CASE subs'[i].pushes = 0
      BY <1>1, <1>2, <2>2, <2>3 DEF QueueInv
    <2>4. ASSUME i \in Rows
          PROVE  /\ subs[i].pushes \in Nat
                 /\ subs[i].pushes + Len(inbox) + Cardinality(Owing(i))
                       <= changes
      BY <2>4 DEF PushesInv, TypeOK, Rows, Row
    <2>5. CASE /\ i \in Rows
               /\ subs'[i].pushes = subs[i].pushes
               /\ Owing(i)' \subseteq Owing(i)
      <3>1. Cardinality(Owing(i)') <= Cardinality(Owing(i))
        BY <2>1, <2>5, FewerTasks
      <3> QED  BY <1>1, <2>2, <2>4, <2>5, <3>1
    <2>6. CASE /\ i \in Rows
               /\ subs'[i].pushes \in {subs[i].pushes, subs[i].pushes + 1}
               /\ \E t \in Owing(i) : Owing(i)' \subseteq Owing(i) \ {t}
      <3>1. Cardinality(Owing(i)') + 1 <= Cardinality(Owing(i))
        BY <2>1, <2>6, TaskLess
      <3> DEFINE p == subs[i].pushes
                 n == Cardinality(Owing(i))
      <3>2. /\ p \in Nat /\ n \in Nat
            /\ p + Len(inbox) + n <= changes
            /\ subs'[i].pushes \in {p, p + 1}
            /\ Cardinality(Owing(i)') \in Nat
            /\ Cardinality(Owing(i)') + 1 <= n
        BY <2>2, <2>4, <2>6, <3>1
      <3> HIDE DEF p, n
      <3> QED  BY <1>1, <3>2
    <2> QED  BY <2>3, <2>5, <2>6 DEF RowKeeps
  <1> QED  BY <1>2, <1>3 DEF PushesInv

LEMMA ReadsKeep ==
    ASSUME TypeOK, TypeOK', Steady, NEW t \in Tasks,
           ReadInv(t), task'[t] = task[t]
    PROVE  ReadInv(t)'
  <1>1. \A x \in task[t].todo \union {task[t].cur} :
           x \in Item => x.id \in Ids
    BY DEF Item
  <1>2. \A x \in task[t].todo : x \in Item
    BY DEF TypeOK, Task
  <1> QED  BY <1>1, <1>2, SteadyReads DEF ReadInv

(* A step that no task takes. *)
LEMMA CountBeside ==
    ASSUME TypeOK, TypeOK', CountInv, Steady, Calmly,
           task' = task, inbox' \in {inbox, <<>>}, changes' = changes
    PROVE  CountInv'
  <1>1. RowsUsed' /\ ReadsInv'
    BY ReadsKeep DEF CountInv, Steady, RowsUsed, ReadsInv
  <1>2. Len(inbox') <= Len(inbox)
    BY LenProperties DEF TypeOK
  <1>3. Busy' \subseteq Busy
    BY DEF Busy, At
  <1>4. \A i \in Rows' : RowKeeps(i)
    BY DEF Calmly, RowKeeps, Owing
  <1> QED  BY <1>1, <1>2, <1>3, <1>4, CountKeeps DEF CountInv

LEMMA EndpointsSteady ==
    ASSUME TypeOK, RowsUsed,
           \/ \E d \in Devices : Register(d) \/ Unregister(d)
           \/ \E d \in Devices, key \in Key : Subscribe(d, key)
           \/ \E user \in Users, key \in Key : Unsubscribe(user, key)
           \/ CleanupTriggered
    PROVE  Steady
  <1>0. used \in Nat /\ MaxRows \in Nat
    BY ConstantsAssumption DEF TypeOK
  <1>1. ASSUME NEW d \in Devices, Register(d) PROVE Steady
    BY <1>0, <1>1 DEF Register, Steady, Rows, RowsUsed
  <1>2. ASSUME NEW d \in Devices, Unregister(d) PROVE Steady
    BY <1>0, <1>2 DEF Unregister, Remove, Steady, Rows, RowsUsed
  <1>3. ASSUME NEW d \in Devices, NEW key \in Key, Subscribe(d, key)
        PROVE Steady
    <2>1. CASE Resubscribe(d, key) /\ used' = used
      <3>1. Armed(d, key).key = key
        BY DEF Armed
      <3>2. \A i \in Rows' : i \in Rows /\ subs'[i].key = subs[i].key
        BY <2>1, <3>1 DEF Resubscribe, Conflict, Rows
      <3> QED  BY <1>0, <2>1, <3>2 DEF Steady, RowsUsed
    <2>2. CASE /\ subs' = [subs EXCEPT ![used + 1] = Armed(d, key)]
               /\ used' = used + 1
      <3>1. \A i \in Rows' : \/ i \in Rows /\ subs'[i] = subs[i]
                             \/ i = used + 1
        BY <2>2 DEF Rows, TypeOK
      <3>2. \A i \in Rows : i \in Nat /\ i <= used
        BY DEF Rows, Ids, RowsUsed
      <3> QED  BY <1>0, <2>2, <3>1, <3>2 DEF Steady
    <2> QED  BY <1>3, <2>1, <2>2 DEF Subscribe
  <1>4. ASSUME NEW user \in Users, NEW key \in Key, Unsubscribe(user, key)
        PROVE Steady
    BY <1>0, <1>4 DEF Unsubscribe, Steady, Rows, RowsUsed
  <1>5. ASSUME CleanupTriggered PROVE Steady
    BY <1>0, <1>5 DEF CleanupTriggered, Steady, Rows, RowsUsed
  <1> QED  BY <1>1, <1>2, <1>3, <1>4, <1>5

LEMMA SameRows ==
    ASSUME TypeOK, RowsUsed, subs' = subs, used' = used
    PROVE  Steady /\ Calmly
  <1>1. used \in Nat
    BY ConstantsAssumption DEF TypeOK
  <1> QED  BY <1>1 DEF Steady, Calmly, RowsUsed, Rows

LEMMA MapChangesCount ==
    ASSUME TypeOK, TypeOK', CountInv, NEW e \in Event, MapChanges(e)
    PROVE  CountInv'
  <1>1. /\ UNCHANGED <<subs, used, task>> /\ changes' = changes + 1
        /\ inbox' \in {inbox, Append(inbox, e)}
    BY DEF MapChanges, endpoints
  <1>2. Steady
    BY <1>1, SameRows DEF CountInv
  <1>3. RowsUsed' /\ ReadsInv'
    BY <1>1, <1>2, ReadsKeep DEF CountInv, Steady, RowsUsed, ReadsInv
  <1>4. /\ Len(inbox) \in Nat /\ Len(inbox') \in Nat /\ changes \in Nat
        /\ Len(inbox') <= Len(inbox) + 1
    BY <1>1, LenProperties, AppendProperties, ConstantsAssumption DEF TypeOK
  <1>5. QueueInv'
    <2>1. Busy' = Busy /\ Cardinality(Busy) \in Nat
      BY <1>1, FewerTasks DEF Busy, At
    <2> QED  BY <1>1, <1>4, <2>1 DEF CountInv, QueueInv
  <1>6. ASSUME NEW i \in Rows'
        PROVE  subs'[i].pushes + Len(inbox') + Cardinality(Owing(i)')
                  <= changes'
    <2>1. i \in Rows /\ subs'[i] = subs[i] /\ Owing(i)' = Owing(i)
      BY <1>1 DEF Rows, Owing
    <2>2. subs[i].pushes \in Nat /\ Cardinality(Owing(i)) \in Nat
      BY <2>1, FewerTasks DEF TypeOK, Rows, Row, Owing
    <2>3. subs[i].pushes + Len(inbox) + Cardinality(Owing(i)) <= changes
      BY <2>1 DEF CountInv, PushesInv
    <2> QED  BY <1>1, <1>4, <2>1, <2>2, <2>3
  <1> QED  BY <1>3, <1>5, <1>6 DEF CountInv, PushesInv

LEMMA ReceiveCount ==
    ASSUME TypeOK, TypeOK', CountInv, NEW t \in Tasks, Receive(t)
    PROVE  CountInv'
  <1>1. /\ UNCHANGED <<subs, used, changes>>
        /\ inbox # <<>> /\ inbox' = Tail(inbox)
        /\ At(t, "idle")
    BY DEF Receive, endpoints, world
  <1>2. /\ task'[t].pc = "select"
        /\ \A u \in Tasks \ {t} : task'[u] = task[u]
    <2>1. Head(inbox) \in Event
      BY <1>1, HeadTailProperties DEF TypeOK
    <2> QED  BY <2>1, IdleTask DEF Receive, Run, TypeOK, Task
  <1>3. Steady
    BY <1>1, SameRows DEF CountInv
  <1>4. RowsUsed' /\ ReadsInv'
    <2>1. ReadInv(t)'
      BY <1>2 DEF ReadInv, Handling
    <2> QED
      BY <1>2, <1>3, <2>1, ReadsKeep
      DEF CountInv, Steady, RowsUsed, ReadsInv
  <1>5. /\ Len(inbox) \in Nat /\ Len(inbox') = Len(inbox) - 1
        /\ changes \in Nat
    BY <1>1, LenProperties, HeadTailProperties, ConstantsAssumption DEF TypeOK
  <1>6. QueueInv'
    <2>1. Busy \subseteq Tasks /\ Busy' \subseteq Busy \union {t}
      BY <1>2 DEF Busy, At
    <2>2. Cardinality(Busy') <= Cardinality(Busy) + 1
      BY <2>1, TaskMore
    <2>3. Cardinality(Busy) \in Nat /\ Cardinality(Busy') \in Nat
      BY FewerTasks DEF Busy
    <2> QED  BY <1>1, <1>5, <2>2, <2>3 DEF CountInv, QueueInv
  <1>7. ASSUME NEW i \in Rows'
        PROVE  subs'[i].pushes + Len(inbox') + Cardinality(Owing(i)')
                  <= changes'
    <2>1. /\ i \in Rows /\ subs'[i] = subs[i]
          /\ Owing(i) \subseteq Tasks
          /\ Owing(i)' \subseteq Owing(i) \union {t}
      BY <1>1, <1>2 DEF Rows, Owing
    <2>2. Cardinality(Owing(i)') <= Cardinality(Owing(i)) + 1
      BY <2>1, TaskMore
    <2>3. /\ subs[i].pushes \in Nat /\ Cardinality(Owing(i)) \in Nat
          /\ Cardinality(Owing(i)') \in Nat
      BY <2>1, FewerTasks DEF TypeOK, Rows, Row, Owing
    <2>4. subs[i].pushes + Len(inbox) + Cardinality(Owing(i)) <= changes
      BY <2>1 DEF CountInv, PushesInv
    <2> QED  BY <1>1, <1>5, <2>1, <2>2, <2>3, <2>4
  <1> QED  BY <1>4, <1>6, <1>7 DEF CountInv, PushesInv

-----------------------------------------------------------------------------
(* Row i is owed no more by a task that went on to s, or was just pushed. *)
RowPaid(t, s, i) ==
    LET kind == subs[i].key.kind IN
    \/ /\ subs'[i].pushes = subs[i].pushes
       /\ Owes(s, i, kind) => Owes(task[t], i, kind)
    \/ /\ subs'[i].pushes \in {subs[i].pushes, subs[i].pushes + 1}
       /\ Owes(task[t], i, kind)
       /\ ~Owes(s, i, kind)

SameKeys == \A i \in Rows' : i \in Rows /\ subs'[i].key = subs[i].key

LEMMA TaskCount ==
    ASSUME TypeOK, TypeOK', CountInv, SameKeys,
           NEW t \in Tasks, NEW s, ~At(t, "idle"),
           task' = [task EXCEPT ![t] = s],
           used' = used, inbox' = inbox, changes' = changes,
           ReadInv(t)',
           \A i \in Rows' : RowPaid(t, s, i)
    PROVE  CountInv'
  <1>1. task'[t] = s /\ \A u \in Tasks \ {t} : task'[u] = task[u]
    BY DEF TypeOK
  <1>2. Steady
    BY ConstantsAssumption DEF Steady, SameKeys, CountInv, RowsUsed, TypeOK
  <1>3. RowsUsed' /\ ReadsInv'
    <2>1. \A u \in Tasks : ReadInv(u)'
      BY <1>1, <1>2, ReadsKeep DEF CountInv, ReadsInv
    <2> QED  BY <1>2, <2>1 DEF Steady, RowsUsed, ReadsInv
  <1>4. Len(inbox') <= Len(inbox)
    BY LenProperties DEF TypeOK
  <1>5. Busy' \subseteq Busy
    BY <1>1 DEF Busy, At
  <1>6. ASSUME NEW i \in Rows' PROVE RowKeeps(i)
    <2>1. i \in Rows /\ subs'[i].key = subs[i].key
      BY DEF SameKeys
    <2>2. \A u \in Tasks \ {t} : u \in Owing(i)' <=> u \in Owing(i)
      BY <1>1, <2>1 DEF Owing
    <2>3. /\ t \in Owing(i)' <=> Owes(s, i, subs[i].key.kind)
          /\ t \in Owing(i) <=> Owes(task[t], i, subs[i].key.kind)
      BY <1>1, <2>1 DEF Owing
    <2>4. Owing(i) \subseteq Tasks /\ Owing(i)' \subseteq Tasks
      BY DEF Owing
    <2>5. RowPaid(t, s, i)
      OBVIOUS
    <2> QED  BY <2>1, <2>2, <2>3, <2>4, <2>5 DEF RowPaid, RowKeeps
  <1> QED  BY <1>2, <1>3, <1>4, <1>5, <1>6, CountKeeps DEF CountInv

(* After its rows of one query a task owes what it owed, or less. *)
LEMMA AdvanceOwes ==
    ASSUME NEW s \in Task, NEW i, NEW kind \in Kinds,
           s.pc \in {"select", "mark"}, Owes(Advance(s), i, kind)
    PROVE  \/ s.kind = "change" /\ kind = "notify"
           \/ \E x \in s.todo : x.id = i
  <1>1. CASE s.todo # {}
    <2>1. /\ Advance(s).pc = "lookup"
          /\ Advance(s).todo = s.todo /\ Advance(s).kind = s.kind
      BY <1>1 DEF Advance, Task
    <2> QED  BY <2>1 DEF Owes, Handling
  <1>2. CASE s.todo = {} /\ s.kind = "change"
    <2>1. Advance(s).pc = "select" /\ Advance(s).kind = "notify"
      BY <1>2 DEF Advance, Task
    <2> QED  BY <1>2, <2>1 DEF Owes, Handling
  <1>3. CASE s.todo = {} /\ s.kind # "change"
    <2>1. Advance(s).pc = "idle"
      BY <1>3, IdleTask DEF Advance
    <2> QED  BY <2>1 DEF Owes, Handling
  <1> QED  BY <1>1, <1>2, <1>3

LEMMA AdvanceReads ==
    ASSUME NEW s \in Task
    PROVE  \/ /\ Advance(s).pc = "lookup"
              /\ Advance(s).todo = s.todo /\ Advance(s).kind = s.kind
           \/ Advance(s).pc \in {"select", "idle"}
  BY IdleTask DEF Advance, Task

LEMMA RowKinds ==
    ASSUME TypeOK, NEW i \in Rows
    PROVE  /\ i \in Ids /\ subs[i] \in Row
           /\ subs[i].key.kind \in Kinds /\ subs[i].pushes \in Nat
  <1>1. i \in Ids /\ subs[i] \in Row
    BY DEF TypeOK, Rows
  <1>2. subs[i].key \in Key /\ subs[i].pushes \in Nat
    BY <1>1 DEF Row
  <1>3. subs[i].key.kind \in Kinds
    BY <1>2 DEF Key, Kinds
  <1> QED  BY <1>1, <1>2, <1>3

LEMMA SelectCount ==
    ASSUME TypeOK, TypeOK', CountInv, NEW t \in Tasks, Select(t)
    PROVE  CountInv'
  <1> DEFINE found == {[id |-> i, device |-> subs[i].device] :
                          i \in Untriggered(task[t])}
             s == [task[t] EXCEPT !.todo = found]
  <1>1. /\ task[t].pc = "select" /\ task[t] \in Task
        /\ UNCHANGED <<subs, used, inbox, changes>>
        /\ task' = [task EXCEPT ![t] = Advance(s)]
        /\ task'[t] = Advance(s)
    BY DEF Select, endpoints, connection, world, Run, TypeOK, At
  <1>2. /\ s \in Task /\ s.todo = found
        /\ s.pc = "select" /\ s.kind = task[t].kind
    <2>1. found \subseteq Item
      BY DEF TypeOK, Untriggered, Rows, Row, Item
    <2> HIDE DEF found
    <2> QED  BY <1>1, <2>1 DEF Task
  <1>3. \A x \in found : /\ x.id \in Rows
                         /\ subs[x.id].key.kind = task[t].kind
                         /\ x.id <= used
    BY DEF Untriggered, Matches, CountInv, RowsUsed
  <1>4. \A x, y \in found : x.id = y.id => x = y
    OBVIOUS
  <1> HIDE DEF found, s
  <1>5. ReadInv(t)'
    <2>1. \A i, kind : ReadAs(i, kind) => ReadAs(i, kind)'
      BY <1>1 DEF ReadAs, Rows
    <2>2. \A x \in found : ReadAs(x.id, task[t].kind)
      BY <1>3 DEF ReadAs
    <2> QED
      BY <1>1, <1>2, <1>4, <2>1, <2>2, AdvanceReads DEF ReadInv, Handling
  <1>6. ASSUME NEW i \in Rows' PROVE RowPaid(t, Advance(s), i)
    <2>1. i \in Rows /\ subs'[i] = subs[i]
      BY <1>1 DEF Rows
    <2>2. ASSUME Owes(Advance(s), i, subs[i].key.kind)
          PROVE  Owes(task[t], i, subs[i].key.kind)
      <3>1. \/ s.kind = "change" /\ subs[i].key.kind = "notify"
            \/ \E x \in found : x.id = i
        BY <1>2, <2>1, <2>2, AdvanceOwes, RowKinds
      <3> QED  BY <1>1, <1>2, <1>3, <3>1 DEF Owes
    <2> QED  BY <2>1, <2>2 DEF RowPaid
  <1>7. SameKeys
    BY <1>1 DEF SameKeys, Rows
  <1> QED  BY <1>1, <1>5, <1>6, <1>7, TaskCount DEF At

LEMMA HandleCount ==
    ASSUME TypeOK, TypeOK', CountInv, NEW t \in Tasks, At(t, "lookup"),
           NEW item \in task[t].todo, NEW place \in {"push", "mark"},
           Handle(t, item, place),
           subs' = subs, used' = used, inbox' = inbox, changes' = changes
    PROVE  CountInv'
  <1> PICK s : s = [task[t] EXCEPT !.todo = @ \ {item}, !.cur = item,
                                   !.pc = place]
    OBVIOUS
  <1>1. /\ task[t] \in Task /\ task[t].pc = "lookup" /\ item \in Item
        /\ task' = [task EXCEPT ![t] = s] /\ task'[t] = s
    BY DEF Handle, Run, TypeOK, At, Task
  <1>2. /\ s.pc = place /\ s.kind = task[t].kind
        /\ s.cur = item /\ s.todo = task[t].todo \ {item}
    BY <1>1 DEF Task
  <1>3. /\ \A x \in task[t].todo : ReadAs(x.id, task[t].kind)
        /\ \A x, y \in task[t].todo : x.id = y.id => x = y
    BY <1>1 DEF CountInv, ReadsInv, ReadInv, Handling
  <1>4. ReadInv(t)'
    <2>1. \A i, kind : ReadAs(i, kind) => ReadAs(i, kind)'
      BY DEF ReadAs, Rows
    <2> QED  BY <1>1, <1>2, <1>3, <2>1 DEF ReadInv, Handling
  <1>5. \A i \in Rows' : RowPaid(t, s, i)
    BY <1>1, <1>2 DEF RowPaid, Owes, Handling
  <1>6. SameKeys
    BY DEF SameKeys, Rows
  <1> QED  BY <1>1, <1>4, <1>5, <1>6, TaskCount DEF At

LEMMA PushCount ==
    ASSUME TypeOK, TypeOK', CountInv, NEW t \in Tasks, Push(t)
    PROVE  CountInv'
  <1> PICK s : s = [task[t] EXCEPT !.pc = "mark"]
    OBVIOUS
  <1> PICK c : c = task[t].cur.id
    OBVIOUS
  <1>1. /\ task[t] \in Task /\ task[t].pc = "push"
        /\ task' = [task EXCEPT ![t] = s] /\ task'[t] = s
        /\ UNCHANGED <<used, inbox, changes>>
    BY DEF Push, connection, world, Run, TypeOK, At
  <1>2. /\ s.pc = "mark" /\ s.kind = task[t].kind
        /\ s.cur = task[t].cur /\ s.todo = task[t].todo
    BY <1>1 DEF Task
  <1>3. /\ \A x \in task[t].todo : ReadAs(x.id, task[t].kind) /\ x.id # c
        /\ \A x, y \in task[t].todo : x.id = y.id => x = y
        /\ task[t].cur \in Item /\ ReadAs(c, task[t].kind)
    BY <1>1 DEF CountInv, ReadsInv, ReadInv, Handling
  <1>4. /\ SameKeys
        /\ \A i \in Rows' \ {c} : subs'[i].pushes = subs[i].pushes
        /\ c \in Rows' =>
              subs'[c].pushes \in {subs[c].pushes, subs[c].pushes + 1}
    <2>1. CASE \E n \in {0, 1} : Tried(c, n)
      <3>1. PICK n \in {0, 1} : Tried(c, n)
        BY <2>1
      <3>2. CASE c \in Rows
        <4>1. c \in Ids /\ subs[c] \in Row /\ subs[c].pushes \in Nat
          BY <3>2, RowKinds
        <4>2. subs' = [subs EXCEPT ![c] = [subs[c] EXCEPT !.tried = TRUE,
                                                         !.pushes = @ + n]]
          BY <3>1, <3>2, <4>1 DEF Tried, TypeOK, Row
        <4>3. /\ Rows' \subseteq Rows
              /\ \A i \in Rows \ {c} : subs'[i] = subs[i]
              /\ subs'[c].key = subs[c].key
              /\ subs'[c].pushes = subs[c].pushes + n
          BY <3>2, <4>1, <4>2 DEF Rows, TypeOK, Row
        <4> QED  BY <4>1, <4>3 DEF SameKeys
      <3>3. CASE c \notin Rows
        BY <3>1, <3>3 DEF Tried, Rows, SameKeys
      <3> QED  BY <3>2, <3>3
    <2>2. CASE Remove(task[t].cur.device)
      BY <2>2 DEF Remove, Rows, SameKeys
    <2> QED  BY <2>1, <2>2 DEF Push
  <1>5. ReadInv(t)'
    <2>1. \A i, kind : ReadAs(i, kind) => ReadAs(i, kind)'
      BY <1>1, <1>4 DEF ReadAs, SameKeys
    <2> QED  BY <1>1, <1>2, <1>3, <2>1 DEF ReadInv, Handling
  <1>6. ASSUME NEW i \in Rows' PROVE RowPaid(t, s, i)
    <2>1. i \in Rows
      BY <1>4 DEF SameKeys
    <2>2. CASE i # c
      <3>1. Owes(s, i, subs[i].key.kind) => Owes(task[t], i, subs[i].key.kind)
        BY <1>1, <1>2 DEF Owes, Handling
      <3> QED  BY <1>4, <2>2, <3>1 DEF RowPaid
    <2>3. CASE i = c
      <3>1. Owes(task[t], i, subs[i].key.kind)
        BY <1>1, <2>3 DEF Owes
      <3>2. ~Owes(s, i, subs[i].key.kind)
        BY <1>2, <1>3, <2>1, <2>3 DEF Owes, Handling, ReadAs
      <3> QED  BY <1>4, <2>3, <3>1, <3>2 DEF RowPaid
    <2> QED  BY <2>2, <2>3
  <1> QED  BY <1>1, <1>4, <1>5, <1>6, TaskCount DEF At

LEMMA AdvanceCount ==
    ASSUME TypeOK, TypeOK', CountInv, NEW t \in Tasks, At(t, "mark"),
           Run(t, Advance(task[t])), SameKeys,
           \A i \in Rows' : subs'[i].pushes = subs[i].pushes,
           used' = used, inbox' = inbox, changes' = changes
    PROVE  CountInv'
  <1> PICK s : s = Advance(task[t])
    OBVIOUS
  <1>1. /\ task[t] \in Task /\ task[t].pc = "mark"
        /\ task' = [task EXCEPT ![t] = s] /\ task'[t] = s
    BY DEF Run, TypeOK, At
  <1>2. /\ \A x \in task[t].todo : ReadAs(x.id, task[t].kind)
        /\ \A x, y \in task[t].todo : x.id = y.id => x = y
    BY <1>1 DEF CountInv, ReadsInv, ReadInv, Handling
  <1>3. ReadInv(t)'
    <2>1. \A i, kind : ReadAs(i, kind) => ReadAs(i, kind)'
      BY DEF ReadAs, SameKeys
    <2> QED  BY <1>1, <1>2, <2>1, AdvanceReads DEF ReadInv, Handling
  <1>4. ASSUME NEW i \in Rows' PROVE RowPaid(t, s, i)
    <2>1. i \in Rows
      BY DEF SameKeys
    <2>2. Owes(s, i, subs[i].key.kind) => Owes(task[t], i, subs[i].key.kind)
      BY <1>1, <2>1, AdvanceOwes, RowKinds DEF Owes, Handling
    <2> QED  BY <2>2 DEF RowPaid
  <1> QED  BY <1>1, <1>3, <1>4, TaskCount DEF At

LEMMA MarkCount ==
    ASSUME TypeOK, TypeOK', CountInv, NEW t \in Tasks, Mark(t)
    PROVE  CountInv'
  <1> PICK i : i = task[t].cur.id
    OBVIOUS
  <1>1. SameKeys /\ \A j \in Rows' : subs'[j].pushes = subs[j].pushes
    <2>1. CASE i \in Rows
      <3>1. i \in Ids /\ subs[i] \in Row
        BY <2>1, RowKinds
      <3> QED  BY <2>1, <3>1 DEF Mark, Marked, Rows, TypeOK, Row, SameKeys
    <2>2. CASE i \notin Rows
      BY <2>2 DEF Mark, Rows, SameKeys
    <2> QED  BY <2>1, <2>2
  <1> QED  BY <1>1, AdvanceCount DEF Mark, connection, world

(* A task that stops, or all of them. *)
LEMMA StopCount ==
    ASSUME TypeOK, TypeOK', CountInv, subs' = subs, used' = used,
           changes' = changes, inbox' \in {inbox, <<>>},
           \A t \in Tasks : task'[t] \in {task[t], Idle}
    PROVE  CountInv'
  <1>1. Steady
    BY SameRows DEF CountInv
  <1>2. RowsUsed' /\ ReadsInv'
    <2>1. ASSUME NEW t \in Tasks PROVE ReadInv(t)'
      <3>1. CASE task'[t] = task[t]
        BY <1>1, <3>1, ReadsKeep DEF CountInv, ReadsInv
      <3>2. CASE task'[t] = Idle
        BY <3>2, IdleTask DEF ReadInv, Handling
      <3> QED  BY <3>1, <3>2
    <2> QED  BY <1>1, <2>1 DEF Steady, RowsUsed, ReadsInv
  <1>3. Len(inbox') <= Len(inbox)
    BY LenProperties DEF TypeOK
  <1>4. Busy' \subseteq Busy
    BY IdleTask DEF Busy, At
  <1>5. ASSUME NEW i \in Rows' PROVE RowKeeps(i)
    <2>1. i \in Rows /\ subs'[i] = subs[i]
      BY DEF Rows
    <2>2. ~Owes(Idle, i, subs[i].key.kind)
      BY IdleTask DEF Owes, Handling
    <2>3. Owing(i)' \subseteq Owing(i)
      BY <2>1, <2>2 DEF Owing
    <2> QED  BY <2>1, <2>3 DEF RowKeeps
  <1> QED  BY <1>2, <1>3, <1>4, <1>5, CountKeeps DEF CountInv

LEMMA QueryFailsCount ==
    ASSUME TypeOK, TypeOK', CountInv, NEW t \in Tasks, QueryFails(t)
    PROVE  CountInv'
  <1>1. UNCHANGED <<subs, used, inbox, changes>>
    BY DEF QueryFails, endpoints, connection
  <1>2. CASE At(t, "select") /\ Run(t, Idle)
    BY <1>1, <1>2, StopCount DEF Run, TypeOK
  <1>3. CASE At(t, "lookup") /\ \E item \in task[t].todo :
                                   Handle(t, item, "mark")
    BY <1>1, <1>3, HandleCount
  <1>4. CASE At(t, "mark") /\ Run(t, Advance(task[t]))
    BY <1>1, <1>4, AdvanceCount DEF SameKeys, Rows
  <1> QED  BY <1>2, <1>3, <1>4 DEF QueryFails

LEMMA CountStart == Init => CountInv
  <1> SUFFICES ASSUME Init PROVE CountInv
    OBVIOUS
  <1>1. Rows = {} /\ Busy = {} /\ inbox = <<>> /\ changes = 0
    BY IdleTask DEF Init, Rows, Busy, At
  <1>2. ReadsInv
    BY IdleTask DEF Init, ReadsInv, ReadInv, Handling
  <1>3. QueueInv
    BY <1>1, FS_EmptySet DEF QueueInv
  <1> QED  BY <1>1, <1>2, <1>3 DEF CountInv, RowsUsed, PushesInv

LEMMA CountStep ==
    ASSUME TypeOK, TypeOK', CountInv, [Next]_vars
    PROVE  CountInv'
  <1>1. CASE UNCHANGED vars
    BY <1>1, CountBeside, SameRows DEF vars, CountInv
  <1>2. ASSUME UNCHANGED <<listening, inbox, task, changes, troubles>>,
               \/ \E d \in Devices : Register(d) \/ Unregister(d)
               \/ \E d \in Devices, key \in Key : Subscribe(d, key)
               \/ \E user \in Users, key \in Key : Unsubscribe(user, key)
               \/ CleanupTriggered
        PROVE  CountInv'
    BY <1>2, EndpointsCalm, EndpointsSteady, CountBeside DEF CountInv
  <1>3. CASE Connect \/ Disconnect
    BY <1>3, SameRows, CountBeside
    DEF Connect, Disconnect, endpoints, world, CountInv
  <1>4. CASE Restart
    BY <1>4, StopCount DEF Restart, endpoints
  <1>5. ASSUME NEW t \in Tasks, Work(t) \/ QueryFails(t) PROVE CountInv'
    <2>1. CASE Lookup(t)
      BY <2>1, HandleCount DEF Lookup, endpoints, connection, world
    <2> QED
      BY <1>5, <2>1, ReceiveCount, SelectCount, PushCount, MarkCount,
         QueryFailsCount DEF Work
  <1>6. CASE Next
    BY <1>2, <1>3, <1>4, <1>5, <1>6, MapChangesCount
    DEF Next, Register, Unregister, Subscribe, Unsubscribe,
        CleanupTriggered, connection, world
  <1> QED  BY <1>1, <1>6

LEMMA CountBounds == ASSUME TypeOK, CountInv PROVE OncePerChange
  <1> SUFFICES ASSUME NEW i \in Rows PROVE subs[i].pushes <= changes
    BY DEF OncePerChange
  <1>1. /\ subs[i].pushes \in Nat /\ Cardinality(Owing(i)) \in Nat
        /\ Len(inbox) \in Nat /\ changes \in Nat
    BY RowKinds, FewerTasks, LenProperties, ConstantsAssumption
    DEF TypeOK, Owing
  <1> QED  BY <1>1 DEF CountInv, PushesInv

(* However many changes overlap and whatever fails, a row that is there    *)
(* was pushed at most once for each map change since it was armed.         *)
THEOREM PushedOncePerChange == Spec => []OncePerChange
  <1>1. Init => TypeOK /\ CountInv
    BY TypeStart, CountStart
  <1>2. TypeOK /\ CountInv /\ [Next]_vars => (TypeOK /\ CountInv)'
    BY TypeStep, CountStep
  <1>3. TypeOK /\ CountInv => OncePerChange
    BY CountBounds
  <1> QED  BY <1>1, <1>2, <1>3, PTL DEF Spec
=============================================================================

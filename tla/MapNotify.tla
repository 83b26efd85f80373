----------------------------- MODULE MapNotify -----------------------------
(***************************************************************************)
(* One-shot map notifications: the map_changed listener and its tasks in   *)
(* core/updater.rs, delivery in core/push_service.rs and the subscription  *)
(* endpoints of routers/accounts.rs.                                       *)
(*                                                                         *)
(* A user waits for the next map of a server ("change") or for a map on    *)
(* one server or on any ("notify"; None in a key is any).  Each NOTIFY of  *)
(* the database starts a task that reads the rows not triggered yet, and   *)
(* for each of them sends a push and then marks it triggered.  Every await *)
(* is a step boundary.                                                     *)
(***************************************************************************)
EXTENDS Naturals, Sequences, FiniteSets, Endpoints

CONSTANTS Servers,
          Maps,
          Devices,      \* rows of push_subscriptions, one for each browser
          Owner,        \* the user of each device
          Tasks,        \* notification tasks that may run at once
          MaxRows,      \* bound: subscription rows ever inserted
          MaxChanges    \* bound: map changes

(***************************************************************************)
(* burst       a map changes while another change is being handled         *)
(* disconnect  the LISTEN connection breaks                                *)
(* crash       the backend restarts                                        *)
(* send_fail   a push is not accepted                                      *)
(* gone        the push service answers 404 or 410                         *)
(* db_error    a query of a task fails                                     *)
(***************************************************************************)
FaultKinds == {"burst", "disconnect", "crash", "send_fail", "gone", "db_error"}
Troubles == {"burst", "crash", "db_error"}

ASSUME ConstantsAssumption ==
    /\ MaxRows \in Nat
    /\ MaxChanges \in Nat
    /\ Servers # {} /\ Maps # {}
    /\ Owner \in [Devices -> Users]
    /\ IsFiniteSet(Tasks)
    /\ Faults \subseteq FaultKinds
    /\ None \notin Servers \union Maps

VARIABLES
    device,     \* push_subscriptions: registered, removed or not there yet
    subs,       \* the subscription rows by id
    used,       \* rows inserted so far
    listening,  \* the LISTEN connection is up
    inbox,      \* notifications the listener has not received yet
    task,
    changes,    \* map changes so far
    troubles    \* history: those of Troubles that happened

vars == <<device, subs, used, listening, inbox, task, changes, troubles>>
endpoints == <<device, subs, used>>
connection == <<listening, inbox>>
world == <<changes, troubles>>

Ids == 1..MaxRows
DeviceStates == {"new", "registered", "removed"}
Event == [server : Servers, map : Maps]
Kinds == {"change", "notify"}
Key == [kind : {"change"}, server : Servers, map : {None}]
       \union [kind : {"notify"}, server : Servers \union {None}, map : Maps]
Row == [key       : Key,
        device    : Devices,
        triggered : BOOLEAN,
        tried     : BOOLEAN,        \* history: a push was tried since armed
        pushes    : Nat]            \* history: pushes delivered since armed

Item == [id : Ids, device : Devices]  \* what the loop keeps of a row it read

TaskPlaces == {"idle", "select", "lookup", "push", "mark"}
Task == [pc    : TaskPlaces,
         event : Event,
         kind  : Kinds,             \* which of the two loops it is in
         todo  : SUBSET Item,       \* rows of the query still to be handled
         cur   : Item \union {None}] \* the row being handled

Idle == [pc |-> "idle", event |-> CHOOSE e \in Event : TRUE,
         kind |-> "change", todo |-> {}, cur |-> None]

At(t, place) == task[t].pc = place
Run(t, s) == task' = [task EXCEPT ![t] = s]
Rows == {i \in Ids : subs[i] # None}
Happens(fault) == fault \in Faults /\ troubles' = troubles \union {fault}
Calm == inbox = <<>> /\ \A t \in Tasks : At(t, "idle")

(* The WHERE clauses of the two queries. *)
Matches(key, event, kind) ==
    /\ key.kind = kind
    /\ key.server \in {event.server, None}
    /\ key.map \in {event.map, None}

Init ==
    /\ device = [d \in Devices |-> "new"]
    /\ subs = [i \in Ids |-> None]
    /\ used = 0
    /\ listening = FALSE
    /\ inbox = <<>>
    /\ task = [t \in Tasks |-> Idle]
    /\ changes = 0
    /\ troubles = {}

-----------------------------------------------------------------------------
(* routers/accounts.rs *)

Register(d) ==
    /\ device[d] = "new"
    /\ device' = [device EXCEPT ![d] = "registered"]
    /\ UNCHANGED <<subs, used, connection, task, world>>

\* Mutant: the rows that reference the device stay.
RemoveAlone(d) ==
    /\ device' = [device EXCEPT ![d] = "removed"]
    /\ UNCHANGED subs

(* The row goes and, ON DELETE CASCADE, the rows that reference it. *)
Remove(d) ==
    /\ device' = [device EXCEPT ![d] = "removed"]
    /\ subs' = [i \in Ids |-> IF i \in Rows /\ subs[i].device = d
                              THEN None ELSE subs[i]]

Unregister(d) ==
    /\ device[d] = "registered"
    /\ Remove(d)
    /\ UNCHANGED <<used, connection, task, world>>

(* UNIQUE never holds between rows whose server_id is NULL. *)
Conflict(d, key) ==
    {i \in Rows : subs[i].device = d /\ subs[i].key = key /\ key.server # None}

Armed(d, key) == [key |-> key, device |-> d, triggered |-> FALSE,
                  tried |-> FALSE, pushes |-> 0]

Resubscribe(d, key) ==
    /\ Conflict(d, key) # {}
    /\ subs' = [i \in Ids |-> IF i \in Conflict(d, key) THEN Armed(d, key)
                              ELSE subs[i]]

(* INSERT ... ON CONFLICT DO UPDATE SET triggered = FALSE *)
Subscribe(d, key) ==
    /\ device[d] = "registered"
    /\ \/ Resubscribe(d, key) /\ UNCHANGED used
       \/ /\ Conflict(d, key) = {}
          /\ used < MaxRows
          /\ subs' = [subs EXCEPT ![used + 1] = Armed(d, key)]
          /\ used' = used + 1
    /\ UNCHANGED <<device, connection, task, world>>

(* Every device of the user; a row that is triggered stays. *)
Unsubscribe(user, key) ==
    LET gone == {i \in Rows : /\ Owner[subs[i].device] = user
                              /\ subs[i].key = key
                              /\ ~subs[i].triggered}
    IN
    /\ gone # {}
    /\ subs' = [i \in Ids |-> IF i \in gone THEN None ELSE subs[i]]
    /\ UNCHANGED <<device, used, connection, task, world>>

(* The job cleanup-triggered-map-subscriptions of pg_cron.  It removes what *)
(* was triggered a week ago: no task still works on it.                     *)
CleanupTriggered ==
    LET old == {i \in Rows : subs[i].key.kind = "change" /\ subs[i].triggered}
    IN
    /\ Calm
    /\ \E gone \in SUBSET old \ {{}} :
          subs' = [i \in Ids |-> IF i \in gone THEN None ELSE subs[i]]
    /\ UNCHANGED <<device, used, connection, task, world>>

-----------------------------------------------------------------------------
(* notify_map_activity and listen_map_change_notifications *)

(* Without a connection that listens, PostgreSQL keeps nothing. *)
MapChanges(e) ==
    /\ changes < MaxChanges
    /\ \/ Calm /\ UNCHANGED troubles
       \/ ~Calm /\ Happens("burst")
    /\ changes' = changes + 1
    /\ inbox' = IF listening THEN Append(inbox, e) ELSE inbox
    /\ UNCHANGED <<endpoints, listening, task>>

Connect ==
    /\ ~listening
    /\ listening' = TRUE
    /\ UNCHANGED <<endpoints, inbox, task, world>>

Disconnect ==
    /\ "disconnect" \in Faults
    /\ listening
    /\ listening' = FALSE
    /\ inbox' = <<>>
    /\ UNCHANGED <<endpoints, task, world>>

Receive(t) ==
    /\ inbox # <<>>
    /\ At(t, "idle")
    /\ Run(t, [Idle EXCEPT !.pc = "select", !.event = Head(inbox)])
    /\ inbox' = Tail(inbox)
    /\ UNCHANGED <<endpoints, listening, world>>

-----------------------------------------------------------------------------
(* send_map_change_notifications *)

(* The next row of the loop, else the second loop, else the end. *)
Advance(s) ==
    IF s.todo # {} THEN [s EXCEPT !.pc = "lookup", !.cur = None]
    ELSE IF s.kind = "change"
         THEN [s EXCEPT !.pc = "select", !.kind = "notify", !.cur = None]
    ELSE Idle

\* Mutant: the query forgets "AND triggered = FALSE".
UntriggeredAny(s) ==
    {i \in Rows : Matches(subs[i].key, s.event, s.kind)}

Untriggered(s) ==
    {i \in Rows : ~subs[i].triggered /\ Matches(subs[i].key, s.event, s.kind)}

(***************************************************************************)
(* The query for the server's name comes first.  It finds a row: the event *)
(* is a row of server_map_played, whose server_id references server        *)
(* (db.sql:106).  Only an administrator who deletes the server in between  *)
(* (admin_servers.rs:654) ends the task here; the model keeps its servers. *)
(***************************************************************************)
Select(t) ==
    LET found == {[id |-> i, device |-> subs[i].device] :
                     i \in Untriggered(task[t])}
    IN
    /\ At(t, "select")
    /\ Run(t, Advance([task[t] EXCEPT !.todo = found]))
    /\ UNCHANGED <<endpoints, connection, world>>

Handle(t, item, place) ==
    Run(t, [task[t] EXCEPT !.todo = @ \ {item}, !.cur = item, !.pc = place])

(* send_notification_to_subscription reads the keys of the device.  It does *)
(* not read the row again, so a row that is gone by now is pushed too.      *)
Lookup(t) ==
    /\ At(t, "lookup")
    /\ \E item \in task[t].todo :
          Handle(t, item, IF device[item.device] = "registered"
                          THEN "push" ELSE "mark")
    /\ UNCHANGED <<endpoints, connection, world>>

(* A push was tried for row i; n of it was accepted. *)
Tried(i, n) ==
    subs' = IF i \in Rows
            THEN [subs EXCEPT ![i].tried = TRUE, ![i].pushes = @ + n]
            ELSE subs

(* The payload goes to the push service of the browser. *)
Push(t) ==
    LET item == task[t].cur IN
    /\ At(t, "push")
    /\ Run(t, [task[t] EXCEPT !.pc = "mark"])
    /\ \/ Tried(item.id, 1) /\ UNCHANGED device
       \/ "send_fail" \in Faults /\ Tried(item.id, 0) /\ UNCHANGED device
       \/ "gone" \in Faults /\ Remove(item.device)
    /\ UNCHANGED <<used, connection, world>>

Marked(i) == subs' = [subs EXCEPT ![i].triggered = TRUE]

\* Mutant: only a push that was accepted marks the row.
MarkPushed(t) ==
    LET i == task[t].cur.id IN
    /\ At(t, "mark")
    /\ IF i \in Rows /\ subs[i].pushes > 0 THEN Marked(i) ELSE UNCHANGED subs
    /\ Run(t, Advance(task[t]))
    /\ UNCHANGED <<device, used, connection, world>>

(* UPDATE ... SET triggered = TRUE WHERE id = $1, whatever the push did. *)
Mark(t) ==
    LET i == task[t].cur.id IN
    /\ At(t, "mark")
    /\ IF i \in Rows THEN Marked(i) ELSE UNCHANGED subs
    /\ Run(t, Advance(task[t]))
    /\ UNCHANGED <<device, used, connection, world>>

\* Mutant: a mark that failed has the row handled again.
QueryFailsAgain(t) ==
    /\ Happens("db_error")
    /\ \/ At(t, "select") /\ Run(t, Idle)
       \/ /\ At(t, "lookup")
          /\ \E item \in task[t].todo : Handle(t, item, "mark")
       \/ /\ At(t, "mark")
          /\ Run(t, [task[t] EXCEPT !.pc = "lookup", !.cur = None,
                                    !.todo = @ \union {task[t].cur}])
    /\ UNCHANGED <<endpoints, connection, changes>>

(* A failed query ends the task; a failed lookup or mark is only logged. *)
QueryFails(t) ==
    /\ Happens("db_error")
    /\ \/ At(t, "select") /\ Run(t, Idle)
       \/ /\ At(t, "lookup")
          /\ \E item \in task[t].todo : Handle(t, item, "mark")
       \/ At(t, "mark") /\ Run(t, Advance(task[t]))
    /\ UNCHANGED <<endpoints, connection, changes>>

Restart ==
    /\ Happens("crash")
    /\ ~Calm
    /\ listening' = FALSE
    /\ inbox' = <<>>
    /\ task' = [t \in Tasks |-> Idle]
    /\ UNCHANGED <<endpoints, changes>>

Work(t) == Receive(t) \/ Select(t) \/ Lookup(t) \/ Push(t) \/ Mark(t)

Next ==
    \/ \E d \in Devices : \/ Register(d) \/ Unregister(d)
                          \/ \E key \in Key : Subscribe(d, key)
    \/ \E user \in Users, key \in Key : Unsubscribe(user, key)
    \/ \E e \in Event : MapChanges(e)
    \/ Connect \/ Disconnect \/ Restart \/ CleanupTriggered
    \/ \E t \in Tasks : Work(t) \/ QueryFails(t)

Spec == Init /\ [][Next]_vars

(* The runtime polls the listener and every task. *)
FairSpec == Spec /\ WF_vars(Connect) /\ \A t \in Tasks : WF_vars(Work(t))

-----------------------------------------------------------------------------
(***************************************************************************)
(* Every variable has its type, and the foreign key of the subscription    *)
(* rows holds: the device of a row is registered.                          *)
(***************************************************************************)
TypeOK ==
    /\ device \in [Devices -> DeviceStates]
    /\ subs \in [Ids -> Row \union {None}]
    /\ \A i \in Rows : device[subs[i].device] = "registered"
    /\ used \in 0..MaxRows
    /\ listening \in BOOLEAN
    /\ inbox \in Seq(Event)
    /\ task \in [Tasks -> Task]
    /\ changes \in 0..MaxChanges
    /\ troubles \subseteq Troubles \intersect Faults

(***************************************************************************)
(* One map change pushes a row at most once, whatever fails: the two       *)
(* queries never find the same row and no failure repeats a push, so a row *)
(* has no more pushes than there were map changes.                         *)
(***************************************************************************)
OncePerChange == \A i \in Rows : subs[i].pushes <= changes

(***************************************************************************)
(* A subscription is one-shot: until map changes overlap, the backend      *)
(* restarts or a mark fails, the user gets at most one push each time it   *)
(* is armed, though pushes fail, devices go and the connection is lost.    *)
(***************************************************************************)
OneShot == troubles = {} => \A i \in Rows : subs[i].pushes <= 1

(***************************************************************************)
(* A row is marked triggered only after a push for it was tried since the  *)
(* user last armed it: a map change that is handled while the user         *)
(* subscribes again does not use the new subscription up.                  *)
(***************************************************************************)
TriggeredWasTried ==
    \A i \in Rows : subs[i].triggered => subs[i].tried

Waiting(i) ==
    /\ i \in Rows
    /\ ~subs[i].triggered
    /\ \E t \in Tasks :
          \E item \in task[t].todo \union ({task[t].cur} \ {None}) : item.id = i

(***************************************************************************)
(* Every row a task has read stops waiting: it is marked, or removed with  *)
(* its device or by its user, whatever becomes of the pushes before it,    *)
(* unless a restart or a failed mark came in between.                      *)
(***************************************************************************)
EveryRowHandled ==
    \A i \in Ids :
        Waiting(i) ~> \/ ~(i \in Rows /\ ~subs[i].triggered)
                      \/ troubles \intersect {"crash", "db_error"} # {}
=============================================================================

--------------------------- MODULE WebsiteProofs ---------------------------
(***************************************************************************)
(* Theorems about the website's tab.  First, page by page, an inductive    *)
(* invariant of the notifications, the comments and the guides; then, with *)
(* those of PagesProofs, that what each page promises holds of the whole   *)
(* site.                                                                   *)
(***************************************************************************)
EXTENDS PagesProofs

-----------------------------------------------------------------------------
(* Notifications in the browser: what a hook, a call and a button are.     *)
HookType == [on : BOOLEAN, sub : Endpoints \cup {None},
             busy : {"asked", "sent", None}, then : Kinds \cup {None}]

DeviceShape ==
    /\ device = [allowed |-> device.allowed, endpoint |-> device.endpoint,
                 used |-> device.used]
    /\ device.endpoint \in Endpoints \cup {None}

StoredShape ==
    /\ stored = [rows |-> stored.rows, alerts |-> stored.alerts,
                 pref |-> stored.pref]
    /\ \A a \in stored.alerts : a.kind \in KindsOf(widget)

ButtonShape ==
    /\ button = [shows |-> button.shows, listed |-> button.listed,
                 busy |-> button.busy, pref |-> button.pref,
                 saving |-> button.saving]
    /\ button.busy \in BOOLEAN /\ button.saving \in BOOLEAN
    /\ widget # "settings" => button.pref = None

HookShape ==
    /\ hook \in [Widgets -> HookType]
    /\ \A h \in Widgets : /\ hook[h].then \in KindsOf(h) \cup {None}
                          /\ hook[h].then # None => hook[h].busy # None

PushShape == /\ widget \in Widgets \ {"banner"}
             /\ DeviceShape /\ StoredShape /\ ButtonShape /\ HookShape

(* A hook that tells the API of its subscription is sending, and an alert  *)
(* is one of its widget's.                                                 *)
PushCall(k) ==
    /\ IsRequest(k) /\ k.of \in Hooked
    /\ k.what \in {"list", "post"} => k.saw \in Endpoints
    /\ k.what = "post" => k.arg = hook[k.of].then
    /\ k.what \in {"post", "leave"} => hook[k.of].busy = "sent"
    /\ k.what = "leave" => k.of = "settings" /\ "settings" \in doneBy
    /\ k.what = "alert" => k.arg \in KindsOf(k.of)
    /\ k.what = "prefer" => k.of \in {"bell", "settings"}
    /\ k.what = "prefs" => k.of = "settings"

PushCalls == \A k \in calls : PushCall(k)

(* One thing at a time of a hook, of the button and of the preference.     *)
Tells(k, h) == k.what \in {"post", "leave"} /\ k.of = h
OfAlert(k) == \/ k.what \in {"alert", "cancel"}
              \/ k.what = "prefer" /\ k.of = "bell"
OfPreference(k) == k.what = "prefer" /\ k.of = "settings"

OneTold == \A h \in Hooked : \A j, k \in calls : Tells(j, h) /\ Tells(k, h)
                                                   => j = k
OneAlert ==
    /\ \A j, k \in calls : OfAlert(j) /\ OfAlert(k) => j = k
    /\ (\E k \in calls : OfAlert(k)) => button.busy
    /\ hook[widget].busy # None => ~button.busy
OnePreference ==
    /\ \A j, k \in calls : OfPreference(j) /\ OfPreference(k) => j = k
    /\ (\E k \in calls : OfPreference(k)) => button.saving

(* A hook that alone changed the subscription of the browser knows it, or  *)
(* is about to be told.                                                    *)
Knows(h) ==
    doneBy \subseteq {h}
      /\ astray \cap {"post", "leave", "mounting", "gone"} = {} =>
      /\ \A k \in calls : k.what \in {"list", "post"} /\ k.of = h =>
            /\ k.saw = device.endpoint
            /\ k.what = "post" /\ k.state = "ok" => k.saw \in stored.rows
            /\ k.what = "list" /\ k.state = "ok" /\ k.got = "found"
                 => k.saw \in stored.rows
      /\ (\E k \in calls : k.what = "leave" /\ k.of = h)
            => device.endpoint = None
      /\ (\A k \in calls : ~(k.what = "leave" /\ k.of = h)) =>
            /\ hook[h].on => device.endpoint # None
            /\ device.endpoint # None
                 => \/ hook[h].on
                    \/ \E k \in calls : k.what \in {"list", "post"} /\ k.of = h
            /\ hook[h].sub \in {None, device.endpoint}
            /\ hook[h].sub # None => hook[h].sub \in stored.rows

AllKnow == \A h \in Hooked : Knows(h)

(* The alert that is stored, of one kind at most. *)
Holds(v) == {a.kind : a \in stored.alerts} = {v} \ {None}

AlertsKept ==
    astray \cap {"alert", "cancel", "alerts", "gone"} = {} =>
      /\ (\A k \in calls : ~OfAlert(k)) => Holds(button.shows)
      /\ \A k \in calls :
           /\ k.what = "alert" => \/ k.state # "ok" /\ Holds(None)
                                  \/ Holds(k.arg)
           /\ k.what = "cancel" => \/ k.state # "ok" /\ Holds(k.arg)
                                   \/ Holds(None)
           /\ k.what = "prefer" /\ k.of = "bell" => Holds(k.arg)
           /\ k.what = "alerts" /\ k.state = "ok" => Holds(k.got)
      /\ hook[widget].then # None => Holds(None)

PreferenceKept ==
    astray \cap {"prefer", "prefs"} = {} =>
      /\ (\A k \in calls : ~OfPreference(k)) /\ button.pref # None
            => button.pref = stored.pref
      /\ \A k \in calls :
           (k.what = "prefs" \/ OfPreference(k)) /\ k.state = "ok"
             => k.got = stored.pref

PushInv ==
    page = "push" => /\ PushShape /\ PushCalls
                     /\ OneTold /\ OneAlert /\ OnePreference
                     /\ AllKnow /\ AlertsKept /\ PreferenceKept

-----------------------------------------------------------------------------
LEMMA KindsAre ==
    /\ None \notin Kinds
    /\ KindsOf("banner") = {} /\ KindsOf("settings") = {}
    /\ KindsOf("match") = {"change"} /\ KindsOf("bell") = {"server", "all"}
  BY PushAssumption DEF Kinds, KindsOf

LEMMA KindsKnown ==
    ASSUME NEW w \in Widgets
    PROVE  KindsOf(w) \subseteq Kinds
  BY DEF KindsOf, Kinds

LEMMA PushStarts ==
    ASSUME NEW w \in Widgets \ {"banner"}, NEW b \in Browsers, PushInit(w, b),
           page = "push" => FetchInit(PushReads(w, b[2]))
    PROVE  PushInv
  <1>. SUFFICES ASSUME page = "push"
                PROVE  /\ PushShape /\ PushCalls
                       /\ OneTold /\ OneAlert /\ OnePreference
                       /\ AllKnow /\ AlertsKept /\ PreferenceKept
    BY DEF PushInv
  <1>1. /\ b[2] \in Endpoints \cup {None} /\ b[3] \in {{}, Endpoints}
        /\ b[2] = None => b[3] = {}
    <2>1. CASE b = <<"default", None, {}>>
      BY <2>1
    <2>2. ASSUME NEW e \in NextEndpoint({}), NEW r \in {{}, Endpoints},
                 b = <<"granted", e, r>>
          PROVE  /\ b[2] \in Endpoints \cup {None} /\ b[3] \in {{}, Endpoints}
                 /\ b[2] = None => b[3] = {}
      BY <2>2, PushAssumption DEF NextEndpoint
    <2>. QED  BY <2>1, <2>2 DEF Browsers
  <1>2. /\ widget = w
        /\ device = [allowed |-> b[1], endpoint |-> b[2],
                     used |-> {b[2]} \ {None}]
        /\ stored = [rows |-> b[3] \cap {b[2]}, alerts |-> {}, pref |-> "off"]
        /\ hook = [h \in Widgets |-> Mounted(h, b)]
        /\ button = [shows |-> None, listed |-> None, busy |-> FALSE,
                     pref |-> None, saving |-> FALSE]
        /\ doneBy = {} /\ astray = {}
    BY DEF PushInit
  <1>3. /\ calls = PushReads(w, b[2])
    BY DEF FetchInit
  <1>4. ASSUME NEW h \in Widgets
        PROVE  /\ hook[h].on = (h \in {"banner", "bell"} /\ b[2] # None)
               /\ hook[h].sub = IF h \in {"banner", "bell"} /\ b[3] # {}
                                THEN b[2] ELSE None
               /\ hook[h].busy = None /\ hook[h].then = None
               /\ hook[h] \in HookType
    BY <1>1, <1>2, <1>4 DEF Mounted, HookType
  <1>5. \A k \in calls : /\ IsRequest(k) /\ k.of = w /\ k.state = "sent"
                         /\ k.what = "alerts" \/ /\ k.what = "list"
                                                 /\ k.saw = b[2]
                                                 /\ b[2] # None
    <2>. SUFFICES ASSUME NEW k \in calls
                  PROVE  /\ IsRequest(k) /\ k.of = w /\ k.state = "sent"
                         /\ k.what = "alerts" \/ /\ k.what = "list"
                                                 /\ k.saw = b[2]
                                                 /\ b[2] # None
      OBVIOUS
    <2>1. \/ b[2] # None /\ k = Request("list", w, None, b[2])
          \/ k = Request("alerts", w, None, 0)
      BY <1>3 DEF PushReads
    <2>. QED  BY <2>1, NewRequest
  <1>6. ASSUME b[2] # None, w # "bell"
        PROVE  \E k \in calls : k.what = "list" /\ k.of = w
    <2>1. Request("list", w, None, b[2]) \in calls
      BY <1>3, <1>6 DEF PushReads
    <2>. QED  BY <2>1, NewRequest
  <1>7. PushShape
    <2>1. DeviceShape /\ StoredShape /\ ButtonShape
      BY <1>1, <1>2 DEF DeviceShape, StoredShape, ButtonShape
    <2>2. HookShape
      BY <1>2, <1>4 DEF HookShape
    <2>. QED  BY <1>2, <2>1, <2>2 DEF PushShape
  <1>8. PushCalls /\ OneTold /\ OneAlert /\ OnePreference
    <2>1. PushCalls
      BY <1>1, <1>2, <1>5 DEF PushCalls, PushCall, Hooked
    <2>2. \A k \in calls : k.what \in {"alerts", "list"}
      BY <1>5
    <2>3. widget \in Widgets
      BY <1>2
    <2>. QED  BY <1>2, <1>4, <2>1, <2>2, <2>3
              DEF OneTold, OneAlert, OnePreference, Tells, OfAlert,
                  OfPreference
  <1>9. AllKnow
    <2>. SUFFICES ASSUME NEW h \in Hooked PROVE Knows(h)
      BY DEF AllKnow
    <2>1. h \in Widgets /\ h \in {"banner", w}
      BY <1>2 DEF Hooked, Widgets
    <2>2. device.endpoint = b[2] /\ stored.rows = b[3] \cap {b[2]}
      BY <1>2
    <2>3. \A k \in calls : k.what \in {"list", "post"} /\ k.of = h =>
            /\ k.saw = device.endpoint
            /\ k.what = "post" /\ k.state = "ok" => k.saw \in stored.rows
            /\ k.what = "list" /\ k.state = "ok" /\ k.got = "found"
                 => k.saw \in stored.rows
      BY <1>5, <2>2
    <2>4. \A k \in calls : ~(k.what = "leave" /\ k.of = h)
      BY <1>5
    <2>5. /\ hook[h].on => device.endpoint # None
          /\ hook[h].sub \in {None, device.endpoint}
          /\ hook[h].sub # None => hook[h].sub \in stored.rows
      BY <1>1, <1>4, <2>1, <2>2
    <2>6. device.endpoint # None
            => \/ hook[h].on
               \/ \E k \in calls : k.what \in {"list", "post"} /\ k.of = h
      BY <1>4, <1>6, <2>1, <2>2
    <2>. QED  BY <2>3, <2>4, <2>5, <2>6 DEF Knows
  <1>10. AlertsKept
    <2>1. Holds(None) /\ button.shows = None
      BY <1>2 DEF Holds
    <2>2. widget \in Widgets
      BY <1>2
    <2>. QED  BY <1>4, <1>5, <2>1, <2>2 DEF AlertsKept
  <1>11. PreferenceKept
    BY <1>2, <1>5 DEF PreferenceKept, OfPreference
  <1>. QED  BY <1>7, <1>8, <1>9, <1>10, <1>11

(* One hook changes, the others do not.                                    *)
HookBecomes(h, on, sub, asking, then) ==
    /\ hook' \in [Widgets -> HookType]
    /\ \A g \in Widgets : g # h => hook'[g] = hook[g]
    /\ hook'[h].on = on /\ hook'[h].sub = sub
    /\ hook'[h].busy = asking /\ hook'[h].then = then

LEMMA HookAsks ==
    ASSUME hook \in [Widgets -> HookType], NEW h \in Widgets,
           NEW kind \in Kinds \cup {None}, AsksPermission(h, kind)
    PROVE  HookBecomes(h, hook[h].on, hook[h].sub, "asked", kind)
  BY DEF AsksPermission, HookBecomes, HookType

LEMMA HookSends ==
    ASSUME hook \in [Widgets -> HookType], NEW h \in Widgets,
           hook' = [hook EXCEPT ![h].busy = "sent"]
    PROVE  HookBecomes(h, hook[h].on, hook[h].sub, "sent", hook[h].then)
  BY DEF HookBecomes, HookType

LEMMA HookStops ==
    ASSUME hook \in [Widgets -> HookType], NEW h \in Widgets, hook' = Stops(h)
    PROVE  HookBecomes(h, hook[h].on, hook[h].sub, None, None)
  BY DEF HookBecomes, HookType, Stops

LEMMA HookLearns ==
    ASSUME hook \in [Widgets -> HookType], NEW h \in Widgets,
           NEW on \in BOOLEAN, NEW sub \in Endpoints \cup {None},
           hook' = [hook EXCEPT ![h].on = on, ![h].sub = sub]
    PROVE  HookBecomes(h, on, sub, hook[h].busy, hook[h].then)
  BY DEF HookBecomes, HookType

LEMMA HookEnds ==
    ASSUME hook \in [Widgets -> HookType], NEW h \in Widgets,
           NEW on \in BOOLEAN, NEW sub \in Endpoints \cup {None},
           hook' = [Stops(h) EXCEPT ![h].on = on, ![h].sub = sub]
    PROVE  HookBecomes(h, on, sub, None, None)
  <1>1. PICK mid : mid = Stops(h)
    OBVIOUS
  <1>2. /\ mid \in [Widgets -> HookType]
        /\ \A g \in Widgets : g # h => mid[g] = hook[g]
        /\ mid[h].busy = None /\ mid[h].then = None
    BY <1>1 DEF Stops, HookType
  <1>3. PICK last : last = [mid EXCEPT ![h].on = on]
    OBVIOUS
  <1>4. /\ last \in [Widgets -> HookType]
        /\ \A g \in Widgets : g # h => last[g] = hook[g]
        /\ last[h].on = on /\ last[h].busy = None /\ last[h].then = None
    BY <1>2, <1>3 DEF HookType
  <1>5. hook' = [[mid EXCEPT ![h].on = on] EXCEPT ![h].sub = sub]
    BY <1>1, Zenon
  <1>6. hook' = [last EXCEPT ![h].sub = sub]
    BY <1>3, <1>5
  <1>7. hook' \in [Widgets -> HookType]
    <2>1. PICK r : r = last[h]
      OBVIOUS
    <2>2. PICK e : e = [r EXCEPT !.sub = sub]
      OBVIOUS
    <2>3. r \in HookType
      BY <1>4, <2>1
    <2>4. e \in HookType
      BY <2>2, <2>3 DEF HookType
    <2>5. hook' = [last EXCEPT ![h] = e]
      BY <1>6, <2>1, <2>2
    <2>. QED  BY <1>4, <2>4, <2>5
  <1>8. \A g \in Widgets : g # h => hook'[g] = hook[g]
    BY <1>4, <1>6
  <1>9. /\ hook'[h].on = on /\ hook'[h].sub = sub
        /\ hook'[h].busy = None /\ hook'[h].then = None
    BY <1>4, <1>6 DEF HookType
  <1>. QED  BY <1>7, <1>8, <1>9 DEF HookBecomes

(* A request that goes on, and as answered as it was.                      *)
Continues(j, i) ==
    /\ j.what = i.what /\ j.of = i.of /\ j.arg = i.arg /\ j.saw = i.saw
    /\ j.state = "ok" => i.state = "ok" /\ j.got = i.got

(* The requests of these kinds go on, and no other comes.                  *)
GoOn(whats) ==
    /\ \A j \in calls' : j.what \in whats => \E i \in calls : Continues(j, i)
    /\ \A i \in calls : i.what \in whats
                          => \E j \in calls' : j.what = i.what /\ j.of = i.of

(* The same of one hook alone.                                             *)
GoOnOf(whats, h) ==
    /\ \A j \in calls' : j.what \in whats /\ j.of = h
                          => \E i \in calls : Continues(j, i)
    /\ \A i \in calls : i.what \in whats /\ i.of = h
                          => \E j \in calls' : j.what = i.what /\ j.of = i.of

(* The reads of these kinds go on, or were just sent.                      *)
ReadsGoOn(whats) ==
    \A j \in calls' : j.what \in whats =>
        j.state # "ok" \/ \E i \in calls : Continues(j, i)

(* What happens beside the subscriptions, the alert and the preference.    *)
LEMMA KnownBeside ==
    ASSUME NEW h, Knows(h), doneBy \subseteq doneBy', astray \subseteq astray',
           device'.endpoint = device.endpoint, stored.rows \subseteq stored'.rows,
           hook'[h].on = hook[h].on, hook'[h].sub = hook[h].sub,
           GoOnOf({"list", "post", "leave"}, h)
    PROVE  Knows(h)'
  <1>. SUFFICES ASSUME doneBy' \subseteq {h},
                       astray' \cap {"post", "leave", "mounting", "gone"} = {}
                PROVE  Knows(h)'
    BY DEF Knows
  <1>0. /\ doneBy \subseteq {h}
        /\ astray \cap {"post", "leave", "mounting", "gone"} = {}
    OBVIOUS
  <1>1. \A k \in calls' : k.what \in {"list", "post"} /\ k.of = h =>
            /\ k.saw = device'.endpoint
            /\ k.what = "post" /\ k.state = "ok" => k.saw \in stored'.rows
            /\ k.what = "list" /\ k.state = "ok" /\ k.got = "found"
                 => k.saw \in stored'.rows
    BY <1>0 DEF Knows, GoOnOf, Continues
  <1>2. (\E k \in calls' : k.what = "leave" /\ k.of = h)
            => device'.endpoint = None
    BY <1>0 DEF Knows, GoOnOf, Continues
  <1>3. ASSUME \A k \in calls' : ~(k.what = "leave" /\ k.of = h)
        PROVE  /\ hook'[h].on => device'.endpoint # None
               /\ device'.endpoint # None
                    => \/ hook'[h].on
                       \/ \E k \in calls' : k.what \in {"list", "post"}
                                              /\ k.of = h
               /\ hook'[h].sub \in {None, device'.endpoint}
               /\ hook'[h].sub # None => hook'[h].sub \in stored'.rows
    <2>1. \A k \in calls : ~(k.what = "leave" /\ k.of = h)
      BY <1>3 DEF GoOnOf
    <2>2. (\E k \in calls : k.what \in {"list", "post"} /\ k.of = h)
            => \E k \in calls' : k.what \in {"list", "post"} /\ k.of = h
      BY DEF GoOnOf
    <2>. QED  BY <1>0, <2>1, <2>2 DEF Knows
  <1>. QED  BY <1>1, <1>2, <1>3 DEF Knows

LEMMA AlertsBeside ==
    ASSUME AlertsKept, astray \subseteq astray', widget' = widget,
           stored'.alerts = stored.alerts, button'.shows = button.shows,
           hook'[widget].then \in {None, hook[widget].then},
           GoOn({"alert", "cancel", "prefer"}), ReadsGoOn({"alerts"})
    PROVE  AlertsKept'
  <1>. SUFFICES ASSUME astray' \cap {"alert", "cancel", "alerts", "gone"} = {}
                PROVE  AlertsKept'
    BY DEF AlertsKept
  <1>0. astray \cap {"alert", "cancel", "alerts", "gone"} = {}
    OBVIOUS
  <1>1. \A v : Holds(v)' <=> Holds(v)
    BY DEF Holds
  <1>2. ASSUME \A k \in calls' : ~OfAlert(k) PROVE Holds(button.shows)'
    <2>1. \A k \in calls : ~OfAlert(k)
      BY <1>2 DEF GoOn, OfAlert
    <2>2. Holds(button.shows)
      BY <1>0, <2>1 DEF AlertsKept
    <2>. QED  BY <2>2 DEF Holds
  <1>3. ASSUME NEW k \in calls'
        PROVE  /\ k.what = "alert" => \/ k.state # "ok" /\ Holds(None)'
                                      \/ Holds(k.arg)'
               /\ k.what = "cancel" => \/ k.state # "ok" /\ Holds(k.arg)'
                                       \/ Holds(None)'
               /\ k.what = "prefer" /\ k.of = "bell" => Holds(k.arg)'
               /\ k.what = "alerts" /\ k.state = "ok" => Holds(k.got)'
    <2>1. CASE k.what \in {"alert", "cancel", "prefer"}
      <3>1. PICK i \in calls : Continues(k, i)
        BY <2>1 DEF GoOn
      <3>. QED  BY <1>0, <1>1, <2>1, <3>1 DEF AlertsKept, Continues
    <2>2. CASE k.what = "alerts" /\ k.state = "ok"
      <3>1. PICK i \in calls : Continues(k, i)
        BY <2>2 DEF ReadsGoOn
      <3>. QED  BY <1>0, <1>1, <2>2, <3>1 DEF AlertsKept, Continues
    <2>. QED  BY <2>1, <2>2
  <1>4. ASSUME hook'[widget].then # None PROVE Holds(None)'
    <2>1. hook[widget].then # None
      BY <1>4
    <2>2. Holds(None)
      BY <1>0, <2>1 DEF AlertsKept
    <2>. QED  BY <1>1, <2>2
  <1>. QED  BY <1>2, <1>3, <1>4 DEF AlertsKept

LEMMA PreferenceBeside ==
    ASSUME PreferenceKept, astray \subseteq astray',
           stored'.pref = stored.pref, button'.pref = button.pref,
           GoOn({"prefer"}), ReadsGoOn({"prefs"})
    PROVE  PreferenceKept'
  <1>. SUFFICES ASSUME astray' \cap {"prefer", "prefs"} = {}
                PROVE  PreferenceKept'
    BY DEF PreferenceKept
  <1>0. astray \cap {"prefer", "prefs"} = {}
    OBVIOUS
  <1>1. ASSUME \A k \in calls' : ~OfPreference(k)
        PROVE  \A k \in calls : ~OfPreference(k)
    BY <1>1 DEF GoOn, OfPreference
  <1>2. ASSUME NEW k \in calls', k.what = "prefs" \/ OfPreference(k),
               k.state = "ok"
        PROVE  k.got = stored'.pref
    <2>1. PICK i \in calls : Continues(k, i)
      BY <1>2 DEF GoOn, ReadsGoOn, OfPreference
    <2>. QED  BY <1>0, <1>2, <2>1 DEF PreferenceKept, Continues, OfPreference
  <1>. QED  BY <1>0, <1>1, <1>2 DEF PreferenceKept

(* What is there of each kind when the calls are as they were.             *)
LEMMA AsBefore ==
    ASSUME NEW whats, calls' = calls
    PROVE  GoOn(whats) /\ ReadsGoOn(whats)
  BY DEF GoOn, ReadsGoOn, Continues

(* A call goes, and others come that are not of these kinds.               *)
LEMMA OthersGoOn ==
    ASSUME NEW whats, NEW old, NEW new, calls' = (calls \ old) \cup new,
           \A k \in old : k.what \notin whats,
           \A k \in new : k.what \notin whats
    PROVE  GoOn(whats)
  BY DEF GoOn, Continues

LEMMA OthersRead ==
    ASSUME NEW whats, NEW old, NEW new, calls' = (calls \ old) \cup new,
           \A k \in new : k.state # "ok"
    PROVE  ReadsGoOn(whats)
  BY DEF ReadsGoOn, Continues

PushForms == PushShape /\ PushCalls /\ OneTold /\ OneAlert /\ OnePreference

PushTruth == AllKnow /\ AlertsKept /\ PreferenceKept

LEMMA HookedAre ==
    ASSUME PushShape
    PROVE  Hooked \subseteq Widgets /\ widget \in Hooked
  BY DEF PushShape, Hooked, Widgets

LEMMA KnownToAll ==
    ASSUME AllKnow, widget' = widget, doneBy \subseteq doneBy',
           astray \subseteq astray', device'.endpoint = device.endpoint,
           stored.rows \subseteq stored'.rows,
           \A h \in Hooked : /\ hook'[h].on = hook[h].on
                             /\ hook'[h].sub = hook[h].sub,
           GoOn({"list", "post", "leave"})
    PROVE  AllKnow'
  <1>. SUFFICES ASSUME NEW h \in Hooked PROVE Knows(h)'
    BY DEF AllKnow, Hooked
  <1>1. Knows(h)
    BY DEF AllKnow
  <1>2. GoOnOf({"list", "post", "leave"}, h)
    BY DEF GoOn, GoOnOf
  <1>. QED  BY <1>1, <1>2, KnownBeside

LEMMA ShapeHooked ==
    ASSUME HookShape, NEW h \in Widgets, NEW on, NEW sub, NEW asking, NEW then,
           HookBecomes(h, on, sub, asking, then),
           then \in KindsOf(h) \cup {None}, then # None => asking # None
    PROVE  HookShape'
  BY DEF HookShape, HookBecomes

LEMMA CallHooked ==
    ASSUME PushShape, NEW k, PushCall(k), NEW h \in Widgets, NEW on, NEW sub,
           NEW asking, NEW then, HookBecomes(h, on, sub, asking, then),
           widget' = widget, doneBy \subseteq doneBy',
           Tells(k, h) => asking = "sent" /\ then = hook[h].then
    PROVE  PushCall(k)'
  <1>1. k.of \in Widgets
    BY HookedAre DEF PushCall
  <1>2. Hooked' = Hooked
    BY DEF Hooked
  <1>3. k.what \in {"post", "leave"} => /\ hook'[k.of].busy = "sent"
                                        /\ hook'[k.of].then = hook[k.of].then
    <2>1. CASE k.of = h
      BY <1>1, <2>1 DEF PushCall, HookBecomes, Tells
    <2>2. CASE k.of # h
      BY <1>1, <2>2 DEF PushCall, HookBecomes
    <2>. QED  BY <2>1, <2>2
  <1>. QED  BY <1>1, <1>2, <1>3 DEF PushCall

LEMMA CallsHooked ==
    ASSUME PushShape, PushCalls, NEW h \in Widgets, NEW on, NEW sub,
           NEW asking, NEW then, HookBecomes(h, on, sub, asking, then),
           widget' = widget, doneBy \subseteq doneBy',
           \A k \in calls : Tells(k, h)
                              => asking = "sent" /\ then = hook[h].then
    PROVE  \A k \in calls : PushCall(k)'
  BY CallHooked DEF PushCalls

LEMMA PushUntouched ==
    ASSUME PushForms, PushTruth,
           UNCHANGED <<widget, device, stored, hook, button, doneBy, astray,
                       calls>>
    PROVE  PushForms' /\ PushTruth'
  <1>1. PushShape' /\ PushCalls'
    BY DEF PushForms, PushShape, DeviceShape, StoredShape, ButtonShape,
           HookShape, PushCalls, PushCall, Hooked
  <1>2. OneTold' /\ OneAlert' /\ OnePreference'
    BY DEF PushForms, OneTold, OneAlert, OnePreference, Hooked
  <1>3. AllKnow'
    BY AsBefore, KnownToAll DEF PushTruth
  <1>4. hook'[widget].then \in {None, hook[widget].then}
    OBVIOUS
  <1>5. AlertsKept'
    BY <1>4, AsBefore, AlertsBeside DEF PushTruth
  <1>6. PreferenceKept'
    BY AsBefore, PreferenceBeside DEF PushTruth
  <1>. QED  BY <1>1, <1>2, <1>3, <1>5, <1>6 DEF PushForms, PushTruth

(* A hook that asks for the permission, of itself or for an alert.         *)
LEMMA Asking ==
    ASSUME PushForms, PushTruth, NEW h \in Hooked,
           NEW kind \in KindsOf(h) \cup {None}, Idle(h),
           AsksPermission(h, kind),
           kind # None => h = widget /\ button.shows = None,
           UNCHANGED <<widget, device, stored, button, doneBy, astray, calls>>
    PROVE  PushForms' /\ PushTruth'
  <1>0. /\ PushShape /\ PushCalls /\ OneTold /\ OneAlert /\ OnePreference
        /\ AllKnow /\ AlertsKept /\ PreferenceKept
    BY DEF PushForms, PushTruth
  <1>1. h \in Widgets /\ Hooked' = Hooked /\ widget \in Hooked
    BY <1>0, HookedAre DEF Hooked
  <1>2. kind \in Kinds \cup {None}
    BY <1>1, KindsKnown
  <1>3. HookBecomes(h, hook[h].on, hook[h].sub, "asked", kind)
    BY <1>0, <1>1, <1>2, HookAsks DEF PushShape, HookShape
  <1>4. "asked" # None
    BY PushAssumption
  <1>5. PushShape'
    <2>1. HookShape'
      BY <1>0, <1>1, <1>3, <1>4, ShapeHooked DEF PushShape
    <2>. QED  BY <1>0, <2>1
              DEF PushShape, DeviceShape, StoredShape, ButtonShape
  <1>6. \A k \in calls : ~Tells(k, h)
    BY <1>0, PushAssumption DEF PushCalls, PushCall, Tells, Idle
  <1>7. PushCalls'
    BY <1>0, <1>1, <1>3, <1>6, CallsHooked DEF PushCalls
  <1>8. OneTold' /\ OnePreference'
    BY <1>0, <1>1 DEF OneTold, OnePreference
  <1>9. OneAlert'
    <2>1. hook'[widget].busy # None => ~button.busy
      BY <1>0, <1>1, <1>3, HookedAre DEF OneAlert, HookBecomes, Idle
    <2>. QED  BY <1>0, <2>1 DEF OneAlert
  <1>10. AllKnow'
    <2>1. \A g \in Hooked : /\ hook'[g].on = hook[g].on
                            /\ hook'[g].sub = hook[g].sub
      BY <1>0, <1>3, HookedAre DEF HookBecomes
    <2>. QED  BY <1>0, <2>1, AsBefore, KnownToAll
  <1>11. AlertsKept'
    <2>1. CASE kind = None
      <3>1. hook'[widget].then \in {None, hook[widget].then}
        BY <1>0, <1>1, <1>3, <2>1, HookedAre DEF HookBecomes
      <3>. QED  BY <1>0, <3>1, AsBefore, AlertsBeside
    <2>2. CASE kind # None
      <3>1. h = widget /\ button.shows = None /\ ~button.busy
        BY <2>2 DEF Idle
      <3>2. \A k \in calls : ~OfAlert(k)
        BY <1>0, <3>1 DEF OneAlert
      <3>. SUFFICES ASSUME astray \cap {"alert", "cancel", "alerts", "gone"}
                             = {}
                    PROVE  AlertsKept'
        BY DEF AlertsKept
      <3>3. Holds(None)
        BY <1>0, <3>1, <3>2 DEF AlertsKept
      <3>4. \A v : Holds(v)' <=> Holds(v)
        BY DEF Holds
      <3>5. \A k \in calls : k.what = "alerts" /\ k.state = "ok"
                               => Holds(k.got)
        BY <1>0 DEF AlertsKept
      <3>. QED  BY <3>1, <3>2, <3>3, <3>4, <3>5 DEF AlertsKept, OfAlert
    <2>. QED  BY <2>1, <2>2
  <1>12. PreferenceKept'
    BY <1>0, AsBefore, PreferenceBeside
  <1>. QED
    BY <1>5, <1>7, <1>8, <1>9, <1>10, <1>11, <1>12 DEF PushForms, PushTruth

(* A request that is sent beside these kinds.                              *)
LEMMA SentGoesOn ==
    ASSUME NEW r, r.state = "sent", calls' = calls \cup {r}, NEW whats
    PROVE  ReadsGoOn(whats) /\ (r.what \notin whats => GoOn(whats))
  BY DEF ReadsGoOn, GoOn, Continues

LEMMA BannerDismissed ==
    ASSUME PushForms, PushTruth, HandleDismiss
    PROVE  PushForms' /\ PushTruth'
  BY PushUntouched DEF HandleDismiss, fetchVars

LEMMA Enabling ==
    ASSUME PushForms, PushTruth, NEW h \in Hooked, Enable(h)
    PROVE  PushForms' /\ PushTruth'
  BY Asking DEF Enable, fetchVars

LEMMA Disabled ==
    ASSUME PushForms, PushTruth, Disable
    PROVE  PushForms' /\ PushTruth'
  <1>. DEFINE h == "settings"
  <1>0. /\ PushShape /\ PushCalls /\ OneTold /\ OneAlert /\ OnePreference
        /\ AllKnow /\ AlertsKept /\ PreferenceKept
    BY DEF PushForms, PushTruth
  <1>1. /\ widget = h /\ Idle(h)
        /\ device' = [device EXCEPT !.endpoint = None]
        /\ doneBy' = doneBy \cup {h}
        /\ astray' = astray \cup {"mounting" : k \in {k \in calls :
                                      k.what = "list" /\ k.of = h}}
        /\ UNCHANGED <<widget, stored, button, dismissed>>
    BY DEF Disable
  <1>2. h \in Widgets /\ Hooked' = Hooked /\ widget \in Hooked
    BY <1>0, <1>1, HookedAre DEF Hooked
  <1>3. \A k \in calls : ~Tells(k, h)
    BY <1>0, <1>1, PushAssumption DEF PushCalls, PushCall, Tells, Idle
  <1>4. \A k \in calls : ~OfAlert(k)
    BY <1>0, <1>1 DEF OneAlert, Idle
  <1>5. hook[h].busy = None /\ ~button.busy /\ hook[h].then = None
    BY <1>0, <1>1, <1>2 DEF Idle, PushShape, HookShape
  <1>6. DeviceShape' /\ device'.endpoint = None
    BY <1>0, <1>1 DEF PushShape, DeviceShape
  <1>7. \/ /\ device.endpoint = None /\ calls' = calls
           /\ HookBecomes(h, FALSE, None, hook[h].busy, hook[h].then)
        \/ /\ HookBecomes(h, hook[h].on, hook[h].sub, "sent", hook[h].then)
           /\ \E r : /\ IsRequest(r) /\ r.state = "sent" /\ r.of = h
                     /\ r.what = "leave" /\ calls' = calls \cup {r}
    <2>1. CASE device.endpoint = None
      <3>1. /\ hook' = [hook EXCEPT ![h].on = FALSE, ![h].sub = None]
            /\ calls' = calls
        BY <2>1 DEF Disable, fetchVars
      <3>. QED  BY <1>0, <1>2, <2>1, <3>1, HookLearns DEF PushShape, HookShape
    <2>2. CASE device.endpoint # None
      <3>. DEFINE r == Request("leave", "settings", None, device.endpoint)
      <3>1. hook' = [hook EXCEPT ![h].busy = "sent"] /\ calls' = calls \cup {r}
        BY <2>2 DEF Disable, Sending
      <3>2. IsRequest(r) /\ r.state = "sent" /\ r.of = h /\ r.what = "leave"
        BY NewRequest
      <3>3. HookBecomes(h, hook[h].on, hook[h].sub, "sent", hook[h].then)
        BY <1>0, <1>2, <3>1, HookSends DEF PushShape, HookShape
      <3>. HIDE DEF r
      <3>. QED  BY <3>1, <3>2, <3>3
    <2>. QED  BY <2>1, <2>2
  <1>8. PushShape'
    <2>1. HookShape'
      <3>1. CASE HookBecomes(h, FALSE, None, hook[h].busy, hook[h].then)
        BY <1>0, <1>2, <1>5, <3>1, ShapeHooked DEF PushShape
      <3>2. CASE HookBecomes(h, hook[h].on, hook[h].sub, "sent", hook[h].then)
        BY <1>0, <1>2, <1>5, <3>2, ShapeHooked DEF PushShape
      <3>. QED  BY <1>7, <3>1, <3>2
    <2>. QED  BY <1>0, <1>1, <1>6, <2>1 DEF PushShape, StoredShape, ButtonShape
  <1>9. \A k \in calls : PushCall(k)'
    <2>1. CASE HookBecomes(h, FALSE, None, hook[h].busy, hook[h].then)
      BY <1>0, <1>1, <1>2, <1>3, <2>1, CallsHooked
    <2>2. CASE HookBecomes(h, hook[h].on, hook[h].sub, "sent", hook[h].then)
      BY <1>0, <1>1, <1>2, <1>3, <2>2, CallsHooked
    <2>. QED  BY <1>7, <2>1, <2>2
  <1>10. \A g \in {"banner"} : hook'[g].on = hook[g].on
                                 /\ hook'[g].sub = hook[g].sub
    BY <1>7 DEF HookBecomes, Widgets
  <1>11. \A g \in Hooked : ~(doneBy' \subseteq {g}) \/ g = h
    BY <1>1
  <1>12. CASE /\ device.endpoint = None /\ calls' = calls
              /\ HookBecomes(h, FALSE, None, hook[h].busy, hook[h].then)
    <2>0. PushCalls' /\ OneTold'
      BY <1>0, <1>2, <1>9, <1>12 DEF PushCalls, OneTold
    <2>1. OnePreference'
      BY <1>0, <1>1, <1>12 DEF OnePreference
    <2>2. OneAlert'
      BY <1>0, <1>1, <1>5, <1>12 DEF OneAlert, HookBecomes
    <2>3. AllKnow'
      <3>1. SUFFICES ASSUME doneBy' \subseteq {h},
                            astray' \cap {"post", "leave", "mounting", "gone"}
                              = {}
                     PROVE  Knows(h)'
        BY <1>2, <1>11 DEF AllKnow, Knows
      <3>2. \A k \in calls : ~(k.what = "list" /\ k.of = h)
        BY <1>1, <3>1
      <3>. QED  BY <1>3, <1>6, <1>12, <3>2 DEF Knows, Tells, HookBecomes
    <2>4. hook'[widget].then \in {None, hook[widget].then}
      BY <1>1, <1>12 DEF HookBecomes
    <2>5. AlertsKept'
      BY <1>0, <1>1, <1>12, <2>4, AsBefore, AlertsBeside
    <2>6. PreferenceKept'
      BY <1>0, <1>1, <1>12, AsBefore, PreferenceBeside
    <2>. QED  BY <1>8, <2>0, <2>1, <2>2, <2>3, <2>5, <2>6
              DEF PushForms, PushTruth
  <1>13. ASSUME HookBecomes(h, hook[h].on, hook[h].sub, "sent", hook[h].then),
                NEW r, IsRequest(r), r.state = "sent", r.of = h,
                r.what = "leave", calls' = calls \cup {r}
         PROVE  PushForms' /\ PushTruth'
    <2>1. PushCall(r)'
      BY <1>1, <1>2, <1>13 DEF PushCall, HookBecomes
    <2>2. \A k \in calls' : k = r \/ k \in calls
      BY <1>13
    <2>3. PushCalls'
      BY <1>9, <2>1, <2>2 DEF PushCalls
    <2>4. OneTold'
      BY <1>0, <1>2, <1>3, <1>13, <2>2 DEF OneTold, Tells
    <2>5. OneAlert'
      BY <1>0, <1>1, <1>4, <1>5, <1>13, <2>2 DEF OneAlert, OfAlert
    <2>6. OnePreference'
      BY <1>0, <1>1, <1>13, <2>2 DEF OnePreference, OfPreference
    <2>7. AllKnow'
      <3>1. SUFFICES ASSUME doneBy' \subseteq {h},
                            astray' \cap {"post", "leave", "mounting", "gone"}
                              = {}
                     PROVE  Knows(h)'
        BY <1>2, <1>11 DEF AllKnow, Knows
      <3>2. \A k \in calls : ~(k.what = "list" /\ k.of = h)
        BY <1>1, <3>1
      <3>3. r \in calls'
        BY <1>13
      <3>. QED  BY <1>3, <1>6, <1>13, <2>2, <3>2, <3>3 DEF Knows, Tells
    <2>8. hook'[widget].then \in {None, hook[widget].then}
      BY <1>1, <1>13 DEF HookBecomes
    <2>9. /\ GoOn({"alert", "cancel", "prefer"}) /\ GoOn({"prefer"})
          /\ ReadsGoOn({"alerts"}) /\ ReadsGoOn({"prefs"})
      BY <1>13, SentGoesOn
    <2>10. AlertsKept'
      BY <1>0, <1>1, <2>8, <2>9, AlertsBeside
    <2>11. PreferenceKept'
      BY <1>0, <1>1, <2>9, PreferenceBeside
    <2>. QED  BY <1>8, <2>3, <2>4, <2>5, <2>6, <2>7, <2>10, <2>11
              DEF PushForms, PushTruth
  <1>. HIDE DEF h
  <1>. QED  BY <1>7, <1>12, <1>13

(* The button of the alert, or a switch, asks the API for a change.        *)
LEMMA ButtonAsks ==
    ASSUME PushForms, PushTruth, NEW r, PushCall(r), r.state = "sent",
           r.what \in {"alert", "cancel", "prefer"}, calls' = calls \cup {r},
           UNCHANGED <<widget, device, stored, hook, doneBy, astray>>,
           ButtonShape'
    PROVE  PushShape' /\ PushCalls' /\ OneTold' /\ AllKnow'
  <1>0. PushShape /\ PushCalls /\ OneTold /\ AllKnow
    BY DEF PushForms, PushTruth
  <1>1. Hooked' = Hooked
    BY DEF Hooked
  <1>2. PushShape'
    BY <1>0 DEF PushShape, DeviceShape, StoredShape, HookShape
  <1>3. \A k \in calls' : k = r \/ k \in calls
    OBVIOUS
  <1>4. \A k \in calls' : PushCall(k)
    BY <1>0, <1>3 DEF PushCalls
  <1>5. PushCalls'
    BY <1>1, <1>4 DEF PushCalls, PushCall
  <1>6. OneTold'
    BY <1>0, <1>1, <1>3 DEF OneTold, Tells
  <1>7. GoOn({"list", "post", "leave"})
    BY SentGoesOn
  <1>8. AllKnow'
    BY <1>0, <1>7, KnownToAll
  <1>. QED  BY <1>2, <1>5, <1>6, <1>8

LEMMA PreferenceAsked ==
    ASSUME PushForms, PushTruth, UpdatePreference
    PROVE  PushForms' /\ PushTruth'
  <1>. DEFINE v == IF button.pref = "on" THEN "off" ELSE "on"
              r == Request("prefer", "settings", v, 0)
  <1>0. /\ PushShape /\ OneAlert /\ OnePreference
        /\ AlertsKept /\ PreferenceKept
    BY DEF PushForms, PushTruth
  <1>1. /\ widget = "settings" /\ ~button.saving
        /\ button' = [button EXCEPT !.saving = TRUE]
        /\ calls' = calls \cup {r}
        /\ UNCHANGED <<widget, device, stored, hook, doneBy, astray>>
    BY DEF UpdatePreference, Sending
  <1>2. /\ IsRequest(r) /\ r.what = "prefer" /\ r.of = "settings"
        /\ r.state = "sent"
    BY NewRequest
  <1>. HIDE DEF r
  <1>3. ButtonShape' /\ button'.saving /\ button'.shows = button.shows
          /\ button'.pref = button.pref /\ button'.busy = button.busy
    BY <1>0, <1>1 DEF PushShape, ButtonShape
  <1>4. PushCall(r)
    BY <1>1, <1>2 DEF PushCall, Hooked
  <1>5. PushShape' /\ PushCalls' /\ OneTold' /\ AllKnow'
    BY <1>1, <1>2, <1>3, <1>4, ButtonAsks
  <1>6. \A k \in calls' : k = r \/ k \in calls
    BY <1>1
  <1>7. OneAlert'
    BY <1>0, <1>1, <1>2, <1>3, <1>6 DEF OneAlert, OfAlert
  <1>8. \A k \in calls : ~OfPreference(k)
    BY <1>0, <1>1 DEF OnePreference
  <1>9. OnePreference'
    BY <1>2, <1>3, <1>6, <1>8 DEF OnePreference
  <1>10. AlertsKept'
    <2>. SUFFICES ASSUME astray \cap {"alert", "cancel", "alerts", "gone"} = {}
                  PROVE  AlertsKept'
      BY <1>1 DEF AlertsKept
    <2>1. \A w : Holds(w)' <=> Holds(w)
      BY <1>1 DEF Holds
    <2>2. ~OfAlert(r) /\ r.what # "alerts" /\ r.of # "bell" /\ r \in calls'
      BY <1>1, <1>2 DEF OfAlert
    <2>3. ASSUME \A k \in calls' : ~OfAlert(k) PROVE Holds(button.shows)
      BY <1>0, <1>1, <2>3 DEF AlertsKept
    <2>4. ASSUME \A k \in calls' : ~OfAlert(k) PROVE Holds(button.shows)'
      BY <1>1, <1>3, <2>3, <2>4 DEF Holds
    <2>5. \A k \in calls' :
            /\ k.what = "alert" => \/ k.state # "ok" /\ Holds(None)
                                   \/ Holds(k.arg)
            /\ k.what = "cancel" => \/ k.state # "ok" /\ Holds(k.arg)
                                    \/ Holds(None)
            /\ k.what = "prefer" /\ k.of = "bell" => Holds(k.arg)
            /\ k.what = "alerts" /\ k.state = "ok" => Holds(k.got)
      BY <1>0, <1>2, <1>6 DEF AlertsKept
    <2>6. hook'[widget].then # None => Holds(None)
      BY <1>0, <1>1 DEF AlertsKept
    <2>. QED  BY <1>1, <2>1, <2>4, <2>5, <2>6 DEF AlertsKept
  <1>11. PreferenceKept'
    BY <1>0, <1>1, <1>2, <1>3, <1>6 DEF PreferenceKept, OfPreference
  <1>. QED  BY <1>5, <1>7, <1>9, <1>10, <1>11 DEF PushForms, PushTruth

(* An alert is asked for, or cancelled.                                    *)
LEMMA AlertAsked ==
    ASSUME PushForms, PushTruth, Idle(widget), NEW r, PushCall(r),
           r.state = "sent", r.what \in {"alert", "cancel"},
           calls' = calls \cup {r},
           r.what = "alert" => button.shows = None,
           r.what = "cancel" => r.arg = button.shows,
           button' = [button EXCEPT !.busy = TRUE],
           UNCHANGED <<widget, device, stored, hook, doneBy, astray>>
    PROVE  PushForms' /\ PushTruth'
  <1>0. /\ PushShape /\ OneAlert /\ OnePreference
        /\ AlertsKept /\ PreferenceKept
    BY DEF PushForms, PushTruth
  <1>1. ButtonShape' /\ button'.busy /\ button'.saving = button.saving
          /\ button'.pref = button.pref /\ button'.shows = button.shows
    BY <1>0 DEF PushShape, ButtonShape
  <1>2. PushShape' /\ PushCalls' /\ OneTold' /\ AllKnow'
    BY <1>1, ButtonAsks
  <1>3. \A k \in calls' : k = r \/ k \in calls
    OBVIOUS
  <1>4. \A k \in calls : ~OfAlert(k)
    BY <1>0 DEF OneAlert, Idle
  <1>5. OneAlert'
    BY <1>1, <1>3, <1>4 DEF OneAlert, Idle
  <1>6. OnePreference'
    BY <1>0, <1>1, <1>3 DEF OnePreference, OfPreference
  <1>7. PreferenceKept'
    <2>1. GoOn({"prefer"}) /\ ReadsGoOn({"prefs"})
      BY SentGoesOn
    <2>. QED  BY <1>0, <1>1, <2>1, PreferenceBeside
  <1>8. AlertsKept'
    <2>. SUFFICES ASSUME astray \cap {"alert", "cancel", "alerts", "gone"} = {}
                  PROVE  AlertsKept'
      BY DEF AlertsKept
    <2>1. \A w : Holds(w)' <=> Holds(w)
      BY DEF Holds
    <2>2. OfAlert(r) /\ r \in calls'
      BY DEF OfAlert
    <2>3. Holds(button.shows)
      BY <1>0, <1>4 DEF AlertsKept
    <2>4. \A k \in calls' :
            /\ k.what = "alert" => \/ k.state # "ok" /\ Holds(None)
                                   \/ Holds(k.arg)
            /\ k.what = "cancel" => \/ k.state # "ok" /\ Holds(k.arg)
                                    \/ Holds(None)
            /\ k.what = "prefer" /\ k.of = "bell" => Holds(k.arg)
            /\ k.what = "alerts" /\ k.state = "ok" => Holds(k.got)
      BY <1>0, <1>3, <2>3 DEF AlertsKept
    <2>5. hook'[widget].then # None => Holds(None)
      BY <1>0 DEF AlertsKept
    <2>. QED  BY <2>1, <2>2, <2>4, <2>5 DEF AlertsKept
  <1>. QED  BY <1>2, <1>5, <1>6, <1>7, <1>8 DEF PushForms, PushTruth

LEMMA AlertSubscribed ==
    ASSUME PushForms, PushTruth, HandleSubscribe
    PROVE  PushForms' /\ PushTruth'
  <1>0. PushShape /\ widget \in Hooked
    BY HookedAre DEF PushForms
  <1>1. /\ Idle(widget) /\ button.shows = None
        /\ UNCHANGED <<widget, device, stored, doneBy, astray>>
    BY DEF HandleSubscribe
  <1>2. PICK kind \in KindsOf(widget) :
          IF hook[widget].sub = None
          THEN AsksPermission(widget, kind) /\ UNCHANGED <<button, fetchVars>>
          ELSE /\ button' = [button EXCEPT !.busy = TRUE]
               /\ Sending({Request("alert", widget, kind, hook[widget].sub)})
               /\ UNCHANGED hook
    BY DEF HandleSubscribe
  <1>3. CASE hook[widget].sub = None
    BY <1>0, <1>1, <1>2, <1>3, Asking DEF fetchVars
  <1>4. CASE hook[widget].sub # None
    <2>. DEFINE r == Request("alert", widget, kind, hook[widget].sub)
    <2>1. calls' = calls \cup {r} /\ button' = [button EXCEPT !.busy = TRUE]
            /\ hook' = hook
      BY <1>2, <1>4 DEF Sending
    <2>2. /\ IsRequest(r) /\ r.what = "alert" /\ r.of = widget
          /\ r.state = "sent" /\ r.arg = kind
      BY NewRequest
    <2>. HIDE DEF r
    <2>3. PushCall(r)
      BY <1>0, <2>2 DEF PushCall
    <2>. QED  BY <1>1, <2>1, <2>2, <2>3, AlertAsked
  <1>. QED  BY <1>3, <1>4

LEMMA AlertCancelled ==
    ASSUME PushForms, PushTruth, HandleUnsubscribe
    PROVE  PushForms' /\ PushTruth'
  <1>. DEFINE r == Request("cancel", widget, button.shows, 0)
  <1>0. PushShape /\ widget \in Hooked
    BY HookedAre DEF PushForms
  <1>1. /\ Idle(widget) /\ button' = [button EXCEPT !.busy = TRUE]
        /\ calls' = calls \cup {r}
        /\ UNCHANGED <<widget, device, stored, hook, doneBy, astray>>
    BY DEF HandleUnsubscribe, Sending
  <1>2. /\ IsRequest(r) /\ r.what = "cancel" /\ r.of = widget
        /\ r.state = "sent" /\ r.arg = button.shows
    BY NewRequest
  <1>. HIDE DEF r
  <1>3. PushCall(r)
    BY <1>0, <1>2 DEF PushCall
  <1>. QED  BY <1>1, <1>2, <1>3, AlertAsked

(* The browser's subscription goes while the page rests.                   *)
LEMMA SubscriptionGone ==
    ASSUME PushForms, PushTruth, RemoveSubscription
    PROVE  PushForms' /\ PushTruth'
  <1>0. /\ PushShape /\ PushCalls /\ OneTold /\ OneAlert /\ OnePreference
        /\ PreferenceKept
    BY DEF PushForms, PushTruth
  <1>1. /\ device' = [device EXCEPT !.endpoint = None]
        /\ stored' = [stored EXCEPT !.rows = @ \ {device.endpoint},
                        !.alerts = {a \in @ : a.of # device.endpoint}]
        /\ "gone" \in astray' /\ astray \subseteq astray'
        /\ UNCHANGED <<widget, hook, button, doneBy, calls>>
    BY DEF RemoveSubscription, fetchVars
  <1>2. DeviceShape'
    BY <1>0, <1>1 DEF PushShape, DeviceShape
  <1>3. /\ stored' = [rows |-> stored'.rows, alerts |-> stored'.alerts,
                      pref |-> stored'.pref]
        /\ stored'.alerts \subseteq stored.alerts
        /\ stored'.pref = stored.pref
    BY <1>0, <1>1 DEF PushShape, StoredShape
  <1>4. PushShape'
    BY <1>0, <1>1, <1>2, <1>3
    DEF PushShape, StoredShape, ButtonShape, HookShape
  <1>5. PushCalls' /\ OneTold' /\ OneAlert' /\ OnePreference'
    BY <1>0, <1>1
    DEF PushCalls, PushCall, OneTold, OneAlert, OnePreference, Hooked
  <1>6. AllKnow' /\ AlertsKept'
    BY <1>1 DEF AllKnow, Knows, AlertsKept
  <1>7. PreferenceKept'
    BY <1>0, <1>1, <1>3, AsBefore, PreferenceBeside
  <1>. QED  BY <1>4, <1>5, <1>6, <1>7 DEF PushForms, PushTruth

(* A hook that stops, or goes on to send, and has told the API nothing.    *)
LEMMA HookMoves ==
    ASSUME PushForms, PushTruth, NEW h \in Hooked, hook[h].busy # None,
           \A k \in calls : ~Tells(k, h),
           \/ hook' = [hook EXCEPT ![h].busy = "sent"]
           \/ hook' = Stops(h),
           DeviceShape', device'.endpoint = device.endpoint,
           UNCHANGED <<widget, stored, button, doneBy, astray, calls>>
    PROVE  PushForms' /\ PushTruth'
  <1>0. /\ PushShape /\ PushCalls /\ OneTold /\ OneAlert /\ OnePreference
        /\ AllKnow /\ AlertsKept /\ PreferenceKept
    BY DEF PushForms, PushTruth
  <1>1. h \in Widgets /\ Hooked' = Hooked /\ widget \in Hooked
          /\ Hooked \subseteq Widgets
    BY <1>0, HookedAre DEF Hooked
  <1>2. PICK asking, then :
          /\ HookBecomes(h, hook[h].on, hook[h].sub, asking, then)
          /\ \/ asking = "sent" /\ then = hook[h].then
             \/ asking = None /\ then = None
    <2>1. CASE hook' = [hook EXCEPT ![h].busy = "sent"]
      <3>1. HookBecomes(h, hook[h].on, hook[h].sub, "sent", hook[h].then)
        BY <1>0, <1>1, <2>1, HookSends DEF PushShape, HookShape
      <3>. QED  BY <3>1
    <2>2. CASE hook' = Stops(h)
      <3>1. HookBecomes(h, hook[h].on, hook[h].sub, None, None)
        BY <1>0, <1>1, <2>2, HookStops DEF PushShape, HookShape
      <3>. QED  BY <3>1
    <2>. QED  BY <2>1, <2>2
  <1>3. /\ then \in KindsOf(h) \cup {None}
        /\ then # None => asking # None
    BY <1>0, <1>1, <1>2, PushAssumption DEF PushShape, HookShape
  <1>4. PushShape'
    <2>1. HookShape'
      BY <1>0, <1>1, <1>2, <1>3, ShapeHooked DEF PushShape
    <2>. QED  BY <1>0, <2>1 DEF PushShape, StoredShape, ButtonShape
  <1>5. PushCalls'
    BY <1>0, <1>1, <1>2, CallsHooked DEF PushCalls
  <1>6. OneTold' /\ OnePreference'
    BY <1>0, <1>1 DEF OneTold, OnePreference
  <1>7. hook'[widget].busy # None => hook[widget].busy # None
    BY <1>1, <1>2 DEF HookBecomes
  <1>8. OneAlert'
    BY <1>0, <1>7 DEF OneAlert
  <1>9. \A g \in Hooked : /\ hook'[g].on = hook[g].on
                          /\ hook'[g].sub = hook[g].sub
                          /\ hook'[g].then \in {None, hook[g].then}
    BY <1>1, <1>2 DEF HookBecomes
  <1>10. AllKnow'
    BY <1>0, <1>9, AsBefore, KnownToAll
  <1>11. AlertsKept'
    BY <1>0, <1>1, <1>9, AsBefore, AlertsBeside
  <1>12. PreferenceKept'
    BY <1>0, AsBefore, PreferenceBeside
  <1>. QED  BY <1>4, <1>5, <1>6, <1>8, <1>10, <1>11, <1>12
            DEF PushForms, PushTruth

LEMMA Prompted ==
    ASSUME PushForms, PushTruth, NEW h \in Hooked, RequestPermission(h)
    PROVE  PushForms' /\ PushTruth'
  <1>1. /\ hook[h].busy = "asked"
        /\ hook' = IF device'.allowed = "granted"
                   THEN [hook EXCEPT ![h].busy = "sent"] ELSE Stops(h)
        /\ UNCHANGED <<widget, stored, button, doneBy, astray, calls>>
    BY DEF RequestPermission, fetchVars
  <1>2. DeviceShape' /\ device'.endpoint = device.endpoint
    BY DEF RequestPermission, PushForms, PushShape, DeviceShape
  <1>3. hook[h].busy # None
    BY <1>1, PushAssumption
  <1>4. \A k \in calls : ~Tells(k, h)
    BY <1>1 DEF PushForms, PushCalls, PushCall, Tells
  <1>. QED  BY <1>1, <1>2, <1>3, <1>4, HookMoves

LEMMA BrowserSubscribed ==
    ASSUME PushForms, PushTruth, NEW h \in Hooked, Subscribe(h)
    PROVE  PushForms' /\ PushTruth'
  <1>0. /\ PushShape /\ PushCalls /\ OneTold /\ OneAlert /\ OnePreference
        /\ AllKnow /\ AlertsKept /\ PreferenceKept
    BY DEF PushForms, PushTruth
  <1>1. /\ hook[h].busy = "sent" /\ \A k \in calls : ~Tells(k, h)
        /\ UNCHANGED <<widget, stored, button, astray>>
    BY DEF Subscribe, Tells
  <1>2. h \in Widgets /\ Hooked' = Hooked /\ widget \in Hooked
    BY <1>0, <1>1, HookedAre DEF Hooked
  <1>3. CASE hook' = Stops(h) /\ UNCHANGED <<device, doneBy, fetchVars>>
    <2>1. DeviceShape' /\ device'.endpoint = device.endpoint
      BY <1>0, <1>3 DEF PushShape, DeviceShape
    <2>2. hook[h].busy # None
      BY <1>1, PushAssumption
    <2>. QED  BY <1>1, <1>3, <2>1, <2>2, HookMoves DEF fetchVars
  <1>4. ASSUME NEW e \in IF device.endpoint = None
                         THEN NextEndpoint(device.used) ELSE {device.endpoint},
               device' = [device EXCEPT !.endpoint = e, !.used = @ \cup {e}],
               Sending({Request("post", h, hook[h].then, e)}),
               doneBy' = doneBy \cup {h}, hook' = hook
        PROVE  PushForms' /\ PushTruth'
    <2>. DEFINE r == Request("post", h, hook[h].then, e)
    <2>1. /\ IsRequest(r) /\ r.what = "post" /\ r.of = h
          /\ r.state = "sent" /\ r.arg = hook[h].then /\ r.saw = e
      BY NewRequest
    <2>2. calls' = calls \cup {r}
      BY <1>4 DEF Sending
    <2>. HIDE DEF r
    <2>3. e \in Endpoints /\ e # None
          /\ (device.endpoint # None => e = device.endpoint)
      BY <1>0, <1>4, PushAssumption DEF PushShape, DeviceShape, NextEndpoint
    <2>4. DeviceShape' /\ device'.endpoint = e
      BY <1>0, <1>4, <2>3 DEF PushShape, DeviceShape
    <2>5. PushShape'
      BY <1>0, <1>1, <1>4, <2>4
      DEF PushShape, StoredShape, ButtonShape, HookShape
    <2>6. PushCall(r)
      BY <1>1, <1>2, <2>1, <2>3 DEF PushCall
    <2>7. \A k \in calls' : k = r \/ k \in calls
      BY <2>2
    <2>8. \A k \in calls' : PushCall(k)
      BY <1>0, <2>6, <2>7 DEF PushCalls
    <2>9. PushCalls'
      BY <1>2, <1>4, <2>8 DEF PushCalls, PushCall
    <2>10. OneTold'
      BY <1>0, <1>1, <1>2, <2>1, <2>7 DEF OneTold, Tells
    <2>11. OneAlert' /\ OnePreference'
      BY <1>0, <1>1, <1>4, <2>1, <2>7
      DEF OneAlert, OnePreference, OfAlert, OfPreference
    <2>12. /\ GoOn({"alert", "cancel", "prefer"}) /\ GoOn({"prefer"})
           /\ ReadsGoOn({"alerts"}) /\ ReadsGoOn({"prefs"})
      BY <2>1, <2>2, SentGoesOn
    <2>13. AlertsKept'
      BY <1>0, <1>1, <1>4, <2>12, AlertsBeside
    <2>14. PreferenceKept'
      BY <1>0, <1>1, <1>4, <2>12, PreferenceBeside
    <2>15. AllKnow'
      <3>1. SUFFICES ASSUME doneBy' \subseteq {h},
                            astray' \cap {"post", "leave", "mounting", "gone"}
                              = {}
                     PROVE  Knows(h)'
        BY <1>2, <1>4 DEF AllKnow, Knows
      <3>2. /\ Knows(h) /\ doneBy \subseteq {h}
            /\ astray \cap {"post", "leave", "mounting", "gone"} = {}
        BY <1>0, <1>1, <1>4, <3>1 DEF AllKnow
      <3>3. \A k \in calls : ~(k.what = "leave" /\ k.of = h)
        BY <1>1 DEF Tells
      <3>4. \A k \in calls : k.what = "list" /\ k.of = h =>
              /\ k.saw = e
              /\ k.state = "ok" /\ k.got = "found" => k.saw \in stored.rows
        <4>. SUFFICES ASSUME NEW k \in calls, k.what = "list", k.of = h
                      PROVE  /\ k.saw = e
                             /\ k.state = "ok" /\ k.got = "found"
                                  => k.saw \in stored.rows
          OBVIOUS
        <4>1. k.saw \in Endpoints
          BY <1>0 DEF PushCalls, PushCall
        <4>2. k.saw = device.endpoint
          BY <3>2 DEF Knows
        <4>3. k.saw # None
          BY <4>1, PushAssumption
        <4>. QED  BY <2>3, <3>2, <4>2, <4>3 DEF Knows
      <3>5. \A k \in calls' : k.what \in {"list", "post"} /\ k.of = h =>
              /\ k.saw = e
              /\ k.what = "post" /\ k.state = "ok" => k.saw \in stored.rows
              /\ k.what = "list" /\ k.state = "ok" /\ k.got = "found"
                   => k.saw \in stored.rows
        BY <1>1, <2>1, <2>7, <3>4 DEF Tells
      <3>6. \A k \in calls' : ~(k.what = "leave" /\ k.of = h)
        BY <2>1, <2>7, <3>3
      <3>7. hook[h].sub \in {None, e}
              /\ (hook[h].sub # None => hook[h].sub \in stored.rows)
        BY <2>3, <3>2, <3>3 DEF Knows
      <3>8. r \in calls'
        BY <2>2
      <3>. QED  BY <1>1, <1>4, <2>1, <2>3, <2>4, <3>5, <3>6, <3>7, <3>8
                DEF Knows
    <2>. QED  BY <2>5, <2>9, <2>10, <2>11, <2>13, <2>14, <2>15
              DEF PushForms, PushTruth
  <1>. QED  BY <1>3, <1>4 DEF Subscribe

(* A request that is served, or fails, is the same request.                *)
LEMMA ReplacedGoesOn ==
    ASSUME NEW k \in calls, NEW n, Same(k, n),
           calls' = (calls \ {k}) \cup {n}, NEW whats,
           n.state = "ok" => k.what \notin whats
    PROVE  GoOn(whats) /\ ReadsGoOn(whats)
  <1>1. \A j \in calls' : j = n \/ (j \in calls /\ j # k)
    OBVIOUS
  <1>2. n \in calls' /\ \A j \in calls : j # k => j \in calls'
    OBVIOUS
  <1>3. n.what = k.what /\ n.of = k.of /\ n.arg = k.arg /\ n.saw = k.saw
    BY DEF Same
  <1>4. GoOn(whats)
    <2>1. ASSUME NEW j \in calls', j.what \in whats
          PROVE  \E i \in calls : Continues(j, i)
      BY <1>1, <1>3, <2>1 DEF Continues
    <2>2. ASSUME NEW i \in calls, i.what \in whats
          PROVE  \E j \in calls' : j.what = i.what /\ j.of = i.of
      BY <1>2, <1>3, <2>2
    <2>. QED  BY <2>1, <2>2 DEF GoOn
  <1>5. ReadsGoOn(whats)
    BY <1>1, <1>3 DEF ReadsGoOn, Continues
  <1>. QED  BY <1>4, <1>5

LEMMA FormsReplaced ==
    ASSUME PushForms, NEW k \in calls, NEW n, Same(k, n),
           calls' = (calls \ {k}) \cup {n}, StoredShape',
           UNCHANGED <<widget, device, hook, button, doneBy>>
    PROVE  PushForms'
  <1>0. /\ PushShape /\ PushCalls /\ OneTold /\ OneAlert /\ OnePreference
    BY DEF PushForms
  <1>1. \A j \in calls' : j = n \/ (j \in calls /\ j # k)
    OBVIOUS
  <1>2. n.what = k.what /\ n.of = k.of /\ n.arg = k.arg /\ n.saw = k.saw
          /\ IsRequest(n)
    BY DEF Same
  <1>3. Hooked' = Hooked
    BY DEF Hooked
  <1>4. PushShape'
    BY <1>0 DEF PushShape, DeviceShape, ButtonShape, HookShape
  <1>5. PushCall(n)
    BY <1>0, <1>2 DEF PushCalls, PushCall
  <1>6. \A j \in calls' : PushCall(j)
    BY <1>0, <1>1, <1>5 DEF PushCalls
  <1>7. PushCalls'
    BY <1>3, <1>6 DEF PushCalls, PushCall
  <1>8. OneTold'
    BY <1>0, <1>1, <1>2, <1>3 DEF OneTold, Tells
  <1>9. \A j : /\ j = n => (OfAlert(j) <=> OfAlert(k))
               /\ j = n => (OfPreference(j) <=> OfPreference(k))
    BY <1>2 DEF OfAlert, OfPreference
  <1>10. OneAlert' /\ OnePreference'
    BY <1>0, <1>1, <1>9 DEF OneAlert, OnePreference
  <1>. QED  BY <1>4, <1>7, <1>8, <1>10 DEF PushForms

(* A failure changes nothing that is stored.                               *)
LEMMA PushFailed ==
    ASSUME PushForms, PushTruth, NEW k \in calls, NEW n, Same(k, n),
           n.state # "ok", calls' = (calls \ {k}) \cup {n},
           UNCHANGED <<widget, device, stored, hook, button, doneBy, astray>>
    PROVE  PushForms' /\ PushTruth'
  <1>1. StoredShape'
    BY DEF PushForms, PushShape, StoredShape
  <1>2. PushForms'
    BY <1>1, FormsReplaced
  <1>3. \A whats : GoOn(whats) /\ ReadsGoOn(whats)
    BY ReplacedGoesOn
  <1>4. AllKnow'
    BY <1>3, KnownToAll DEF PushTruth
  <1>5. AlertsKept'
    BY <1>3, AlertsBeside DEF PushTruth
  <1>6. PreferenceKept'
    BY <1>3, PreferenceBeside DEF PushTruth
  <1>. QED  BY <1>2, <1>4, <1>5, <1>6 DEF PushTruth

(* What the API stores after a request.                                    *)
LEMMA StoredAfter ==
    ASSUME StoredShape, NEW k, stored' = StoredWhen(k)
    PROVE  /\ stored' = [rows |-> stored'.rows, alerts |-> stored'.alerts,
                         pref |-> stored'.pref]
           /\ k.what \notin {"post", "leave"} => stored'.rows = stored.rows
           /\ k.what \notin {"alert", "cancel", "leave"}
                => stored'.alerts = stored.alerts
           /\ k.what # "prefer" => stored'.pref = stored.pref
           /\ k.what = "post" => stored'.rows = stored.rows \cup {k.saw}
           /\ k.what = "leave" => stored'.alerts \subseteq stored.alerts
           /\ k.what = "alert" => stored'.alerts = stored.alerts
                                    \cup {[kind |-> k.arg, of |-> k.saw]}
           /\ k.what = "cancel"
                => stored'.alerts = {a \in stored.alerts : a.kind # k.arg}
  <1>1. CASE k.what = "post"
    BY <1>1 DEF StoredWhen, StoredShape
  <1>2. CASE k.what = "leave"
    BY <1>2 DEF StoredWhen, StoredShape
  <1>3. CASE k.what = "alert"
    BY <1>3 DEF StoredWhen, StoredShape
  <1>4. CASE k.what = "cancel"
    BY <1>4 DEF StoredWhen, StoredShape
  <1>5. CASE k.what = "prefer"
    BY <1>5 DEF StoredWhen, StoredShape
  <1>6. CASE k.what \notin {"post", "leave", "alert", "cancel", "prefer"}
    BY <1>6 DEF StoredWhen, StoredShape
  <1>. QED  BY <1>1, <1>2, <1>3, <1>4, <1>5, <1>6

(* The API did what k asks, and its answer n is on its way.                *)
ServedAs(k, n) ==
    /\ k \in calls /\ PushCall(k) /\ k.state = "sent"
    /\ Same(k, n) /\ n.state = "ok" /\ n.got = Got(k)
    /\ calls' = (calls \ {k}) \cup {n}
    /\ stored' = StoredWhen(k)
    /\ astray' = astray \cup Outdated(k)
    /\ UNCHANGED <<widget, device, hook, button, doneBy>>

LEMMA CallsOf ==
    ASSUME PushShape, NEW k, PushCall(k)
    PROVE  /\ k.what = "leave" => widget = "settings"
           /\ k.what = "alert" => k.of = widget /\ k.arg \in KindsOf(widget)
           /\ k.what = "prefer" /\ k.of = "settings" => widget = "settings"
           /\ k.what = "prefer" => k.of = widget
           /\ k.what = "prefs" => widget = "settings"
           /\ k.of = "bell" => widget = "bell"
  BY KindsAre DEF PushCall, Hooked, PushShape

LEMMA ServedShape ==
    ASSUME PushForms, NEW k, NEW n, ServedAs(k, n)
    PROVE  StoredShape'
  <1>0. PushShape /\ StoredShape /\ stored' = StoredWhen(k) /\ PushCall(k)
          /\ widget' = widget
    BY DEF PushForms, PushShape, ServedAs
  <1>1. stored' = [rows |-> stored'.rows, alerts |-> stored'.alerts,
                   pref |-> stored'.pref]
    BY <1>0, StoredAfter
  <1>2. \A a \in stored'.alerts :
           \/ a \in stored.alerts
           \/ k.what = "alert" /\ a = [kind |-> k.arg, of |-> k.saw]
    <2>1. CASE k.what = "alert"
      BY <1>0, <2>1, StoredAfter
    <2>2. CASE k.what = "cancel"
      BY <1>0, <2>2, StoredAfter
    <2>3. CASE k.what \notin {"alert", "cancel"}
      BY <1>0, <2>3, StoredAfter
    <2>. QED  BY <2>1, <2>2, <2>3
  <1>3. \A a \in stored'.alerts : a.kind \in KindsOf(widget)
    BY <1>0, <1>2, CallsOf DEF StoredShape
  <1>. QED  BY <1>0, <1>1, <1>3 DEF StoredShape

LEMMA ServedKnown ==
    ASSUME PushForms, AllKnow, NEW k, NEW n, ServedAs(k, n)
    PROVE  AllKnow'
  <1>0. /\ PushShape /\ PushCalls /\ DeviceShape /\ StoredShape
        /\ PushCall(k) /\ k \in calls /\ k.state = "sent"
        /\ n.what = k.what /\ n.of = k.of /\ n.arg = k.arg /\ n.saw = k.saw
        /\ n.state = "ok" /\ n.got = Got(k) /\ Same(k, n)
        /\ calls' = (calls \ {k}) \cup {n} /\ stored' = StoredWhen(k)
        /\ astray \subseteq astray'
        /\ UNCHANGED <<widget, device, hook, button, doneBy>>
    BY DEF PushForms, PushShape, ServedAs, Same
  <1>. SUFFICES ASSUME NEW h \in Hooked,
                       doneBy \subseteq {h},
                       astray' \cap {"post", "leave", "mounting", "gone"} = {}
                PROVE  Knows(h)'
    BY <1>0 DEF AllKnow, Knows, Hooked
  <1>1. /\ Knows(h) /\ doneBy \subseteq {h}
        /\ astray \cap {"post", "leave", "mounting", "gone"} = {}
    BY <1>0 DEF AllKnow
  <1>2. \A j \in calls' : j = n \/ (j \in calls /\ j # k)
    BY <1>0
  <1>3. n \in calls' /\ \A j \in calls : j # k => j \in calls'
    BY <1>0
  <1>4. CASE k.what \notin {"post", "leave", "list"}
    <2>1. stored'.rows = stored.rows
      BY <1>0, <1>4, StoredAfter
    <2>2. GoOn({"list", "post", "leave"})
      BY <1>0, <1>4, ReplacedGoesOn
    <2>3. GoOnOf({"list", "post", "leave"}, h)
      BY <2>2 DEF GoOn, GoOnOf
    <2>. QED  BY <1>0, <1>1, <2>1, <2>3, KnownBeside
  <1>5. CASE k.what = "leave"
    <2>1. "settings" \in doneBy /\ k.of = "settings" /\ h = "settings"
      BY <1>0, <1>5 DEF PushCall
    <2>2. device.endpoint = None
      BY <1>0, <1>1, <1>5, <2>1 DEF Knows
    <2>3. \A j \in calls : ~(j.what \in {"list", "post"} /\ j.of = h)
      <3>1. ASSUME NEW j \in calls, j.what \in {"list", "post"}, j.of = h
            PROVE  FALSE
        <4>1. j.saw = None
          BY <1>1, <2>2, <3>1 DEF Knows
        <4>2. j.saw \in Endpoints
          BY <1>0, <3>1 DEF PushCalls, PushCall
        <4>. QED  BY <4>1, <4>2, PushAssumption
      <3>. QED  BY <3>1
    <2>4. \A j \in calls' : ~(j.what \in {"list", "post"} /\ j.of = h)
      BY <1>0, <1>2, <1>5, <2>3
    <2>. QED  BY <1>0, <1>3, <1>5, <2>1, <2>2, <2>4 DEF Knows
  <1>6. CASE k.what = "post" \/ k.what = "list"
    <2>1. stored.rows \subseteq stored'.rows
            /\ (k.what = "post" => k.saw \in stored'.rows)
      <3>1. CASE k.what = "post"
        BY <1>0, <3>1, StoredAfter
      <3>2. CASE k.what = "list"
        BY <1>0, <3>2, StoredAfter
      <3>. QED  BY <1>6, <3>1, <3>2
    <2>2. ASSUME k.what = "list", n.got = "found" PROVE k.saw \in stored'.rows
      <3>1. Got(k) = IF k.saw \in stored.rows THEN "found" ELSE None
        BY <2>2 DEF Got
      <3>. QED  BY <1>0, <2>1, <2>2, <3>1, PushAssumption
    <2>3. \A j \in calls' : j.what \in {"list", "post"} /\ j.of = h =>
            /\ j.saw = device.endpoint
            /\ j.what = "post" /\ j.state = "ok" => j.saw \in stored'.rows
            /\ j.what = "list" /\ j.state = "ok" /\ j.got = "found"
                 => j.saw \in stored'.rows
      <3>. SUFFICES ASSUME NEW j \in calls', j.what \in {"list", "post"},
                           j.of = h
                    PROVE  /\ j.saw = device.endpoint
                           /\ j.what = "post" /\ j.state = "ok"
                                => j.saw \in stored'.rows
                           /\ j.what = "list" /\ j.state = "ok"
                                /\ j.got = "found" => j.saw \in stored'.rows
        OBVIOUS
      <3>1. CASE j = n
        BY <1>0, <1>1, <2>1, <2>2, <3>1 DEF Knows
      <3>2. CASE j \in calls
        BY <1>1, <2>1, <3>2 DEF Knows
      <3>. QED  BY <1>2, <3>1, <3>2
    <2>4. (\E j \in calls' : j.what = "leave" /\ j.of = h)
            <=> (\E j \in calls : j.what = "leave" /\ j.of = h)
      BY <1>0, <1>2, <1>3, <1>6
    <2>5. (\E j \in calls : j.what \in {"list", "post"} /\ j.of = h)
            => (\E j \in calls' : j.what \in {"list", "post"} /\ j.of = h)
      BY <1>0, <1>3
    <2>6. (\E j \in calls' : j.what = "leave" /\ j.of = h)
            => device.endpoint = None
      BY <1>1, <2>4 DEF Knows
    <2>7. ASSUME \A j \in calls' : ~(j.what = "leave" /\ j.of = h)
          PROVE  /\ hook[h].on => device.endpoint # None
                 /\ device.endpoint # None
                      => \/ hook[h].on
                         \/ \E j \in calls' : j.what \in {"list", "post"}
                                                /\ j.of = h
                 /\ hook[h].sub \in {None, device.endpoint}
                 /\ hook[h].sub # None => hook[h].sub \in stored'.rows
      <3>1. \A j \in calls : ~(j.what = "leave" /\ j.of = h)
        BY <2>4, <2>7
      <3>. QED  BY <1>1, <2>1, <2>5, <3>1 DEF Knows
    <2>. QED  BY <1>0, <2>3, <2>6, <2>7 DEF Knows
  <1>. QED  BY <1>4, <1>5, <1>6

(* The kind of what is stored, when it is one at most, is what is found.   *)
LEMMA PreferredHeld ==
    ASSUME PushShape, NEW v, Holds(v)
    PROVE  Holds(Preferred(stored.alerts))
  <1>. DEFINE kinds == {a.kind : a \in stored.alerts}
  <1>1. kinds = {v} \ {None}
    BY DEF Holds
  <1>2. kinds \subseteq KindsOf(widget)
    BY DEF PushShape, StoredShape
  <1>3. kinds \subseteq Kinds
    BY <1>2, KindsKnown DEF PushShape
  <1>4. kinds \cap KindsOf(widget) = kinds
    BY <1>2
  <1>5. Preferred(stored.alerts) = CASE "server" \in kinds -> "server"
                                     [] kinds = {"all"}    -> "all"
                                     [] kinds = {"change"} -> "change"
                                     [] OTHER              -> None
    BY <1>4 DEF Preferred
  <1>. HIDE DEF kinds
  <1>6. kinds = {Preferred(stored.alerts)} \ {None}
    BY <1>1, <1>3, <1>5, KindsAre DEF Kinds
  <1>. QED  BY <1>6 DEF Holds, kinds

LEMMA ServedAlerts ==
    ASSUME PushForms, AlertsKept, NEW k, NEW n, ServedAs(k, n)
    PROVE  AlertsKept'
  <1>0. /\ PushShape /\ PushCalls /\ StoredShape /\ OneAlert
        /\ PushCall(k) /\ k \in calls /\ k.state = "sent"
        /\ n.what = k.what /\ n.of = k.of /\ n.arg = k.arg /\ n.saw = k.saw
        /\ n.state = "ok" /\ n.got = Got(k) /\ Same(k, n)
        /\ calls' = (calls \ {k}) \cup {n} /\ stored' = StoredWhen(k)
        /\ astray' = astray \cup Outdated(k)
        /\ UNCHANGED <<widget, device, hook, button, doneBy>>
    BY DEF PushForms, PushShape, ServedAs, Same
  <1>. SUFFICES ASSUME astray' \cap {"alert", "cancel", "alerts", "gone"} = {}
                PROVE  AlertsKept'
    BY DEF AlertsKept
  <1>1. astray \cap {"alert", "cancel", "alerts", "gone"} = {}
    BY <1>0
  <1>2. \A j \in calls' : j = n \/ (j \in calls /\ j # k)
    BY <1>0
  <1>3. n \in calls'
    BY <1>0
  <1>4. /\ (\A j \in calls : ~OfAlert(j)) => Holds(button.shows)
        /\ \A j \in calls :
             /\ j.what = "alert" => \/ j.state # "ok" /\ Holds(None)
                                    \/ Holds(j.arg)
             /\ j.what = "cancel" => \/ j.state # "ok" /\ Holds(j.arg)
                                     \/ Holds(None)
             /\ j.what = "prefer" /\ j.of = "bell" => Holds(j.arg)
             /\ j.what = "alerts" /\ j.state = "ok" => Holds(j.got)
        /\ hook[widget].then # None => Holds(None)
    BY <1>1 DEF AlertsKept
  <1>5. ASSUME OfAlert(k)
        PROVE  /\ \A j \in calls : OfAlert(j) => j = k
               /\ hook[widget].then = None
    <2>1. button.busy /\ hook[widget].busy = None
      BY <1>0, <1>5 DEF OneAlert
    <2>. QED  BY <1>0, <1>5, <2>1 DEF OneAlert, PushShape, HookShape
  (* Whatever is held then is of the one alert that is on its way. *)
  <1>6. ASSUME k.what \in {"alert", "cancel"}, NEW v, Holds(v)',
               v = IF k.what = "alert" THEN k.arg ELSE None
        PROVE  AlertsKept'
    <2>1. OfAlert(k) /\ OfAlert(n)
      BY <1>0, <1>6 DEF OfAlert
    <2>2. Outdated(k) = {j.what : j \in {j \in calls : j.state = "ok"}}
                          \cap {"alerts"}
      BY <1>6 DEF Outdated
    <2>3. \A j \in calls : j.state = "ok" => j.what # "alerts"
      BY <1>0, <2>2
    <2>4. \A j \in calls' : j = n \/ (~OfAlert(j) /\ (j.what = "alerts"
                                                        => j.state # "ok"))
      BY <1>2, <1>5, <2>1, <2>3
    <2>5. ASSUME NEW j \in calls'
          PROVE  /\ j.what = "alert" => Holds(j.arg)'
                 /\ j.what = "cancel" => Holds(None)'
                 /\ ~(j.what = "prefer" /\ j.of = "bell")
                 /\ ~(j.what = "alerts" /\ j.state = "ok")
      <3>1. CASE j = n
        BY <1>0, <1>6, <3>1
      <3>2. CASE j # n
        BY <2>4, <3>2 DEF OfAlert
      <3>. QED  BY <3>1, <3>2
    <2>6. hook'[widget].then = None
      BY <1>0, <1>5, <2>1
    <2>. QED  BY <1>0, <1>3, <2>1, <2>5, <2>6 DEF AlertsKept
  <1>7. CASE k.what = "alert"
    <2>1. Holds(None) \/ Holds(k.arg)
      BY <1>0, <1>4, <1>7
    <2>2. k.arg # None
      BY <1>0, <1>7, CallsOf, KindsAre, KindsKnown DEF PushShape
    <2>3. {a.kind : a \in stored'.alerts}
            = {a.kind : a \in stored.alerts} \cup {k.arg}
      <3>. DEFINE b == [kind |-> k.arg, of |-> k.saw]
      <3>1. stored'.alerts = stored.alerts \cup {b}
        BY <1>0, <1>7, StoredAfter
      <3>2. b.kind = k.arg
        OBVIOUS
      <3>. HIDE DEF b
      <3>. QED  BY <3>1, <3>2
    <2>4. Holds(k.arg)'
      BY <2>1, <2>2, <2>3 DEF Holds
    <2>. QED  BY <1>6, <1>7, <2>4
  <1>8. CASE k.what = "cancel"
    <2>1. Holds(None) \/ Holds(k.arg)
      BY <1>0, <1>4, <1>8
    <2>2. stored'.alerts = {a \in stored.alerts : a.kind # k.arg}
      BY <1>0, <1>8, StoredAfter
    <2>3. Holds(None)'
      BY <2>1, <2>2 DEF Holds
    <2>. QED  BY <1>6, <1>8, <2>3
  <1>9. CASE k.what \notin {"alert", "cancel"}
    <2>1. {a.kind : a \in stored'.alerts} = {a.kind : a \in stored.alerts}
      <3>1. CASE k.what = "leave"
        <4>1. widget = "settings"
          BY <1>0, <3>1, CallsOf
        <4>2. stored.alerts = {}
          BY <1>0, <4>1, KindsAre DEF StoredShape
        <4>. QED  BY <1>0, <3>1, <4>2, StoredAfter
      <3>2. CASE k.what # "leave"
        BY <1>0, <1>9, <3>2, StoredAfter
      <3>. QED  BY <3>1, <3>2
    <2>2. \A v : Holds(v)' <=> Holds(v)
      BY <2>1 DEF Holds
    <2>3. OfAlert(n) <=> OfAlert(k)
      BY <1>0 DEF OfAlert
    <2>4. ASSUME \A j \in calls' : ~OfAlert(j) PROVE Holds(button.shows)'
      <3>1. \A j \in calls : ~OfAlert(j)
        BY <1>0, <1>3, <2>3, <2>4
      <3>2. Holds(button.shows)
        BY <1>4, <3>1
      <3>. QED  BY <1>0, <2>1, <3>2 DEF Holds
    <2>5. \E v : Holds(v)
      <3>1. CASE \A j \in calls : ~OfAlert(j)
        BY <1>4, <3>1
      <3>2. CASE \E j \in calls : OfAlert(j)
        BY <1>4, <3>2 DEF OfAlert
      <3>. QED  BY <3>1, <3>2
    <2>6. ASSUME k.what = "alerts" PROVE Holds(n.got)
      <3>1. n.got = Preferred(stored.alerts)
        BY <1>0, <2>6 DEF Got
      <3>. QED  BY <1>0, <2>5, <3>1, PreferredHeld
    <2>7. \A j \in calls' :
            /\ j.what = "alert" => \/ j.state # "ok" /\ Holds(None)
                                   \/ Holds(j.arg)
            /\ j.what = "cancel" => \/ j.state # "ok" /\ Holds(j.arg)
                                    \/ Holds(None)
            /\ j.what = "prefer" /\ j.of = "bell" => Holds(j.arg)
            /\ j.what = "alerts" /\ j.state = "ok" => Holds(j.got)
      <3>. SUFFICES ASSUME NEW j \in calls'
                    PROVE
            /\ j.what = "alert" => \/ j.state # "ok" /\ Holds(None)
                                   \/ Holds(j.arg)
            /\ j.what = "cancel" => \/ j.state # "ok" /\ Holds(j.arg)
                                    \/ Holds(None)
            /\ j.what = "prefer" /\ j.of = "bell" => Holds(j.arg)
            /\ j.what = "alerts" /\ j.state = "ok" => Holds(j.got)
        OBVIOUS
      <3>1. CASE j = n
        BY <1>0, <1>4, <1>9, <2>6, <3>1
      <3>2. CASE j \in calls
        BY <1>4, <3>2
      <3>. QED  BY <1>2, <3>1, <3>2
    <2>. QED  BY <1>0, <1>4, <2>2, <2>4, <2>7 DEF AlertsKept
  <1>. QED  BY <1>7, <1>8, <1>9

LEMMA ServedPreference ==
    ASSUME PushForms, PreferenceKept, NEW k, NEW n, ServedAs(k, n)
    PROVE  PreferenceKept'
  <1>0. /\ PushShape /\ StoredShape /\ OnePreference
        /\ PushCall(k) /\ k \in calls /\ k.state = "sent"
        /\ n.what = k.what /\ n.of = k.of /\ n.arg = k.arg /\ n.saw = k.saw
        /\ n.state = "ok" /\ n.got = Got(k) /\ Same(k, n)
        /\ calls' = (calls \ {k}) \cup {n} /\ stored' = StoredWhen(k)
        /\ astray' = astray \cup Outdated(k)
        /\ UNCHANGED <<widget, device, hook, button, doneBy>>
    BY DEF PushForms, PushShape, ServedAs, Same
  <1>1. CASE k.what = "prefer"
    <2>. SUFFICES ASSUME astray' \cap {"prefer", "prefs"} = {}
                  PROVE  PreferenceKept'
      BY DEF PreferenceKept
    <2>1. Outdated(k) = {j.what : j \in {j \in calls : j.state = "ok"}}
                          \cap {"prefs"}
      BY <1>1 DEF Outdated
    <2>2. \A j \in calls : j.state = "ok" => j.what # "prefs"
      BY <1>0, <2>1
    <2>3. n.got = stored'.pref
      BY <1>0, <1>1 DEF Got
    <2>4. /\ OfPreference(n) \/ button.pref = None
          /\ \A j \in calls : OfPreference(j) => j = k
      <3>1. CASE k.of = "settings"
        BY <1>0, <1>1, <3>1 DEF OfPreference, OnePreference
      <3>2. CASE k.of # "settings"
        <4>1. k.of = "bell" /\ widget = "bell"
          BY <1>0, <1>1, <3>2, CallsOf DEF PushCall
        <4>2. \A j \in calls : ~OfPreference(j)
          BY <4>1, CallsOf DEF PushForms, PushCalls, OfPreference
        <4>. QED  BY <1>0, <4>1, <4>2 DEF PushShape, ButtonShape
      <3>. QED  BY <3>1, <3>2
    <2>5. \A j \in calls' : j = n \/ (j \in calls /\ j # k)
      BY <1>0
    <2>6. n \in calls'
      BY <1>0
    <2>7. \A j \in calls' : (j.what = "prefs" \/ OfPreference(j))
                              /\ j.state = "ok" => j.got = stored'.pref
      BY <2>2, <2>3, <2>4, <2>5
    <2>8. (\A j \in calls' : ~OfPreference(j)) => button.pref = None
      BY <2>4, <2>6
    <2>. QED  BY <1>0, <2>7, <2>8 DEF PreferenceKept
  <1>2. CASE k.what # "prefer"
    <2>1. stored'.pref = stored.pref
      BY <1>0, <1>2, StoredAfter
    <2>2. GoOn({"prefer"})
      BY <1>0, <1>2, ReplacedGoesOn
    <2>3. CASE k.what # "prefs"
      <3>1. ReadsGoOn({"prefs"})
        BY <1>0, <2>3, ReplacedGoesOn
      <3>. QED  BY <1>0, <2>1, <2>2, <3>1, PreferenceBeside
    <2>4. CASE k.what = "prefs"
      <3>. SUFFICES ASSUME astray' \cap {"prefer", "prefs"} = {}
                    PROVE  PreferenceKept'
        BY DEF PreferenceKept
      <3>1. astray \cap {"prefer", "prefs"} = {}
        BY <1>0
      <3>2. Got(k) = StoredWhen(k).pref
        BY <2>4 DEF Got
      <3>3. n.got = stored'.pref
        BY <1>0, <3>2
      <3>4. \A j \in calls' : j = n \/ j \in calls
        BY <1>0
      <3>5. \A j \in calls' : (j.what = "prefs" \/ OfPreference(j))
                                /\ j.state = "ok" => j.got = stored'.pref
        BY <2>1, <3>1, <3>3, <3>4 DEF PreferenceKept
      <3>6. (\A j \in calls' : ~OfPreference(j))
              => (\A j \in calls : ~OfPreference(j))
        BY <2>2 DEF GoOn, OfPreference
      <3>. QED  BY <1>0, <2>1, <3>1, <3>5, <3>6 DEF PreferenceKept
    <2>. QED  BY <2>3, <2>4
  <1>. QED  BY <1>1, <1>2

LEMMA PushServed ==
    ASSUME PushForms, PushTruth, NEW k \in calls, PushServes(k)
    PROVE  PushForms' /\ PushTruth'
  <1>0. IsRequest(k) /\ PushCall(k)
    BY DEF PushForms, PushCalls, PushCall
  <1>1. k.state = "sent" /\ UNCHANGED <<widget, device, hook, button, doneBy>>
    BY DEF PushServes
  <1>2. CASE k.what = "alert" /\ k.saw \notin stored.rows
    <2>1. Serves(k, "refused", None) /\ UNCHANGED <<stored, astray>>
      BY <1>2 DEF PushServes
    <2>2. PICK n : /\ Same(k, n) /\ n.state = "refused" /\ n.got = None
                   /\ calls' = (calls \ {k}) \cup {n}
                   /\ lost' = lost /\ doubt' = doubt
      BY <1>0, <2>1, Served
    <2>. QED  BY <1>1, <2>1, <2>2, PushFailed
  <1>3. CASE ~(k.what = "alert" /\ k.saw \notin stored.rows)
    <2>1. /\ Serves(k, "ok", Got(k))
          /\ stored' = StoredWhen(k)
          /\ astray' = astray \cup Outdated(k)
      BY <1>3 DEF PushServes
    <2>2. PICK n : /\ Same(k, n) /\ n.state = "ok" /\ n.got = Got(k)
                   /\ calls' = (calls \ {k}) \cup {n}
                   /\ lost' = lost /\ doubt' = doubt
      BY <1>0, <2>1, Served
    <2>3. ServedAs(k, n)
      BY <1>0, <1>1, <2>1, <2>2 DEF ServedAs
    <2>4. PushForms'
      BY <1>1, <2>2, <2>3, ServedShape, FormsReplaced
    <2>. QED  BY <2>3, <2>4, ServedKnown, ServedAlerts, ServedPreference
              DEF PushTruth
  <1>. QED  BY <1>2, <1>3

LEMMA PushTroubled ==
    ASSUME PushForms, PushTruth, NEW k \in calls, Troubles(k),
           UNCHANGED pushVars
    PROVE  PushForms' /\ PushTruth'
  <1>1. IsRequest(k)
    BY DEF PushForms, PushCalls, PushCall
  <1>2. PICK n : /\ Same(k, n) /\ n.state \in {"sent", "refused"}
                 /\ calls' = (calls \ {k}) \cup {n}
                 /\ doubt' = {} => doubt = {} /\ k.state = "sent"
    BY <1>1, Troubled
  <1>. QED  BY <1>2, PushFailed DEF pushVars

(* The requests an answer has sent.                                        *)
LEMMA EffectsSent ==
    ASSUME NEW h, NEW sub
    PROVE  \A r \in Effects(h, sub) :
             /\ IsRequest(r) /\ r.state = "sent" /\ r.of = h
             /\ \/ r.what = "prefs" /\ h = "settings"
                \/ r.what = "alerts"
  <1>. SUFFICES ASSUME NEW r \in Effects(h, sub)
                PROVE  /\ IsRequest(r) /\ r.state = "sent" /\ r.of = h
                       /\ \/ r.what = "prefs" /\ h = "settings"
                          \/ r.what = "alerts"
    OBVIOUS
  <1>1. \/ r = Request("prefs", h, None, 0) /\ h = "settings"
        \/ r = Request("alerts", h, None, clicks)
    BY DEF Effects
  <1>. QED  BY <1>1, NewRequest

LEMMA RefreshSent ==
    \A r \in Refresh : /\ IsRequest(r) /\ r.state = "sent" /\ r.of = widget
                       /\ r.what = "alerts"
  <1>. SUFFICES ASSUME NEW r \in Refresh
                PROVE  /\ IsRequest(r) /\ r.state = "sent" /\ r.of = widget
                       /\ r.what = "alerts"
    OBVIOUS
  <1>1. r = Request("alerts", widget, None, clicks)
    BY DEF Refresh
  <1>. QED  BY <1>1, NewRequest

-----------------------------------------------------------------------------
(* The handlers go on.  What is held of the alerts, told of the next calls. *)
HeldBy(k) == /\ k.what = "alert" => \/ k.state # "ok" /\ Holds(None)
                                    \/ Holds(k.arg)
             /\ k.what = "cancel" => \/ k.state # "ok" /\ Holds(k.arg)
                                     \/ Holds(None)
             /\ k.what = "prefer" /\ k.of = "bell" => Holds(k.arg)
             /\ k.what = "alerts" /\ k.state = "ok" => Holds(k.got)

LEMMA AlertsNext ==
    ASSUME stored' = stored, widget' = widget,
           astray' \cap {"alert", "cancel", "alerts", "gone"} = {} =>
             /\ (\A k \in calls' : ~OfAlert(k)) => Holds(button'.shows)
             /\ \A k \in calls' : HeldBy(k)
             /\ hook'[widget].then # None => Holds(None)
    PROVE  AlertsKept'
  <1>. SUFFICES ASSUME astray' \cap {"alert", "cancel", "alerts", "gone"} = {}
                PROVE  AlertsKept'
    BY DEF AlertsKept
  <1>1. \A v : Holds(v)' <=> Holds(v)
    BY DEF Holds
  <1>2. ASSUME \A k \in calls' : ~OfAlert(k) PROVE Holds(button.shows)'
    <2>1. Holds(button'.shows)
      BY <1>2
    <2>. QED  BY <2>1 DEF Holds
  <1>3. \A k \in calls' :
          /\ k.what = "alert" => \/ k.state # "ok" /\ Holds(None)'
                                 \/ Holds(k.arg)'
          /\ k.what = "cancel" => \/ k.state # "ok" /\ Holds(k.arg)'
                                  \/ Holds(None)'
          /\ k.what = "prefer" /\ k.of = "bell" => Holds(k.arg)'
          /\ k.what = "alerts" /\ k.state = "ok" => Holds(k.got)'
    BY <1>1 DEF HeldBy
  <1>4. hook'[widget].then # None => Holds(None)'
    BY <1>1
  <1>. QED  BY <1>2, <1>3, <1>4 DEF AlertsKept

LEMMA AlertsHeld ==
    ASSUME AlertsKept, astray \cap {"alert", "cancel", "alerts", "gone"} = {}
    PROVE  /\ (\A k \in calls : ~OfAlert(k)) => Holds(button.shows)
           /\ \A k \in calls : HeldBy(k)
           /\ hook[widget].then # None => Holds(None)
  BY DEF AlertsKept, HeldBy

(* An answer that the button, or the switch, has waited for.               *)
LEMMA ButtonAnswered ==
    ASSUME PushForms, PushTruth, NEW k \in calls, NEW next, GoesOn(k, next),
           k.what \notin {"list", "post", "leave"},
           \A r \in next : /\ PushCall(r) /\ r.state = "sent"
                           /\ r.what \in {"prefer", "alerts"},
           UNCHANGED <<device, hook, doneBy>>, ButtonShape'
    PROVE  /\ PushShape' /\ PushCalls' /\ OneTold' /\ AllKnow'
           /\ stored' = stored /\ widget' = widget /\ k.state # "sent"
           /\ astray \subseteq astray'
           /\ k.state # "ok" => k.what \in astray'
           /\ calls' = (calls \ {k}) \cup next
  <1>0. PushShape /\ PushCalls /\ OneTold /\ AllKnow
    BY DEF PushForms, PushTruth
  <1>1. /\ stored' = stored /\ widget' = widget /\ k.state # "sent"
        /\ calls' = (calls \ {k}) \cup next
        /\ astray' = astray \cup (IF k.state = "ok" THEN {} ELSE {k.what})
    BY DEF GoesOn
  <1>2. Hooked' = Hooked
    BY <1>1 DEF Hooked
  <1>3. PushShape'
    BY <1>0, <1>1 DEF PushShape, DeviceShape, StoredShape, HookShape
  <1>4. \A j \in calls' : j \in next \/ j \in calls
    BY <1>1
  <1>5. \A j \in calls' : PushCall(j)
    BY <1>0, <1>4 DEF PushCalls
  <1>6. PushCalls'
    BY <1>2, <1>5 DEF PushCalls, PushCall
  <1>7. OneTold'
    BY <1>0, <1>2, <1>4 DEF OneTold, Tells
  <1>8. GoOn({"list", "post", "leave"})
    <2>1. \A j \in next : j.what \notin {"list", "post", "leave"}
      OBVIOUS
    <2>. QED  BY <1>1, <2>1, OthersGoOn
  <1>9. AllKnow'
    BY <1>0, <1>1, <1>8, KnownToAll
  <1>. QED  BY <1>1, <1>3, <1>6, <1>7, <1>9

LEMMA PreferenceAnswered ==
    ASSUME PushForms, PushTruth, NEW k \in calls, PrefsAnswered(k)
    PROVE  PushForms' /\ PushTruth'
  <1>0. /\ PushShape /\ PushCall(k) /\ OneAlert /\ OnePreference
        /\ AlertsKept /\ PreferenceKept /\ widget = "settings"
    BY CallsOf DEF PushForms, PushTruth, PushCalls, PrefsAnswered
  <1>1. /\ k.what = "prefs" /\ GoesOn(k, {})
        /\ button' = [button EXCEPT !.pref = IF k.state = "ok" THEN k.got
                                                               ELSE @]
        /\ UNCHANGED <<device, hook, doneBy>>
    BY DEF PrefsAnswered
  <1>2. /\ button' = [shows |-> button.shows, listed |-> button.listed,
                      busy |-> button.busy, saving |-> button.saving,
                      pref |-> IF k.state = "ok" THEN k.got ELSE button.pref]
    BY <1>0, <1>1 DEF PushShape, ButtonShape
  <1>3. ButtonShape'
    BY <1>0, <1>1, <1>2 DEF PushShape, ButtonShape, GoesOn
  <1>4. /\ PushShape' /\ PushCalls' /\ OneTold' /\ AllKnow'
        /\ stored' = stored /\ widget' = widget /\ k.state # "sent"
        /\ astray \subseteq astray'
        /\ k.state # "ok" => k.what \in astray'
        /\ calls' = calls \ {k}
    BY <1>1, <1>3, ButtonAnswered
  <1>5. OneAlert' /\ OnePreference'
    BY <1>0, <1>1, <1>2, <1>4 DEF OneAlert, OnePreference
  <1>6. AlertsKept'
    <2>1. GoOn({"alert", "cancel", "prefer"})
      <3>1. k.what \notin {"alert", "cancel", "prefer"}
        BY <1>1
      <3>. QED  BY <1>4, <3>1 DEF GoOn, Continues
    <2>2. ReadsGoOn({"alerts"})
      BY <1>4 DEF ReadsGoOn, Continues
    <2>. QED  BY <1>0, <1>1, <1>2, <1>4, <2>1, <2>2, AlertsBeside
  <1>7. PreferenceKept'
    <2>. SUFFICES ASSUME astray' \cap {"prefer", "prefs"} = {}
                  PROVE  PreferenceKept'
      BY DEF PreferenceKept
    <2>1. k.state = "ok" /\ astray \cap {"prefer", "prefs"} = {}
      BY <1>1, <1>4
    <2>2. k.got = stored.pref
      BY <1>0, <1>1, <2>1 DEF PreferenceKept
    <2>3. \A j \in calls' : (j.what = "prefs" \/ OfPreference(j))
                              /\ j.state = "ok" => j.got = stored.pref
      BY <1>0, <1>4, <2>1 DEF PreferenceKept
    <2>. QED  BY <1>2, <1>4, <2>1, <2>2, <2>3 DEF PreferenceKept
  <1>. QED  BY <1>4, <1>5, <1>6, <1>7 DEF PushForms, PushTruth

LEMMA ListOfAlertsAnswered ==
    ASSUME PushForms, PushTruth, NEW k \in calls, AlertsAnswered(k)
    PROVE  PushForms' /\ PushTruth'
  <1>0. /\ PushShape /\ OneAlert /\ OnePreference
        /\ AlertsKept /\ PreferenceKept
    BY DEF PushForms, PushTruth
  <1>1. /\ k.what = "alerts" /\ GoesOn(k, {})
        /\ UNCHANGED <<device, hook, doneBy>>
    BY DEF AlertsAnswered
  <1>2. /\ button'.busy = button.busy /\ button'.saving = button.saving
        /\ button'.pref = button.pref /\ ButtonShape'
        /\ k.state = "ok" => button'.shows \in {button.shows, k.got}
    <2>1. CASE k.of = "bell"
      <3>1. button' = [button EXCEPT !.listed = k.got,
                         !.shows = IF k.got # button.listed THEN k.got ELSE @]
        BY <2>1 DEF AlertsAnswered
      <3>. QED  BY <1>0, <1>1, <3>1 DEF PushShape, ButtonShape, GoesOn
    <2>2. CASE k.of # "bell"
      <3>1. button' = [button EXCEPT
                         !.shows = IF k.state = "ok" THEN k.got ELSE @]
        BY <2>2 DEF AlertsAnswered
      <3>. QED  BY <1>0, <1>1, <3>1 DEF PushShape, ButtonShape, GoesOn
    <2>. QED  BY <2>1, <2>2
  <1>4. /\ PushShape' /\ PushCalls' /\ OneTold' /\ AllKnow'
        /\ stored' = stored /\ widget' = widget /\ k.state # "sent"
        /\ astray \subseteq astray'
        /\ k.state # "ok" => k.what \in astray'
        /\ calls' = calls \ {k}
    BY <1>1, <1>2, ButtonAnswered
  <1>5. OneAlert' /\ OnePreference'
    BY <1>0, <1>1, <1>2, <1>4 DEF OneAlert, OnePreference
  <1>6. AlertsKept'
    <2>1. ASSUME astray' \cap {"alert", "cancel", "alerts", "gone"} = {}
          PROVE  /\ (\A j \in calls' : ~OfAlert(j)) => Holds(button'.shows)
                 /\ \A j \in calls' : HeldBy(j)
                 /\ hook'[widget].then # None => Holds(None)
      <3>1. /\ astray \cap {"alert", "cancel", "alerts", "gone"} = {}
            /\ k.state = "ok"
        BY <1>1, <1>4, <2>1
      <3>2. /\ (\A j \in calls : ~OfAlert(j)) => Holds(button.shows)
            /\ \A j \in calls : HeldBy(j)
            /\ hook[widget].then # None => Holds(None)
        BY <1>0, <3>1, AlertsHeld
      <3>3. Holds(k.got)
        BY <1>1, <3>1, <3>2 DEF HeldBy
      <3>4. ASSUME \A j \in calls' : ~OfAlert(j) PROVE Holds(button'.shows)
        <4>1. \A j \in calls : ~OfAlert(j)
          BY <1>1, <1>4, <3>4 DEF OfAlert
        <4>. QED  BY <1>2, <3>1, <3>2, <3>3, <4>1
      <3>. QED  BY <1>1, <1>4, <3>2, <3>4
    <2>. QED  BY <1>4, <2>1, AlertsNext
  <1>7. PreferenceKept'
    <2>1. GoOn({"prefer"}) /\ ReadsGoOn({"prefs"})
      <3>1. k.what # "prefer"
        BY <1>1
      <3>. QED  BY <1>4, <3>1 DEF GoOn, ReadsGoOn, Continues
    <2>. QED  BY <1>0, <1>2, <1>4, <2>1, PreferenceBeside
  <1>. QED  BY <1>4, <1>5, <1>6, <1>7 DEF PushForms, PushTruth

LEMMA AlertDone ==
    ASSUME PushForms, PushTruth, NEW k \in calls, AlertAnswered(k)
    PROVE  PushForms' /\ PushTruth'
  <1>0. /\ PushShape /\ PushCall(k) /\ OneAlert /\ OnePreference
        /\ AlertsKept /\ PreferenceKept
    BY DEF PushForms, PushTruth, PushCalls
  <1>1. k.what = "alert" /\ OfAlert(k) /\ UNCHANGED <<device, hook, doneBy>>
    BY DEF AlertAnswered, OfAlert
  <1>2. /\ \A j \in calls : OfAlert(j) => j = k
        /\ button.busy /\ hook[widget].busy = None
        /\ hook[widget].then = None
    <2>1. /\ \A j \in calls : OfAlert(j) => j = k
          /\ button.busy /\ hook[widget].busy = None
      BY <1>0, <1>1 DEF OneAlert
    <2>. QED  BY <1>0, <2>1 DEF PushShape, HookShape
  <1>3. CASE k.state = "ok" /\ k.of = "bell"
    <2>. DEFINE p == Request("prefer", "bell", k.arg, 0)
    <2>1. GoesOn(k, {p}) /\ button' = button
      BY <1>3 DEF AlertAnswered
    <2>2. /\ IsRequest(p) /\ p.what = "prefer" /\ p.of = "bell"
          /\ p.arg = k.arg /\ p.state = "sent"
      BY NewRequest
    <2>. HIDE DEF p
    <2>3. PushCall(p)
      BY <1>0, <1>3, <2>2 DEF PushCall
    <2>4. ButtonShape'
      BY <1>0, <2>1 DEF PushShape, ButtonShape, GoesOn
    <2>5. /\ PushShape' /\ PushCalls' /\ OneTold' /\ AllKnow'
          /\ stored' = stored /\ widget' = widget /\ k.state # "sent"
          /\ astray \subseteq astray'
          /\ calls' = (calls \ {k}) \cup {p}
      BY <1>1, <2>1, <2>2, <2>3, <2>4, ButtonAnswered
    <2>6. \A j \in calls' : j = p \/ (j \in calls /\ j # k)
      BY <2>5
    <2>7. OfAlert(p) /\ ~OfPreference(p) /\ p \in calls'
            /\ p.what \notin {"alert", "cancel", "alerts", "prefs"}
      BY <2>2, <2>5 DEF OfAlert, OfPreference
    <2>8. OneAlert'
      BY <1>1, <1>2, <2>1, <2>5, <2>6 DEF OneAlert
    <2>9. OnePreference'
      BY <1>0, <2>1, <2>6, <2>7 DEF OnePreference
    <2>10. AlertsKept'
      <3>1. ASSUME astray' \cap {"alert", "cancel", "alerts", "gone"} = {}
            PROVE  /\ (\A j \in calls' : ~OfAlert(j)) => Holds(button'.shows)
                   /\ \A j \in calls' : HeldBy(j)
                   /\ hook'[widget].then # None => Holds(None)
        <4>1. astray \cap {"alert", "cancel", "alerts", "gone"} = {}
          BY <2>5, <3>1
        <4>2. \A j \in calls : HeldBy(j)
          BY <1>0, <4>1, AlertsHeld
        <4>3. Holds(k.arg)
          BY <1>1, <1>3, <4>2 DEF HeldBy
        <4>4. HeldBy(p)
          BY <2>2, <2>7, <4>3 DEF HeldBy
        <4>. QED  BY <1>1, <1>2, <2>6, <2>7, <4>2, <4>4
      <3>. QED  BY <2>5, <3>1, AlertsNext
    <2>11. PreferenceKept'
      <3>. SUFFICES ASSUME astray' \cap {"prefer", "prefs"} = {}
                    PROVE  PreferenceKept'
        BY DEF PreferenceKept
      <3>1. astray \cap {"prefer", "prefs"} = {}
        BY <2>5
      <3>2. \A j \in calls' : (j.what = "prefs" \/ OfPreference(j))
                                /\ j.state = "ok" => j.got = stored.pref
        BY <1>0, <2>6, <2>7, <3>1 DEF PreferenceKept
      <3>3. ~OfPreference(k)
        BY <1>1 DEF OfPreference
      <3>4. (\A j \in calls' : ~OfPreference(j))
              => (\A j \in calls : ~OfPreference(j))
        BY <2>5, <3>3
      <3>. QED  BY <1>0, <2>1, <2>5, <3>1, <3>2, <3>4 DEF PreferenceKept
    <2>. QED  BY <2>5, <2>8, <2>9, <2>10, <2>11 DEF PushForms, PushTruth
  <1>4. CASE ~(k.state = "ok" /\ k.of = "bell")
    <2>1. /\ GoesOn(k, {})
          /\ button' = [button EXCEPT !.busy = FALSE,
                           !.shows = IF k.state = "ok" THEN k.arg ELSE @]
      BY <1>4 DEF AlertAnswered
    <2>2. /\ button'.saving = button.saving /\ button'.pref = button.pref
          /\ button'.busy = FALSE /\ ButtonShape'
          /\ k.state = "ok" => button'.shows = k.arg
      BY <1>0, <2>1 DEF PushShape, ButtonShape, GoesOn
    <2>3. /\ PushShape' /\ PushCalls' /\ OneTold' /\ AllKnow'
          /\ stored' = stored /\ widget' = widget /\ k.state # "sent"
          /\ astray \subseteq astray'
          /\ k.state # "ok" => k.what \in astray'
          /\ calls' = calls \ {k}
      BY <1>1, <2>1, <2>2, ButtonAnswered
    <2>4. \A j \in calls' : ~OfAlert(j)
      BY <1>2, <2>3
    <2>5. OneAlert' /\ OnePreference'
      BY <1>0, <2>2, <2>3, <2>4 DEF OneAlert, OnePreference
    <2>6. AlertsKept'
      <3>1. ASSUME astray' \cap {"alert", "cancel", "alerts", "gone"} = {}
            PROVE  /\ (\A j \in calls' : ~OfAlert(j)) => Holds(button'.shows)
                   /\ \A j \in calls' : HeldBy(j)
                   /\ hook'[widget].then # None => Holds(None)
        <4>1. /\ astray \cap {"alert", "cancel", "alerts", "gone"} = {}
              /\ k.state = "ok"
          BY <1>1, <2>3, <3>1
        <4>2. \A j \in calls : HeldBy(j)
          BY <1>0, <4>1, AlertsHeld
        <4>3. Holds(k.arg)
          BY <1>1, <4>1, <4>2 DEF HeldBy
        <4>. QED  BY <1>1, <1>2, <2>2, <2>3, <4>1, <4>2, <4>3
      <3>. QED  BY <2>3, <3>1, AlertsNext
    <2>7. PreferenceKept'
      <3>1. GoOn({"prefer"}) /\ ReadsGoOn({"prefs"})
        <4>1. k.what # "prefer"
          BY <1>1
        <4>. QED  BY <2>3, <4>1 DEF GoOn, ReadsGoOn, Continues
      <3>. QED  BY <1>0, <2>2, <2>3, <3>1, PreferenceBeside
    <2>. QED  BY <2>3, <2>5, <2>6, <2>7 DEF PushForms, PushTruth
  <1>. QED  BY <1>3, <1>4

(* What a handler has read again is sent, and of no alert.                 *)
LEMMA ReadsAgain ==
    ASSUME PushShape, NEW next, next \subseteq Refresh
    PROVE  \A r \in next : /\ PushCall(r) /\ r.state = "sent"
                           /\ r.what = "alerts" /\ HeldBy(r)
                           /\ ~OfAlert(r) /\ ~OfPreference(r)
  <1>. SUFFICES ASSUME NEW r \in next
                PROVE  /\ PushCall(r) /\ r.state = "sent"
                       /\ r.what = "alerts" /\ HeldBy(r)
                       /\ ~OfAlert(r) /\ ~OfPreference(r)
    OBVIOUS
  <1>1. IsRequest(r) /\ r.state = "sent" /\ r.of = widget /\ r.what = "alerts"
    BY RefreshSent
  <1>. QED  BY <1>1, HookedAre DEF PushCall, HeldBy, OfAlert, OfPreference

LEMMA PreferDone ==
    ASSUME PushForms, PushTruth, NEW k \in calls, PreferAnswered(k)
    PROVE  PushForms' /\ PushTruth'
  <1>0. /\ PushShape /\ PushCall(k) /\ OneAlert /\ OnePreference
        /\ AlertsKept /\ PreferenceKept
    BY DEF PushForms, PushTruth, PushCalls
  <1>1. /\ k.what = "prefer" /\ GoesOn(k, Refresh)
        /\ UNCHANGED <<device, hook, doneBy>>
        /\ k.of \in {"bell", "settings"}
    BY <1>0 DEF PreferAnswered, PushCall
  <1>2. \A r \in Refresh : /\ PushCall(r) /\ r.state = "sent"
                           /\ r.what = "alerts" /\ HeldBy(r)
                           /\ ~OfAlert(r) /\ ~OfPreference(r)
    BY <1>0, ReadsAgain
  <1>3. CASE k.of = "bell"
    <2>0. widget = "bell" /\ OfAlert(k) /\ ~OfPreference(k)
      BY <1>0, <1>1, <1>3, CallsOf DEF OfAlert, OfPreference
    <2>1. button' = [button EXCEPT !.busy = FALSE, !.shows = k.arg]
      BY <1>3 DEF PreferAnswered
    <2>2. /\ button'.saving = button.saving /\ button'.pref = button.pref
          /\ button'.busy = FALSE /\ button'.shows = k.arg /\ ButtonShape'
      BY <1>0, <1>1, <2>1 DEF PushShape, ButtonShape, GoesOn
    <2>3. /\ PushShape' /\ PushCalls' /\ OneTold' /\ AllKnow'
          /\ stored' = stored /\ widget' = widget /\ k.state # "sent"
          /\ astray \subseteq astray'
          /\ calls' = (calls \ {k}) \cup Refresh
      BY <1>1, <1>2, <2>2, ButtonAnswered
    <2>4. \A j \in calls' : j \in Refresh \/ (j \in calls /\ j # k)
      BY <2>3
    <2>5. /\ \A j \in calls : OfAlert(j) => j = k
          /\ hook[widget].then = None
      <3>1. button.busy /\ hook[widget].busy = None
        BY <1>0, <2>0 DEF OneAlert
      <3>. QED  BY <1>0, <2>0, <3>1 DEF OneAlert, PushShape, HookShape
    <2>6. \A j \in calls' : ~OfAlert(j)
      BY <1>2, <2>4, <2>5
    <2>7. OneAlert' /\ OnePreference'
      BY <1>0, <1>2, <2>2, <2>4, <2>6 DEF OneAlert, OnePreference
    <2>8. AlertsKept'
      <3>1. ASSUME astray' \cap {"alert", "cancel", "alerts", "gone"} = {}
            PROVE  /\ (\A j \in calls' : ~OfAlert(j)) => Holds(button'.shows)
                   /\ \A j \in calls' : HeldBy(j)
                   /\ hook'[widget].then # None => Holds(None)
        <4>1. astray \cap {"alert", "cancel", "alerts", "gone"} = {}
          BY <2>3, <3>1
        <4>2. \A j \in calls : HeldBy(j)
          BY <1>0, <4>1, AlertsHeld
        <4>3. Holds(k.arg)
          BY <1>1, <1>3, <4>2 DEF HeldBy
        <4>. QED  BY <1>1, <1>2, <2>2, <2>4, <2>5, <4>2, <4>3
      <3>. QED  BY <2>3, <3>1, AlertsNext
    <2>9. PreferenceKept'
      <3>. SUFFICES ASSUME astray' \cap {"prefer", "prefs"} = {}
                    PROVE  PreferenceKept'
        BY DEF PreferenceKept
      <3>1. astray \cap {"prefer", "prefs"} = {}
        BY <2>3
      <3>2. \A j \in calls' : (j.what = "prefs" \/ OfPreference(j))
                                /\ j.state = "ok" => j.got = stored.pref
        BY <1>0, <1>2, <2>4, <3>1 DEF PreferenceKept
      <3>3. (\A j \in calls' : ~OfPreference(j))
              => (\A j \in calls : ~OfPreference(j))
        BY <2>0, <2>3
      <3>. QED  BY <1>0, <2>2, <2>3, <3>1, <3>2, <3>3 DEF PreferenceKept
    <2>. QED  BY <2>3, <2>7, <2>8, <2>9 DEF PushForms, PushTruth
  <1>4. CASE k.of = "settings"
    <2>0. widget = "settings" /\ ~OfAlert(k) /\ OfPreference(k)
      BY <1>0, <1>1, <1>4, CallsOf DEF OfAlert, OfPreference
    <2>1. button' = [button EXCEPT !.saving = FALSE,
                        !.pref = IF k.state = "ok" THEN k.got ELSE @]
      BY <1>4 DEF PreferAnswered
    <2>2. /\ button'.busy = button.busy /\ button'.shows = button.shows
          /\ k.state = "ok" => button'.pref = k.got
          /\ button'.saving = FALSE /\ ButtonShape'
      BY <1>0, <1>1, <2>0, <2>1 DEF PushShape, ButtonShape, GoesOn
    <2>3. /\ PushShape' /\ PushCalls' /\ OneTold' /\ AllKnow'
          /\ stored' = stored /\ widget' = widget /\ k.state # "sent"
          /\ astray \subseteq astray'
          /\ k.state # "ok" => k.what \in astray'
          /\ calls' = (calls \ {k}) \cup Refresh
      BY <1>1, <1>2, <2>2, ButtonAnswered
    <2>4. \A j \in calls' : j \in Refresh \/ (j \in calls /\ j # k)
      BY <2>3
    <2>5. \A j \in calls' : ~OfPreference(j)
      BY <1>0, <1>2, <2>0, <2>4 DEF OnePreference
    <2>6. OneAlert' /\ OnePreference'
      BY <1>0, <1>1, <1>2, <2>2, <2>3, <2>4, <2>5
      DEF OneAlert, OnePreference
    <2>7. AlertsKept'
      <3>1. ASSUME astray' \cap {"alert", "cancel", "alerts", "gone"} = {}
            PROVE  /\ (\A j \in calls' : ~OfAlert(j)) => Holds(button'.shows)
                   /\ \A j \in calls' : HeldBy(j)
                   /\ hook'[widget].then # None => Holds(None)
        <4>1. astray \cap {"alert", "cancel", "alerts", "gone"} = {}
          BY <2>3, <3>1
        <4>2. /\ (\A j \in calls : ~OfAlert(j)) => Holds(button.shows)
              /\ \A j \in calls : HeldBy(j)
              /\ hook[widget].then # None => Holds(None)
          BY <1>0, <4>1, AlertsHeld
        <4>3. (\A j \in calls' : ~OfAlert(j)) => (\A j \in calls : ~OfAlert(j))
          BY <2>0, <2>3
        <4>. QED  BY <1>1, <1>2, <2>2, <2>4, <4>2, <4>3
      <3>. QED  BY <2>3, <3>1, AlertsNext
    <2>8. PreferenceKept'
      <3>. SUFFICES ASSUME astray' \cap {"prefer", "prefs"} = {}
                    PROVE  PreferenceKept'
        BY DEF PreferenceKept
      <3>1. k.state = "ok" /\ astray \cap {"prefer", "prefs"} = {}
        BY <1>1, <2>3
      <3>2. k.got = stored.pref
        BY <1>0, <2>0, <3>1 DEF PreferenceKept
      <3>3. \A j \in calls' : (j.what = "prefs" \/ OfPreference(j))
                                /\ j.state = "ok" => j.got = stored.pref
        BY <1>0, <1>2, <2>4, <3>1 DEF PreferenceKept
      <3>. QED  BY <2>2, <2>3, <3>1, <3>2, <3>3 DEF PreferenceKept
    <2>. QED  BY <2>3, <2>6, <2>7, <2>8 DEF PushForms, PushTruth
  <1>. QED  BY <1>1, <1>3, <1>4

LEMMA CancelDone ==
    ASSUME PushForms, PushTruth, NEW k \in calls, CancelAnswered(k)
    PROVE  PushForms' /\ PushTruth'
  <1>. DEFINE next == IF k.state = "ok" THEN Refresh ELSE {}
  <1>0. /\ PushShape /\ OneAlert /\ OnePreference
        /\ AlertsKept /\ PreferenceKept
    BY DEF PushForms, PushTruth
  <1>1. /\ k.what = "cancel" /\ GoesOn(k, next)
        /\ UNCHANGED <<device, hook, doneBy>>
        /\ OfAlert(k) /\ ~OfPreference(k)
        /\ button' = [button EXCEPT !.busy = FALSE,
                         !.shows = IF k.state = "ok" THEN None ELSE @]
    BY DEF CancelAnswered, OfAlert, OfPreference
  <1>2. \A r \in next : /\ PushCall(r) /\ r.state = "sent"
                        /\ r.what = "alerts" /\ HeldBy(r)
                        /\ ~OfAlert(r) /\ ~OfPreference(r)
    BY <1>0, ReadsAgain
  <1>. HIDE DEF next
  <1>3. /\ button'.saving = button.saving /\ button'.pref = button.pref
        /\ k.state = "ok" => button'.shows = None
        /\ button'.busy = FALSE /\ ButtonShape'
    BY <1>0, <1>1 DEF PushShape, ButtonShape, GoesOn
  <1>4. /\ PushShape' /\ PushCalls' /\ OneTold' /\ AllKnow'
        /\ stored' = stored /\ widget' = widget /\ k.state # "sent"
        /\ astray \subseteq astray'
        /\ k.state # "ok" => k.what \in astray'
        /\ calls' = (calls \ {k}) \cup next
    BY <1>1, <1>2, <1>3, ButtonAnswered
  <1>5. \A j \in calls' : j \in next \/ (j \in calls /\ j # k)
    BY <1>4
  <1>6. /\ \A j \in calls : OfAlert(j) => j = k
        /\ hook[widget].then = None
    <2>1. button.busy /\ hook[widget].busy = None
      BY <1>0, <1>1 DEF OneAlert
    <2>. QED  BY <1>0, <1>1, <2>1 DEF OneAlert, PushShape, HookShape
  <1>7. \A j \in calls' : ~OfAlert(j)
    BY <1>2, <1>5, <1>6
  <1>8. OneAlert' /\ OnePreference'
    BY <1>0, <1>2, <1>3, <1>5, <1>7 DEF OneAlert, OnePreference
  <1>9. AlertsKept'
    <2>1. ASSUME astray' \cap {"alert", "cancel", "alerts", "gone"} = {}
          PROVE  /\ (\A j \in calls' : ~OfAlert(j)) => Holds(button'.shows)
                 /\ \A j \in calls' : HeldBy(j)
                 /\ hook'[widget].then # None => Holds(None)
      <3>1. /\ astray \cap {"alert", "cancel", "alerts", "gone"} = {}
            /\ k.state = "ok"
        BY <1>1, <1>4, <2>1
      <3>2. \A j \in calls : HeldBy(j)
        BY <1>0, <3>1, AlertsHeld
      <3>3. Holds(None)
        BY <1>1, <3>1, <3>2 DEF HeldBy
      <3>. QED  BY <1>1, <1>2, <1>3, <1>5, <1>6, <3>1, <3>2, <3>3
    <2>. QED  BY <1>4, <2>1, AlertsNext
  <1>10. PreferenceKept'
    <2>. SUFFICES ASSUME astray' \cap {"prefer", "prefs"} = {}
                  PROVE  PreferenceKept'
      BY DEF PreferenceKept
    <2>1. astray \cap {"prefer", "prefs"} = {}
      BY <1>4
    <2>2. \A j \in calls' : (j.what = "prefs" \/ OfPreference(j))
                              /\ j.state = "ok" => j.got = stored.pref
      BY <1>0, <1>2, <1>5, <2>1 DEF PreferenceKept
    <2>3. (\A j \in calls' : ~OfPreference(j))
            => (\A j \in calls : ~OfPreference(j))
      BY <1>1, <1>4
    <2>. QED  BY <1>0, <1>3, <1>4, <2>1, <2>2, <2>3 DEF PreferenceKept
  <1>. QED  BY <1>4, <1>8, <1>9, <1>10 DEF PushForms, PushTruth

(* The hook goes on as it was, or stops with the one call it has sent.     *)
Released(k, asking, then) ==
    \/ asking = hook[k.of].busy /\ then = hook[k.of].then
    \/ then = None /\ \A j \in calls : j # k => ~Tells(j, k.of)

(* The answer to k, and next the requests it makes: what a hook is told.     *)
AnswerTold(k, next) ==
    /\ k.what \in {"list", "post", "leave"} /\ GoesOn(k, next)
    /\ \A r \in next : /\ IsRequest(r) /\ r.state = "sent" /\ r.of = k.of
                       /\ r.what \in {"prefs", "alerts", "alert"}
                       /\ r.what = "prefs" => k.of = "settings"
                       /\ r.what = "alert" => r.arg \in KindsOf(k.of)
    /\ UNCHANGED <<device, doneBy>>
    /\ ButtonShape'
    /\ button'.saving = button.saving /\ button'.pref = button.pref

(* What the answer leaves as it was, and what holds after it whatever the    *)
(* hook makes of it.                                                         *)
Settled(k, next) ==
    /\ PushShape' /\ PushCalls' /\ OneTold' /\ OnePreference'
    /\ PreferenceKept'
    /\ \A g \in Hooked : g # k.of => Knows(g)'
    /\ stored' = stored /\ widget' = widget /\ k.state # "sent"
    /\ astray \subseteq astray'
    /\ k.state # "ok" => k.what \in astray'
    /\ calls' = (calls \ {k}) \cup next
    /\ k.of \in Hooked /\ Hooked' = Hooked

(* An answer that the hook k.of has waited for.                            *)
LEMMA HookAnswered ==
    ASSUME PushForms, PushTruth, NEW k \in calls, NEW next, AnswerTold(k, next),
           NEW on, NEW sub, NEW asking, NEW then,
           HookBecomes(k.of, on, sub, asking, then),
           Released(k, asking, then)
    PROVE  Settled(k, next)
  <1>a. /\ k.what \in {"list", "post", "leave"} /\ GoesOn(k, next)
        /\ \A r \in next : /\ IsRequest(r) /\ r.state = "sent" /\ r.of = k.of
                           /\ r.what \in {"prefs", "alerts", "alert"}
                           /\ r.what = "prefs" => k.of = "settings"
                           /\ r.what = "alert" => r.arg \in KindsOf(k.of)
        /\ UNCHANGED <<device, doneBy>>
        /\ ButtonShape'
        /\ button'.saving = button.saving /\ button'.pref = button.pref
    BY DEF AnswerTold
  <1>. USE <1>a
  <1>0. /\ PushShape /\ PushCalls /\ OneTold /\ OnePreference /\ AllKnow
        /\ PreferenceKept /\ PushCall(k)
    BY DEF PushForms, PushTruth, PushCalls
  <1>1. /\ stored' = stored /\ widget' = widget /\ k.state # "sent"
        /\ calls' = (calls \ {k}) \cup next
        /\ astray' = astray \cup (IF k.state = "ok" THEN {} ELSE {k.what})
    BY DEF GoesOn
  <1>2. Hooked' = Hooked /\ k.of \in Hooked /\ k.of \in Widgets
    BY <1>0, <1>1, HookedAre DEF Hooked, PushCall
  <1>3. PushShape'
    <2>1. /\ then \in KindsOf(k.of) \cup {None}
          /\ then # None => asking # None
      BY <1>0, <1>2 DEF PushShape, HookShape, Released
    <2>2. HookShape'
      BY <1>0, <1>2, <2>1, ShapeHooked DEF PushShape
    <2>. QED  BY <1>0, <1>1, <2>2 DEF PushShape, DeviceShape, StoredShape
  <1>4. \A j \in calls' : j \in next \/ (j \in calls /\ j # k)
    BY <1>1
  <1>5. PushCalls'
    <2>1. ASSUME NEW j \in calls, j # k PROVE PushCall(j)'
      <3>1. Tells(j, k.of) => asking = "sent" /\ then = hook[k.of].then
        BY <1>0, <2>1 DEF PushCalls, PushCall, Tells, Released
      <3>2. PushCall(j)
        BY <1>0, <2>1 DEF PushCalls
      <3>. QED  BY <1>0, <1>1, <1>2, <3>1, <3>2, CallHooked
    <2>2. ASSUME NEW r \in next PROVE PushCall(r)'
      BY <1>2, <2>2 DEF PushCall
    <2>. QED  BY <1>4, <2>1, <2>2 DEF PushCalls
  <1>6. OneTold'
    BY <1>0, <1>2, <1>4 DEF OneTold, Tells
  <1>7. OnePreference'
    BY <1>0, <1>4 DEF OnePreference, OfPreference
  <1>8. PreferenceKept'
    <2>1. GoOn({"prefer"})
      <3>1. \A j \in next : j.what \notin {"prefer"}
        OBVIOUS
      <3>. QED  BY <1>1, <3>1, OthersGoOn
    <2>2. ReadsGoOn({"prefs"})
      BY <1>4 DEF ReadsGoOn, Continues
    <2>. QED  BY <1>0, <1>1, <2>1, <2>2, PreferenceBeside
  <1>9. ASSUME NEW g \in Hooked, g # k.of PROVE Knows(g)'
    <2>1. Knows(g)
      BY <1>0 DEF AllKnow
    <2>2. GoOnOf({"list", "post", "leave"}, g)
      BY <1>1, <1>4, <1>9 DEF GoOnOf, Continues
    <2>3. hook'[g] = hook[g]
      BY <1>0, <1>9, HookedAre DEF HookBecomes
    <2>. QED  BY <1>1, <2>1, <2>2, <2>3, KnownBeside
  <1>. QED  BY <1>1, <1>2, <1>3, <1>5, <1>6, <1>7, <1>8, <1>9
        DEF Settled

LEMMA SubscriptionsRead ==
    ASSUME PushForms, PushTruth, NEW k \in calls, SubscriptionsAnswered(k)
    PROVE  PushForms' /\ PushTruth'
  <1>. DEFINE h == k.of
              found == IF k.got = "found" THEN k.saw ELSE None
              sub == IF k.state = "ok" THEN found ELSE hook[h].sub
              next == Effects(h, found)
  <1>0. /\ PushShape /\ HookShape /\ PushCall(k) /\ OneAlert /\ AllKnow
        /\ AlertsKept /\ h \in Hooked /\ h \in Widgets /\ ButtonShape
        /\ widget \in Widgets
    BY HookedAre DEF PushForms, PushTruth, PushShape, PushCalls, PushCall
  <1>1. /\ k.what = "list" /\ GoesOn(k, next)
        /\ UNCHANGED <<device, button, doneBy>>
        /\ hook' = [hook EXCEPT ![h].on = TRUE,
                      ![h].sub = IF k.state = "ok" THEN found ELSE @]
    BY DEF SubscriptionsAnswered
  <1>2. k.saw \in Endpoints /\ sub \in Endpoints \cup {None}
    BY <1>0, <1>1 DEF PushCall, HookShape, HookType
  <1>3. hook' = [hook EXCEPT ![h].on = TRUE, ![h].sub = sub]
    BY <1>0, <1>1 DEF HookShape, HookType
  <1>. HIDE DEF sub
  <1>4. HookBecomes(h, TRUE, sub, hook[h].busy, hook[h].then)
    BY <1>0, <1>2, <1>3, HookLearns DEF HookShape
  <1>5. \A r \in next : /\ IsRequest(r) /\ r.state = "sent" /\ r.of = h
                        /\ \/ r.what = "prefs" /\ h = "settings"
                           \/ r.what = "alerts"
    BY EffectsSent
  <1>. HIDE DEF next
  <1>6. ButtonShape' /\ Released(k, hook[h].busy, hook[h].then)
    BY <1>0, <1>1 DEF ButtonShape, GoesOn, Released
  <1>7. /\ PushShape' /\ PushCalls' /\ OneTold' /\ OnePreference'
        /\ PreferenceKept'
        /\ \A g \in Hooked : g # h => Knows(g)'
        /\ stored' = stored /\ widget' = widget /\ k.state # "sent"
        /\ astray \subseteq astray'
        /\ k.state # "ok" => k.what \in astray'
        /\ calls' = (calls \ {k}) \cup next
        /\ Hooked' = Hooked
    <2>1. AnswerTold(k, next)
      BY <1>1, <1>5, <1>6 DEF AnswerTold
    <2>2. Settled(k, next)
      BY <1>4, <1>6, <2>1, HookAnswered
    <2>. QED  BY <2>2 DEF Settled
  <1>8. \A j \in calls' : j \in next \/ (j \in calls /\ j # k)
    BY <1>7
  <1>9. hook'[widget].busy = hook[widget].busy
          /\ hook'[widget].then = hook[widget].then
    BY <1>0, <1>4 DEF HookBecomes
  <1>10. OneAlert'
    <2>1. \A j \in calls' : OfAlert(j) => j \in calls
      BY <1>5, <1>8 DEF OfAlert
    <2>. QED  BY <1>0, <1>1, <1>7, <1>9, <2>1 DEF OneAlert
  <1>11. AlertsKept'
    <2>1. GoOn({"alert", "cancel", "prefer"})
      <3>1. /\ \A j \in next : j.what \notin {"alert", "cancel", "prefer"}
            /\ k.what \notin {"alert", "cancel", "prefer"}
        BY <1>1, <1>5
      <3>. QED  BY <1>7, <3>1, OthersGoOn
    <2>2. ReadsGoOn({"alerts"})
      BY <1>5, <1>8 DEF ReadsGoOn, Continues
    <2>. QED  BY <1>0, <1>1, <1>7, <1>9, <2>1, <2>2, AlertsBeside
  <1>12. Knows(h)'
    <2>. SUFFICES ASSUME doneBy \subseteq {h},
                         astray' \cap {"post", "leave", "mounting", "gone"}
                           = {}
                  PROVE  Knows(h)'
      BY <1>1 DEF Knows
    <2>1. /\ Knows(h)
          /\ astray \cap {"post", "leave", "mounting", "gone"} = {}
      BY <1>0, <1>7 DEF AllKnow
    <2>2. k.saw = device.endpoint /\ device.endpoint # None
      BY <1>1, <1>2, <2>1, PushAssumption DEF Knows
    <2>3. \A j \in calls : ~(j.what = "leave" /\ j.of = h)
      BY <2>1, <2>2 DEF Knows
    <2>4. /\ sub \in {None, device.endpoint}
          /\ sub # None => sub \in stored.rows
      <3>1. CASE k.state = "ok"
        <4>1. sub = found
          BY <3>1 DEF sub
        <4>2. k.got = "found" => k.saw \in stored.rows
          BY <1>1, <2>1, <3>1 DEF Knows
        <4>. QED  BY <2>2, <4>1, <4>2
      <3>2. CASE k.state # "ok"
        <4>1. sub = hook[h].sub
          BY <3>2 DEF sub
        <4>. QED  BY <2>1, <2>3, <4>1 DEF Knows
      <3>. QED  BY <3>1, <3>2
    <2>5. \A j \in calls' : j.what \in {"list", "post", "leave"} => j \in calls
      BY <1>5, <1>8
    <2>6. \A j \in calls' : j.what \in {"list", "post"} /\ j.of = h =>
            /\ j.saw = device.endpoint
            /\ j.what = "post" /\ j.state = "ok" => j.saw \in stored.rows
            /\ j.what = "list" /\ j.state = "ok" /\ j.got = "found"
                 => j.saw \in stored.rows
      BY <2>1, <2>5 DEF Knows
    <2>7. \A j \in calls' : ~(j.what = "leave" /\ j.of = h)
      BY <2>3, <2>5
    <2>8. hook'[h].on = TRUE /\ hook'[h].sub = sub
      BY <1>4 DEF HookBecomes
    <2>. HIDE DEF h
    <2>. QED  BY <1>1, <1>7, <2>2, <2>4, <2>6, <2>7, <2>8 DEF Knows
  <1>13. AllKnow'
    BY <1>7, <1>12 DEF AllKnow
  <1>. QED  BY <1>7, <1>10, <1>11, <1>13 DEF PushForms, PushTruth

(* A hook that stops when the answer it waited for failed.                 *)
LEMMA HookFailed ==
    ASSUME PushForms, PushTruth, NEW k \in calls,
           k.what \in {"post", "leave"}, k.state # "ok", GoesOn(k, {}),
           hook' = Stops(k.of), UNCHANGED <<device, button, doneBy>>
    PROVE  PushForms' /\ PushTruth'
  <1>. DEFINE h == k.of
  <1>0. /\ PushShape /\ HookShape /\ PushCall(k) /\ OneAlert /\ AllKnow
        /\ AlertsKept /\ OneTold /\ h \in Hooked /\ h \in Widgets
        /\ ButtonShape /\ widget \in Widgets
    BY HookedAre DEF PushForms, PushTruth, PushShape, PushCalls, PushCall
  <1>1. HookBecomes(h, hook[h].on, hook[h].sub, None, None)
    BY <1>0, HookStops DEF HookShape
  <1>2. Released(k, None, None)
    BY <1>0 DEF OneTold, Tells, Released
  <1>3. ButtonShape'
    BY <1>0 DEF ButtonShape, GoesOn
  <1>4. /\ PushShape' /\ PushCalls' /\ OneTold' /\ OnePreference'
        /\ PreferenceKept'
        /\ stored' = stored /\ widget' = widget
        /\ astray \subseteq astray'
        /\ k.what \in astray'
        /\ calls' = calls \ {k}
        /\ Hooked' = Hooked
    <2>1. AnswerTold(k, {})
      BY <1>3 DEF AnswerTold
    <2>2. Settled(k, {})
      BY <1>1, <1>2, <2>1, HookAnswered
    <2>. QED  BY <2>2 DEF Settled
  <1>5. hook'[widget].then \in {None, hook[widget].then}
          /\ (hook'[widget].busy # None => hook[widget].busy # None)
    BY <1>0, <1>1 DEF HookBecomes
  <1>6. OneAlert'
    BY <1>0, <1>4, <1>5 DEF OneAlert
  <1>7. AlertsKept'
    <2>1. GoOn({"alert", "cancel", "prefer"}) /\ ReadsGoOn({"alerts"})
      <3>1. k.what \notin {"alert", "cancel", "prefer"}
        OBVIOUS
      <3>. QED  BY <1>4, <3>1 DEF GoOn, ReadsGoOn, Continues
    <2>. QED  BY <1>0, <1>4, <1>5, <2>1, AlertsBeside
  <1>8. AllKnow'
    BY <1>4 DEF AllKnow, Knows
  <1>. QED  BY <1>4, <1>6, <1>7, <1>8 DEF PushForms, PushTruth

LEMMA RowDone ==
    ASSUME PushForms, PushTruth, NEW k \in calls, RowAnswered(k)
    PROVE  PushForms' /\ PushTruth'
  <1>. DEFINE h == k.of
              alerts == {Request("alert", h, kind, k.saw) :
                           kind \in {k.arg} \ {None}}
              next == Effects(h, k.saw) \cup alerts
  <1>0. /\ PushShape /\ HookShape /\ PushCall(k) /\ OneAlert /\ AllKnow
        /\ AlertsKept /\ OneTold /\ h \in Hooked /\ h \in Widgets
        /\ ButtonShape /\ widget \in Widgets
    BY HookedAre DEF PushForms, PushTruth, PushShape, PushCalls, PushCall
  <1>1. k.what = "post" /\ UNCHANGED <<device, doneBy>>
    BY DEF RowAnswered
  <1>2. CASE k.state # "ok"
    BY <1>1, <1>2, HookFailed DEF RowAnswered
  <1>3. CASE k.state = "ok"
    <2>1. /\ hook' = [Stops(h) EXCEPT ![h].on = TRUE, ![h].sub = k.saw]
          /\ GoesOn(k, next)
          /\ button' = [button EXCEPT !.busy = @ \/ k.arg # None]
      BY <1>3 DEF RowAnswered
    <2>2. k.saw \in Endpoints /\ k.arg = hook[h].then /\ hook[h].busy = "sent"
      BY <1>0, <1>1 DEF PushCall
    <2>3. HookBecomes(h, TRUE, k.saw, None, None)
      BY <1>0, <2>1, <2>2, HookEnds DEF HookShape
    (* An alert is asked for by the widget's hook alone. *)
    <2>4. k.arg # None => h = widget /\ k.arg \in KindsOf(h)
      BY <1>0, <2>2, KindsAre DEF HookShape, Hooked
    <2>5. \A r \in alerts : /\ IsRequest(r) /\ r.state = "sent" /\ r.of = h
                            /\ r.what = "alert" /\ r.arg = k.arg
                            /\ k.arg # None
      BY NewRequest
    <2>6. \A r, q \in alerts : r = q
      OBVIOUS
    <2>7. k.arg # None => \E r \in alerts : TRUE
      OBVIOUS
    <2>. HIDE DEF alerts
    <2>8. \A r \in next : /\ IsRequest(r) /\ r.state = "sent" /\ r.of = h
                          /\ r.what \in {"prefs", "alerts", "alert"}
                          /\ r.what = "prefs" => h = "settings"
                          /\ r.what = "alert" => r.arg \in KindsOf(h)
                          /\ r.what = "alert" <=> r \in alerts
      BY <2>4, <2>5, EffectsSent
    <2>9. alerts \subseteq next
      OBVIOUS
    <2>. HIDE DEF next
    <2>10. Released(k, None, None)
      BY <1>0, <1>1 DEF OneTold, Tells, Released
    <2>11. /\ button'.saving = button.saving /\ button'.pref = button.pref
           /\ button'.shows = button.shows
           /\ button'.busy = (button.busy \/ k.arg # None) /\ ButtonShape'
      BY <1>0, <2>1 DEF ButtonShape, GoesOn
    <2>12. /\ PushShape' /\ PushCalls' /\ OneTold' /\ OnePreference'
           /\ PreferenceKept'
           /\ \A g \in Hooked : g # h => Knows(g)'
           /\ stored' = stored /\ widget' = widget
           /\ astray \subseteq astray'
           /\ calls' = (calls \ {k}) \cup next
           /\ Hooked' = Hooked
      <3>1. AnswerTold(k, next)
        BY <1>1, <2>1, <2>8, <2>11 DEF AnswerTold
      <3>2. Settled(k, next)
        BY <2>3, <2>10, <3>1, HookAnswered
      <3>. QED  BY <3>2 DEF Settled
    <2>13. \A j \in calls' : j \in next \/ (j \in calls /\ j # k)
      BY <2>12
    <2>14. /\ hook'[widget].then \in {None, hook[widget].then}
           /\ hook'[widget].busy # None => hook[widget].busy # None
           /\ k.arg # None => /\ hook'[widget].busy = None
                              /\ hook'[widget].then = None
                              /\ hook[widget].busy # None
                              /\ hook[widget].then # None
      BY <1>0, <2>2, <2>3, <2>4, PushAssumption DEF HookBecomes
    <2>15. k.arg # None => ~button.busy /\ \A j \in calls : ~OfAlert(j)
      BY <1>0, <2>14 DEF OneAlert
    <2>16. \A j \in calls' : OfAlert(j) => \/ j \in calls /\ k.arg = None
                                           \/ j \in alerts /\ k.arg # None
      BY <2>5, <2>8, <2>13, <2>15 DEF OfAlert
    <2>17. OneAlert'
      <3>1. \A i, j \in calls' : OfAlert(i) /\ OfAlert(j) => i = j
        BY <1>0, <2>6, <2>16 DEF OneAlert
      <3>2. (\E j \in calls' : OfAlert(j)) => button'.busy
        BY <1>0, <2>11, <2>16 DEF OneAlert
      <3>3. hook'[widget].busy # None => ~button'.busy
        <4>. SUFFICES ASSUME hook'[widget].busy # None PROVE ~button'.busy
          OBVIOUS
        <4>1. hook[widget].busy # None /\ k.arg = None
          BY <2>14
        <4>. QED  BY <1>0, <2>11, <4>1 DEF OneAlert
      <3>. QED  BY <2>12, <3>1, <3>2, <3>3 DEF OneAlert
    <2>18. AlertsKept'
      <3>1. ASSUME astray' \cap {"alert", "cancel", "alerts", "gone"} = {}
            PROVE  /\ (\A j \in calls' : ~OfAlert(j)) => Holds(button'.shows)
                   /\ \A j \in calls' : HeldBy(j)
                   /\ hook'[widget].then # None => Holds(None)
        <4>1. astray \cap {"alert", "cancel", "alerts", "gone"} = {}
          BY <2>12, <3>1
        <4>2. /\ (\A j \in calls : ~OfAlert(j)) => Holds(button.shows)
              /\ \A j \in calls : HeldBy(j)
              /\ hook[widget].then # None => Holds(None)
          BY <1>0, <4>1, AlertsHeld
        <4>3. ASSUME \A j \in calls' : ~OfAlert(j) PROVE Holds(button'.shows)
          <5>1. k.arg = None
            BY <2>5, <2>7, <2>9, <2>12, <4>3 DEF OfAlert
          <5>2. ~OfAlert(k)
            BY <1>1 DEF OfAlert
          <5>3. \A j \in calls : ~OfAlert(j)
            BY <2>12, <4>3, <5>2
          <5>. QED  BY <2>11, <4>2, <5>3
        <4>4. \A r \in next : HeldBy(r)
          <5>. SUFFICES ASSUME NEW r \in next PROVE HeldBy(r)
            OBVIOUS
          <5>1. CASE r \in alerts
            BY <2>5, <2>14, <4>2, <5>1 DEF HeldBy
          <5>2. CASE r \notin alerts
            BY <2>8, <5>2 DEF HeldBy
          <5>. QED  BY <5>1, <5>2
        <4>5. \A j \in calls' : HeldBy(j)
          BY <2>13, <4>2, <4>4
        <4>6. hook'[widget].then # None => Holds(None)
          BY <2>14, <4>2
        <4>. QED  BY <4>3, <4>5, <4>6
      <3>. QED  BY <2>12, <3>1, AlertsNext
    <2>19. Knows(h)'
      <3>. SUFFICES ASSUME doneBy \subseteq {h},
                           astray' \cap {"post", "leave", "mounting", "gone"}
                             = {}
                    PROVE  Knows(h)'
        BY <1>1 DEF Knows
      <3>1. /\ Knows(h)
            /\ astray \cap {"post", "leave", "mounting", "gone"} = {}
        BY <1>0, <2>12 DEF AllKnow
      <3>2. k.saw = device.endpoint /\ k.saw # None /\ k.saw \in stored.rows
        BY <1>1, <1>3, <2>2, <3>1, PushAssumption DEF Knows
      <3>3. \A j \in calls' : j.what \in {"list", "post", "leave"}
                                => j \in calls
        BY <2>8, <2>13
      <3>4. \A j \in calls' : ~(j.what = "leave" /\ j.of = h)
        BY <3>1, <3>2, <3>3 DEF Knows
      <3>5. \A j \in calls' : j.what \in {"list", "post"} /\ j.of = h =>
              /\ j.saw = device.endpoint
              /\ j.what = "post" /\ j.state = "ok" => j.saw \in stored.rows
              /\ j.what = "list" /\ j.state = "ok" /\ j.got = "found"
                   => j.saw \in stored.rows
        BY <3>1, <3>3 DEF Knows
      <3>6. hook'[h].on = TRUE /\ hook'[h].sub = k.saw
        BY <2>3 DEF HookBecomes
      <3>. HIDE DEF h
      <3>. QED  BY <1>1, <2>12, <3>2, <3>4, <3>5, <3>6 DEF Knows
    <2>20. AllKnow'
      BY <2>12, <2>19 DEF AllKnow
    <2>. QED  BY <2>12, <2>17, <2>18, <2>20 DEF PushForms, PushTruth
  <1>. QED  BY <1>2, <1>3

LEMMA LeaveDone ==
    ASSUME PushForms, PushTruth, NEW k \in calls, LeaveAnswered(k)
    PROVE  PushForms' /\ PushTruth'
  <1>. DEFINE h == k.of
  <1>0. /\ PushShape /\ HookShape /\ PushCall(k) /\ OneAlert /\ AllKnow
        /\ AlertsKept /\ OneTold /\ h \in Hooked /\ h \in Widgets
        /\ ButtonShape /\ widget \in Widgets /\ PushCalls
    BY HookedAre DEF PushForms, PushTruth, PushShape, PushCalls, PushCall
  <1>1. k.what = "leave" /\ GoesOn(k, {}) /\ UNCHANGED <<device, button, doneBy>>
    BY DEF LeaveAnswered
  <1>2. CASE k.state # "ok"
    BY <1>1, <1>2, HookFailed DEF LeaveAnswered
  <1>3. CASE k.state = "ok"
    <2>1. hook' = [Stops(h) EXCEPT ![h].on = FALSE, ![h].sub = None]
      BY <1>3 DEF LeaveAnswered
    <2>2. HookBecomes(h, FALSE, None, None, None)
      BY <1>0, <2>1, HookEnds DEF HookShape
    <2>3. \A j \in calls : j # k => ~Tells(j, h)
      BY <1>0, <1>1 DEF OneTold, Tells
    <2>4. ButtonShape' /\ Released(k, None, None)
      BY <1>0, <1>1, <2>3 DEF ButtonShape, GoesOn, Released
    <2>5. /\ PushShape' /\ PushCalls' /\ OneTold' /\ OnePreference'
          /\ PreferenceKept'
          /\ \A g \in Hooked : g # h => Knows(g)'
          /\ stored' = stored /\ widget' = widget
          /\ astray \subseteq astray'
          /\ calls' = calls \ {k}
          /\ Hooked' = Hooked
      <3>1. AnswerTold(k, {})
        BY <1>1, <2>4 DEF AnswerTold
      <3>2. Settled(k, {})
        BY <2>2, <2>4, <3>1, HookAnswered
      <3>. QED  BY <3>2 DEF Settled
    <2>6. hook'[widget].then \in {None, hook[widget].then}
            /\ (hook'[widget].busy # None => hook[widget].busy # None)
      BY <1>0, <2>2 DEF HookBecomes
    <2>7. OneAlert'
      BY <1>0, <1>1, <2>5, <2>6 DEF OneAlert
    <2>8. AlertsKept'
      <3>1. GoOn({"alert", "cancel", "prefer"}) /\ ReadsGoOn({"alerts"})
        <4>1. k.what \notin {"alert", "cancel", "prefer"}
          BY <1>1
        <4>. QED  BY <2>5, <4>1 DEF GoOn, ReadsGoOn, Continues
      <3>. QED  BY <1>0, <1>1, <2>5, <2>6, <3>1, AlertsBeside
    <2>9. Knows(h)'
      <3>. SUFFICES ASSUME doneBy \subseteq {h},
                           astray' \cap {"post", "leave", "mounting", "gone"}
                             = {}
                    PROVE  Knows(h)'
        BY <1>1 DEF Knows
      <3>1. /\ Knows(h)
            /\ astray \cap {"post", "leave", "mounting", "gone"} = {}
        BY <1>0, <2>5 DEF AllKnow
      <3>2. device.endpoint = None
        BY <1>1, <3>1 DEF Knows
      <3>3. \A j \in calls' : ~(j.what \in {"list", "post"} /\ j.of = h)
        <4>1. ASSUME NEW j \in calls, j.what \in {"list", "post"}, j.of = h
              PROVE  FALSE
          <5>1. j.saw = None
            BY <3>1, <3>2, <4>1 DEF Knows
          <5>2. j.saw \in Endpoints
            BY <1>0, <4>1 DEF PushCalls, PushCall
          <5>. QED  BY <5>1, <5>2, PushAssumption
        <4>. QED  BY <2>5, <4>1
      <3>4. \A j \in calls' : ~(j.what = "leave" /\ j.of = h)
        BY <2>3, <2>5 DEF Tells
      <3>5. hook'[h].on = FALSE /\ hook'[h].sub = None
        BY <2>2 DEF HookBecomes
      <3>. HIDE DEF h
      <3>. QED  BY <1>1, <3>2, <3>3, <3>4, <3>5 DEF Knows
    <2>10. AllKnow'
      BY <2>5, <2>9 DEF AllKnow
    <2>. QED  BY <2>5, <2>7, <2>8, <2>10 DEF PushForms, PushTruth
  <1>. QED  BY <1>2, <1>3

LEMMA PushStep ==
    ASSUME page = "push", page' = page, PushInv,
           [PushNext]_<<browserVars, fetchVars, pushVars>>
    PROVE  PushInv'
  <1>0. PushForms /\ PushTruth
    BY DEF PushInv, PushForms, PushTruth
  <1>. SUFFICES PushForms' /\ PushTruth'
    BY DEF PushInv, PushForms, PushTruth
  <1>1. CASE HandleDismiss \/ Disable \/ UpdatePreference
    BY <1>0, <1>1, BannerDismissed, Disabled, PreferenceAsked
  <1>2. CASE HandleSubscribe \/ HandleUnsubscribe \/ RemoveSubscription
    BY <1>0, <1>2, AlertSubscribed, AlertCancelled, SubscriptionGone
  <1>3. ASSUME NEW h \in Hooked,
               Enable(h) \/ RequestPermission(h) \/ Subscribe(h)
        PROVE  PushForms' /\ PushTruth'
    BY <1>0, <1>3, Enabling, Prompted, BrowserSubscribed
  <1>4. ASSUME NEW k \in calls, PushServes(k) PROVE PushForms' /\ PushTruth'
    BY <1>0, <1>4, PushServed
  <1>5. ASSUME NEW k \in calls, Troubles(k), UNCHANGED pushVars
        PROVE  PushForms' /\ PushTruth'
    BY <1>0, <1>5, PushTroubled
  <1>6. ASSUME NEW k \in calls, PushAnswered(k) PROVE PushForms' /\ PushTruth'
    <2>1. CASE \/ SubscriptionsAnswered(k) \/ RowAnswered(k)
               \/ LeaveAnswered(k) \/ AlertAnswered(k)
      BY <1>0, <2>1, SubscriptionsRead, RowDone, LeaveDone, AlertDone
    <2>2. CASE \/ PreferAnswered(k) \/ CancelAnswered(k)
               \/ AlertsAnswered(k) \/ PrefsAnswered(k)
      BY <1>0, <2>2, PreferDone, CancelDone, ListOfAlertsAnswered,
         PreferenceAnswered
    <2>. QED  BY <1>6, <2>1, <2>2 DEF PushAnswered
  <1>7. CASE UNCHANGED <<browserVars, fetchVars, pushVars>>
    BY <1>0, <1>7, PushUntouched DEF fetchVars, pushVars
  <1>. QED  BY <1>1, <1>2, <1>3, <1>4, <1>5, <1>6, <1>7 DEF PushNext

(* What the page promises of the hooks, the button and the switch follows. *)
LEMMA PushPromises == PushInv => PushInStep
  <1>. SUFFICES ASSUME PushInv, page = "push"
                PROVE  HookIsBrowser /\ AlertShownIsStored
                         /\ PreferenceShownIsStored
    BY DEF PushInStep
  <1>0. /\ PushShape /\ HookShape /\ PushCalls /\ AllKnow /\ AlertsKept
        /\ PreferenceKept
    BY DEF PushInv, PushShape
  <1>1. HookIsBrowser
    <2>. SUFFICES ASSUME NEW h \in Hooked, hook[h].busy = None,
                         doneBy \subseteq {h},
                         astray \cap {"post", "leave", "mounting", "gone"}
                           = {},
                         \A k \in calls : ~(k.what = "list" /\ k.of = h)
                  PROVE  /\ hook[h].on = (device.endpoint # None)
                         /\ hook[h].sub \in {None, device.endpoint}
                         /\ hook[h].sub # None => hook[h].sub \in stored.rows
      BY DEF HookIsBrowser
    <2>1. Knows(h) /\ hook[h].on \in BOOLEAN
      BY <1>0, HookedAre DEF AllKnow, HookShape, HookType
    <2>2. \A k \in calls : ~(k.what \in {"post", "leave"} /\ k.of = h)
      BY <1>0, PushAssumption DEF PushCalls, PushCall
    <2>3. hook[h].on <=> device.endpoint # None
      BY <2>1, <2>2 DEF Knows
    <2>4. /\ hook[h].sub \in {None, device.endpoint}
          /\ hook[h].sub # None => hook[h].sub \in stored.rows
      BY <2>1, <2>2 DEF Knows
    <2>. QED  BY <2>1, <2>3, <2>4
  <1>2. AlertShownIsStored
    <2>. SUFFICES ASSUME calls = {},
                         astray \cap {"alert", "cancel", "alerts", "gone"}
                           = {}
                  PROVE  button.shows = Preferred(stored.alerts)
      BY DEF AlertShownIsStored
    <2>1. Holds(button.shows)
      BY <1>0, AlertsHeld
    <2>2. Holds(Preferred(stored.alerts))
      BY <1>0, <2>1, PreferredHeld
    <2>. QED  BY <2>1, <2>2 DEF Holds
  <1>3. PreferenceShownIsStored
    BY <1>0 DEF PreferenceShownIsStored, PreferenceKept
  <1>. QED  BY <1>1, <1>2, <1>3

-----------------------------------------------------------------------------
(* The comments of a guide: what the page, its requests and the API are.   *)
CommentCall(k) ==
    /\ IsRequest(k)
    /\ k.what \in {"post", "edit", "delete", "vote", "report"}
    /\ k.what # "post" => k.of \in AllComments
    /\ k.what = "vote" => /\ k.arg \in Votes \cup {None}
                          /\ k.saw.vote \in Votes \cup {None}
    /\ k.saw.items \subseteq AllComments /\ k.saw.total \in Int
    /\ k.state = "ok" => /\ k.what = "post" => k.got \in Fresh
                         /\ k.what = "vote" => k.got = k.arg

CommentsShape ==
    /\ api = [made |-> api.made, kept |-> api.kept, voted |-> api.voted]
    /\ list = [items |-> list.items, total |-> list.total]
    /\ buttons = [vote |-> buttons.vote, waiting |-> buttons.waiting]
    /\ ui = [posting |-> ui.posting, asked |-> ui.asked,
             editing |-> ui.editing, report |-> ui.report,
             reporting |-> ui.reporting]
    /\ fetched \in [AllComments -> Votes \cup {None}]
    /\ \A c \in Fresh : api.voted[c] = None /\ fetched[c] = None

CommentsTyped == /\ CommentsTypeOK /\ CommentsShape
                 /\ page = "comments" => \A k \in calls : CommentCall(k)

(* One change of the list is out, made of the list that is shown; what is  *)
(* stored is that list without what it deleted and with what it posted.    *)
IsDone(k, what) == k.what = what /\ k.state = "ok"

ListInv ==
    /\ \A j, k \in calls : j.what \in Writes /\ k.what \in Writes => j = k
    /\ \A k \in calls : k.what \in Writes =>
          k.saw.items = list.items /\ k.saw.total = list.total
    /\ \A k \in calls : k.what = "delete" => k.of \in list.items
    /\ \A k \in calls : IsDone(k, "post") => k.got \in api.kept \ list.items
    /\ \A k \in calls : IsDone(k, "delete") => k.of \notin api.kept
    /\ list.items \subseteq api.made
    /\ list.total = Cardinality(list.items)
    /\ doubt = {} =>
          \A c \in AllComments : c \in api.kept <=>
             \/ c \in list.items
                  /\ \A k \in calls : IsDone(k, "delete") => k.of # c
             \/ \E k \in calls : IsDone(k, "post") /\ k.got = c

(* A comment has a vote on its way when its buttons wait.                  *)
VoteOut(k, c) == k.what = "vote" /\ k.of = c

VoteInv ==
    /\ buttons.waiting \subseteq list.items
    /\ \A k \in calls : k.what = "vote" =>
          k.of \in api.made /\ (k.of \in list.items \/ k.of \notin api.kept)
    /\ \A c \in list.items \ buttons.waiting : \A k \in calls : ~VoteOut(k, c)
    /\ \A c \in list.items : \A j, k \in calls :
          VoteOut(j, c) /\ VoteOut(k, c) => j = k
    /\ \A c \in (list.items \cap api.kept) \ doubt : \A k \in calls :
          VoteOut(k, c) =>
            api.voted[c] = IF k.state = "ok" THEN k.got ELSE k.saw.vote
    /\ \A c \in (list.items \cap api.kept) \ (buttons.waiting \cup doubt) :
          buttons.vote[c] = api.voted[c]

CommentsInv ==
    /\ CommentsTyped
    /\ page # "comments" => /\ list.items = api.kept
                            /\ list.total = Cardinality(api.kept)
    /\ page = "comments" /\ ~raced => ListInv /\ VoteInv

-----------------------------------------------------------------------------
LEMMA CommentsStart ==
    ASSUME NEW votes \in [First -> Votes \cup {None}], CommentsInit(votes),
           page = "comments" => calls = {}
    PROVE  CommentsInv
  <1>1. fetched \in [AllComments -> Votes \cup {None}]
          /\ \A c \in Fresh : fetched[c] = None
    BY CommentsAssumption DEF CommentsInit, AllComments
  <1>2. IsFiniteSet(First) /\ Cardinality(First) \in Nat
    BY CommentsAssumption, FS_CardinalityType
  <1>3. CommentsTypeOK
    BY <1>1, <1>2 DEF CommentsInit, CommentsTypeOK, AllComments
  <1>4. CommentsShape
    BY <1>1 DEF CommentsInit, CommentsShape
  <1>5. CommentsTyped
    BY <1>3, <1>4 DEF CommentsTyped
  <1>6. /\ list.items = First /\ api.kept = First /\ api.made = First
        /\ list.total = Cardinality(First)
        /\ buttons.vote = api.voted /\ buttons.waiting = {}
    BY DEF CommentsInit
  <1>7. ASSUME page = "comments" PROVE ListInv /\ VoteInv
    BY <1>6, <1>7 DEF ListInv, VoteInv, AllComments
  <1>. QED  BY <1>5, <1>6, <1>7 DEF CommentsInv

(* A request that only adds itself to what is out.                         *)
LEMMA CommentSent ==
    ASSUME page = "comments", page' = page, CommentsInv,
           NEW what \in {"post", "edit", "delete", "report"}, NEW c, NEW arg,
           Calls(what, c, arg),
           what # "post" => c \in AllComments,
           what = "delete" => c \in list.items,
           buttons' = buttons, CommentsTypeOK', CommentsShape'
    PROVE  CommentsInv'
  <1>. DEFINE saw == [items |-> list.items, total |-> list.total,
                      vote |-> IF what = "vote" THEN buttons.vote[c] ELSE None]
              r == Request(what, c, arg, saw)
  <1>0. /\ CommentsTypeOK /\ CommentsShape
        /\ \A k \in calls : CommentCall(k)
        /\ ~raced => ListInv /\ VoteInv
    BY DEF CommentsInv, CommentsTyped
  <1>1. /\ calls' = calls \cup {r} /\ UNCHANGED <<lost, doubt>>
        /\ raced' = (raced \/ (what \in Writes
                                 /\ \E k \in calls : k.what \in Writes))
        /\ UNCHANGED <<api, list, fetched>>
    BY DEF Calls, Send
  <1>2. saw.items = list.items /\ saw.total = list.total
    OBVIOUS
  <1>. HIDE DEF saw
  <1>3. /\ IsRequest(r) /\ r.what = what /\ r.of = c /\ r.saw = saw
        /\ r.state = "sent"
    BY NewRequest
  <1>. HIDE DEF r
  <1>4. \A k \in calls' : k = r \/ k \in calls
    BY <1>1
  <1>5. CommentCall(r)
    BY <1>0, <1>2, <1>3 DEF CommentCall, CommentsTypeOK
  <1>6. CommentsTyped'
    BY <1>0, <1>4, <1>5 DEF CommentsTyped, CommentCall
  <1>7. ASSUME ~raced' PROVE ListInv' /\ VoteInv'
    <2>0. ListInv /\ VoteInv
      BY <1>0, <1>1, <1>7
    <2>1. ListInv'
      <3>1. \A j, k \in calls' : j.what \in Writes /\ k.what \in Writes => j = k
        BY <1>1, <1>3, <1>4, <1>7, <2>0 DEF ListInv
      <3>2. /\ \A k \in calls' : k.what \in Writes =>
                 k.saw.items = list.items /\ k.saw.total = list.total
            /\ \A k \in calls' : k.what = "delete" => k.of \in list.items
            /\ \A k \in calls' : IsDone(k, "post")
                 => k.got \in api.kept \ list.items
            /\ \A k \in calls' : IsDone(k, "delete") => k.of \notin api.kept
        BY <1>2, <1>3, <1>4, <2>0 DEF ListInv, IsDone
      <3>3. /\ \A k \in calls : k \in calls'
            /\ ~IsDone(r, "delete") /\ ~IsDone(r, "post")
        BY <1>1, <1>3 DEF IsDone
      <3>4. ASSUME doubt = {}
            PROVE  \A d \in AllComments : d \in api.kept <=>
             \/ d \in list.items
                  /\ \A k \in calls' : IsDone(k, "delete") => k.of # d
             \/ \E k \in calls' : IsDone(k, "post") /\ k.got = d
        BY <1>4, <2>0, <3>3, <3>4 DEF ListInv
      <3>. QED  BY <1>1, <2>0, <3>1, <3>2, <3>4 DEF ListInv, IsDone
    <2>2. VoteInv'
      <3>1. \A k \in calls' : \A d : VoteOut(k, d) => k \in calls
        BY <1>3, <1>4 DEF VoteOut
      <3>2. \A k \in calls' : k.what = "vote" => k \in calls
        BY <1>3, <1>4
      <3>. QED  BY <1>1, <2>0, <3>1, <3>2 DEF VoteInv, VoteOut
    <2>. QED  BY <2>1, <2>2
  <1>. QED  BY <1>6, <1>7 DEF CommentsInv

(* A vote: optimistic, and of a comment whose buttons wait for nothing.    *)
LEMMA VoteSent ==
    ASSUME page = "comments", page' = page, CommentsInv,
           NEW c \in list.items, NEW v \in Votes, VoteComment(c, v)
    PROVE  CommentsInv'
  <1>. DEFINE saw == [items |-> list.items, total |-> list.total,
                      vote |-> buttons.vote[c]]
              arg == IF fetched[c] = v THEN None ELSE v
              r == Request("vote", c, arg, saw)
              next == IF buttons.vote[c] = v THEN None ELSE v
  <1>0. /\ CommentsTypeOK /\ CommentsShape
        /\ \A k \in calls : CommentCall(k)
        /\ ~raced => ListInv /\ VoteInv
    BY DEF CommentsInv, CommentsTyped
  <1>1. /\ calls' = calls \cup {r} /\ UNCHANGED <<lost, doubt>>
        /\ raced' <=> raced
        /\ UNCHANGED <<api, list, fetched, ui>>
        /\ c \notin buttons.waiting
        /\ buttons' = [vote |-> [buttons.vote EXCEPT ![c] = next],
                       waiting |-> buttons.waiting \cup {c}]
    <2>1. "vote" \notin Writes
      BY DEF Writes
    <2>. QED  BY <2>1 DEF VoteComment, Calls, Send
  <1>2. /\ saw.items = list.items /\ saw.total = list.total
        /\ saw.vote = buttons.vote[c]
        /\ arg \in Votes \cup {None} /\ next \in Votes \cup {None}
    OBVIOUS
  <1>. HIDE DEF saw, arg, next
  <1>3. /\ IsRequest(r) /\ r.what = "vote" /\ r.of = c /\ r.saw = saw
        /\ r.state = "sent" /\ r.arg = arg
    BY NewRequest
  <1>. HIDE DEF r
  <1>4. \A k \in calls' : k = r \/ k \in calls
    BY <1>1
  <1>5. CommentCall(r) /\ c \in AllComments
    BY <1>0, <1>2, <1>3 DEF CommentCall, CommentsTypeOK
  <1>6. /\ buttons'.vote \in [AllComments -> Votes \cup {None}]
        /\ buttons'.waiting = buttons.waiting \cup {c}
        /\ \A d \in AllComments \ {c} : buttons'.vote[d] = buttons.vote[d]
        /\ buttons' = [vote |-> buttons'.vote, waiting |-> buttons'.waiting]
    BY <1>0, <1>1, <1>2, <1>5 DEF CommentsTypeOK
  <1>7. CommentsTyped'
    <2>1. CommentsTypeOK' /\ CommentsShape'
      BY <1>0, <1>1, <1>5, <1>6 DEF CommentsTypeOK, CommentsShape
    <2>. QED  BY <1>0, <1>4, <1>5, <2>1 DEF CommentsTyped, CommentCall
  <1>8. ASSUME ~raced' PROVE ListInv' /\ VoteInv'
    <2>0. ListInv /\ VoteInv
      BY <1>0, <1>1, <1>8
    <2>1. ListInv'
      <3>1. /\ \A k \in calls' : k.what \in Writes => k \in calls
            /\ \A k \in calls : k \in calls'
            /\ ~IsDone(r, "post") /\ ~IsDone(r, "delete")
        BY <1>1, <1>3, <1>4 DEF Writes, IsDone
      <3>2. \A k \in calls' : /\ IsDone(k, "post") => k \in calls
                              /\ IsDone(k, "delete") => k \in calls
                              /\ k.what = "delete" => k \in calls
        BY <1>3, <1>4, <3>1 DEF IsDone
      <3>3. ASSUME doubt = {}
            PROVE  \A d \in AllComments : d \in api.kept <=>
             \/ d \in list.items
                  /\ \A k \in calls' : IsDone(k, "delete") => k.of # d
             \/ \E k \in calls' : IsDone(k, "post") /\ k.got = d
        BY <2>0, <3>1, <3>2, <3>3 DEF ListInv
      <3>. QED  BY <1>1, <2>0, <3>1, <3>2, <3>3 DEF ListInv, IsDone
    <2>2. VoteInv'
      <3>1. /\ \A k \in calls : ~VoteOut(k, c)
            /\ VoteOut(r, c)
            /\ \A d : VoteOut(r, d) => d = c
        BY <1>1, <1>3, <2>0 DEF VoteInv, VoteOut
      <3>2. /\ list.items \subseteq api.made
            /\ list.items \subseteq AllComments
        BY <1>0, <2>0 DEF ListInv, CommentsTypeOK
      <3>3. /\ buttons'.waiting \subseteq list.items
            /\ \A k \in calls' : k.what = "vote" =>
                 k.of \in api.made /\ (k.of \in list.items \/ k.of \notin api.kept)
        BY <1>3, <1>4, <1>6, <2>0, <3>2 DEF VoteInv
      <3>4. \A d \in list.items \ buttons'.waiting :
              \A k \in calls' : ~VoteOut(k, d)
        BY <1>4, <1>6, <2>0, <3>1 DEF VoteInv
      <3>5. \A d \in list.items : \A j, k \in calls' :
              VoteOut(j, d) /\ VoteOut(k, d) => j = k
        BY <1>4, <2>0, <3>1 DEF VoteInv
      <3>6. \A d \in (list.items \cap api.kept) \ doubt : \A k \in calls' :
              VoteOut(k, d) =>
                api.voted[d] = IF k.state = "ok" THEN k.got ELSE k.saw.vote
        BY <1>1, <1>2, <1>3, <1>4, <2>0, <3>1 DEF VoteInv
      <3>7. \A d \in (list.items \cap api.kept) \ (buttons'.waiting \cup doubt) :
              buttons'.vote[d] = api.voted[d]
        BY <1>6, <2>0, <3>2 DEF VoteInv
      <3>. QED  BY <1>1, <3>3, <3>4, <3>5, <3>6, <3>7 DEF VoteInv
    <2>. QED  BY <2>1, <2>2
  <1>. QED  BY <1>7, <1>8 DEF CommentsInv

(* Nothing but a dialog of the page moves.                                 *)
LEMMA CommentsKeep ==
    ASSUME page' = page, CommentsInv,
           UNCHANGED <<api, list, fetched, buttons, fetchVars>>,
           raced' <=> raced, CommentsTypeOK', CommentsShape'
    PROVE  CommentsInv'
  <1>1. UNCHANGED <<calls, doubt>>
    BY DEF fetchVars
  <1>2. CommentsTyped'
    BY <1>1 DEF CommentsInv, CommentsTyped, CommentCall
  <1>3. ASSUME page = "comments", ~raced PROVE ListInv' /\ VoteInv'
    <2>1. ListInv /\ VoteInv
      BY <1>3 DEF CommentsInv
    <2>. QED  BY <1>1, <2>1 DEF ListInv, VoteInv
  <1>. QED  BY <1>2, <1>3 DEF CommentsInv

LEMMA DialogsKeep ==
    ASSUME page = "comments", CommentsInv, Dialogs
    PROVE  CommentsInv'
  <1>1. /\ page' = page /\ raced' = raced
        /\ UNCHANGED <<api, list, fetched, buttons, fetchVars>>
    BY DEF Dialogs, Click
  <1>2. PICK c \in list.items :
          \/ ui.asked = None /\ ui' = [ui EXCEPT !.asked = c]
          \/ ui.editing # c /\ ui' = [ui EXCEPT !.editing = c]
          \/ ui.report = None /\ ui' = [ui EXCEPT !.report = c]
          \/ ui.report = c /\ ~ui.reporting /\ ui' = [ui EXCEPT !.report = None]
    BY DEF Dialogs
  <1>3. CommentsTypeOK /\ CommentsShape
    BY DEF CommentsInv, CommentsTyped
  <1>4. c \in AllComments
    BY <1>3 DEF CommentsTypeOK
  <1>5. /\ ui'.posting = ui.posting /\ ui'.reporting = ui.reporting
        /\ {ui'.asked, ui'.editing, ui'.report} \subseteq AllComments \cup {None}
        /\ ui' = [posting |-> ui'.posting, asked |-> ui'.asked,
                  editing |-> ui'.editing, report |-> ui'.report,
                  reporting |-> ui'.reporting]
    BY <1>2, <1>3, <1>4 DEF CommentsShape, CommentsTypeOK
  <1>6. CommentsTypeOK' /\ CommentsShape'
    BY <1>1, <1>3, <1>5 DEF CommentsTypeOK, CommentsShape
  <1>. QED  BY <1>1, <1>6, CommentsKeep

(* A request that comes to another point of its life and changed nothing   *)
(* that is stored: refused, tried again, or an edit that is done.          *)
LEMMA CommentReplaced ==
    ASSUME page = "comments", page' = page, CommentsInv,
           NEW k \in calls, NEW n, Same(k, n),
           \/ n.state \in {"sent", "refused"}
           \/ n.state = "ok" /\ k.what \in {"edit", "report"},
           calls' = (calls \ {k}) \cup {n},
           UNCHANGED <<api, list, fetched, buttons, ui>>, raced' <=> raced,
           doubt \subseteq doubt',
           k.state = "sent" \/ k.of \in doubt',
           doubt' = {} => k.state = "sent"
    PROVE  CommentsInv'
  <1>0. /\ CommentsTypeOK /\ CommentsShape
        /\ \A j \in calls : CommentCall(j)
        /\ ~raced => ListInv /\ VoteInv
    BY DEF CommentsInv, CommentsTyped
  <1>1. /\ n.what = k.what /\ n.of = k.of /\ n.saw = k.saw /\ n.arg = k.arg
        /\ IsRequest(n)
        /\ \A j \in calls' : j = n \/ (j \in calls /\ j # k)
        /\ \A j \in calls : j = k \/ j \in calls'
        /\ ~IsDone(n, "post") /\ ~IsDone(n, "delete")
    BY DEF Same, IsDone
  <1>2. CommentCall(n)
    BY <1>0, <1>1 DEF CommentCall
  <1>3. CommentsTyped'
    <2>1. CommentsTypeOK' /\ CommentsShape'
      BY <1>0 DEF CommentsTypeOK, CommentsShape
    <2>2. \A j \in calls' : CommentCall(j)
      BY <1>0, <1>1, <1>2
    <2>. QED  BY <2>1, <2>2 DEF CommentsTyped, CommentCall
  <1>4. ASSUME ~raced' PROVE ListInv' /\ VoteInv'
    <2>0. ListInv /\ VoteInv
      BY <1>0, <1>4
    <2>1. ListInv'
      <3>1. /\ \A i, j \in calls' : i.what \in Writes /\ j.what \in Writes
                 => i = j
            /\ \A j \in calls' : j.what \in Writes =>
                 j.saw.items = list.items /\ j.saw.total = list.total
            /\ \A j \in calls' : j.what = "delete" => j.of \in list.items
        BY <1>1, <2>0 DEF ListInv
      <3>2. \A j \in calls' : /\ IsDone(j, "post") => j \in calls
                              /\ IsDone(j, "delete") => j \in calls
        BY <1>1
      <3>3. ASSUME doubt' = {}
            PROVE  \A d \in AllComments : d \in api.kept <=>
             \/ d \in list.items
                  /\ \A j \in calls' : IsDone(j, "delete") => j.of # d
             \/ \E j \in calls' : IsDone(j, "post") /\ j.got = d
        <4>1. doubt = {} /\ ~IsDone(k, "post") /\ ~IsDone(k, "delete")
          BY <3>3 DEF IsDone
        <4>. QED  BY <1>1, <2>0, <3>2, <4>1 DEF ListInv
      <3>. QED  BY <2>0, <3>1, <3>2, <3>3 DEF ListInv, IsDone
    <2>2. VoteInv'
      <3>1. \A d : VoteOut(n, d) <=> VoteOut(k, d)
        BY <1>1 DEF VoteOut
      <3>2. /\ buttons.waiting \subseteq list.items
            /\ \A j \in calls' : j.what = "vote" =>
                 j.of \in api.made /\ (j.of \in list.items \/ j.of \notin api.kept)
            /\ \A c \in list.items \ buttons.waiting :
                 \A j \in calls' : ~VoteOut(j, c)
        BY <1>1, <2>0, <3>1 DEF VoteInv
      <3>3. \A c \in list.items : \A i, j \in calls' :
              VoteOut(i, c) /\ VoteOut(j, c) => i = j
        BY <1>1, <2>0, <3>1 DEF VoteInv
      <3>4. \A c \in (list.items \cap api.kept) \ doubt' : \A j \in calls' :
              VoteOut(j, c) =>
                api.voted[c] = IF j.state = "ok" THEN j.got ELSE j.saw.vote
        <4>. SUFFICES ASSUME NEW c \in (list.items \cap api.kept) \ doubt',
                             NEW j \in calls', VoteOut(j, c)
                      PROVE  api.voted[c] = IF j.state = "ok" THEN j.got
                                                            ELSE j.saw.vote
          OBVIOUS
        <4>1. c \in (list.items \cap api.kept) \ doubt
          OBVIOUS
        <4>2. CASE j = n
          <5>1. VoteOut(k, c) /\ k.of = c /\ k.what = "vote"
            BY <3>1, <4>2 DEF VoteOut
          <5>2. api.voted[c] = k.saw.vote
            BY <2>0, <4>1, <5>1 DEF VoteInv
          <5>3. n.state # "ok"
            BY <5>1
          <5>. QED  BY <1>1, <4>2, <5>2, <5>3
        <4>3. CASE j \in calls
          BY <2>0, <4>1, <4>3 DEF VoteInv
        <4>. QED  BY <1>1, <4>2, <4>3
      <3>5. \A c \in (list.items \cap api.kept) \ (buttons.waiting \cup doubt') :
              buttons.vote[c] = api.voted[c]
        BY <2>0 DEF VoteInv
      <3>. QED  BY <3>2, <3>3, <3>4, <3>5 DEF VoteInv, VoteOut
    <2>. QED  BY <2>1, <2>2
  <1>. QED  BY <1>3, <1>4 DEF CommentsInv

(* The API posts a comment: stored, and not listed yet.                    *)
LEMMA PostServed ==
    ASSUME page = "comments", page' = page, CommentsInv,
           NEW k \in calls, k.state = "sent", k.what = "post",
           NEW c \in Fresh \ api.made,
           api' = [api EXCEPT !.made = @ \cup {c}, !.kept = @ \cup {c}],
           Serves(k, "ok", c),
           UNCHANGED <<list, fetched, buttons, ui, raced>>
    PROVE  CommentsInv'
  <1>0. /\ CommentsTypeOK /\ CommentsShape
        /\ \A j \in calls : CommentCall(j)
        /\ ~raced => ListInv /\ VoteInv
    BY DEF CommentsInv, CommentsTyped
  <1>1. IsRequest(k)
    BY <1>0 DEF CommentCall
  <1>2. PICK n : /\ Same(k, n) /\ n.state = "ok" /\ n.got = c
                 /\ calls' = (calls \ {k}) \cup {n}
                 /\ lost' = lost /\ doubt' = doubt
    BY <1>1, Served
  <1>3. /\ n.what = "post" /\ n.of = k.of /\ n.saw = k.saw /\ n.arg = k.arg
        /\ IsRequest(n)
        /\ \A j \in calls' : j = n \/ (j \in calls /\ j # k)
        /\ \A j \in calls : j = k \/ j \in calls'
        /\ n \in calls'
    BY <1>2 DEF Same
  <1>4. /\ api'.made = api.made \cup {c} /\ api'.kept = api.kept \cup {c}
        /\ api'.voted = api.voted
        /\ api' = [made |-> api'.made, kept |-> api'.kept,
                   voted |-> api'.voted]
    BY <1>0 DEF CommentsShape
  <1>5. c \in AllComments /\ c \notin api.made /\ c \notin api.kept
    BY <1>0 DEF AllComments, CommentsTypeOK
  <1>6. CommentsTyped'
    <2>1. CommentsTypeOK'
      BY <1>0, <1>4, <1>5 DEF CommentsTypeOK
    <2>2. CommentsShape'
      BY <1>0, <1>4 DEF CommentsShape
    <2>3. CommentCall(n)
      BY <1>0, <1>2, <1>3 DEF CommentCall
    <2>. QED  BY <1>0, <1>3, <2>1, <2>2, <2>3 DEF CommentsTyped, CommentCall
  <1>7. ASSUME ~raced PROVE ListInv' /\ VoteInv'
    <2>0. ListInv /\ VoteInv
      BY <1>0, <1>7
    <2>1. c \notin list.items
      BY <1>5, <2>0 DEF ListInv
    <2>2. \A j \in calls : j.what \in Writes => j = k
      BY <2>0 DEF ListInv, Writes
    <2>3. ListInv'
      <3>1. /\ \A i, j \in calls' : i.what \in Writes /\ j.what \in Writes
                 => i = j
            /\ \A j \in calls' : j.what \in Writes => j = n
            /\ n.saw.items = list.items /\ n.saw.total = list.total
        BY <1>3, <2>0, <2>2 DEF ListInv, Writes
      <3>2. /\ \A j \in calls' : j.what # "delete"
            /\ \A j \in calls' : ~IsDone(j, "delete")
            /\ \A j \in calls' : IsDone(j, "post") => j.got = c
            /\ IsDone(n, "post")
        BY <1>2, <1>3, <3>1 DEF Writes, IsDone
      <3>3. ~IsDone(k, "post") /\ \A j \in calls : ~IsDone(j, "delete")
        BY <2>2 DEF IsDone, Writes
      <3>4. \A j \in calls : ~IsDone(j, "post")
        BY <2>2, <3>3 DEF IsDone, Writes
      <3>5. ASSUME doubt = {}
            PROVE  \A d \in AllComments : d \in api'.kept <=>
             \/ d \in list.items
                  /\ \A j \in calls' : IsDone(j, "delete") => j.of # d
             \/ \E j \in calls' : IsDone(j, "post") /\ j.got = d
        <4>1. \A d \in AllComments : d \in api.kept <=> d \in list.items
          BY <2>0, <3>3, <3>4, <3>5 DEF ListInv
        <4>. QED  BY <1>2, <1>3, <1>4, <3>2, <4>1
      <3>6. /\ \A j \in calls' : j.what \in Writes =>
                 j.saw.items = list.items /\ j.saw.total = list.total
            /\ \A j \in calls' : IsDone(j, "post")
                 => j.got \in api'.kept \ list.items
            /\ list.items \subseteq api'.made
            /\ list.total = Cardinality(list.items)
        BY <1>4, <2>0, <2>1, <3>1, <3>2 DEF ListInv
      <3>. QED  BY <1>2, <3>1, <3>2, <3>5, <3>6 DEF ListInv, IsDone
    <2>4. VoteInv'
      <3>1. \A j \in calls' : \A d : VoteOut(j, d) => j \in calls
        BY <1>3 DEF VoteOut
      <3>2. \A j \in calls' : j.what = "vote" => j \in calls /\ j.of # c
        BY <1>3, <1>5, <2>0 DEF VoteInv
      <3>3. \A d \in list.items : d \in api'.kept => d \in api.kept
        BY <1>4, <2>1
      <3>4. /\ \A j \in calls' : j.what = "vote" =>
                 j.of \in api'.made /\ (j.of \in list.items \/ j.of \notin api'.kept)
            /\ \A d \in list.items \ buttons.waiting :
                 \A j \in calls' : ~VoteOut(j, d)
            /\ \A d \in list.items : \A i, j \in calls' :
                 VoteOut(i, d) /\ VoteOut(j, d) => i = j
        BY <1>4, <2>0, <3>1, <3>2 DEF VoteInv
      <3>5. \A d \in (list.items \cap api'.kept) \ doubt : \A j \in calls' :
              VoteOut(j, d) =>
                api'.voted[d] = IF j.state = "ok" THEN j.got ELSE j.saw.vote
        BY <1>4, <2>0, <3>1, <3>3 DEF VoteInv
      <3>6. \A d \in (list.items \cap api'.kept) \ (buttons.waiting \cup doubt) :
              buttons.vote[d] = api'.voted[d]
        BY <1>4, <2>0, <3>3 DEF VoteInv
      <3>. QED  BY <1>2, <2>0, <3>4, <3>5, <3>6 DEF VoteInv, VoteOut
    <2>. QED  BY <2>3, <2>4
  <1>. QED  BY <1>6, <1>7 DEF CommentsInv

(* It deletes one: no longer stored, and still listed.                     *)
LEMMA DeleteServed ==
    ASSUME page = "comments", page' = page, CommentsInv,
           NEW k \in calls, k.state = "sent", k.what = "delete",
           k.of \in api.kept,
           api' = [api EXCEPT !.kept = @ \ {k.of}],
           Serves(k, "ok", None),
           UNCHANGED <<list, fetched, buttons, ui, raced>>
    PROVE  CommentsInv'
  <1>0. /\ CommentsTypeOK /\ CommentsShape
        /\ \A j \in calls : CommentCall(j)
        /\ ~raced => ListInv /\ VoteInv
    BY DEF CommentsInv, CommentsTyped
  <1>1. IsRequest(k)
    BY <1>0 DEF CommentCall
  <1>2. PICK n : /\ Same(k, n) /\ n.state = "ok" /\ n.got = None
                 /\ calls' = (calls \ {k}) \cup {n}
                 /\ lost' = lost /\ doubt' = doubt
    BY <1>1, Served
  <1>3. /\ n.what = "delete" /\ n.of = k.of /\ n.saw = k.saw /\ n.arg = k.arg
        /\ IsRequest(n)
        /\ \A j \in calls' : j = n \/ (j \in calls /\ j # k)
        /\ \A j \in calls : j = k \/ j \in calls'
        /\ n \in calls'
    BY <1>2 DEF Same
  <1>4. /\ api'.made = api.made /\ api'.kept = api.kept \ {k.of}
        /\ api'.voted = api.voted
        /\ api' = [made |-> api'.made, kept |-> api'.kept,
                   voted |-> api'.voted]
    BY <1>0 DEF CommentsShape
  <1>6. CommentsTyped'
    <2>1. CommentsTypeOK'
      BY <1>0, <1>4 DEF CommentsTypeOK
    <2>2. CommentsShape'
      BY <1>0, <1>4 DEF CommentsShape
    <2>3. CommentCall(n)
      BY <1>0, <1>2, <1>3 DEF CommentCall
    <2>. QED  BY <1>0, <1>3, <2>1, <2>2, <2>3 DEF CommentsTyped, CommentCall
  <1>7. ASSUME ~raced PROVE ListInv' /\ VoteInv'
    <2>0. ListInv /\ VoteInv
      BY <1>0, <1>7
    <2>2. \A j \in calls : j.what \in Writes => j = k
      BY <2>0 DEF ListInv, Writes
    <2>3. ListInv'
      <3>1. /\ \A i, j \in calls' : i.what \in Writes /\ j.what \in Writes
                 => i = j
            /\ \A j \in calls' : j.what \in Writes => j = n
            /\ n.saw.items = list.items /\ n.saw.total = list.total
            /\ n.of \in list.items
        BY <1>3, <2>0, <2>2 DEF ListInv, Writes
      <3>2. /\ \A j \in calls' : j.what = "delete" => j = n
            /\ \A j \in calls' : IsDone(j, "delete") => j = n
            /\ \A j \in calls' : ~IsDone(j, "post")
            /\ IsDone(n, "delete")
        BY <1>2, <1>3, <3>1 DEF Writes, IsDone
      <3>3. /\ \A j \in calls : ~IsDone(j, "delete")
            /\ \A j \in calls : ~IsDone(j, "post")
        BY <2>2 DEF IsDone, Writes
      <3>5. ASSUME doubt = {}
            PROVE  \A d \in AllComments : d \in api'.kept <=>
             \/ d \in list.items
                  /\ \A j \in calls' : IsDone(j, "delete") => j.of # d
             \/ \E j \in calls' : IsDone(j, "post") /\ j.got = d
        <4>1. \A d \in AllComments : d \in api.kept <=> d \in list.items
          BY <2>0, <3>3, <3>5 DEF ListInv
        <4>. QED  BY <1>3, <1>4, <3>2, <4>1
      <3>6. /\ \A j \in calls' : j.what \in Writes =>
                 j.saw.items = list.items /\ j.saw.total = list.total
            /\ \A j \in calls' : j.what = "delete" => j.of \in list.items
            /\ \A j \in calls' : IsDone(j, "delete") => j.of \notin api'.kept
            /\ list.items \subseteq api'.made
            /\ list.total = Cardinality(list.items)
        BY <1>3, <1>4, <2>0, <3>1, <3>2 DEF ListInv
      <3>. QED  BY <1>2, <3>1, <3>2, <3>5, <3>6 DEF ListInv, IsDone
    <2>4. VoteInv'
      <3>1. \A j \in calls' : \A d : VoteOut(j, d) => j \in calls
        BY <1>3 DEF VoteOut
      <3>2. \A j \in calls' : j.what = "vote" => j \in calls
        BY <1>3
      <3>3. \A d : d \in api'.kept => d \in api.kept
        BY <1>4
      <3>4. /\ \A j \in calls' : j.what = "vote" =>
                 j.of \in api'.made /\ (j.of \in list.items \/ j.of \notin api'.kept)
            /\ \A d \in list.items \ buttons.waiting :
                 \A j \in calls' : ~VoteOut(j, d)
            /\ \A d \in list.items : \A i, j \in calls' :
                 VoteOut(i, d) /\ VoteOut(j, d) => i = j
        BY <1>4, <2>0, <3>1, <3>2 DEF VoteInv
      <3>5. \A d \in (list.items \cap api'.kept) \ doubt : \A j \in calls' :
              VoteOut(j, d) =>
                api'.voted[d] = IF j.state = "ok" THEN j.got ELSE j.saw.vote
        BY <1>4, <2>0, <3>1, <3>3 DEF VoteInv
      <3>6. \A d \in (list.items \cap api'.kept) \ (buttons.waiting \cup doubt) :
              buttons.vote[d] = api'.voted[d]
        BY <1>4, <2>0, <3>3 DEF VoteInv
      <3>. QED  BY <1>2, <2>0, <3>4, <3>5, <3>6 DEF VoteInv, VoteOut
    <2>. QED  BY <2>3, <2>4
  <1>. QED  BY <1>6, <1>7 DEF CommentsInv

(* It stores a vote: what the request's own buttons wait for.              *)
LEMMA VoteServed ==
    ASSUME page = "comments", page' = page, CommentsInv,
           NEW k \in calls, k.state = "sent", k.what = "vote",
           k.of \in api.kept \cap First,
           api' = [api EXCEPT !.voted[k.of] = k.arg],
           Serves(k, "ok", k.arg),
           UNCHANGED <<list, fetched, buttons, ui, raced>>
    PROVE  CommentsInv'
  <1>0. /\ CommentsTypeOK /\ CommentsShape
        /\ \A j \in calls : CommentCall(j)
        /\ ~raced => ListInv /\ VoteInv
    BY DEF CommentsInv, CommentsTyped
  <1>1. IsRequest(k) /\ k.arg \in Votes \cup {None}
    BY <1>0 DEF CommentCall
  <1>2. PICK n : /\ Same(k, n) /\ n.state = "ok" /\ n.got = k.arg
                 /\ calls' = (calls \ {k}) \cup {n}
                 /\ lost' = lost /\ doubt' = doubt
    BY <1>1, Served
  <1>3. /\ n.what = "vote" /\ n.of = k.of /\ n.saw = k.saw /\ n.arg = k.arg
        /\ IsRequest(n)
        /\ \A j \in calls' : j = n \/ (j \in calls /\ j # k)
        /\ \A j \in calls : j = k \/ j \in calls'
        /\ n \in calls'
    BY <1>2 DEF Same
  <1>4. PICK w : w = [api.voted EXCEPT ![k.of] = k.arg]
    OBVIOUS
  <1>5. /\ api'.made = api.made /\ api'.kept = api.kept
        /\ api'.voted = w
        /\ api' = [made |-> api'.made, kept |-> api'.kept,
                   voted |-> api'.voted]
    BY <1>0, <1>4 DEF CommentsShape
  <1>6. /\ k.of \in AllComments /\ k.of \notin Fresh
        /\ w \in [AllComments -> Votes \cup {None}]
        /\ w[k.of] = k.arg
        /\ \A c \in AllComments \ {k.of} : w[c] = api.voted[c]
    BY <1>0, <1>1, <1>4, CommentsAssumption DEF CommentsTypeOK, AllComments
  <1>7. CommentsTyped'
    <2>1. CommentsTypeOK'
      BY <1>0, <1>5, <1>6 DEF CommentsTypeOK
    <2>2. \A c \in Fresh : api'.voted[c] = None
      BY <1>0, <1>5, <1>6 DEF CommentsShape, AllComments
    <2>3. CommentsShape'
      BY <1>0, <1>5, <2>2 DEF CommentsShape
    <2>4. CommentCall(n)
      BY <1>0, <1>2, <1>3 DEF CommentCall
    <2>. QED  BY <1>0, <1>3, <2>1, <2>3, <2>4 DEF CommentsTyped, CommentCall
  <1>8. ASSUME ~raced PROVE ListInv' /\ VoteInv'
    <2>0. ListInv /\ VoteInv
      BY <1>0, <1>8
    <2>1. ListInv'
      <3>1. /\ \A j \in calls' : j.what \in Writes => j \in calls
            /\ \A j \in calls' : IsDone(j, "post") => j \in calls
            /\ \A j \in calls' : IsDone(j, "delete") => j \in calls
            /\ \A j \in calls : IsDone(j, "post") => j \in calls'
            /\ \A j \in calls : IsDone(j, "delete") => j \in calls'
            /\ \A j \in calls' : j.what = "delete" => j \in calls
        BY <1>3 DEF Writes, IsDone
      <3>2. ASSUME doubt = {}
            PROVE  \A d \in AllComments : d \in api.kept <=>
             \/ d \in list.items
                  /\ \A j \in calls' : IsDone(j, "delete") => j.of # d
             \/ \E j \in calls' : IsDone(j, "post") /\ j.got = d
        BY <2>0, <3>1, <3>2 DEF ListInv
      <3>. QED  BY <1>2, <1>5, <2>0, <3>1, <3>2 DEF ListInv, IsDone
    <2>2. VoteInv'
      <3>1. \A d : VoteOut(n, d) <=> VoteOut(k, d)
        BY <1>3 DEF VoteOut
      <3>2. list.items \subseteq AllComments
        BY <1>0 DEF CommentsTypeOK
      <3>3. \A j \in calls' : j.what = "vote" =>
              j.of \in api.made /\ (j.of \in list.items \/ j.of \notin api.kept)
        BY <1>3, <2>0 DEF VoteInv
      <3>4. /\ \A d \in list.items \ buttons.waiting :
                 \A j \in calls' : ~VoteOut(j, d)
            /\ \A d \in list.items : \A i, j \in calls' :
                 VoteOut(i, d) /\ VoteOut(j, d) => i = j
        BY <1>3, <2>0, <3>1 DEF VoteInv
      <3>5. \A d \in (list.items \cap api.kept) \ doubt : \A j \in calls' :
              VoteOut(j, d) =>
                w[d] = IF j.state = "ok" THEN j.got ELSE j.saw.vote
        <4>. SUFFICES ASSUME NEW d \in (list.items \cap api.kept) \ doubt,
                             NEW j \in calls', VoteOut(j, d)
                      PROVE  w[d] = IF j.state = "ok" THEN j.got
                                                      ELSE j.saw.vote
          OBVIOUS
        <4>1. CASE d = k.of
          <5>1. j = n
            BY <1>3, <3>4, <4>1 DEF VoteOut
          <5>. QED  BY <1>2, <1>6, <4>1, <5>1
        <4>2. CASE d # k.of
          <5>1. j \in calls
            BY <1>3, <4>2 DEF VoteOut
          <5>2. w[d] = api.voted[d]
            BY <1>6, <3>2, <4>2
          <5>. QED  BY <2>0, <5>1, <5>2 DEF VoteInv
        <4>. QED  BY <4>1, <4>2
      <3>6. \A d \in (list.items \cap api.kept) \ (buttons.waiting \cup doubt) :
              buttons.vote[d] = w[d]
        <4>. SUFFICES ASSUME NEW d \in (list.items \cap api.kept)
                                          \ (buttons.waiting \cup doubt)
                      PROVE  buttons.vote[d] = w[d]
          OBVIOUS
        <4>1. ~VoteOut(k, d)
          BY <2>0 DEF VoteInv
        <4>2. w[d] = api.voted[d]
          BY <1>6, <3>2, <4>1 DEF VoteOut
        <4>. QED  BY <2>0, <4>2 DEF VoteInv
      <3>7. buttons.waiting \subseteq list.items
        BY <2>0 DEF VoteInv
      <3>8. /\ api'.made = api.made /\ api'.kept = api.kept
            /\ api'.voted = w /\ UNCHANGED <<list, buttons, doubt>>
        BY <1>2, <1>5
      <3>9. /\ buttons'.waiting \subseteq list'.items
            /\ \A j \in calls' : j.what = "vote" =>
                  /\ j.of \in api'.made
                  /\ j.of \in list'.items \/ j.of \notin api'.kept
        BY <3>3, <3>7, <3>8
      <3>10. /\ \A d \in list'.items \ buttons'.waiting :
                  \A j \in calls' : ~VoteOut(j, d)
             /\ \A d \in list'.items : \A i, j \in calls' :
                  VoteOut(i, d) /\ VoteOut(j, d) => i = j
        BY <3>4, <3>8
      <3>11. \A d \in (list'.items \cap api'.kept) \ doubt' :
               \A j \in calls' : VoteOut(j, d) =>
                 api'.voted[d] = IF j.state = "ok" THEN j.got ELSE j.saw.vote
        BY <3>5, <3>8
      <3>12. \A d \in (list'.items \cap api'.kept)
                         \ (buttons'.waiting \cup doubt') :
               buttons'.vote[d] = api'.voted[d]
        BY <3>6, <3>8
      <3>. QED  BY <3>9, <3>10, <3>11, <3>12 DEF VoteInv
    <2>. QED  BY <2>1, <2>2
  <1>. QED  BY <1>7, <1>8 DEF CommentsInv

(* The answer of a vote: what the API has, or what was there before.       *)
LEMMA VoteSettles ==
    ASSUME page = "comments", page' = page, CommentsInv,
           NEW k \in calls, Settles(k), VoteAnswered(k),
           UNCHANGED <<api, fetched, raced>>
    PROVE  CommentsInv'
  <1>0. /\ CommentsTypeOK /\ CommentsShape
        /\ \A j \in calls : CommentCall(j)
        /\ ~raced => ListInv /\ VoteInv
    BY DEF CommentsInv, CommentsTyped
  <1>1. /\ calls' = calls \ {k} /\ k.what = "vote" /\ k.state # "sent"
        /\ UNCHANGED <<doubt, list, ui>>
        /\ CommentCall(k)
    BY <1>0 DEF Settles, VoteAnswered
  <1>2. PICK v : v = IF k.state = "ok" THEN k.got ELSE k.saw.vote
    OBVIOUS
  <1>3. v \in Votes \cup {None} /\ k.of \in AllComments
    BY <1>1, <1>2 DEF CommentCall
  <1>4. PICK w : w = [buttons.vote EXCEPT ![k.of] = v]
    OBVIOUS
  <1>5. /\ w \in [AllComments -> Votes \cup {None}] /\ w[k.of] = v
        /\ \A c \in AllComments \ {k.of} : w[c] = buttons.vote[c]
    BY <1>0, <1>3, <1>4 DEF CommentsTypeOK
  <1>6. CASE k.of \in buttons.waiting
    <2>1. buttons' = [buttons EXCEPT !.waiting = @ \ {k.of}, !.vote[k.of] = v]
      BY <1>1, <1>2, <1>6 DEF VoteAnswered
    <2>2. buttons' = [vote |-> w, waiting |-> buttons.waiting \ {k.of}]
      <3>1. [buttons EXCEPT !.waiting = @ \ {k.of}, !.vote[k.of] = v]
              = [[buttons EXCEPT !.waiting = @ \ {k.of}]
                   EXCEPT !.vote[k.of] = v]
        BY Zenon
      <3>2. PICK b : b = [buttons EXCEPT !.waiting = @ \ {k.of}]
        OBVIOUS
      <3>3. b = [vote |-> buttons.vote, waiting |-> buttons.waiting \ {k.of}]
        BY <1>0, <3>2 DEF CommentsShape
      <3>4. PICK b2 : b2 = [b EXCEPT !.vote[k.of] = v]
        OBVIOUS
      <3>5. b2 = [vote |-> w, waiting |-> buttons.waiting \ {k.of}]
        BY <1>4, <3>3, <3>4
      <3>. QED  BY <2>1, <3>1, <3>2, <3>4, <3>5
    <2>3. /\ buttons'.vote = w /\ buttons'.waiting = buttons.waiting \ {k.of}
          /\ buttons' = [vote |-> buttons'.vote, waiting |-> buttons'.waiting]
      BY <2>2
    <2>4. CommentsTyped'
      <3>1. CommentsTypeOK' /\ CommentsShape'
        BY <1>0, <1>1, <1>5, <2>3 DEF CommentsTypeOK, CommentsShape
      <3>. QED  BY <1>0, <1>1, <3>1 DEF CommentsTyped, CommentCall
    <2>5. ASSUME ~raced PROVE ListInv' /\ VoteInv'
      <3>0. ListInv /\ VoteInv
        BY <1>0, <2>5
      <3>1. ListInv'
        <4>1. /\ \A j \in calls : j.what \in Writes => j \in calls'
              /\ \A j \in calls : IsDone(j, "post") => j \in calls'
              /\ \A j \in calls : IsDone(j, "delete") => j \in calls'
              /\ calls' \subseteq calls
          BY <1>1 DEF Writes, IsDone
        <4>2. ASSUME doubt = {}
              PROVE  \A d \in AllComments : d \in api.kept <=>
               \/ d \in list.items
                    /\ \A j \in calls' : IsDone(j, "delete") => j.of # d
               \/ \E j \in calls' : IsDone(j, "post") /\ j.got = d
          BY <3>0, <4>1, <4>2 DEF ListInv
        <4>. QED  BY <1>1, <3>0, <4>1, <4>2 DEF ListInv, IsDone
      <3>2. VoteInv'
        <4>1. VoteOut(k, k.of) /\ k.of \in list.items
          BY <1>1, <1>6, <3>0 DEF VoteInv, VoteOut
        <4>2. /\ buttons'.waiting \subseteq list.items
              /\ \A j \in calls' : j.what = "vote" =>
                   j.of \in api.made /\ (j.of \in list.items \/ j.of \notin api.kept)
              /\ \A d \in list.items : \A i, j \in calls' :
                   VoteOut(i, d) /\ VoteOut(j, d) => i = j
              /\ \A d \in (list.items \cap api.kept) \ doubt : \A j \in calls' :
                  VoteOut(j, d) =>
                    api.voted[d] = IF j.state = "ok" THEN j.got ELSE j.saw.vote
          BY <1>1, <2>3, <3>0 DEF VoteInv
        <4>3. \A d \in list.items \ buttons'.waiting :
                \A j \in calls' : ~VoteOut(j, d)
          BY <1>1, <2>3, <3>0, <4>1 DEF VoteInv
        <4>4. \A d \in (list.items \cap api.kept) \ (buttons'.waiting \cup doubt) :
                w[d] = api.voted[d]
          <5>. SUFFICES ASSUME NEW d \in (list.items \cap api.kept)
                                           \ (buttons'.waiting \cup doubt)
                        PROVE  w[d] = api.voted[d]
            OBVIOUS
          <5>0. d \in AllComments
            BY <1>0 DEF CommentsTypeOK
          <5>1. CASE d = k.of
            BY <1>2, <1>5, <3>0, <4>1, <5>1 DEF VoteInv
          <5>2. CASE d # k.of
            BY <1>5, <2>3, <3>0, <5>0, <5>2 DEF VoteInv
          <5>. QED  BY <5>1, <5>2
        <4>. QED  BY <1>1, <2>3, <4>2, <4>3, <4>4 DEF VoteInv
      <3>. QED  BY <3>1, <3>2
    <2>. QED  BY <2>4, <2>5 DEF CommentsInv
  <1>7. CASE k.of \notin buttons.waiting
    <2>1. buttons' = buttons
      BY <1>7 DEF VoteAnswered
    <2>4. CommentsTyped'
      <3>1. CommentsTypeOK' /\ CommentsShape'
        BY <1>0, <1>1, <2>1 DEF CommentsTypeOK, CommentsShape
      <3>. QED  BY <1>0, <1>1, <3>1 DEF CommentsTyped, CommentCall
    <2>5. ASSUME ~raced PROVE ListInv' /\ VoteInv'
      <3>0. ListInv /\ VoteInv
        BY <1>0, <2>5
      <3>1. ListInv'
        <4>1. /\ \A j \in calls : j.what \in Writes => j \in calls'
              /\ \A j \in calls : IsDone(j, "post") => j \in calls'
              /\ \A j \in calls : IsDone(j, "delete") => j \in calls'
              /\ calls' \subseteq calls
          BY <1>1 DEF Writes, IsDone
        <4>2. ASSUME doubt = {}
              PROVE  \A d \in AllComments : d \in api.kept <=>
               \/ d \in list.items
                    /\ \A j \in calls' : IsDone(j, "delete") => j.of # d
               \/ \E j \in calls' : IsDone(j, "post") /\ j.got = d
          BY <3>0, <4>1, <4>2 DEF ListInv
        <4>. QED  BY <1>1, <3>0, <4>1, <4>2 DEF ListInv, IsDone
      <3>2. VoteInv'
        BY <1>1, <2>1, <3>0 DEF VoteInv
      <3>. QED  BY <3>1, <3>2
    <2>. QED  BY <2>4, <2>5 DEF CommentsInv
  <1>. QED  BY <1>6, <1>7

(* An answer that leaves the list and the buttons alone; an answer that    *)
(* did something to the list does not.                                     *)
LEMMA CommentDropped ==
    ASSUME page = "comments", page' = page, CommentsInv,
           NEW k \in calls, Settles(k), k.what # "vote",
           ~IsDone(k, "post"), ~IsDone(k, "delete"),
           UNCHANGED <<api, fetched, raced, list, buttons>>,
           CommentsTypeOK', CommentsShape'
    PROVE  CommentsInv'
  <1>0. /\ CommentsTypeOK /\ CommentsShape
        /\ \A j \in calls : CommentCall(j)
        /\ ~raced => ListInv /\ VoteInv
    BY DEF CommentsInv, CommentsTyped
  <1>1. calls' = calls \ {k} /\ doubt' = doubt
    BY DEF Settles
  <1>2. CommentsTyped'
    BY <1>0, <1>1 DEF CommentsTyped, CommentCall
  <1>3. ASSUME ~raced PROVE ListInv' /\ VoteInv'
    <2>0. ListInv /\ VoteInv
      BY <1>0, <1>3
    <2>1. ListInv'
      <3>1. /\ \A j \in calls : IsDone(j, "post") => j \in calls'
            /\ \A j \in calls : IsDone(j, "delete") => j \in calls'
            /\ calls' \subseteq calls
        BY <1>1
      <3>2. ASSUME doubt = {}
            PROVE  \A d \in AllComments : d \in api.kept <=>
             \/ d \in list.items
                  /\ \A j \in calls' : IsDone(j, "delete") => j.of # d
             \/ \E j \in calls' : IsDone(j, "post") /\ j.got = d
        BY <2>0, <3>1, <3>2 DEF ListInv
      <3>. QED  BY <1>1, <2>0, <3>1, <3>2 DEF ListInv, IsDone
    <2>2. VoteInv'
      BY <1>1, <2>0 DEF VoteInv
    <2>. QED  BY <2>1, <2>2
  <1>. QED  BY <1>2, <1>3 DEF CommentsInv

(* A list that is shown anew: its comments' buttons.                       *)
LEMMA ShownList ==
    ASSUME CommentsTypeOK, CommentsShape, NEW items, NEW count,
           items \subseteq AllComments, count \in Int, ShowList(items, count)
    PROVE  /\ list' = [items |-> items, total |-> count]
           /\ list'.items = items /\ list'.total = count
           /\ buttons'.vote \in [AllComments -> Votes \cup {None}]
           /\ buttons'.waiting = buttons.waiting \cap list.items \cap items
           /\ buttons' = [vote |-> buttons'.vote, waiting |-> buttons'.waiting]
           /\ \A c \in AllComments :
                buttons'.vote[c] = IF c \in items \ list.items THEN fetched[c]
                                                     ELSE buttons.vote[c]
  <1>. DEFINE w == [c \in AllComments |-> IF c \in items \ list.items
                                          THEN fetched[c] ELSE buttons.vote[c]]
  <1>1. /\ list' = [items |-> items, total |-> count]
        /\ buttons' = [vote |-> w,
                       waiting |-> buttons.waiting \cap list.items \cap items]
    BY DEF ShowList
  <1>2. w \in [AllComments -> Votes \cup {None}]
    BY DEF CommentsTypeOK, CommentsShape
  <1>3. \A c \in AllComments : w[c] = IF c \in items \ list.items
                                THEN fetched[c] ELSE buttons.vote[c]
    OBVIOUS
  <1>. HIDE DEF w
  <1>. QED  BY <1>1, <1>2, <1>3

(* The comment that was posted is listed, with buttons of its own.         *)
LEMMA PostSettles ==
    ASSUME page = "comments", page' = page, CommentsInv,
           NEW k \in calls, Settles(k), k.what = "post", k.state = "ok",
           PostAnswered(k), UNCHANGED <<api, fetched, raced>>
    PROVE  CommentsInv'
  <1>. DEFINE items == k.saw.items \cup {k.got}
              count == k.saw.total + 1
  <1>0. /\ CommentsTypeOK /\ CommentsShape
        /\ \A j \in calls : CommentCall(j)
        /\ ~raced => ListInv /\ VoteInv
    BY DEF CommentsInv, CommentsTyped
  <1>1. /\ calls' = calls \ {k} /\ doubt' = doubt /\ ShowList(items, count)
        /\ ui' = [ui EXCEPT !.posting = FALSE]
    BY DEF Settles, PostAnswered
  <1>2. /\ k.got \in AllComments \ First /\ k.got \in Fresh
        /\ items \subseteq AllComments /\ count \in Int
    BY <1>0, CommentsAssumption DEF CommentCall, AllComments
  <1>3. /\ list'.items = items /\ list'.total = count
        /\ list' = [items |-> list'.items, total |-> list'.total]
        /\ buttons'.vote \in [AllComments -> Votes \cup {None}]
        /\ buttons'.waiting = buttons.waiting \cap list.items \cap items
        /\ buttons' = [vote |-> buttons'.vote, waiting |-> buttons'.waiting]
        /\ \A c \in AllComments :
             buttons'.vote[c] = IF c \in items \ list.items THEN fetched[c]
                                                  ELSE buttons.vote[c]
    <2>. HIDE DEF items, count
    <2>. QED  BY <1>0, <1>1, <1>2, ShownList
  <1>4. /\ ui'.posting \in BOOLEAN /\ ui'.asked = ui.asked
        /\ ui'.editing = ui.editing /\ ui'.report = ui.report
        /\ ui'.reporting = ui.reporting
        /\ ui' = [posting |-> ui'.posting, asked |-> ui'.asked,
                  editing |-> ui'.editing, report |-> ui'.report,
                  reporting |-> ui'.reporting]
    BY <1>0, <1>1 DEF CommentsShape
  <1>5. CommentsTyped'
    <2>. HIDE DEF items, count
    <2>1. CommentsTypeOK'
      BY <1>0, <1>2, <1>3, <1>4 DEF CommentsTypeOK
    <2>2. CommentsShape'
      BY <1>0, <1>3, <1>4 DEF CommentsShape
    <2>. QED  BY <1>0, <1>1, <2>1, <2>2 DEF CommentsTyped, CommentCall
  <1>6. ASSUME ~raced PROVE ListInv' /\ VoteInv'
    <2>0. ListInv /\ VoteInv
      BY <1>0, <1>6
    <2>1. /\ k.saw.items = list.items /\ k.saw.total = list.total
          /\ k.got \in api.kept \ list.items
          /\ IsDone(k, "post")
      BY <2>0 DEF ListInv, Writes, IsDone
    <2>2. /\ list'.items = list.items \cup {k.got}
          /\ list'.total = list.total + 1
          /\ list.total = Cardinality(list.items)
          /\ list.items \subseteq AllComments
          /\ api.kept \subseteq api.made
      BY <1>0, <1>3, <2>0, <2>1 DEF ListInv, CommentsTypeOK
    <2>. HIDE DEF items, count
    <2>3. list'.total = Cardinality(list'.items)
      <3>1. IsFiniteSet(AllComments)
        BY CommentsAssumption, FS_Union DEF AllComments
      <3>2. IsFiniteSet(list.items)
        BY <2>2, <3>1, FS_Subset
      <3>. QED  BY <2>1, <2>2, <3>2, FS_AddElement
    <2>4. \A j \in calls : j.what \in Writes => j = k
      BY <2>0 DEF ListInv, Writes
    <2>5. /\ \A j \in calls' : j.what \notin Writes
          /\ \A j \in calls' : j.what # "delete" /\ ~IsDone(j, "post")
          /\ \A j \in calls' : ~IsDone(j, "delete")
          /\ \A j \in calls : ~IsDone(j, "delete")
          /\ \A j \in calls : IsDone(j, "post") => j = k
          /\ calls' \subseteq calls
      BY <1>1, <2>4 DEF Writes, IsDone
    <2>6. ListInv'
      <3>1. ASSUME doubt = {}
            PROVE  \A d \in AllComments : d \in api.kept <=> d \in list'.items
        <4>1. \A d \in AllComments : d \in api.kept <=>
                 \/ d \in list.items
                      /\ \A j \in calls : IsDone(j, "delete") => j.of # d
                 \/ \E j \in calls : IsDone(j, "post") /\ j.got = d
          BY <2>0, <3>1 DEF ListInv
        <4>. QED  BY <2>1, <2>2, <2>5, <4>1
      <3>. QED  BY <1>1, <2>1, <2>2, <2>3, <2>5, <2>0, <3>1
                DEF ListInv, IsDone
    <2>7. VoteInv'
      <3>1. \A j \in calls : ~VoteOut(j, k.got)
        BY <2>0, <2>1 DEF VoteInv, VoteOut
      <3>2. /\ buttons.waiting \subseteq list.items
            /\ buttons'.waiting = buttons.waiting
        BY <1>3, <2>0, <2>2 DEF VoteInv
      <3>3. /\ \A c \in list.items : buttons'.vote[c] = buttons.vote[c]
            /\ buttons'.vote[k.got] = None /\ api.voted[k.got] = None
        BY <1>0, <1>2, <1>3, <2>1, <2>2 DEF CommentsShape
      <3>4. /\ \A j \in calls' : j.what = "vote" =>
                 j.of \in api.made /\ (j.of \in list'.items \/ j.of \notin api.kept)
            /\ \A d \in list'.items \ buttons.waiting :
                 \A j \in calls' : ~VoteOut(j, d)
            /\ \A d \in list'.items : \A i, j \in calls' :
                 VoteOut(i, d) /\ VoteOut(j, d) => i = j
        BY <2>0, <2>2, <2>5, <3>1 DEF VoteInv
      <3>5. \A d \in (list'.items \cap api.kept) \ doubt : \A j \in calls' :
              VoteOut(j, d) =>
                api.voted[d] = IF j.state = "ok" THEN j.got ELSE j.saw.vote
        BY <2>0, <2>2, <2>5, <3>1 DEF VoteInv
      <3>6. \A d \in (list'.items \cap api.kept) \ (buttons.waiting \cup doubt) :
              buttons'.vote[d] = api.voted[d]
        BY <2>0, <2>2, <3>3 DEF VoteInv
      <3>7. buttons'.waiting \subseteq list'.items
        BY <2>2, <3>2
      <3>8. UNCHANGED <<api, doubt>>
        BY <1>1
      <3>. QED  BY <3>2, <3>4, <3>5, <3>6, <3>7, <3>8 DEF VoteInv
    <2>. QED  BY <2>6, <2>7
  <1>. QED  BY <1>5, <1>6 DEF CommentsInv

(* The comment that was deleted is listed no more.                         *)
LEMMA DeleteSettles ==
    ASSUME page = "comments", page' = page, CommentsInv,
           NEW k \in calls, Settles(k), k.what = "delete", k.state = "ok",
           DeleteAnswered(k), UNCHANGED <<api, fetched, raced>>
    PROVE  CommentsInv'
  <1>. DEFINE items == k.saw.items \ {k.of}
              count == k.saw.total - 1
  <1>0. /\ CommentsTypeOK /\ CommentsShape
        /\ \A j \in calls : CommentCall(j)
        /\ ~raced => ListInv /\ VoteInv
    BY DEF CommentsInv, CommentsTyped
  <1>1. /\ calls' = calls \ {k} /\ doubt' = doubt /\ ShowList(items, count)
        /\ ui' = [ui EXCEPT !.asked = None]
    BY DEF Settles, DeleteAnswered
  <1>2. items \subseteq AllComments /\ count \in Int
    BY <1>0 DEF CommentCall
  <1>3. /\ list'.items = items /\ list'.total = count
        /\ list' = [items |-> list'.items, total |-> list'.total]
        /\ buttons'.vote \in [AllComments -> Votes \cup {None}]
        /\ buttons'.waiting = buttons.waiting \cap list.items \cap items
        /\ buttons' = [vote |-> buttons'.vote, waiting |-> buttons'.waiting]
        /\ \A c \in AllComments :
             buttons'.vote[c] = IF c \in items \ list.items THEN fetched[c]
                                                  ELSE buttons.vote[c]
    <2>. HIDE DEF items, count
    <2>. QED  BY <1>0, <1>1, <1>2, ShownList
  <1>4. /\ ui'.posting = ui.posting /\ ui'.asked = None
        /\ ui'.editing = ui.editing /\ ui'.report = ui.report
        /\ ui'.reporting = ui.reporting
        /\ ui' = [posting |-> ui'.posting, asked |-> ui'.asked,
                  editing |-> ui'.editing, report |-> ui'.report,
                  reporting |-> ui'.reporting]
    BY <1>0, <1>1 DEF CommentsShape
  <1>5. CommentsTyped'
    <2>. HIDE DEF items, count
    <2>1. CommentsTypeOK'
      BY <1>0, <1>2, <1>3, <1>4 DEF CommentsTypeOK
    <2>2. CommentsShape'
      BY <1>0, <1>3, <1>4 DEF CommentsShape
    <2>. QED  BY <1>0, <1>1, <2>1, <2>2 DEF CommentsTyped, CommentCall
  <1>6. ASSUME ~raced PROVE ListInv' /\ VoteInv'
    <2>0. ListInv /\ VoteInv
      BY <1>0, <1>6
    <2>1. /\ k.saw.items = list.items /\ k.saw.total = list.total
          /\ k.of \in list.items /\ k.of \notin api.kept
          /\ IsDone(k, "delete")
      BY <2>0 DEF ListInv, Writes, IsDone
    <2>2. /\ list'.items = list.items \ {k.of}
          /\ list'.total = list.total - 1
          /\ list.total = Cardinality(list.items)
          /\ list.items \subseteq AllComments
      BY <1>0, <1>3, <2>0, <2>1 DEF ListInv, CommentsTypeOK
    <2>. HIDE DEF items, count
    <2>3. list'.total = Cardinality(list'.items)
      <3>1. IsFiniteSet(AllComments)
        BY CommentsAssumption, FS_Union DEF AllComments
      <3>2. IsFiniteSet(list.items)
        BY <2>2, <3>1, FS_Subset
      <3>. QED  BY <2>1, <2>2, <3>2, FS_RemoveElement
    <2>4. \A j \in calls : j.what \in Writes => j = k
      BY <2>0 DEF ListInv, Writes
    <2>5. /\ \A j \in calls' : j.what \notin Writes
          /\ \A j \in calls' : j.what # "delete" /\ ~IsDone(j, "post")
          /\ \A j \in calls' : ~IsDone(j, "delete")
          /\ \A j \in calls : ~IsDone(j, "post")
          /\ \A j \in calls : IsDone(j, "delete") => j = k
          /\ calls' \subseteq calls
      BY <1>1, <2>4 DEF Writes, IsDone
    <2>6. ListInv'
      <3>1. ASSUME doubt = {}
            PROVE  \A d \in AllComments : d \in api.kept <=> d \in list'.items
        <4>1. \A d \in AllComments : d \in api.kept <=>
                 \/ d \in list.items
                      /\ \A j \in calls : IsDone(j, "delete") => j.of # d
                 \/ \E j \in calls : IsDone(j, "post") /\ j.got = d
          BY <2>0, <3>1 DEF ListInv
        <4>. QED  BY <2>1, <2>2, <2>5, <4>1
      <3>2. list'.items \subseteq api.made
        BY <2>0, <2>2 DEF ListInv
      <3>. QED  BY <1>1, <2>3, <2>5, <3>1, <3>2 DEF ListInv, IsDone
    <2>7. VoteInv'
      <3>2. /\ buttons.waiting \subseteq list.items
            /\ buttons'.waiting = buttons.waiting \ {k.of}
        BY <1>3, <2>0, <2>2 DEF VoteInv
      <3>3. \A c \in list'.items : /\ buttons'.vote[c] = buttons.vote[c]
                                   /\ c \in list.items /\ c # k.of
        BY <1>0, <1>2, <1>3, <2>1, <2>2 DEF CommentsShape
      <3>4. /\ \A j \in calls' : j.what = "vote" =>
                 j.of \in api.made /\ (j.of \in list'.items \/ j.of \notin api.kept)
            /\ \A d \in list'.items \ buttons'.waiting :
                 \A j \in calls' : ~VoteOut(j, d)
            /\ \A d \in list'.items : \A i, j \in calls' :
                 VoteOut(i, d) /\ VoteOut(j, d) => i = j
        BY <2>0, <2>1, <2>2, <2>5, <3>2, <3>3 DEF VoteInv
      <3>5. \A d \in (list'.items \cap api.kept) \ doubt : \A j \in calls' :
              VoteOut(j, d) =>
                api.voted[d] = IF j.state = "ok" THEN j.got ELSE j.saw.vote
        BY <2>0, <2>2, <2>5 DEF VoteInv
      <3>6. \A d \in (list'.items \cap api.kept) \ (buttons'.waiting \cup doubt) :
              buttons'.vote[d] = api.voted[d]
        BY <2>0, <2>2, <3>2, <3>3 DEF VoteInv
      <3>7. buttons'.waiting \subseteq list'.items
        BY <2>2, <3>2
      <3>8. UNCHANGED <<api, doubt>>
        BY <1>1
      <3>. QED  BY <3>4, <3>5, <3>6, <3>7, <3>8 DEF VoteInv
    <2>. QED  BY <2>6, <2>7
  <1>. QED  BY <1>5, <1>6 DEF CommentsInv

(* An edit that is done shows the list of its own render: the same one.    *)
LEMMA EditSettles ==
    ASSUME page = "comments", page' = page, CommentsInv,
           NEW k \in calls, Settles(k), k.what = "edit", k.state = "ok",
           EditAnswered(k), UNCHANGED <<api, fetched, raced>>
    PROVE  CommentsInv'
  <1>. DEFINE items == k.saw.items
              count == list.total
  <1>0. /\ CommentsTypeOK /\ CommentsShape
        /\ \A j \in calls : CommentCall(j)
        /\ ~raced => ListInv /\ VoteInv
    BY DEF CommentsInv, CommentsTyped
  <1>1. /\ calls' = calls \ {k} /\ doubt' = doubt /\ ShowList(items, count)
        /\ ui' = [ui EXCEPT !.editing = None]
    BY DEF Settles, EditAnswered
  <1>2. items \subseteq AllComments /\ count \in Int
    BY <1>0 DEF CommentCall, CommentsTypeOK
  <1>3. /\ list'.items = items /\ list'.total = count
        /\ list' = [items |-> list'.items, total |-> list'.total]
        /\ buttons'.vote \in [AllComments -> Votes \cup {None}]
        /\ buttons'.waiting = buttons.waiting \cap list.items \cap items
        /\ buttons' = [vote |-> buttons'.vote, waiting |-> buttons'.waiting]
        /\ \A c \in AllComments :
             buttons'.vote[c] = IF c \in items \ list.items THEN fetched[c]
                                                  ELSE buttons.vote[c]
    <2>. HIDE DEF items, count
    <2>. QED  BY <1>0, <1>1, <1>2, ShownList
  <1>4. /\ ui'.posting = ui.posting /\ ui'.asked = ui.asked
        /\ ui'.editing = None /\ ui'.report = ui.report
        /\ ui'.reporting = ui.reporting
        /\ ui' = [posting |-> ui'.posting, asked |-> ui'.asked,
                  editing |-> ui'.editing, report |-> ui'.report,
                  reporting |-> ui'.reporting]
    BY <1>0, <1>1 DEF CommentsShape
  <1>5. CommentsTyped'
    <2>. HIDE DEF items, count
    <2>1. CommentsTypeOK'
      BY <1>0, <1>2, <1>3, <1>4 DEF CommentsTypeOK
    <2>2. CommentsShape'
      BY <1>0, <1>3, <1>4 DEF CommentsShape
    <2>. QED  BY <1>0, <1>1, <2>1, <2>2 DEF CommentsTyped, CommentCall
  <1>6. ASSUME ~raced PROVE ListInv' /\ VoteInv'
    <2>0. ListInv /\ VoteInv
      BY <1>0, <1>6
    <2>1. k.saw.items = list.items
      BY <2>0 DEF ListInv, Writes
    <2>2. list'.items = list.items /\ list'.total = list.total
      BY <1>3, <2>1
    <2>. HIDE DEF items, count
    <2>3. /\ \A c \in list.items : buttons'.vote[c] = buttons.vote[c]
          /\ buttons'.waiting = buttons.waiting
      <3>1. buttons.waiting \subseteq list.items
        BY <2>0 DEF VoteInv
      <3>2. list.items \subseteq AllComments /\ items = list.items
        BY <1>0, <1>3, <2>2 DEF CommentsTypeOK
      <3>. QED  BY <1>3, <3>1, <3>2
    <2>4. /\ calls' \subseteq calls /\ UNCHANGED <<api, doubt>>
          /\ \A j \in calls : IsDone(j, "post") => j \in calls'
          /\ \A j \in calls : IsDone(j, "delete") => j \in calls'
      BY <1>1 DEF IsDone
    <2>5. ListInv'
      <3>1. ASSUME doubt = {}
            PROVE  \A d \in AllComments : d \in api.kept <=>
             \/ d \in list.items
                  /\ \A j \in calls' : IsDone(j, "delete") => j.of # d
             \/ \E j \in calls' : IsDone(j, "post") /\ j.got = d
        BY <2>0, <2>4, <3>1 DEF ListInv
      <3>. QED  BY <2>0, <2>2, <2>4, <3>1 DEF ListInv, IsDone
    <2>6. VoteInv'
      <3>1. /\ \A j \in calls' : j.what = "vote" =>
                 j.of \in api.made /\ (j.of \in list.items \/ j.of \notin api.kept)
            /\ \A d \in list.items \ buttons.waiting :
                 \A j \in calls' : ~VoteOut(j, d)
            /\ \A d \in list.items : \A i, j \in calls' :
                 VoteOut(i, d) /\ VoteOut(j, d) => i = j
            /\ buttons.waiting \subseteq list.items
        BY <2>0, <2>4 DEF VoteInv
      <3>2. \A d \in (list.items \cap api.kept) \ doubt : \A j \in calls' :
              VoteOut(j, d) =>
                api.voted[d] = IF j.state = "ok" THEN j.got ELSE j.saw.vote
        BY <2>0, <2>4 DEF VoteInv
      <3>3. \A d \in (list.items \cap api.kept) \ (buttons.waiting \cup doubt) :
              buttons'.vote[d] = api.voted[d]
        BY <2>0, <2>3 DEF VoteInv
      <3>. QED  BY <2>2, <2>3, <2>4, <3>1, <3>2, <3>3 DEF VoteInv
    <2>. QED  BY <2>5, <2>6
  <1>. QED  BY <1>5, <1>6 DEF CommentsInv

(* What an answer does to the dialogs of the page.                         *)
LEMMA CommentAnswered ==
    ASSUME page = "comments", CommentsInv, NEW k \in calls, Answer(k)
    PROVE  CommentsInv'
  <1>0. /\ CommentsTypeOK /\ CommentsShape
        /\ \A j \in calls : CommentCall(j)
    BY DEF CommentsInv, CommentsTyped
  <1>1. /\ page' = page /\ Settles(k) /\ UNCHANGED <<api, fetched, raced>>
        /\ \/ VoteAnswered(k) \/ PostAnswered(k) \/ DeleteAnswered(k)
           \/ EditAnswered(k) \/ ReportAnswered(k)
    BY DEF Answer, Alone, browserVars
  <1>2. CASE VoteAnswered(k)
    BY <1>1, <1>2, VoteSettles
  <1>3. CASE PostAnswered(k) /\ k.state = "ok"
    BY <1>1, <1>3, PostSettles DEF PostAnswered
  <1>4. CASE DeleteAnswered(k) /\ k.state = "ok"
    BY <1>1, <1>4, DeleteSettles DEF DeleteAnswered
  <1>5. CASE EditAnswered(k) /\ k.state = "ok"
    BY <1>1, <1>5, EditSettles DEF EditAnswered
  <1>6. CASE PostAnswered(k) /\ k.state # "ok"
    <2>1. /\ UNCHANGED <<list, buttons>> /\ k.what = "post"
          /\ ui' = [ui EXCEPT !.posting = FALSE]
      BY <1>6 DEF PostAnswered
    <2>2. /\ ui'.posting \in BOOLEAN /\ ui'.asked = ui.asked
          /\ ui'.editing = ui.editing /\ ui'.report = ui.report
          /\ ui'.reporting = ui.reporting
          /\ ui' = [posting |-> ui'.posting, asked |-> ui'.asked,
                    editing |-> ui'.editing, report |-> ui'.report,
                    reporting |-> ui'.reporting]
      BY <1>0, <2>1 DEF CommentsShape
    <2>3. CommentsTypeOK' /\ CommentsShape'
      BY <1>0, <1>1, <2>1, <2>2 DEF CommentsTypeOK, CommentsShape
    <2>4. ~IsDone(k, "post") /\ ~IsDone(k, "delete") /\ k.what # "vote"
      BY <1>6, <2>1 DEF IsDone
    <2>. QED  BY <1>1, <2>1, <2>3, <2>4, CommentDropped
  <1>7. CASE DeleteAnswered(k) /\ k.state # "ok"
    <2>1. /\ UNCHANGED <<list, buttons>> /\ k.what = "delete"
          /\ ui' = [ui EXCEPT !.asked = None]
      BY <1>7 DEF DeleteAnswered
    <2>2. /\ ui'.posting = ui.posting /\ ui'.asked = None
          /\ ui'.editing = ui.editing /\ ui'.report = ui.report
          /\ ui'.reporting = ui.reporting
          /\ ui' = [posting |-> ui'.posting, asked |-> ui'.asked,
                    editing |-> ui'.editing, report |-> ui'.report,
                    reporting |-> ui'.reporting]
      BY <1>0, <2>1 DEF CommentsShape
    <2>3. CommentsTypeOK' /\ CommentsShape'
      BY <1>0, <1>1, <2>1, <2>2 DEF CommentsTypeOK, CommentsShape
    <2>4. ~IsDone(k, "post") /\ ~IsDone(k, "delete") /\ k.what # "vote"
      BY <1>7, <2>1 DEF IsDone
    <2>. QED  BY <1>1, <2>1, <2>3, <2>4, CommentDropped
  <1>8. CASE EditAnswered(k) /\ k.state # "ok"
    <2>1. UNCHANGED <<list, buttons, ui>> /\ k.what = "edit"
      BY <1>8 DEF EditAnswered
    <2>2. CommentsTypeOK' /\ CommentsShape'
      BY <1>0, <1>1, <2>1 DEF CommentsTypeOK, CommentsShape
    <2>3. ~IsDone(k, "post") /\ ~IsDone(k, "delete") /\ k.what # "vote"
      BY <1>8, <2>1 DEF IsDone
    <2>. QED  BY <1>1, <2>1, <2>2, <2>3, CommentDropped
  <1>9. CASE ReportAnswered(k)
    <2>1. /\ UNCHANGED <<list, buttons>> /\ k.what = "report"
      BY <1>9 DEF ReportAnswered
    <2>2. PICK r : r = IF k.state = "ok" THEN None ELSE ui.report
      OBVIOUS
    <2>3. ui' = [ui EXCEPT !.reporting = FALSE, !.report = r]
      BY <1>9, <2>2 DEF ReportAnswered
    <2>4. /\ ui'.posting = ui.posting /\ ui'.asked = ui.asked
          /\ ui'.editing = ui.editing /\ ui'.report = r
          /\ ui'.reporting \in BOOLEAN
          /\ ui' = [posting |-> ui'.posting, asked |-> ui'.asked,
                    editing |-> ui'.editing, report |-> ui'.report,
                    reporting |-> ui'.reporting]
      BY <1>0, <2>3 DEF CommentsShape
    <2>5. CommentsTypeOK' /\ CommentsShape'
      BY <1>0, <1>1, <2>1, <2>2, <2>4 DEF CommentsTypeOK, CommentsShape
    <2>6. ~IsDone(k, "post") /\ ~IsDone(k, "delete") /\ k.what # "vote"
      BY <2>1 DEF IsDone
    <2>. QED  BY <1>1, <2>1, <2>5, <2>6, CommentDropped
  <1>. QED  BY <1>1, <1>2, <1>3, <1>4, <1>5, <1>6, <1>7, <1>8, <1>9

(* What the API does with one.                                             *)
LEMMA CommentServed ==
    ASSUME page = "comments", CommentsInv, NEW k \in calls, Serve(k)
    PROVE  CommentsInv'
  <1>0. IsRequest(k)
    BY DEF CommentsInv, CommentsTyped, CommentCall
  <1>1. /\ page' = page /\ k.state = "sent"
        /\ UNCHANGED <<list, fetched, buttons, ui, raced>>
    BY DEF Serve, Alone, browserVars
  <1>2. CASE /\ k.what = "post"
             /\ \E c \in Fresh \ api.made :
                  /\ api' = [api EXCEPT !.made = @ \cup {c}, !.kept = @ \cup {c}]
                  /\ Serves(k, "ok", c)
    BY <1>1, <1>2, PostServed
  <1>3. CASE /\ k.what = "delete" /\ k.of \in api.kept
             /\ api' = [api EXCEPT !.kept = @ \ {k.of}]
             /\ Serves(k, "ok", None)
    BY <1>1, <1>3, DeleteServed
  <1>4. CASE /\ k.what = "vote" /\ k.of \in api.kept \cap First
             /\ api' = [api EXCEPT !.voted[k.of] = k.arg]
             /\ Serves(k, "ok", k.arg)
    BY <1>1, <1>4, VoteServed
  <1>5. CASE /\ k.what \in {"edit", "report"} /\ k.of \in api.kept
             /\ Serves(k, "ok", None) /\ UNCHANGED api
    <2>1. PICK n : /\ Same(k, n) /\ n.state = "ok" /\ n.got = None
                   /\ calls' = (calls \ {k}) \cup {n}
                   /\ lost' = lost /\ doubt' = doubt
      BY <1>0, <1>5, Served
    <2>. QED  BY <1>1, <1>5, <2>1, CommentReplaced
  <1>6. CASE Serves(k, "refused", None) /\ UNCHANGED api
    <2>1. PICK n : /\ Same(k, n) /\ n.state = "refused" /\ n.got = None
                   /\ calls' = (calls \ {k}) \cup {n}
                   /\ lost' = lost /\ doubt' = doubt
      BY <1>0, <1>6, Served
    <2>. QED  BY <1>1, <1>6, <2>1, CommentReplaced
  <1>. QED  BY <1>2, <1>3, <1>4, <1>5, <1>6 DEF Serve

LEMMA CommentTroubled ==
    ASSUME page = "comments", CommentsInv, NEW k \in calls,
           Troubles(k), UNCHANGED commentVars
    PROVE  CommentsInv'
  <1>0. IsRequest(k)
    BY DEF CommentsInv, CommentsTyped, CommentCall
  <1>1. PICK n : /\ Same(k, n) /\ n.state \in {"sent", "refused"}
                 /\ calls' = (calls \ {k}) \cup {n}
                 /\ doubt' = {} => doubt = {} /\ k.state = "sent"
                 /\ doubt \subseteq doubt'
                 /\ k.state = "sent" \/ k.of \in doubt'
    BY <1>0, Troubled
  <1>2. page' = page /\ UNCHANGED <<api, list, fetched, buttons, ui, raced>>
    BY DEF Troubles, Click, commentVars
  <1>. QED  BY <1>1, <1>2, CommentReplaced

(* A form of the page that is sent.                                        *)
LEMMA CommentClicked ==
    ASSUME page = "comments", CommentsInv,
           \/ SubmitComment \/ SendReport
           \/ \E c \in list.items : EditComment(c) \/ DeleteComment(c)
    PROVE  CommentsInv'
  <1>0. CommentsTypeOK /\ CommentsShape
    BY DEF CommentsInv, CommentsTyped
  <1>1. CASE SubmitComment
    <2>1. /\ Calls("post", None, None) /\ buttons' = buttons
          /\ ui' = [ui EXCEPT !.posting = TRUE]
      BY <1>1 DEF SubmitComment
    <2>2. page' = page /\ UNCHANGED <<api, list, fetched>>
      BY <2>1 DEF Calls, Click
    <2>3. /\ ui'.posting \in BOOLEAN /\ ui'.asked = ui.asked
          /\ ui'.editing = ui.editing /\ ui'.report = ui.report
          /\ ui'.reporting = ui.reporting
          /\ ui' = [posting |-> ui'.posting, asked |-> ui'.asked,
                    editing |-> ui'.editing, report |-> ui'.report,
                    reporting |-> ui'.reporting]
      BY <1>0, <2>1 DEF CommentsShape
    <2>4. CommentsTypeOK' /\ CommentsShape'
      BY <1>0, <2>1, <2>2, <2>3 DEF CommentsTypeOK, CommentsShape
    <2>. QED  BY <2>1, <2>2, <2>4, CommentSent
  <1>2. CASE SendReport
    <2>1. /\ Calls("report", ui.report, None) /\ buttons' = buttons
          /\ ui' = [ui EXCEPT !.reporting = TRUE] /\ ui.report # None
      BY <1>2 DEF SendReport
    <2>2. page' = page /\ UNCHANGED <<api, list, fetched>>
      BY <2>1 DEF Calls, Click
    <2>3. /\ ui'.posting = ui.posting /\ ui'.asked = ui.asked
          /\ ui'.editing = ui.editing /\ ui'.report = ui.report
          /\ ui'.reporting \in BOOLEAN
          /\ ui' = [posting |-> ui'.posting, asked |-> ui'.asked,
                    editing |-> ui'.editing, report |-> ui'.report,
                    reporting |-> ui'.reporting]
      BY <1>0, <2>1 DEF CommentsShape
    <2>4. CommentsTypeOK' /\ CommentsShape'
      BY <1>0, <2>1, <2>2, <2>3 DEF CommentsTypeOK, CommentsShape
    <2>5. ui.report \in AllComments
      BY <1>0, <2>1 DEF CommentsTypeOK
    <2>. QED  BY <2>1, <2>2, <2>4, <2>5, CommentSent
  <1>3. ASSUME NEW c \in list.items, EditComment(c) PROVE CommentsInv'
    <2>1. Calls("edit", c, None) /\ UNCHANGED <<buttons, ui>>
      BY <1>3 DEF EditComment
    <2>2. page' = page /\ UNCHANGED <<api, list, fetched>>
      BY <2>1 DEF Calls, Click
    <2>3. CommentsTypeOK' /\ CommentsShape' /\ c \in AllComments
      BY <1>0, <2>1, <2>2 DEF CommentsTypeOK, CommentsShape
    <2>. QED  BY <2>1, <2>2, <2>3, CommentSent
  <1>4. ASSUME NEW c \in list.items, DeleteComment(c) PROVE CommentsInv'
    <2>1. /\ Calls("delete", c, None) /\ buttons' = buttons
          /\ ui' = [ui EXCEPT !.asked = None]
      BY <1>4 DEF DeleteComment
    <2>2. page' = page /\ UNCHANGED <<api, list, fetched>>
      BY <2>1 DEF Calls, Click
    <2>3. /\ ui'.posting = ui.posting /\ ui'.asked = None
          /\ ui'.editing = ui.editing /\ ui'.report = ui.report
          /\ ui'.reporting = ui.reporting
          /\ ui' = [posting |-> ui'.posting, asked |-> ui'.asked,
                    editing |-> ui'.editing, report |-> ui'.report,
                    reporting |-> ui'.reporting]
      BY <1>0, <2>1 DEF CommentsShape
    <2>4. CommentsTypeOK' /\ CommentsShape' /\ c \in AllComments
      BY <1>0, <2>1, <2>2, <2>3 DEF CommentsTypeOK, CommentsShape
    <2>. QED  BY <2>1, <2>2, <2>4, CommentSent
  <1>. QED  BY <1>1, <1>2, <1>3, <1>4

LEMMA CommentsStep ==
    ASSUME page = "comments", page' = page, CommentsInv,
           [CommentsNext]_<<browserVars, fetchVars, commentVars>>
    PROVE  CommentsInv'
  <1>1. CASE \/ SubmitComment \/ SendReport
             \/ \E c \in list.items : EditComment(c) \/ DeleteComment(c)
    BY <1>1, CommentClicked
  <1>2. CASE Dialogs
    BY <1>2, DialogsKeep
  <1>3. CASE \E c \in list.items : \E v \in Votes : VoteComment(c, v)
    BY <1>3, VoteSent
  <1>4. CASE \E k \in calls : Serve(k)
    BY <1>4, CommentServed
  <1>5. CASE \E k \in calls : Answer(k)
    BY <1>5, CommentAnswered
  <1>6. CASE \E k \in calls : Troubles(k) /\ UNCHANGED commentVars
    BY <1>6, CommentTroubled
  <1>7. CASE UNCHANGED <<browserVars, fetchVars, commentVars>>
    <2>1. UNCHANGED <<api, list, fetched, buttons, ui, raced, fetchVars>>
      BY <1>7 DEF commentVars
    <2>2. CommentsTypeOK' /\ CommentsShape'
      BY <2>1 DEF CommentsInv, CommentsTyped, CommentsTypeOK, CommentsShape
    <2>. QED  BY <2>1, <2>2, CommentsKeep
  <1>. QED  BY <1>1, <1>2, <1>3, <1>4, <1>5, <1>6, <1>7 DEF CommentsNext

(* On the other pages nothing happens to the comments.                     *)
LEMMA CommentsAway ==
    ASSUME page # "comments", page' = page, CommentsInv,
           UNCHANGED commentVars
    PROVE  CommentsInv'
  <1>1. UNCHANGED <<api, list, fetched, buttons, ui>>
    BY DEF commentVars
  <1>. QED  BY <1>1 DEF CommentsInv, CommentsTyped, CommentsTypeOK,
                        CommentsShape

LEMMA CommentsPromises == CommentsInv => CommentsInStep
  <1>. SUFFICES ASSUME CommentsInv PROVE CommentsInStep
    OBVIOUS
  <1>1. VoteShownIsStored
    BY DEF CommentsInv, VoteInv, VoteShownIsStored
  <1>2. ListedIsStored
    <2>. SUFFICES ASSUME calls = {}, ~raced, doubt = {}
                  PROVE  /\ list.items = api.kept
                         /\ list.total = Cardinality(api.kept)
      BY DEF ListedIsStored
    <2>1. CASE page # "comments"
      BY <2>1 DEF CommentsInv
    <2>2. CASE page = "comments"
      <3>1. ListInv /\ list.items \subseteq AllComments
              /\ api.kept \subseteq AllComments
        BY <2>2 DEF CommentsInv, CommentsTyped, CommentsTypeOK
      <3>2. \A d \in AllComments : d \in api.kept <=> d \in list.items
        BY <3>1 DEF ListInv
      <3>3. list.items = api.kept
        BY <3>1, <3>2
      <3>. QED  BY <3>1, <3>3 DEF ListInv
    <2>. QED  BY <2>1, <2>2
  <1>. QED  BY <1>1, <1>2 DEF CommentsInStep

-----------------------------------------------------------------------------
(* Guides: what a save is of, which pages are there, and what a form shows *)
(* on a server's own page; what the page of a guide asks has no route.     *)
FormShape(f) ==
    /\ f = [scope |-> f.scope, server |-> f.server, list |-> f.list,
            title |-> f.title, text |-> f.text, dialog |-> f.dialog,
            sending |-> f.sending, saved |-> f.saved]
    /\ f.scope \in {"global", "server"} /\ f.server \in Servers \cup {None}
    /\ f.title \in BOOLEAN /\ f.text \in BOOLEAN /\ f.dialog \in BOOLEAN
    /\ f.sending \in Nat /\ f.saved \in BOOLEAN /\ f.list \in BOOLEAN

GuideTyped == GuideTypeOK /\ FormShape(form)

Exist(g) == guides[g] # "absent"

(* For a server: the form says so, and knows of one. *)
OfServer(what, scope, on) == scope = "server" /\ ~(what = "new" /\ on # None)

GuideCall(k) ==
    /\ IsRequest(k)
    /\ k.what \in Forms \cup {"vote", "delete", "report"}
    /\ k.of \in GuideIds
    /\ k.what \notin Forms => ~k.arg.slash /\ k.state # "ok"
    /\ k.what \in Forms =>
         /\ k.arg.slash /\ k.saw.server \in Servers \cup {None}
         /\ k.saw.nth \in Nat /\ k.saw.nth # 0
         /\ k.what = "new" => k.arg.server = k.saw.server
         /\ k.what = "edit" => Exist(k.of)
         /\ k.saw.server # None <=> OfServer(k.what, k.saw.scope, k.saw.on)
         /\ k.state = "ok" => k.got \in GuideIds /\ Exist(k.got)

GuideCalls == \A k \in calls : GuideCall(k)

IsShown(p) == p.what \in {"detail", "edit"} => Exist(p.guide)

PagesThere ==
    /\ Exist(Old) /\ IsShown(at)
    /\ goto # None => goto.what # "new" /\ IsShown(goto)

FormFits ==
    at.what \in Forms /\ at.server # None =>
      /\ ~form.list
      /\ form.scope = "server" => (form.server = None <=> at.what = "new")

(* The page of a new form has no other request out than its form's.        *)
OwnCalls ==
    /\ \A j, k \in calls : j.what = "new" /\ k.what = "new" => j = k
    /\ at.what = "new" =>
         \A k \in calls : k.what = "new" /\ k.saw.nth = form.sending

(* As long as no two saves mix, the guide that was saved last is stored as *)
(* its form said, and the page that will be shown is under its server; the *)
(* save that is done and not yet answered leads there.                     *)
SaveDone == \E k \in calls : k.what \in Forms /\ k.state = "ok"

FitsGuide(p) ==
    p.what \in {"detail", "edit"} => guides[p.guide] \in {p.server, None}

Coming == IF goto # None THEN goto ELSE at

GuideWhere ==
    doubt = {} /\ ~mixed =>
      /\ \A j, k \in calls : j.what \in Forms /\ k.what \in Forms => j = k
      /\ \A k \in calls : k.what \in Forms /\ k.state = "ok"
                            => guides[k.got] = k.saw.server
      /\ ~SaveDone => FitsGuide(Coming)
      /\ ~SaveDone /\ told # NothingTold
           => (guides[told.guide] # None
                 <=> OfServer(told.what, told.scope, told.on))

(* A form that was not saved made no guide yet.                            *)
GuidesMade == {g \in GuideIds \ {Old} : guides[g] # "absent"}
Made == Cardinality(GuidesMade)

GuideCount ==
    doubt = {} =>
      /\ Made <= 1 + again
      /\ \A k \in calls : k.what = "new" /\ k.state # "ok" => Made <= again
      /\ (at.what = "new" /\ ~form.saved
            /\ \A k \in calls : k.state # "ok") => Made <= again

(* On another page the guide's is not there: it waits as it began.         *)
GuideAside ==
    /\ at.what = "detail" /\ guides[at.guide] \in {at.server, None}
    /\ \A g \in GuideIds : Exist(g) => g = Old
    /\ told = NothingTold

GuidePage == /\ clicks \in Nat /\ GuideCalls /\ PagesThere /\ FormFits
             /\ OwnCalls /\ GuideWhere /\ GuideCount

GuideInv == /\ GuideTyped
            /\ page # "guide" => GuideAside
            /\ page = "guide" => GuidePage

-----------------------------------------------------------------------------
(* What the page and the form are when they are opened.                    *)
LEMMA FormOpens ==
    ASSUME NEW what \in {"new", "edit", "detail"}, NEW g \in GuideIds,
           NEW server \in Servers \cup {None},
           guides \in [GuideIds -> Servers \cup {None, "absent"}],
           guides[g] # "absent"
    PROVE  LET f == FormOf(what, g, server)
           IN  /\ FormShape(f) /\ f.sending = 0 /\ ~f.saved /\ ~f.list
               /\ what = "new" => f.server = None
               /\ what = "edit" /\ f.scope = "server" => f.server # None
  <1>1. guides[g] \in Servers \cup {None}
    OBVIOUS
  <1>2. PICK owner : owner = IF what = "edit" THEN guides[g] ELSE None
    OBVIOUS
  <1>3. PICK of : of = IF what = "edit" THEN owner ELSE server
    OBVIOUS
  <1>4. PICK scope : scope = IF of = None THEN "global" ELSE "server"
    OBVIOUS
  <1>5. PICK edit : edit = (what = "edit")
    OBVIOUS
  <1>6. FormOf(what, g, server)
          = [scope |-> scope, server |-> owner, list |-> FALSE,
             title |-> edit, text |-> edit, dialog |-> FALSE,
             sending |-> 0, saved |-> FALSE]
    BY <1>2, <1>3, <1>4, <1>5 DEF FormOf
  <1>7. /\ owner \in Servers \cup {None} /\ scope \in {"global", "server"}
        /\ edit \in BOOLEAN
        /\ what = "new" => owner = None
        /\ what = "edit" /\ scope = "server" => owner # None
    BY <1>1, <1>2, <1>3, <1>4, <1>5
  <1>. HIDE <1>2, <1>3, <1>4, <1>5
  <1>. QED  BY <1>6, <1>7 DEF FormShape

LEMMA OldIsThere == Old \in GuideIds
  BY GuidesAssumption DEF Old

LEMMA MadeIsNumber == Made \in Nat
  BY GuidesAssumption, FS_Subset, FS_CardinalityType DEF Made, GuidesMade

LEMMA NoneMade ==
    ASSUME \A g \in GuideIds : Exist(g) => g = Old
    PROVE  Made = 0
  <1>1. GuidesMade = {}
    BY DEF GuidesMade, Exist
  <1>. QED  BY <1>1, FS_EmptySet DEF Made

LEMMA OneMade ==
    ASSUME guides \in [GuideIds -> Servers \cup {None, "absent"}],
           NEW g \in GuideIds, NEW s, s # "absent", guides[g] = "absent",
           g # Old, guides' = [guides EXCEPT ![g] = s]
    PROVE  Made' = Made + 1
  <1>1. GuidesMade' = GuidesMade \cup {g} /\ g \notin GuidesMade
    BY DEF GuidesMade
  <1>2. IsFiniteSet(GuidesMade)
    BY GuidesAssumption, FS_Subset DEF GuidesMade
  <1>. QED  BY <1>1, <1>2, FS_AddElement DEF Made

LEMMA GuideStarts ==
    ASSUME NEW owner \in Servers \cup {None}, NEW what \in {"new", "edit", "detail"},
           NEW server \in Servers \cup {None}, owner \in {server, None},
           GuideInit(owner, what, server), clicks = 0,
           page # "guide" => what = "detail",
           page = "guide" => calls = {}
    PROVE  GuideInv
  <1>1. /\ guides = [g \in GuideIds |-> IF g = Old THEN owner ELSE "absent"]
        /\ at = [what |-> what, guide |-> Old, server |-> server]
        /\ form = FormOf(what, Old, server)
        /\ goto = None /\ told = NothingTold /\ again = 0 /\ ~mixed
        /\ mixed \in BOOLEAN
    BY DEF GuideInit, Page
  <1>2. /\ Old \in GuideIds /\ guides[Old] = owner /\ owner # "absent"
        /\ guides \in [GuideIds -> Servers \cup {None, "absent"}]
        /\ \A g \in GuideIds : Exist(g) => g = Old
    BY <1>1, OldIsThere, GuidesAssumption DEF Exist
  <1>3. /\ FormShape(form) /\ form.sending = 0 /\ ~form.saved /\ ~form.list
        /\ what = "new" => form.server = None
        /\ what = "edit" /\ form.scope = "server" => form.server # None
    BY <1>1, <1>2, FormOpens
  <1>4. at \in Places
    BY <1>1, <1>2 DEF Places, Forms
  <1>5. GuideTyped
    BY <1>1, <1>2, <1>3, <1>4 DEF GuideTyped, GuideTypeOK, FormShape
  <1>6. page # "guide" => GuideAside
    BY <1>1, <1>2 DEF GuideAside
  <1>7. ASSUME page = "guide" PROVE GuidePage
    <2>1. PagesThere /\ FormFits
      BY <1>1, <1>2, <1>3 DEF PagesThere, IsShown, Exist, FormFits, Forms
    <2>2. GuideCalls /\ OwnCalls
      BY <1>7 DEF GuideCalls, OwnCalls
    <2>3. FitsGuide(Coming)
      BY <1>1, <1>2 DEF FitsGuide, Coming
    <2>4. GuideWhere
      BY <1>1, <1>7, <2>3 DEF GuideWhere
    <2>5. GuideCount
      BY <1>1, <1>2, <1>7, NoneMade DEF GuideCount
    <2>. QED  BY <2>1, <2>2, <2>4, <2>5 DEF GuidePage
  <1>. QED  BY <1>5, <1>6, <1>7 DEF GuideInv

LEMMA GuidePromises == GuideInv => GuideInStep
  <1>. SUFFICES ASSUME GuideInv, doubt = {}
                PROVE  LandsOnItsGuide /\ OneGuidePerForm /\ ChosenServerIsKept
    BY DEF GuideInStep
  <1>0. GuideTyped
    BY DEF GuideInv
  <1>1. CASE page = "guide"
    <2>0. /\ doubt = {} /\ ~mixed /\ ~SaveDone => FitsGuide(Coming)
          /\ doubt = {} /\ ~mixed /\ ~SaveDone /\ told # NothingTold
               => (guides[told.guide] # None
                     <=> OfServer(told.what, told.scope, told.on))
          /\ Made <= 1 + again
      BY <1>1 DEF GuideInv, GuidePage, GuideWhere, GuideCount
    <2>1. LandsOnItsGuide
      BY <2>0 DEF LandsOnItsGuide, Saving, SaveDone, FitsGuide, Coming
    <2>2. ChosenServerIsKept
      BY <2>0 DEF ChosenServerIsKept, Saving, SaveDone, OfServer
    <2>3. OneGuidePerForm
      BY <2>0 DEF OneGuidePerForm, Made, GuidesMade
    <2>. QED  BY <2>1, <2>2, <2>3
  <1>2. CASE page # "guide"
    <2>0. GuideAside
      BY <1>2 DEF GuideInv
    <2>1. LandsOnItsGuide /\ ChosenServerIsKept
      BY <2>0 DEF GuideAside, LandsOnItsGuide, ChosenServerIsKept
    <2>2. Made = 0
      BY <2>0, NoneMade DEF GuideAside
    <2>3. Made <= 1 + again
      BY <1>0, <2>2 DEF GuideTyped, GuideTypeOK
    <2>. QED  BY <2>1, <2>3 DEF OneGuidePerForm, Made, GuidesMade
  <1>. QED  BY <1>1, <1>2

(* A field of the form, or a dialog of it.                                 *)
LEMMA FormMoves ==
    ASSUME page = "guide", page' = page, clicks' \in Nat, GuideInv,
           UNCHANGED <<at, goto, guides, told, again, mixed, fetchVars>>,
           FormShape(form'), FormFits',
           form'.sending = form.sending, form'.saved = form.saved
    PROVE  GuideInv'
  <1>0. /\ GuideTyped /\ GuidePage /\ UNCHANGED <<calls, doubt>>
    BY DEF GuideInv, fetchVars
  <1>1. GuideTyped'
    BY <1>0 DEF GuideTyped, GuideTypeOK, FormShape
  <1>2. GuideCalls'
    BY <1>0 DEF GuidePage, GuideCalls, GuideCall, Exist
  <1>3. PagesThere' /\ OwnCalls'
    BY <1>0 DEF GuidePage, PagesThere, IsShown, Exist, OwnCalls
  <1>4. GuideWhere'
    BY <1>0 DEF GuidePage, GuideWhere, SaveDone, FitsGuide, Coming
  <1>5. GuideCount'
    <2>1. Made' = Made
      BY DEF Made, GuidesMade
    <2>. QED  BY <1>0, <2>1 DEF GuidePage, GuideCount
  <1>. QED  BY <1>1, <1>2, <1>3, <1>4, <1>5 DEF GuideInv, GuidePage

LEMMA FormSet ==
    ASSUME page = "guide", GuideInv,
           \/ SetScope \/ LoadServers \/ PickServer \/ Write
           \/ OpenMarkdownDialog \/ HandleDialogSubmit
    PROVE  GuideInv'
  <1>0. GuideTyped /\ FormShape(form) /\ FormFits /\ clicks \in Nat
    BY DEF GuideInv, GuidePage, GuideTyped
  <1>1. CASE SetScope
    <2>1. PICK owner : owner = IF at.server # None THEN ServerId ELSE form.server
      OBVIOUS
    <2>2. /\ UNCHANGED <<page, at, goto, guides, told, again, mixed, fetchVars>>
          /\ clicks' \in Nat /\ Writing
          /\ \/ form' = [form EXCEPT !.scope = "global", !.server = None]
             \/ form' = [form EXCEPT !.scope = "server", !.server = owner]
      BY <1>0, <1>1, <2>1 DEF SetScope, Set, Click
    <2>3. at.server \in Servers \cup {None} /\ at.what \in Forms
      BY <1>0, <2>2 DEF GuideTyped, GuideTypeOK, Places, Writing
    <2>4. /\ owner \in Servers \cup {None}
          /\ at.server # None => (owner = None <=> at.what = "new")
      BY <1>0, <2>1, <2>3 DEF ServerId, Forms, FormShape
    <2>5. FormShape(form') /\ form'.sending = form.sending
            /\ form'.saved = form.saved
      BY <1>0, <2>2, <2>4 DEF FormShape
    <2>6. FormFits'
      BY <1>0, <2>2, <2>4 DEF FormFits, FormShape
    <2>. QED  BY <2>2, <2>5, <2>6, FormMoves
  <1>2. CASE LoadServers
    <2>1. /\ UNCHANGED <<page, at, goto, guides, told, again, mixed, fetchVars>>
          /\ clicks' \in Nat /\ at.server = None
          /\ form' = [form EXCEPT !.list = TRUE]
      BY <1>0, <1>2 DEF LoadServers, Set, Alone, browserVars
    <2>2. FormShape(form') /\ form'.sending = form.sending
            /\ form'.saved = form.saved
      BY <1>0, <2>1 DEF FormShape
    <2>3. FormFits'
      BY <2>1 DEF FormFits
    <2>. QED  BY <2>1, <2>2, <2>3, FormMoves
  <1>3. CASE PickServer
    <2>1. PICK s \in Servers : form' = [form EXCEPT !.server = s]
      BY <1>3 DEF PickServer, Set
    <2>2. /\ UNCHANGED <<page, at, goto, guides, told, again, mixed, fetchVars>>
          /\ clicks' \in Nat /\ form.list /\ Writing
      BY <1>0, <1>3 DEF PickServer, Set, Click
    <2>3. FormShape(form') /\ form'.sending = form.sending
            /\ form'.saved = form.saved
      BY <1>0, <2>1 DEF FormShape
    <2>4. FormFits'
      BY <1>0, <2>2 DEF FormFits, Writing
    <2>. QED  BY <2>2, <2>3, <2>4, FormMoves
  <1>4. CASE Write
    <2>1. /\ UNCHANGED <<page, at, goto, guides, told, again, mixed, fetchVars>>
          /\ clicks' \in Nat
          /\ \/ form' = [form EXCEPT !.title = ~form.title]
             \/ form' = [form EXCEPT !.text = ~form.text]
      BY <1>0, <1>4 DEF Write, Set, Click
    <2>2. FormShape(form') /\ form'.sending = form.sending
            /\ form'.saved = form.saved
      BY <1>0, <2>1 DEF FormShape
    <2>3. FormFits'
      BY <1>0, <2>1 DEF FormFits, FormShape
    <2>. QED  BY <2>1, <2>2, <2>3, FormMoves
  <1>5. CASE OpenMarkdownDialog
    <2>1. /\ UNCHANGED <<page, at, goto, guides, told, again, mixed, fetchVars>>
          /\ clicks' \in Nat
          /\ form' = [form EXCEPT !.dialog = TRUE]
      BY <1>0, <1>5 DEF OpenMarkdownDialog, Set, Click
    <2>2. FormShape(form') /\ form'.sending = form.sending
            /\ form'.saved = form.saved
      BY <1>0, <2>1 DEF FormShape
    <2>3. FormFits'
      BY <1>0, <2>1 DEF FormFits, FormShape
    <2>. QED  BY <2>1, <2>2, <2>3, FormMoves
  <1>6. CASE HandleDialogSubmit
    <2>0. Click /\ \E f : Set(f)
      <3>1. Click
        BY <1>6 DEF HandleDialogSubmit
      <3>2. \E enough \in BOOLEAN :
              Set([form EXCEPT !.dialog = FALSE, !.text = @ \/ enough])
        BY <1>6 DEF HandleDialogSubmit
      <3>. QED  BY <3>1, <3>2
    <2>1. PICK enough \in BOOLEAN :
            form' = [form EXCEPT !.dialog = FALSE, !.text = form.text \/ enough]
      BY <1>6 DEF HandleDialogSubmit, Set
    <2>2. /\ UNCHANGED <<page, at, goto, guides, told, again, mixed, fetchVars>>
          /\ clicks' \in Nat
      BY <1>0, <2>0 DEF Set, Click
    <2>3. PICK text \in BOOLEAN : text = (form.text \/ enough)
      OBVIOUS
    <2>4. form' = [form EXCEPT !.dialog = FALSE, !.text = text]
      BY <2>1, <2>3
    <2>5. FormShape(form') /\ form'.sending = form.sending
            /\ form'.saved = form.saved
      BY <1>0, <2>3, <2>4 DEF FormShape
    <2>6. FormFits'
      BY <1>0, <2>2, <2>4 DEF FormFits, FormShape
    <2>. QED  BY <2>2, <2>5, <2>6, FormMoves
  <1>. QED  BY <1>1, <1>2, <1>3, <1>4, <1>5, <1>6

(* The form is sent, for the server it shows then.                         *)
LEMMA FormSent ==
    ASSUME page = "guide", GuideInv, HandleSubmit
    PROVE  GuideInv'
  <1>s. PICK server :
          server = IF at.what = "new" THEN EffectiveServer ELSE ServerId
    OBVIOUS
  <1>l. PICK link : link = Link(server, TRUE)
    OBVIOUS
  <1>w. PICK saw : saw = [server |-> EffectiveServer, scope |-> form.scope,
                          on |-> at.server, nth |-> clicks']
    OBVIOUS
  <1>r. PICK r : r = Request(at.what, at.guide, link, saw)
    OBVIOUS
  <1>0. GuideTyped /\ FormShape(form) /\ GuidePage
    BY DEF GuideInv, GuideTyped
  <1>1. /\ page' = page /\ clicks' = clicks + 1
        /\ at.what \in Forms /\ form.sending = 0 /\ Validate
        /\ form' = [form EXCEPT !.sending = clicks']
        /\ calls' = calls \cup {r} /\ doubt' = doubt
        /\ again' = again + (IF at.what = "new" /\ form.saved THEN 1 ELSE 0)
        /\ mixed' = (mixed \/ \E k \in calls : k.what \in Forms)
        /\ UNCHANGED <<at, goto, guides, told>>
    BY <1>s, <1>l, <1>w, <1>r DEF HandleSubmit, CanSubmit, Writing, Click, Send
  <1>2. /\ r.what = at.what /\ r.of = at.guide /\ r.saw = saw
        /\ r.arg = link /\ r.state = "sent" /\ IsRequest(r)
    BY <1>r, NewRequest
  <1>3. /\ r.arg.slash /\ (at.what = "new" => r.arg.server = EffectiveServer)
        /\ r.saw.server = EffectiveServer /\ r.saw.scope = form.scope
        /\ r.saw.on = at.server /\ r.saw.nth = clicks'
    BY <1>2, <1>l, <1>s, <1>w DEF Link
  <1>4. clicks' \in Nat /\ clicks' # 0
    BY <1>0, <1>1 DEF GuidePage
  <1>5. /\ FormShape(form') /\ form'.sending = clicks'
        /\ form'.scope = form.scope /\ form'.server = form.server
        /\ form'.list = form.list /\ form'.saved = form.saved
    BY <1>0, <1>1, <1>4 DEF FormShape
  <1>6. at \in Places /\ again \in Nat /\ mixed \in BOOLEAN
    BY <1>0 DEF GuideTyped, GuideTypeOK
  <1>7. GuideTyped'
    BY <1>0, <1>1, <1>5, <1>6 DEF GuideTyped, GuideTypeOK, FormShape
  <1>8. at.guide \in GuideIds /\ at.server \in Servers \cup {None}
    BY <1>6 DEF Places
  <1>9. EffectiveServer \in Servers \cup {None}
    BY <1>0 DEF EffectiveServer, FormShape
  <1>10. EffectiveServer # None
           <=> OfServer(at.what, form.scope, at.server)
    <2>1. CASE form.scope # "server"
      BY <2>1 DEF EffectiveServer, OfServer
    <2>2. CASE form.scope = "server" /\ at.server = None
      BY <1>1, <2>2 DEF EffectiveServer, OfServer, Validate
    <2>3. CASE form.scope = "server" /\ at.server # None
      BY <1>0, <1>1, <2>3 DEF EffectiveServer, OfServer, GuidePage, FormFits,
                              Forms
    <2>. QED  BY <2>1, <2>2, <2>3
  <1>11. GuideCalls'
    <2>1. at.what = "edit" => Exist(at.guide)
      BY <1>0 DEF GuidePage, PagesThere, IsShown
    <2>2. GuideCall(r)'
      BY <1>1, <1>2, <1>3, <1>4, <1>8, <1>9, <1>10, <2>1 DEF GuideCall, Exist
    <2>3. \A k \in calls : GuideCall(k)'
      BY <1>0, <1>1 DEF GuidePage, GuideCalls, GuideCall, Exist
    <2>. QED  BY <1>1, <2>2, <2>3 DEF GuideCalls
  <1>12. PagesThere' /\ FormFits'
    BY <1>0, <1>1, <1>5 DEF GuidePage, PagesThere, IsShown, Exist, FormFits
  <1>13. at.what = "new" => calls = {}
    BY <1>0, <1>1 DEF GuidePage, OwnCalls, GuideCalls, GuideCall, Forms
  <1>14. OwnCalls'
    BY <1>0, <1>1, <1>2, <1>3, <1>5, <1>13 DEF GuidePage, OwnCalls
  <1>15. GuideWhere'
    <2>. SUFFICES ASSUME doubt' = {}, ~mixed' PROVE GuideWhere'
      BY DEF GuideWhere
    <2>1. doubt = {} /\ ~mixed /\ \A k \in calls : k.what \notin Forms
      BY <1>1
    <2>2. ~SaveDone /\ ~SaveDone'
      BY <1>1, <1>2, <2>1 DEF SaveDone
    <2>3. FitsGuide(Coming)'
      BY <1>0, <1>1, <2>1, <2>2 DEF GuidePage, GuideWhere, FitsGuide, Coming
    <2>. QED  BY <1>0, <1>1, <1>2, <2>1, <2>2, <2>3 DEF GuidePage, GuideWhere
  <1>16. GuideCount'
    <2>1. Made' = Made /\ Made \in Nat
      BY <1>1, MadeIsNumber DEF Made, GuidesMade
    <2>. HIDE DEF GuidesMade
    <2>2. CASE at.what = "new"
      BY <1>0, <1>1, <1>2, <1>5, <1>6, <1>13, <2>1, <2>2
      DEF GuidePage, GuideCount
    <2>3. CASE at.what # "new"
      BY <1>0, <1>1, <1>2, <1>6, <2>1, <2>3 DEF GuidePage, GuideCount
    <2>. QED  BY <2>2, <2>3
  <1>. QED  BY <1>1, <1>4, <1>7, <1>11, <1>12, <1>14, <1>15, <1>16
            DEF GuideInv, GuidePage

(* The router is asked for a page of a guide that is there.                *)
LEMMA PageAsked ==
    ASSUME page = "guide", page' = page, GuideInv, clicks' \in Nat,
           NEW p \in Places, p.what # "new", IsShown(p), Push(p),
           goto \in {None, p} /\ FitsGuide(Coming) => FitsGuide(p),
           UNCHANGED <<at, form, guides, told, again, fetchVars>>
    PROVE  GuideInv'
  <1>0. /\ GuideTyped /\ GuidePage /\ UNCHANGED <<calls, doubt>>
        /\ goto' = p /\ mixed' = (mixed \/ goto \notin {None, p})
    BY DEF GuideInv, fetchVars, Push
  <1>1. p # None
    BY GuidesAssumption
  <1>2. GuideTyped'
    BY <1>0 DEF GuideTyped, GuideTypeOK, FormShape
  <1>3. GuideCalls'
    BY <1>0 DEF GuidePage, GuideCalls, GuideCall, Exist
  <1>4. PagesThere' /\ FormFits' /\ OwnCalls'
    BY <1>0 DEF GuidePage, PagesThere, IsShown, Exist, FormFits, OwnCalls
  <1>5. GuideWhere'
    <2>. SUFFICES ASSUME doubt' = {}, ~mixed' PROVE GuideWhere'
      BY DEF GuideWhere
    <2>1. doubt = {} /\ ~mixed /\ goto \in {None, p}
      BY <1>0
    <2>2. SaveDone' = SaveDone
      BY <1>0 DEF SaveDone
    <2>3. Coming' = p
      BY <1>0, <1>1 DEF Coming
    <2>4. ~SaveDone => FitsGuide(Coming)'
      BY <1>0, <2>1, <2>3 DEF GuidePage, GuideWhere, FitsGuide
    <2>. QED  BY <1>0, <2>1, <2>2, <2>4 DEF GuidePage, GuideWhere
  <1>6. GuideCount'
    <2>1. Made' = Made
      BY DEF Made, GuidesMade
    <2>. QED  BY <1>0, <2>1 DEF GuidePage, GuideCount
  <1>. QED  BY <1>2, <1>3, <1>4, <1>5, <1>6 DEF GuideInv, GuidePage

LEMMA FormLeft ==
    ASSUME page = "guide", GuideInv, HandleCancel \/ OpenEditor
    PROVE  GuideInv'
  <1>0. GuideTyped /\ GuidePage /\ at \in Places
    BY DEF GuideInv, GuideTyped, GuideTypeOK
  <1>1. PICK w \in {"detail", "list", "edit"} :
          /\ Push([at EXCEPT !.what = w])
          /\ w # "list" => at.what \in {"detail", "edit"}
    BY DEF HandleCancel, OpenEditor, Writing, Forms
  <1>2. /\ page' = page /\ clicks' \in Nat
        /\ UNCHANGED <<at, form, guides, told, again, fetchVars>>
    BY <1>0 DEF HandleCancel, OpenEditor, Click, GuidePage
  <1>3. PICK p : p = [at EXCEPT !.what = w]
    OBVIOUS
  <1>4. /\ p \in Places /\ p.what = w /\ p.guide = at.guide
        /\ p.server = at.server
    BY <1>0, <1>1, <1>3 DEF Places, Forms
  <1>5. IsShown(p) /\ p.what # "new"
    BY <1>0, <1>1, <1>4 DEF GuidePage, PagesThere, IsShown
  <1>6. goto \in {None, p} /\ FitsGuide(Coming) => FitsGuide(p)
    BY <1>1, <1>4 DEF Coming, FitsGuide
  <1>7. Push(p)
    BY <1>1, <1>3
  <1>. QED  BY <1>2, <1>4, <1>5, <1>6, <1>7, PageAsked

(* The page that was asked for is shown.                                   *)
LEMMA PageShown ==
    ASSUME page = "guide", GuideInv, Navigated
    PROVE  GuideInv'
  <1>0. GuideTyped /\ FormShape(form) /\ GuidePage
    BY DEF GuideInv, GuideTyped
  <1>1. /\ goto # None /\ at' = goto /\ goto' = None
        /\ form' = IF goto.what = "edit"
                   THEN FormOf("edit", goto.guide, goto.server) ELSE form
        /\ UNCHANGED <<page, clicks, guides, told, again, mixed, calls, doubt>>
    BY DEF Navigated, Alone, browserVars, fetchVars
  <1>2. /\ goto \in Places /\ goto.what # "new" /\ IsShown(goto)
        /\ guides \in [GuideIds -> Servers \cup {None, "absent"}]
    BY <1>0, <1>1 DEF GuideTyped, GuideTypeOK, GuidePage, PagesThere
  <1>3. goto.guide \in GuideIds /\ goto.server \in Servers \cup {None}
    BY <1>2 DEF Places
  <1>4. /\ FormShape(form')
        /\ goto.what = "edit" => /\ ~form'.list
                                 /\ form'.scope = "server"
                                      => form'.server # None
    <2>1. CASE goto.what = "edit"
      BY <1>1, <1>2, <1>3, <2>1, FormOpens DEF IsShown, Exist
    <2>2. CASE goto.what # "edit"
      BY <1>0, <1>1, <2>2
    <2>. QED  BY <2>1, <2>2
  <1>5. GuideTyped'
    BY <1>0, <1>1, <1>2, <1>4 DEF GuideTyped, GuideTypeOK, FormShape
  <1>6. GuideCalls'
    BY <1>0, <1>1 DEF GuidePage, GuideCalls, GuideCall, Exist
  <1>7. PagesThere' /\ FormFits' /\ OwnCalls'
    BY <1>0, <1>1, <1>2, <1>4
    DEF GuidePage, PagesThere, IsShown, Exist, FormFits, OwnCalls, Forms
  <1>8. GuideWhere'
    <2>1. Coming' = Coming /\ SaveDone' = SaveDone
      BY <1>1 DEF Coming, SaveDone
    <2>. QED  BY <1>0, <1>1, <2>1 DEF GuidePage, GuideWhere, FitsGuide
  <1>9. GuideCount'
    <2>1. Made' = Made
      BY <1>1 DEF Made, GuidesMade
    <2>. QED  BY <1>0, <1>1, <1>2, <2>1 DEF GuidePage, GuideCount
  <1>. QED  BY <1>0, <1>1, <1>5, <1>6, <1>7, <1>8, <1>9
            DEF GuideInv, GuidePage

(* A vote, a deletion or a report: a link that has no route.               *)
LEMMA GuideAsked ==
    ASSUME page = "guide", GuideInv, HandleVote \/ HandleDelete \/ HandleReport
    PROVE  GuideInv'
  <1>0. GuideTyped /\ GuidePage
    BY DEF GuideInv
  <1>1. PICK what \in {"vote", "delete", "report"} : Asks(what)
    BY DEF HandleVote, HandleDelete, HandleReport
  <1>l. PICK link : link = Link(ServerId, FALSE)
    OBVIOUS
  <1>r. PICK r : r = Request(what, at.guide, link, None)
    OBVIOUS
  <1>2. /\ page' = page /\ clicks' = clicks + 1 /\ at.what = "detail"
        /\ calls' = calls \cup {r} /\ doubt' = doubt
        /\ UNCHANGED <<at, goto, form, guides, told, again, mixed>>
    BY <1>1, <1>l, <1>r DEF Asks, Click, Send, guideVars
  <1>3. /\ r.what = what /\ r.of = at.guide /\ r.state = "sent"
        /\ IsRequest(r) /\ r.arg = link
    BY <1>r, NewRequest
  <1>4. ~r.arg.slash /\ r.what \notin Forms
    BY <1>3, <1>l DEF Link, Forms
  <1>5. GuideTyped'
    BY <1>0, <1>2 DEF GuideTyped, GuideTypeOK, FormShape
  <1>6. GuideCalls'
    <2>1. GuideCall(r)'
      <3>1. at.guide \in GuideIds
        BY <1>0 DEF GuideTyped, GuideTypeOK, Places
      <3>. QED  BY <1>2, <1>3, <1>4, <3>1 DEF GuideCall
    <2>2. \A k \in calls : GuideCall(k)'
      BY <1>0, <1>2 DEF GuidePage, GuideCalls, GuideCall, Exist
    <2>. QED  BY <1>2, <2>1, <2>2 DEF GuideCalls
  <1>7. PagesThere' /\ FormFits' /\ OwnCalls'
    BY <1>0, <1>2, <1>4
    DEF GuidePage, PagesThere, IsShown, Exist, FormFits, OwnCalls, Forms
  <1>8. GuideWhere'
    <2>1. Coming' = Coming /\ SaveDone' = SaveDone
      BY <1>2, <1>4 DEF Coming, SaveDone
    <2>. QED  BY <1>0, <1>2, <1>4, <2>1 DEF GuidePage, GuideWhere, FitsGuide
  <1>9. GuideCount'
    <2>1. Made' = Made
      BY <1>2 DEF Made, GuidesMade
    <2>. QED  BY <1>0, <1>2, <1>4, <2>1 DEF GuidePage, GuideCount, Forms
  <1>10. clicks' \in Nat
    BY <1>0, <1>2 DEF GuidePage
  <1>. QED  BY <1>2, <1>5, <1>6, <1>7, <1>8, <1>9, <1>10
            DEF GuideInv, GuidePage

(* A request that is refused, or tried again.                              *)
LEMMA GuideReplaced ==
    ASSUME page = "guide", page' = page, GuideInv, clicks' \in Nat,
           NEW k \in calls, NEW n,
           Same(k, n), n.state \in {"sent", "refused"},
           calls' = (calls \ {k}) \cup {n},
           doubt' = {} => doubt = {} /\ k.state = "sent",
           UNCHANGED guideVars
    PROVE  GuideInv'
  <1>0. /\ GuideTyped /\ GuidePage
        /\ UNCHANGED <<at, goto, form, guides, told, again, mixed>>
    BY DEF GuideInv, guideVars
  <1>1. /\ n.what = k.what /\ n.of = k.of /\ n.saw = k.saw /\ n.arg = k.arg
        /\ IsRequest(n) /\ n.state # "ok"
        /\ \A j \in calls' : j = n \/ (j \in calls /\ j # k)
        /\ \A j \in calls : j = k \/ j \in calls'
    BY DEF Same
  <1>2. GuideTyped'
    BY <1>0 DEF GuideTyped, GuideTypeOK, FormShape
  <1>3. GuideCalls'
    <2>1. GuideCall(n)'
      BY <1>0, <1>1 DEF GuidePage, GuideCalls, GuideCall, Exist
    <2>2. \A j \in calls : GuideCall(j)'
      BY <1>0 DEF GuidePage, GuideCalls, GuideCall, Exist
    <2>. QED  BY <1>1, <2>1, <2>2 DEF GuideCalls
  <1>4. PagesThere' /\ FormFits'
    BY <1>0 DEF GuidePage, PagesThere, IsShown, Exist, FormFits
  <1>5. OwnCalls'
    BY <1>0, <1>1 DEF GuidePage, OwnCalls
  <1>6. GuideWhere'
    <2>. SUFFICES ASSUME doubt' = {}, ~mixed' PROVE GuideWhere'
      BY DEF GuideWhere
    <2>1. doubt = {} /\ k.state = "sent" /\ ~mixed
      BY <1>0
    <2>2. Coming' = Coming /\ SaveDone' = SaveDone
      BY <1>0, <1>1, <2>1 DEF Coming, SaveDone
    <2>. QED  BY <1>0, <1>1, <2>1, <2>2 DEF GuidePage, GuideWhere, FitsGuide
  <1>7. GuideCount'
    <2>1. Made' = Made
      BY <1>0 DEF Made, GuidesMade
    <2>. QED  BY <1>0, <1>1, <2>1 DEF GuidePage, GuideCount
  <1>. QED  BY <1>2, <1>3, <1>4, <1>5, <1>6, <1>7 DEF GuideInv, GuidePage

(* The guide is stored: a new one beside those there are, or the form's.   *)
LEMMA GuideStored ==
    ASSUME page = "guide", page' = page, GuideInv, clicks' \in Nat,
           NEW k \in calls, k.state = "sent", k.what \in Forms,
           NEW g \in GuideIds,
           k.what = "edit" => g = k.of,
           k.what = "new" => guides[g] = "absent",
           guides' = [guides EXCEPT ![g] = IF k.what = "edit"
                                           THEN k.saw.server
                                           ELSE k.arg.server],
           Serves(k, "ok", g), UNCHANGED <<at, goto, form, told, again, mixed>>
    PROVE  GuideInv'
  <1>0. GuideTyped /\ GuidePage
    BY DEF GuideInv
  <1>s. PICK s : s = k.saw.server
    OBVIOUS
  <1>1. /\ IsRequest(k) /\ s \in Servers \cup {None} /\ s # "absent"
        /\ k.what = "new" => k.arg.server = s
        /\ k.what = "edit" => Exist(k.of)
    BY <1>0, <1>s, GuidesAssumption DEF GuidePage, GuideCalls, GuideCall
  <1>2. PICK n : /\ Same(k, n) /\ n.state = "ok" /\ n.got = g
                 /\ calls' = (calls \ {k}) \cup {n}
                 /\ lost' = lost /\ doubt' = doubt
    BY <1>1, Served
  <1>3. /\ n.what = k.what /\ n.of = k.of /\ n.saw = k.saw /\ n.arg = k.arg
        /\ IsRequest(n) /\ n \in calls'
        /\ \A j \in calls' : j = n \/ (j \in calls /\ j # k)
    BY <1>2 DEF Same
  <1>4. guides \in [GuideIds -> Servers \cup {None, "absent"}]
    BY <1>0 DEF GuideTyped, GuideTypeOK
  <1>5. /\ guides' = [guides EXCEPT ![g] = s]
        /\ guides' \in [GuideIds -> Servers \cup {None, "absent"}]
        /\ guides'[g] = s
        /\ \A h \in GuideIds \ {g} : guides'[h] = guides[h]
    <2>1. guides' = [guides EXCEPT ![g] = s]
      BY <1>s, <1>1 DEF Forms
    <2>. QED  BY <1>1, <1>4, <2>1
  <1>6. /\ \A h \in GuideIds : Exist(h) => Exist(h)'
        /\ Exist(g)'
    BY <1>1, <1>5 DEF Exist
  <1>7. GuideTyped'
    BY <1>0, <1>5 DEF GuideTyped, GuideTypeOK, FormShape
  <1>8. GuideCalls'
    <2>1. GuideCall(n)'
      BY <1>0, <1>1, <1>2, <1>3, <1>6 DEF GuidePage, GuideCalls, GuideCall
    <2>2. \A j \in calls : GuideCall(j)'
      BY <1>0, <1>6 DEF GuidePage, GuideCalls, GuideCall
    <2>. QED  BY <1>3, <2>1, <2>2 DEF GuideCalls
  <1>9. PagesThere'
    <2>1. Old \in GuideIds /\ at.guide \in GuideIds
            /\ (goto # None => goto.guide \in GuideIds)
      BY <1>0, OldIsThere DEF GuideTyped, GuideTypeOK, Places
    <2>. QED  BY <1>0, <1>6, <2>1 DEF GuidePage, PagesThere, IsShown
  <1>10. FormFits'
    BY <1>0 DEF GuidePage, FormFits
  <1>11. OwnCalls'
    BY <1>0, <1>3 DEF GuidePage, OwnCalls
  <1>12. GuideWhere'
    <2>. SUFFICES ASSUME doubt' = {}, ~mixed' PROVE GuideWhere'
      BY DEF GuideWhere
    <2>1. \A j \in calls' : j.what \in Forms => j = n
      BY <1>0, <1>2, <1>3 DEF GuidePage, GuideWhere
    <2>2. SaveDone'
      BY <1>2, <1>3 DEF SaveDone
    <2>3. guides'[n.got] = n.saw.server
      BY <1>s, <1>2, <1>3, <1>5
    <2>. QED  BY <2>1, <2>2, <2>3 DEF GuideWhere
  <1>13. GuideCount'
    <2>. SUFFICES ASSUME doubt' = {} PROVE GuideCount'
      BY DEF GuideCount
    <2>0. /\ Made \in Nat /\ again \in Nat /\ doubt = {}
          /\ Made <= 1 + again
          /\ \A j \in calls : j.what = "new" /\ j.state # "ok"
                                => Made <= again
      BY <1>0, <1>2, MadeIsNumber DEF GuideTyped, GuideTypeOK, GuidePage,
                                      GuideCount
    <2>1. CASE k.what = "edit"
      <3>1. guides[g] # "absent"
        BY <1>1, <2>1 DEF Exist
      <3>2. GuidesMade' = GuidesMade
        BY <1>1, <1>5, <3>1 DEF GuidesMade
      <3>3. Made' = Made
        BY <3>2 DEF Made
      <3>4. at.what # "new"
        BY <1>0, <2>1 DEF GuidePage, OwnCalls
      <3>. QED  BY <1>3, <2>0, <2>1, <3>3, <3>4 DEF GuideCount
    <2>2. CASE k.what = "new"
      <3>1. g # Old
        BY <1>0, <2>2 DEF GuidePage, PagesThere, Exist
      <3>2. Made' = Made + 1
        BY <1>1, <1>4, <1>5, <2>2, <3>1, OneMade
      <3>3. Made <= again
        BY <2>0, <2>2
      <3>4. \A j \in calls' : j.what = "new" => j = n
        BY <1>0, <1>3, <2>2 DEF GuidePage, OwnCalls
      <3>. QED  BY <1>2, <1>3, <2>0, <3>2, <3>3, <3>4 DEF GuideCount
    <2>. QED  BY <2>1, <2>2 DEF Forms
  <1>. QED  BY <1>7, <1>8, <1>9, <1>10, <1>11, <1>12, <1>13
            DEF GuideInv, GuidePage

LEMMA GuideServed ==
    ASSUME page = "guide", GuideInv, NEW k \in calls, ServeGuide(k)
    PROVE  GuideInv'
  <1>0. GuideCall(k) /\ clicks \in Nat
    BY DEF GuideInv, GuidePage, GuideCalls
  <1>1. /\ page' = page /\ clicks' \in Nat /\ k.state = "sent"
        /\ UNCHANGED <<at, goto, form, told, again, mixed>>
    BY <1>0 DEF ServeGuide, Alone, browserVars
  <1>2. CASE ~k.arg.slash
    <2>1. Serves(k, "refused", None) /\ guides' = guides
      BY <1>2 DEF ServeGuide
    <2>2. PICK n : /\ Same(k, n) /\ n.state = "refused" /\ n.got = None
                   /\ calls' = (calls \ {k}) \cup {n}
                   /\ lost' = lost /\ doubt' = doubt
      BY <1>0, <2>1, Served DEF GuideCall
    <2>3. UNCHANGED guideVars
      BY <1>1, <2>1 DEF guideVars
    <2>. QED  BY <1>1, <2>2, <2>3, GuideReplaced
  <1>3. CASE k.arg.slash
    <2>1. PICK g \in IF k.what = "edit" THEN {k.of}
                     ELSE {h \in GuideIds : guides[h] = "absent"} :
              /\ guides' = [guides EXCEPT ![g] = IF k.what = "edit"
                                                 THEN k.saw.server
                                                 ELSE k.arg.server]
              /\ Serves(k, "ok", g)
      BY <1>3 DEF ServeGuide
    <2>2. /\ k.what \in Forms /\ g \in GuideIds
          /\ k.what = "edit" => g = k.of
          /\ k.what = "new" => guides[g] = "absent"
      BY <1>0, <1>3, <2>1 DEF GuideCall, Forms
    <2>. QED  BY <1>1, <2>1, <2>2, GuideStored
  <1>. QED  BY <1>2, <1>3

LEMMA GuideTroubled ==
    ASSUME page = "guide", GuideInv, NEW k \in calls,
           Troubles(k), UNCHANGED guideVars
    PROVE  GuideInv'
  <1>0. IsRequest(k) /\ clicks \in Nat
    BY DEF GuideInv, GuidePage, GuideCalls, GuideCall
  <1>1. PICK n : /\ Same(k, n) /\ n.state \in {"sent", "refused"}
                 /\ calls' = (calls \ {k}) \cup {n}
                 /\ doubt' = {} => doubt = {} /\ k.state = "sent"
    BY <1>0, Troubled
  <1>2. page' = page /\ clicks' \in Nat
    BY <1>0 DEF Troubles, Click
  <1>. QED  BY <1>1, <1>2, GuideReplaced

(* The answer of a form: to the page of its guide, under its server, or    *)
(* the form again.                                                         *)
LEMMA FormAnswered ==
    ASSUME page = "guide", page' = page, clicks' = clicks, GuideInv,
           NEW k \in calls, Settles(k), Submitted(k),
           UNCHANGED <<at, guides, again>>
    PROVE  GuideInv'
  <1>0. GuideTyped /\ FormShape(form) /\ GuidePage
    BY DEF GuideInv, GuideTyped
  <1>1. /\ k.what \in Forms /\ calls' = calls \ {k} /\ doubt' = doubt
        /\ k.state # "sent"
    BY DEF Settles, Submitted
  <1>2. GuideCall(k)
    BY <1>0 DEF GuidePage, GuideCalls
  <1>3. /\ FormShape(form') /\ form'.scope = form.scope
        /\ form'.server = form.server /\ form'.list = form.list
        /\ form.saved => form'.saved
        /\ form.sending = k.saw.nth /\ k.state = "ok" => form'.saved
    <2>1. PICK done \in BOOLEAN : done = (form.saved \/ k.state = "ok")
      OBVIOUS
    <2>2. form' = IF form.sending = k.saw.nth
                  THEN [form EXCEPT !.sending = 0, !.saved = done]
                  ELSE form
      BY <2>1 DEF Submitted, Resumes
    <2>. QED  BY <1>0, <2>1, <2>2 DEF FormShape
  <1>4. GuideCalls'
    BY <1>0, <1>1 DEF GuidePage, GuideCalls, GuideCall, Exist
  <1>5. FormFits'
    BY <1>0, <1>3 DEF GuidePage, FormFits
  <1>6. at.what = "new" => /\ k.what = "new" /\ k.saw.nth = form.sending
                           /\ calls' = {}
    BY <1>0, <1>1 DEF GuidePage, OwnCalls
  <1>7. OwnCalls'
    BY <1>0, <1>1, <1>6 DEF GuidePage, OwnCalls
  <1>8. GuideCount'
    <2>1. Made' = Made
      BY DEF Made, GuidesMade
    <2>2. CASE at.what = "new"
      BY <1>0, <1>1, <1>3, <1>6, <2>1, <2>2 DEF GuidePage, GuideCount
    <2>3. CASE at.what # "new"
      BY <1>0, <1>1, <2>1, <2>3 DEF GuidePage, GuideCount
    <2>. QED  BY <2>2, <2>3
  <1>9. CASE k.state = "ok"
    <2>. DEFINE p == Page("detail", k.got, k.saw.server)
    <2>1. /\ goto' = p /\ mixed' = (mixed \/ goto \notin {None, p})
          /\ told' = [what |-> k.what, scope |-> k.saw.scope,
                      on |-> k.saw.on, guide |-> k.got]
      BY <1>9 DEF Submitted, Push, SavedAs
    <2>2. /\ k.got \in GuideIds /\ Exist(k.got)
          /\ k.saw.server \in Servers \cup {None}
          /\ k.saw.server # None <=> OfServer(k.what, k.saw.scope, k.saw.on)
      BY <1>1, <1>2, <1>9 DEF GuideCall
    <2>3. /\ p \in Places /\ p.what = "detail" /\ p.guide = k.got
          /\ p.server = k.saw.server /\ p # None
      BY <2>2, GuidesAssumption DEF Page, Places, Forms
    <2>. HIDE DEF p
    <2>4. GuideTyped'
      BY <1>0, <1>3, <2>1, <2>3 DEF GuideTyped, GuideTypeOK, FormShape
    <2>5. PagesThere'
      BY <1>0, <2>1, <2>2, <2>3 DEF GuidePage, PagesThere, IsShown, Exist
    <2>6. GuideWhere'
      <3>. SUFFICES ASSUME doubt' = {}, ~mixed' PROVE GuideWhere'
        BY DEF GuideWhere
      <3>1. doubt = {} /\ ~mixed
        BY <1>1, <2>1
      <3>2. \A j \in calls' : j.what \notin Forms
        BY <1>0, <1>1, <3>1 DEF GuidePage, GuideWhere
      <3>3. guides[k.got] = k.saw.server
        BY <1>0, <1>1, <1>9, <3>1 DEF GuidePage, GuideWhere
      <3>4. Coming' = p
        BY <2>1, <2>3 DEF Coming
      <3>5. FitsGuide(Coming)'
        BY <2>3, <3>3, <3>4 DEF FitsGuide
      <3>6. guides'[told'.guide] # None
              <=> OfServer(told'.what, told'.scope, told'.on)
        BY <2>1, <2>2, <3>3
      <3>. QED  BY <3>2, <3>5, <3>6 DEF GuideWhere
    <2>. QED  BY <1>0, <1>4, <1>5, <1>7, <1>8, <2>4, <2>5, <2>6
              DEF GuideInv, GuidePage
  <1>10. CASE k.state # "ok"
    <2>1. UNCHANGED <<goto, told, mixed>>
      BY <1>10 DEF Submitted
    <2>2. GuideTyped'
      BY <1>0, <1>3, <2>1 DEF GuideTyped, GuideTypeOK, FormShape
    <2>3. PagesThere'
      BY <1>0, <2>1 DEF GuidePage, PagesThere, IsShown, Exist
    <2>4. Coming' = Coming /\ SaveDone' = SaveDone
      BY <1>1, <1>10, <2>1 DEF Coming, SaveDone
    <2>5. GuideWhere'
      BY <1>0, <1>1, <2>1, <2>4 DEF GuidePage, GuideWhere, FitsGuide
    <2>. QED  BY <1>0, <1>4, <1>5, <1>7, <1>8, <2>2, <2>3, <2>5
              DEF GuideInv, GuidePage
  <1>. QED  BY <1>9, <1>10

LEMMA GuideTold ==
    ASSUME page = "guide", page' = page, clicks' = clicks, GuideInv,
           NEW k \in calls, Settles(k), Told(k), UNCHANGED <<at, guides, again>>
    PROVE  GuideInv'
  <1>0. GuideTyped /\ GuidePage
    BY DEF GuideInv
  <1>1. /\ k.what \notin Forms /\ calls' = calls \ {k} /\ doubt' = doubt
        /\ UNCHANGED <<goto, form, told, mixed>>
    BY DEF Settles, Told
  <1>2. GuideTyped'
    BY <1>0, <1>1 DEF GuideTyped, GuideTypeOK, FormShape
  <1>3. GuideCalls'
    BY <1>0, <1>1 DEF GuidePage, GuideCalls, GuideCall, Exist
  <1>4. PagesThere' /\ FormFits' /\ OwnCalls'
    BY <1>0, <1>1 DEF GuidePage, PagesThere, IsShown, Exist, FormFits, OwnCalls
  <1>5. GuideWhere'
    <2>1. Coming' = Coming /\ SaveDone' = SaveDone
      BY <1>1 DEF Coming, SaveDone
    <2>. QED  BY <1>0, <1>1, <2>1 DEF GuidePage, GuideWhere, FitsGuide
  <1>6. GuideCount'
    <2>1. Made' = Made
      BY DEF Made, GuidesMade
    <2>2. at.what # "new"
      BY <1>0, <1>1 DEF GuidePage, OwnCalls, Forms
    <2>. QED  BY <1>0, <1>1, <2>1, <2>2 DEF GuidePage, GuideCount
  <1>. QED  BY <1>0, <1>2, <1>3, <1>4, <1>5, <1>6 DEF GuideInv, GuidePage

LEMMA GuideStep ==
    ASSUME page = "guide", page' = page, GuideInv,
           [GuideNext]_<<browserVars, fetchVars, guideVars>>
    PROVE  GuideInv'
  <1>1. CASE \/ SetScope \/ LoadServers \/ PickServer \/ Write
             \/ OpenMarkdownDialog \/ HandleDialogSubmit
    BY <1>1, FormSet
  <1>2. CASE HandleSubmit
    BY <1>2, FormSent
  <1>3. CASE HandleCancel \/ OpenEditor
    BY <1>3, FormLeft
  <1>4. CASE Navigated
    BY <1>4, PageShown
  <1>5. CASE HandleVote \/ HandleDelete \/ HandleReport
    BY <1>5, GuideAsked
  <1>6. CASE \E k \in calls : ServeGuide(k)
    BY <1>6, GuideServed
  <1>7. CASE \E k \in calls : GuideAnswered(k)
    <2>1. PICK k \in calls : GuideAnswered(k)
      BY <1>7
    <2>2. /\ Settles(k) /\ (Submitted(k) \/ Told(k)) /\ clicks' = clicks
          /\ UNCHANGED <<at, guides, again>>
      BY <2>1 DEF GuideAnswered, Alone, browserVars
    <2>. QED  BY <2>2, FormAnswered, GuideTold
  <1>8. CASE \E k \in calls : Troubles(k) /\ UNCHANGED guideVars
    BY <1>8, GuideTroubled
  <1>9. CASE UNCHANGED <<browserVars, fetchVars, guideVars>>
    <2>1. UNCHANGED <<at, goto, form, guides, told, again, mixed, fetchVars,
                      clicks>>
      BY <1>9 DEF guideVars, browserVars
    <2>2. FormShape(form') /\ FormFits' /\ clicks' \in Nat
      BY <2>1 DEF GuideInv, GuideTyped, GuidePage, FormFits
    <2>. QED  BY <2>1, <2>2, FormMoves
  <1>. QED  BY <1>1, <1>2, <1>3, <1>4, <1>5, <1>6, <1>7, <1>8, <1>9
            DEF GuideNext

LEMMA GuideAway ==
    ASSUME page # "guide", page' = page, GuideInv, UNCHANGED guideVars
    PROVE  GuideInv'
  <1>1. UNCHANGED <<at, goto, form, guides, told, again, mixed>>
    BY DEF guideVars
  <1>. QED  BY <1>1 DEF GuideInv, GuideTyped, GuideTypeOK, FormShape,
                        GuideAside, Exist

-----------------------------------------------------------------------------
LEMMA RadarKept == Spec => []RadarInv
  <1>1. Init => RadarInv
    BY RadarStarts DEF Init
  <1>2. RadarInv /\ [Next]_siteVars => RadarInv'
    <2>. SUFFICES ASSUME RadarInv, [Next]_siteVars PROVE RadarInv'
      OBVIOUS
    <2>1. [RadarNext]_radarVars
      BY DEF Next, siteVars, BesidePanel, BesideGraph, BesideComments,
             BesideGuide, BesideScene, BesideViewer, BesideTable, BesideMaps,
             BesidePush, BesideConsent, BesideLive, BesideSearch
    <2>. QED  BY <2>1, RadarStep
  <1>. QED  BY <1>1, <1>2, PTL DEF Spec

(* In every tab of the site, whatever page it shows, the radar's bar,      *)
(* timers and layer stay in step.                                          *)
THEOREM SiteRadar == Spec => []RadarInStep
  <1>1. RadarInv => RadarInStep
    BY DEF RadarInv, RadarInStep
  <1>. QED  BY <1>1, RadarKept, PTL

LEMMA GraphKept == Spec => []GraphInv
  <1>1. Init => GraphInv
    BY GraphStarts DEF Init
  <1>2. GraphInv /\ [Next]_siteVars => GraphInv'
    <2>. SUFFICES ASSUME GraphInv, [Next]_siteVars PROVE GraphInv'
      OBVIOUS
    <2>1. [GraphNext]_graphVars
      BY DEF Next, siteVars, BesideRadar, BesidePanel, BesideComments,
             BesideGuide, BesideScene, BesideViewer, BesideTable, BesideMaps,
             BesidePush, BesideConsent, BesideLive, BesideSearch
    <2>. QED  BY <2>1, GraphStep
  <1>. QED  BY <1>1, <1>2, PTL DEF Spec

(* The range of a server's page is the one asked for last, the chart shows *)
(* it and the toolbar offers a useful "Apply", for every set of dates.     *)
THEOREM SiteGraph == Spec => []GraphInStep
  <1>1. GraphInv => GraphInStep
    BY DEF GraphInv, GraphInStep, ZoomForgotten, OldZoomIsForgotten
  <1>. QED  BY <1>1, GraphKept, PTL

LEMMA PanelKept == Spec => []PanelInv
  <1>1. Init => PanelInv
    <2>. SUFFICES ASSUME Init PROVE PanelInv
      OBVIOUS
    <2>1. PICK p \in Among("panel", AllPanels, MapHeader) :
            PanelInit(p, CHOOSE f \in Filters : TRUE)
      BY DEF Init
    <2>2. p \in AllPanels
      BY DEF Among, AllPanels
    <2>3. (CHOOSE f \in Filters : TRUE) \in Filters
      BY PanelsAssumption
    <2>. QED  BY <2>1, <2>2, <2>3, PanelStarts
  <1>2. PanelInv /\ [Next]_siteVars => PanelInv'
    <2>. SUFFICES ASSUME PanelInv, [Next]_siteVars PROVE PanelInv'
      OBVIOUS
    <2>1. [PanelNext]_panelVars
      BY DEF Next, siteVars, BesideRadar, BesideGraph, BesideComments,
             BesideGuide, BesideScene, BesideViewer, BesideTable, BesideMaps,
             BesidePush, BesideConsent, BesideLive, BesideSearch
    <2>. QED  BY <2>1, PanelStep
  <1>. QED  BY <1>1, <1>2, PTL DEF Spec

(* Every list and chart shows what is selected, or that it waits for it,   *)
(* or why it did not come, for every number of pages, filters and reads.   *)
THEOREM SitePanels == Spec => []PanelInStep
  <1>1. PanelInv => PanelInStep
    BY DEF PanelInv, PanelInStep, AnswerShown, LastOut, SettledShowsTheLast
  <1>. QED  BY <1>1, PanelKept, PTL

LEMMA ViewerKept == Spec => [](SceneInv /\ ControlsInv)
  <1>1. Init => SceneInv /\ ControlsInv
    <2>. SUFFICES ASSUME Init PROVE SceneInv /\ ControlsInv
      OBVIOUS
    <2>1. PICK bad \in Among("model", SUBSET Objects, {}) : SceneInit(bad)
      BY DEF Init
    <2>2. bad \in SUBSET Objects
      BY DEF Among
    <2>. QED  BY <2>1, <2>2, SceneStarts, ControlsStart DEF Init
  <1>2. SceneInv /\ ControlsInv /\ [Next]_siteVars => SceneInv' /\ ControlsInv'
    <2>. SUFFICES ASSUME SceneInv, ControlsInv, [Next]_siteVars
                  PROVE  SceneInv' /\ ControlsInv'
      OBVIOUS
    <2>1. [SceneNext]_sceneVars
      BY DEF Next, siteVars, BesideRadar, BesidePanel, BesideGraph,
             BesideComments, BesideGuide, BesideViewer, BesideTable,
             BesideMaps, BesidePush, BesideConsent, BesideLive, BesideSearch
    <2>2. [ViewerNext]_viewerVars
      BY DEF Next, siteVars, BesideRadar, BesidePanel, BesideGraph,
             BesideComments, BesideGuide, BesideScene, BesideTable,
             BesideMaps, BesidePush, BesideConsent, BesideLive, BesideSearch
    <2>. QED  BY <2>1, <2>2, SceneStep, ControlsStep
  <1>. QED  BY <1>1, <1>2, PTL DEF Spec

(* A viewer that is ready shows the model without its problematic objects, *)
(* whoever traversed it and kept indices of it, and the camera does what   *)
(* the keys and the lock ask for, for every model and every speed.         *)
THEOREM SiteViewer == Spec => []ViewerInStep
  <1>1. SceneInv /\ ControlsInv => ViewerInStep
    <2>. SUFFICES ASSUME SceneInv, ControlsInv PROVE ViewerInStep
      OBVIOUS
    <2>1. SceneInStep
      BY DEF SceneInv, SceneInStep, ReadyIsClean, FirstIsWhole, FirstViewer,
             CleanOnceValidated
    <2>2. walker.crouching \in BOOLEAN
      BY DEF ControlsInv, ViewerTypes
    <2>3. walker.crouching = ("crouch" \in moves["walk"])
      BY <2>2 DEF ControlsInv, CrouchesAsHeld
    <2>4. NoKeySticks
      BY <2>3 DEF ControlsInv, KeysInv, KeysAsHeld, NoKeySticks
    <2>. QED  BY <2>1, <2>4
              DEF ControlsInv, PointerInv, ViewerInStep, ControlsInStep
  <1>. QED  BY <1>1, ViewerKept, PTL

LEMMA VisitKept == Spec => [](SearchInv /\ LiveInv)
  <1>1. Init => SearchInv /\ LiveInv
    <2>. SUFFICES ASSUME Init PROVE SearchInv /\ LiveInv
      OBVIOUS
    <2>1. LiveInv
      BY LiveStarts DEF Init
    <2>2. ASSUME page = "search" PROVE SearchInv
      <3>1. /\ box = [input |-> None, options |-> None, timer |-> FALSE,
                      suggest |-> FALSE]
            /\ search = Searched(None, "LastPlayed", 0)
            /\ hearts = [shown |-> {}, stored |-> Texts]
            /\ crossing = FALSE
        BY DEF Init, SearchInit
      <3>2. FetchInit({Request("list", None, None, 0)})
        BY <2>2 DEF Init, SearchReads
      <3>. DEFINE r == Request("list", None, None, 0)
      <3>3. calls = {r} /\ lost = 0
        BY <3>2 DEF FetchInit
      <3>4. /\ r.what = "list" /\ r.state = "sent"
            /\ r = [what |-> r.what, of |-> r.of, arg |-> r.arg,
                    saw |-> r.saw, try |-> r.try, limited |-> r.limited,
                    state |-> r.state, got |-> r.got]
        BY Requested
      <3>. HIDE DEF r
      <3>5. SearchShape /\ SearchedAsTyped
        BY <3>1 DEF SearchShape, SearchedAsTyped, Searched
      <3>6. Healthy /\ SuggestionsComing /\ HeartsComing
        BY <3>1, <3>3, <3>4 DEF Healthy, SuggestionsComing, HeartsComing
      <3>. QED  BY <3>3, <3>5, <3>6 DEF SearchInv
    <2>. QED  BY <2>1, <2>2 DEF SearchInv
  <1>2. SearchInv /\ LiveInv /\ [Next]_siteVars => SearchInv' /\ LiveInv'
    <2>. SUFFICES ASSUME SearchInv, LiveInv, [Next]_siteVars
                  PROVE  SearchInv' /\ LiveInv'
      OBVIOUS
    <2>1. [LiveNext]_liveVars
      BY DEF Next, siteVars, BesideRadar, BesidePanel, BesideGraph,
             BesideComments, BesideGuide, BesideScene, BesideViewer,
             BesideTable, BesideMaps, BesidePush, BesideConsent, BesideSearch
    <2>2. page # "search" => SearchInv'
      BY PageStays DEF SearchInv
    <2>3. page = "search" =>
            [SearchNext]_<<browserVars, fetchVars, searchVars>>
      BY DEF Next, siteVars
    <2>. QED  BY <2>1, <2>2, <2>3, LiveStep, SearchStep
  <1>. QED  BY <1>1, <1>2, PTL DEF Spec

(* What a visitor follows is what the page says: the maps are searched for *)
(* what the box says and the hearts are those of the API once everything   *)
(* is answered, and the live feed has one stream at most and counts what   *)
(* it lists, for every set of maps and pages and every number of events.   *)
THEOREM SiteVisit == Spec => []VisitInStep
  <1>1. SearchInv /\ LiveInv => VisitInStep
    <2>1. SearchInv => SearchInStep
      BY DEF SearchInv, SearchInStep, SearchedAsTyped, SuggestionsComing,
             HeartsComing
    <2>. QED  BY <2>1, LiveCounted DEF VisitInStep
  <1>. QED  BY <1>1, VisitKept, PTL

LEMMA AdminKept == Spec => [](TableInv /\ MapsInv)
  <1>1. Init => TableInv /\ MapsInv
    <2>. SUFFICES ASSUME Init PROVE TableInv /\ MapsInv
      OBVIOUS
    <2>1. PICK w, b : FetchInit(CASE page = "maps" -> MapsReads
                                  [] page = "push" -> PushReads(w, b[2])
                                  [] page = "consent" -> ConsentReads
                                  [] page = "search" -> SearchReads
                                  [] OTHER         -> {})
      BY DEF Init
    <2>2. page = "maps" => FetchInit(MapsReads)
      BY <2>1
    <2>3. page = "table" => FetchInit({})
      BY <2>1
    <2>4. MapsInv
      BY <2>2, MapsStarts DEF Init
    <2>5. PICK p \in Among("table", AdminPages, BansPage) :
            TableInit(p, CHOOSE f \in TableFilters : TRUE)
      BY DEF Init
    <2>6. page # "table" => p = BansPage
      BY <2>5 DEF Among
    <2>7. page = "table" => calls = {} /\ doubt = {}
      BY <2>3 DEF FetchInit
    <2>8. TableInv
      BY <2>5, <2>6, <2>7, TableStarts
    <2>. QED  BY <2>4, <2>8
  <1>2. TableInv /\ MapsInv /\ [Next]_siteVars => TableInv' /\ MapsInv'
    <2>. SUFFICES ASSUME TableInv, MapsInv, [Next]_siteVars
                  PROVE  TableInv' /\ MapsInv'
      OBVIOUS
    <2>1. page' = page
      BY PageStays
    <2>2. TableInv'
      <3>1. CASE page = "table"
        <4>1. [TableNext]_<<browserVars, fetchVars, tableVars>>
          BY <3>1 DEF Next, siteVars
        <4>. QED  BY <2>1, <3>1, <4>1, TableStep
      <3>2. CASE page # "table"
        <4>1. UNCHANGED tableVars
          BY <3>2 DEF Next, siteVars, BesideRadar, BesidePanel, BesideGraph,
                      BesideComments, BesideGuide, BesideScene, BesideViewer,
                      BesideMaps, BesidePush, BesideConsent, BesideLive,
                      BesideSearch
        <4>. QED  BY <2>1, <3>2, <4>1
                  DEF tableVars, TableInv, TableShape, TableElsewhere,
                      FormIsOfItsRow, Is
      <3>. QED  BY <3>1, <3>2
    <2>3. MapsInv'
      <3>1. CASE page = "maps"
        <4>1. [MapsNext]_<<browserVars, fetchVars, mapsVars>>
          BY <3>1 DEF Next, siteVars
        <4>. QED  BY <2>1, <3>1, <4>1, MapsStep
      <3>2. CASE page # "maps"
        <4>1. UNCHANGED mapsVars
          BY <3>2 DEF Next, siteVars, BesideRadar, BesidePanel, BesideGraph,
                      BesideComments, BesideGuide, BesideScene, BesideViewer,
                      BesideTable, BesidePush, BesideConsent, BesideLive,
                      BesideSearch
        <4>. QED  BY <2>1, <3>2, <4>1 DEF mapsVars, MapsInv
      <3>. QED  BY <3>1, <3>2
    <2>. QED  BY <2>2, <2>3
  <1>. QED  BY <1>1, <1>2, PTL DEF Spec

(* The admins' tables and list of maps show what is stored once everything *)
(* was answered, a form is of the row or the map its dialog shows, and no  *)
(* save, and no upload, is sent twice at a time, for every number of rows  *)
(* and maps, and however many requests fail.                               *)
THEOREM SiteAdmin == Spec => []AdminInStep
  <1>1. TableInv /\ MapsInv => AdminInStep
    BY TablePromises, MapsPromises DEF AdminInStep
  <1>. QED  BY <1>1, AdminKept, PTL

LEMMA AccountKept == Spec => [](ConsentInv /\ PushInv)
  <1>1. Init => ConsentInv /\ PushInv
    <2>. SUFFICES ASSUME Init PROVE ConsentInv /\ PushInv
      OBVIOUS
    <2>1. PICK w \in Among("push", Widgets \ {"banner"}, "match"),
               b \in Among("push", Browsers, <<"default", None, {}>>) :
            /\ PushInit(w, b)
            /\ FetchInit(CASE page = "maps" -> MapsReads
                           [] page = "push" -> PushReads(w, b[2])
                           [] page = "consent" -> ConsentReads
                           [] page = "search" -> SearchReads
                           [] OTHER         -> {})
      BY DEF Init
    <2>2. page = "push" => FetchInit(PushReads(w, b[2]))
      BY <2>1
    <2>3. page = "consent" => FetchInit(ConsentReads)
      BY <2>1
    <2>4. w \in Widgets \ {"banner"}
      BY DEF Among, Widgets
    <2>5. b \in Browsers
      BY DEF Among, Browsers
    <2>6. PushInv
      BY <2>1, <2>2, <2>4, <2>5, PushStarts
    <2>7. PICK set \in Among("consent", Settings \cup {None}, None) :
            ConsentInit(set)
      BY DEF Init
    <2>8. set \in Settings \cup {None} /\ clicks = 0
      BY DEF Among, Init, BrowserInit
    <2>9. ConsentInv
      BY <2>3, <2>7, <2>8, ConsentStarts
    <2>. QED  BY <2>6, <2>9
  <1>2. ConsentInv /\ PushInv /\ [Next]_siteVars => ConsentInv' /\ PushInv'
    <2>. SUFFICES ASSUME ConsentInv, PushInv, [Next]_siteVars
                  PROVE  ConsentInv' /\ PushInv'
      OBVIOUS
    <2>1. page' = page
      BY PageStays
    <2>2. ConsentInv'
      <3>1. CASE page = "consent"
        <4>1. [ConsentNext]_<<browserVars, fetchVars, consentVars>>
          BY <3>1 DEF Next, siteVars
        <4>. QED  BY <2>1, <3>1, <4>1, ConsentStep
      <3>2. CASE page # "consent"
        BY <2>1, <3>2 DEF ConsentInv, Keeping, Telling
      <3>. QED  BY <3>1, <3>2
    <2>3. PushInv'
      <3>1. CASE page = "push"
        <4>1. [PushNext]_<<browserVars, fetchVars, pushVars>>
          BY <3>1 DEF Next, siteVars
        <4>. QED  BY <2>1, <3>1, <4>1, PushStep
      <3>2. CASE page # "push"
        BY <2>1, <3>2 DEF PushInv
      <3>. QED  BY <3>1, <3>2
    <2>. QED  BY <2>2, <2>3
  <1>. QED  BY <1>1, <1>2, PTL DEF Spec

(* What a page of notifications shows of the browser, of the alert of its  *)
(* map and of a preference, and what the settings page shows of a user's   *)
(* switches, is what is stored, once everything was answered and nothing   *)
(* failed on the way, for every set of endpoints and every order of clicks *)
(* and answers.                                                            *)
THEOREM SiteAccount == Spec => []AccountInStep
  <1>1. ConsentInv /\ PushInv => AccountInStep
    BY ConsentPromises, PushPromises DEF AccountInStep
  <1>. QED  BY <1>1, AccountKept, PTL

LEMMA CommentsKept == Spec => []CommentsInv
  <1>1. Init => CommentsInv
    <2>. SUFFICES ASSUME Init PROVE CommentsInv
      OBVIOUS
    <2>1. PICK voted \in Among("comments", [First -> Votes \cup {None}],
                               [c \in First |-> None]) : CommentsInit(voted)
      BY DEF Init
    <2>2. voted \in [First -> Votes \cup {None}]
      BY DEF Among
    <2>3. page = "comments" => calls = {}
      BY DEF Init, FetchInit
    <2>. QED  BY <2>1, <2>2, <2>3, CommentsStart
  <1>2. CommentsInv /\ [Next]_siteVars => CommentsInv'
    <2>. SUFFICES ASSUME CommentsInv, [Next]_siteVars PROVE CommentsInv'
      OBVIOUS
    <2>1. page' = page
      BY PageStays
    <2>2. CASE page = "comments"
      <3>1. [CommentsNext]_<<browserVars, fetchVars, commentVars>>
        BY <2>2 DEF Next, siteVars
      <3>. QED  BY <2>1, <2>2, <3>1, CommentsStep
    <2>3. CASE page # "comments"
      <3>1. UNCHANGED commentVars
        BY <2>3 DEF Next, siteVars, BesideRadar, BesidePanel, BesideGraph,
                    BesideGuide, BesideScene, BesideViewer, BesideTable,
                    BesideMaps, BesidePush, BesideConsent, BesideLive,
                    BesideSearch
      <3>. QED  BY <2>1, <2>3, <3>1, CommentsAway
    <2>. QED  BY <2>2, <2>3
  <1>. QED  BY <1>1, <1>2, PTL DEF Spec

(* On the page of a guide's comments, once nothing is on its way, what is  *)
(* listed and counted is what the API stores, and the buttons of a comment *)
(* that wait for nothing show the vote it has, for every number of         *)
(* comments, clicks, failures and tries: unless two changes of the list    *)
(* overlapped or an answer was lost (GuideComments, VoteButtons).          *)
THEOREM SiteComments == Spec => []CommentsInStep
  <1>1. CommentsInv => CommentsInStep
    BY CommentsPromises
  <1>. QED  BY <1>1, CommentsKept, PTL

LEMMA GuideKept == Spec => []GuideInv
  <1>1. Init => GuideInv
    <2>. SUFFICES ASSUME Init PROVE GuideInv
      OBVIOUS
    <2>1. PICK v \in Among("guide",
                           {v \in Visits : v.owner \in {v.server, None}},
                           [owner |-> None, what |-> "detail",
                            server |-> None]) :
            GuideInit(v.owner, v.what, v.server)
      BY DEF Init
    <2>2. /\ v.owner \in Servers \cup {None}
          /\ v.server \in Servers \cup {None}
          /\ v.owner \in {v.server, None}
          /\ v.what \in {"new", "edit", "detail"}
          /\ page # "guide" => v.what = "detail"
      BY DEF Among, Visits, Servers
    <2>3. clicks = 0 /\ (page = "guide" => calls = {})
      BY DEF Init, FetchInit, BrowserInit
    <2>. QED  BY <2>1, <2>2, <2>3, GuideStarts
  <1>2. GuideInv /\ [Next]_siteVars => GuideInv'
    <2>. SUFFICES ASSUME GuideInv, [Next]_siteVars PROVE GuideInv'
      OBVIOUS
    <2>1. page' = page
      BY PageStays
    <2>2. CASE page = "guide"
      <3>1. [GuideNext]_<<browserVars, fetchVars, guideVars>>
        BY <2>2 DEF Next, siteVars
      <3>. QED  BY <2>1, <2>2, <3>1, GuideStep
    <2>3. CASE page # "guide"
      <3>1. UNCHANGED guideVars
        BY <2>3 DEF Next, siteVars, BesideRadar, BesidePanel, BesideGraph,
                    BesideComments, BesideScene, BesideViewer, BesideTable,
                    BesideMaps, BesidePush, BesideConsent, BesideLive,
                    BesideSearch
      <3>. QED  BY <2>1, <2>3, <3>1, GuideAway
    <2>. QED  BY <2>2, <2>3
  <1>. QED  BY <1>1, <1>2, PTL DEF Spec

(* On the page of a guide and its form: a guide is shown under the server  *)
(* it is stored for, a form creates one guide and one more each time it is *)
(* sent again once saved, and a guide is stored for a server exactly when  *)
(* its form said "server" and was not a new one on a server's own page,    *)
(* for every set of guides and number of clicks, failures and tries,       *)
(* unless an answer was lost; the first and the last of these unless two   *)
(* saves were out together or the router was turned away from a page       *)
(* before it showed it (GuideEditor, GuideDetail).                         *)
THEOREM SiteGuide == Spec => []GuideInStep
  <1>1. GuideInv => GuideInStep
    BY GuidePromises
  <1>. QED  BY <1>1, GuideKept, PTL

-----------------------------------------------------------------------------
(* The types of the pages (SiteTypeOK).  Most follow from the invariants   *)
(* above; the rest is what each page keeps beside them.                    *)
(* Failures stay below their bound. *)
Loses == \/ lost' = lost
         \/ lost < Losses[page] /\ lost' = lost + 1

LEMMA TroublesLose == \A k : Troubles(k) => Loses
  BY DEF Troubles, RequestFails, AnswerLost, TooMany, Loses

LEMMA PagesLose ==
    CommentsNext \/ GuideNext \/ TableNext \/ MapsNext \/ PushNext
      \/ ConsentNext \/ SearchNext => Loses
  <1>1. CommentsNext => Loses
    <2>1. \A k : Serve(k) \/ Answer(k) => Loses
      BY DEF Loses, Serve, Answer, Serves, Settles
    <2>2. SubmitComment \/ SendReport \/ Dialogs => Loses
      BY DEF Loses, SubmitComment, SendReport, Dialogs, Calls, Send,
             fetchVars
    <2>3. \A c, v : EditComment(c) \/ DeleteComment(c) \/ VoteComment(c, v)
                      => Loses
      BY DEF Loses, EditComment, DeleteComment, VoteComment, Calls, Send
    <2>. QED  BY <2>1, <2>2, <2>3, TroublesLose DEF CommentsNext
  <1>2. GuideNext => Loses
    <2>1. \A k : ServeGuide(k) \/ GuideAnswered(k) => Loses
      BY DEF Loses, ServeGuide, GuideAnswered, Serves, Settles
    <2>2. SetScope \/ LoadServers \/ PickServer \/ Write
            \/ OpenMarkdownDialog \/ HandleDialogSubmit => Loses
      BY DEF Loses, SetScope, LoadServers, PickServer, Write,
             OpenMarkdownDialog, HandleDialogSubmit, Set, fetchVars
    <2>3. HandleSubmit \/ HandleCancel \/ OpenEditor \/ Navigated
            \/ HandleVote \/ HandleDelete \/ HandleReport => Loses
      BY DEF Loses, HandleSubmit, HandleCancel, OpenEditor, Navigated,
             HandleVote, HandleDelete, HandleReport, Asks, Send, fetchVars
    <2>. QED  BY <2>1, <2>2, <2>3, TroublesLose DEF GuideNext
  <1>3. TableNext => Loses
    <2>1. \A k : ServeRow(k) \/ RowChanged(k) => Loses
      BY DEF Loses, ServeRow, RowChanged, Serves, Settles
    <2>2. SelectFilter \/ ChangeRow \/ OpenDialog \/ CloseDialog \/ Save
            => Loses
      BY DEF Loses, SelectFilter, ChangeRow, OpenDialog, CloseDialog, Save,
             Send, fetchVars
    <2>3. \A r : ServeTable(r) \/ TableAnswered(r) => Loses
      BY DEF Loses, ServeTable, TableAnswered, fetchVars
    <2>. QED  BY <2>1, <2>2, <2>3, TroublesLose DEF TableNext
  <1>4. MapsNext => Loses
    <2>1. \A k : ServeMaps(k) => Loses
      BY DEF Loses, ServeMaps, Serves
    <2>2. \A k : MapsAnswered(k) => Loses
      BY DEF Loses, MapsAnswered, ListAnswered, ModelsAnswered, SaveAnswered,
             FoundAgain, MapDeleted, UploadAnswered, DropAnswered, Follows
    <2>3. HandleSearchChange \/ SearchSettles \/ TurnPage => Loses
      BY DEF Loses, HandleSearchChange, SearchSettles, TurnPage,
             FetchMetadata, fetchVars
    <2>4. OpenMapDialog \/ CloseMapDialog \/ EditForm => Loses
      BY DEF Loses, OpenMapDialog, CloseMapDialog, EditForm, fetchVars
    <2>5. HandleSaveGlobal \/ HandleSave \/ ConfirmDeleteMap => Loses
      BY DEF Loses, HandleSaveGlobal, HandleSave, ConfirmDeleteMap, Saves,
             Send
    <2>6. ChooseModel \/ HandleUpload \/ UploadProgresses
            \/ HandleCancelUpload \/ HandleDeleteModel => Loses
      BY DEF Loses, ChooseModel, HandleUpload, UploadProgresses,
             HandleCancelUpload, HandleDeleteModel, Send, fetchVars
    <2>. QED
      BY <2>1, <2>2, <2>3, <2>4, <2>5, <2>6, TroublesLose DEF MapsNext
  <1>5. PushNext => Loses
    <2>1. \A k : PushServes(k) => Loses
      BY DEF Loses, PushServes, Serves
    <2>2. \A k : PushAnswered(k) => Loses
      BY DEF Loses, PushAnswered, SubscriptionsAnswered, RowAnswered,
             LeaveAnswered, AlertAnswered, PreferAnswered, CancelAnswered,
             AlertsAnswered, PrefsAnswered, GoesOn
    <2>3. HandleDismiss \/ Disable \/ UpdatePreference => Loses
      BY DEF Loses, HandleDismiss, Disable, UpdatePreference, Sending,
             fetchVars
    <2>4. HandleSubscribe \/ HandleUnsubscribe \/ RemoveSubscription => Loses
      BY DEF Loses, HandleSubscribe, HandleUnsubscribe, RemoveSubscription,
             Sending, fetchVars
    <2>5. \A h : Enable(h) \/ RequestPermission(h) \/ Subscribe(h) => Loses
      BY DEF Loses, Enable, RequestPermission, Subscribe, Sending, fetchVars
    <2>. QED
      BY <2>1, <2>2, <2>3, <2>4, <2>5, TroublesLose DEF PushNext
  <1>6. ConsentNext => Loses
    <2>1. \A k : ConsentServes(k) \/ ConsentAnswered(k) => Loses
      BY DEF Loses, ConsentServes, ConsentAnswered, Serves, Settles
    <2>. QED  BY <2>1, TroublesLose DEF ConsentNext, HandleToggleAnonymize,
                                          RenderAgain, fetchVars, Loses, Send
  <1>7. SearchNext => Loses
    <2>1. \A k : SearchServes(k) \/ SearchAnswered(k) => Loses
      BY DEF Loses, SearchServes, SearchAnswered, Serves, Settles
    <2>2. HandleInputChange \/ HandleKeyDown \/ HandleSelect \/ SortBy
            => Loses
      BY DEF Loses, HandleInputChange, HandleKeyDown, HandleSelect, SortBy,
             Ask, Send, fetchVars
    <2>3. HandleChangePage \/ ToggleFavorite \/ SearchTimer
            \/ LoadAutocomplete => Loses
      BY DEF Loses, HandleChangePage, ToggleFavorite, SearchTimer,
             LoadAutocomplete, Ask, Send, fetchVars
    <2>. QED  BY <2>1, <2>2, <2>3, TroublesLose DEF SearchNext
  <1>. QED  BY <1>1, <1>2, <1>3, <1>4, <1>5, <1>6, <1>7

(* Of every page: what is shown is one of the pages, and what is bounded   *)
(* stays below its bound.                                                  *)
Bounded == /\ page \in SitePages /\ clicks \in 0..MaxClicks[page]
           /\ lost \in 0..Losses[page]

LEMMA BoundedStep == Bounded /\ [Next]_siteVars => Bounded'
  <1>. SUFFICES ASSUME Bounded, [Next]_siteVars PROVE Bounded'
    OBVIOUS
  <1>1. MaxClicks[page] \in Nat /\ Losses[page] \in Nat
    BY SiteFetchAssumption, ClicksAssumption DEF Bounded
  <1>2. page' = page
    BY PageStays
  <1>3. clicks' \in 0..MaxClicks[page]
    <2>1. Happens => clicks' \in 0..MaxClicks[page]
      BY <1>1 DEF Happens, Click, Alone, browserVars, Bounded
    <2>2. Next => Happens
      BY PagesHappen DEF Next
    <2>3. UNCHANGED siteVars => clicks' = clicks
      BY DEF siteVars, browserVars
    <2>. QED  BY <2>1, <2>2, <2>3 DEF Bounded
  <1>4. lost' \in 0..Losses[page]
    <2>1. Loses => lost' \in 0..Losses[page]
      BY <1>1 DEF Loses, Bounded
    <2>2. UNCHANGED fetchVars => Loses
      BY DEF fetchVars, Loses
    <2>3. Next => Loses \/ UNCHANGED fetchVars
      BY PagesLose
      DEF Next, BesideRadar, BesidePanel, BesideGraph, BesideScene,
          BesideViewer, BesideLive
    <2>4. UNCHANGED siteVars => UNCHANGED fetchVars
      BY DEF siteVars
    <2>. QED  BY <2>1, <2>2, <2>3, <2>4
  <1>. QED  BY <1>2, <1>3, <1>4 DEF Bounded

(* A request that fails is tried again, or refused.                        *)
Refused(n) == n.state = "refused" /\ n.got = None

LEMMA TroubledAs ==
    ASSUME NEW k, IsRequest(k), Troubles(k)
    PROVE  \E n : /\ Same(k, n)
                  /\ calls' = (calls \ {k}) \cup {n}
                  /\ \/ n.state = "sent" /\ k.state = "sent" /\ n.try = k.try
                     \/ /\ n.state = "sent" /\ n.try = k.try + 1
                        /\ k.try < Tries[page]
                     \/ Refused(n) /\ n.try = k.try
  <1>0. \E n : /\ Same(k, n) /\ Fails(k) = (calls \ {k}) \cup {n}
               /\ \/ /\ n.state = "sent" /\ n.try = k.try + 1
                     /\ k.try < Tries[page]
                  \/ Refused(n) /\ n.try = k.try
    <2>1. CASE k.try < Tries[page]
      <3>1. Fails(k) = (calls \ {k}) \cup {TriedAgain(k, k.try + 1)}
        BY <2>1 DEF Fails, TriedAgain
      <3>. QED  BY <2>1, <3>1, TriedFields
    <2>2. CASE ~(k.try < Tries[page])
      <3>1. Fails(k) = (calls \ {k}) \cup {WithAnswer(k, "refused", None)}
        BY <2>2 DEF Fails, WithAnswer
      <3>. QED  BY <3>1, AnswerFields DEF Refused
    <2>. QED  BY <2>1, <2>2
  <1>1. CASE RequestFails(k)
    BY <1>0, <1>1 DEF RequestFails
  <1>2. CASE AnswerLost(k)
    BY <1>0, <1>2 DEF AnswerLost
  <1>3. CASE TooMany(k)
    <2>1. CASE k.limited < RateTries
      <3>1. calls' = (calls \ {k}) \cup {Paused(k, k.limited + 1)}
        BY <1>3, <2>1 DEF TooMany, Paused
      <3>2. k.state = "sent"
        BY <1>3 DEF TooMany
      <3>. QED  BY <3>1, <3>2, PausedFields
    <2>2. CASE ~(k.limited < RateTries)
      BY <1>0, <1>3, <2>2 DEF TooMany
    <2>. QED  BY <2>1, <2>2
  <1>. QED  BY <1>1, <1>2, <1>3 DEF Troubles

-----------------------------------------------------------------------------
(* The search of a server's maps: what its requests ask and bring.         *)
SearchCall(k) ==
    /\ IsRequest(k)
    /\ k.what = "suggest" => k.of \in Texts \cup {None}
    /\ k.what \in {"set", "unset"} => k.of \in Texts
    /\ k.what = "list" /\ k.state = "ok" => k.got \subseteq Texts

SearchTyped ==
    /\ SearchShape /\ SearchTypeOK
    /\ page = "search" => \A k \in calls : SearchCall(k)

LEMMA SearchTypesStart ==
    ASSUME SearchInit, page = "search" => FetchInit(SearchReads)
    PROVE  SearchTyped
  <1>1. /\ box = [input |-> None, options |-> None, timer |-> FALSE,
                  suggest |-> FALSE]
        /\ search = [term |-> None, sort |-> "LastPlayed", page |-> 0]
        /\ hearts = [shown |-> {}, stored |-> Texts]
        /\ crossing = FALSE
    BY DEF SearchInit, Searched
  <1>2. SearchShape /\ SearchTypeOK
    BY <1>1, MapSearchAssumption DEF SearchShape, SearchTypeOK, Searched
  <1>. DEFINE r == Request("list", None, None, 0)
  <1>3. SearchCall(r)
    BY NewRequest DEF SearchCall
  <1>4. page = "search" => calls = {r}
    BY DEF FetchInit, SearchReads
  <1>. QED  BY <1>2, <1>3, <1>4 DEF SearchTyped

(* A request more, and another search.                                     *)
LEMMA SearchSent ==
    ASSUME NEW what, NEW of, NEW arg, NEW saw,
           Send(Request(what, of, arg, saw)),
           \A k \in calls : SearchCall(k),
           what = "suggest" => of \in Texts \cup {None},
           what \in {"set", "unset"} => of \in Texts
    PROVE  \A k \in calls' : SearchCall(k)
  <1>. DEFINE r == Request(what, of, arg, saw)
  <1>1. SearchCall(r)
    BY NewRequest DEF SearchCall
  <1>2. calls' = calls \cup {r}
    BY DEF Send
  <1>. HIDE DEF r
  <1>. QED  BY <1>1, <1>2

LEMMA SearchAsked ==
    ASSUME NEW t \in Texts \cup {None}, NEW sort, NEW p \in ListPages,
           Ask(Searched(t, sort, p)), \A k \in calls : SearchCall(k)
    PROVE  /\ search' = [term |-> t, sort |-> sort, page |-> p]
           /\ \A k \in calls' : SearchCall(k)
  <1>1. search' = Searched(t, sort, p)
    BY DEF Ask
  <1>2. CASE Searched(t, sort, p) = search
    BY <1>1, <1>2 DEF Ask, fetchVars, Searched
  <1>3. CASE Searched(t, sort, p) # search
    <2>1. Send(Request("list", None, None, clicks'))
      BY <1>3 DEF Ask, ListRead
    <2>. QED  BY <1>1, <2>1, SearchSent DEF Searched
  <1>. QED  BY <1>2, <1>3

LEMMA BoxTyped ==
    ASSUME SearchShape, SearchTypeOK, NEW t \in Texts \cup {None}
    PROVE  /\ Typed(t) = [input |-> Typed(t).input,
                          options |-> Typed(t).options,
                          timer |-> Typed(t).timer,
                          suggest |-> Typed(t).suggest]
           /\ Typed(t).input \in Texts \cup {None}
           /\ Typed(t).options \in Texts \cup {None}
           /\ {Typed(t).timer, Typed(t).suggest} \subseteq BOOLEAN
  BY DEF SearchShape, SearchTypeOK, Typed

LEMMA SearchTypesStep ==
    ASSUME SearchTyped, page = "search", page' = page,
           [SearchNext]_<<browserVars, fetchVars, searchVars>>
    PROVE  SearchTyped'
  <1>1. /\ SearchShape /\ SearchTypeOK
        /\ \A k \in calls : SearchCall(k)
    BY DEF SearchTyped
  <1>2. 0 \in ListPages
    BY MapSearchAssumption
  <1>. DEFINE Boxed == /\ box' = [input |-> box'.input, options |-> box'.options,
                                  timer |-> box'.timer,
                                  suggest |-> box'.suggest]
                       /\ box'.input \in Texts \cup {None}
                       /\ box'.options \in Texts \cup {None}
                       /\ {box'.timer, box'.suggest} \subseteq BOOLEAN
              Sought == /\ search' = [term |-> search'.term,
                                      sort |-> search'.sort,
                                      page |-> search'.page]
                        /\ search'.term \in Texts \cup {None}
                        /\ search'.page \in ListPages
              Loved == /\ hearts' = [shown |-> hearts'.shown,
                                     stored |-> hearts'.stored]
                       /\ hearts'.shown \subseteq Texts
                       /\ hearts'.stored \subseteq Texts
              CallsFit == \A k \in calls' : SearchCall(k)
  <1>3. SUFFICES Boxed /\ Sought /\ Loved /\ crossing' \in BOOLEAN /\ CallsFit
    BY DEF SearchTyped, SearchShape, SearchTypeOK, Searched, SearchCall,
           IsRequest
  <1>4. /\ UNCHANGED box => Boxed
        /\ UNCHANGED search => Sought
        /\ UNCHANGED hearts => Loved
        /\ crossing \in BOOLEAN
        /\ UNCHANGED fetchVars => CallsFit
    BY <1>1 DEF SearchShape, SearchTypeOK, Searched, fetchVars
  <1>5. \A t \in Texts \cup {None} : box' = Typed(t) => Boxed
    BY <1>1, BoxTyped
  <1>6. \A t \in Texts \cup {None}, p \in ListPages : \A s :
           Ask(Searched(t, s, p)) => Sought /\ CallsFit
    BY <1>1, SearchAsked
  <1>7. box.input \in Texts \cup {None} /\ search.term \in Texts \cup {None}
    BY <1>1 DEF SearchTypeOK
  <1>. HIDE DEF Sought, CallsFit, Boxed, Loved
  <1>10. CASE HandleInputChange
    <2>1. PICK t \in (Texts \cup {None}) \ {box.input} :
            /\ box' = Typed(t)
            /\ IF t = None THEN Ask(Searched(None, search.sort, 0))
                           ELSE UNCHANGED <<search, fetchVars>>
            /\ crossing' = (crossing \/ (t = None /\ Under({"suggest"})))
      BY <1>10 DEF HandleInputChange
    <2>2. Sought /\ CallsFit
      BY <1>2, <1>4, <1>6, <2>1
    <2>3. hearts' = hearts
      BY <1>10 DEF HandleInputChange
    <2>. QED  BY <1>4, <1>5, <2>1, <2>2, <2>3
  <1>11. CASE HandleKeyDown \/ SearchTimer
    <2>1. Ask(Searched(box.input, search.sort, 0))
      BY <1>11 DEF HandleKeyDown, SearchTimer
    <2>2. hearts' = hearts /\ crossing' = crossing
      BY <1>11 DEF HandleKeyDown, SearchTimer
    <2>3. box' = box \/ box' = [box EXCEPT !.timer = FALSE]
      BY <1>11 DEF HandleKeyDown, SearchTimer
    <2>4. Boxed
      BY <1>1, <2>3 DEF Boxed, SearchShape, SearchTypeOK
    <2>. QED  BY <1>2, <1>4, <1>6, <1>7, <2>1, <2>2, <2>4
  <1>12. CASE HandleSelect
    <2>1. PICK t \in Texts : Ask(Searched(t, search.sort, 0)) /\ box' = Typed(t)
      BY <1>12 DEF HandleSelect
    <2>2. hearts' = hearts /\ crossing' = crossing
      BY <1>12 DEF HandleSelect
    <2>. QED  BY <1>2, <1>4, <1>5, <1>6, <2>1, <2>2
  <1>13. CASE LoadAutocomplete
    <2>1. /\ Send(Request("suggest", box.input, None, clicks))
          /\ box' = [box EXCEPT !.suggest = FALSE]
          /\ crossing' = (crossing \/ Under({"suggest"}))
          /\ UNCHANGED <<search, hearts>>
      BY <1>13 DEF LoadAutocomplete
    <2>2. CallsFit
      BY <1>1, <1>7, <2>1, SearchSent DEF CallsFit
    <2>3. Boxed
      BY <1>1, <2>1 DEF Boxed, SearchShape, SearchTypeOK
    <2>. QED  BY <1>4, <2>1, <2>2, <2>3
  <1>14. CASE SortBy
    <2>1. PICK s \in {"LastPlayed", "HighestHour"} :
            Ask(Searched(search.term, s, 0))
      BY <1>14 DEF SortBy
    <2>2. UNCHANGED <<box, hearts, crossing>>
      BY <1>14 DEF SortBy
    <2>. QED  BY <1>2, <1>4, <1>6, <1>7, <2>1, <2>2
  <1>15. CASE HandleChangePage
    <2>1. PICK p \in ListPages : Ask([search EXCEPT !.page = p])
      BY <1>15 DEF HandleChangePage
    <2>2. [search EXCEPT !.page = p] = Searched(search.term, search.sort, p)
      BY <1>1 DEF SearchShape, Searched
    <2>3. UNCHANGED <<box, hearts, crossing>>
      BY <1>15 DEF HandleChangePage
    <2>. QED  BY <1>4, <1>6, <1>7, <2>1, <2>2, <2>3
  <1>16. CASE ToggleFavorite
    <2>1. PICK m \in Texts :
            Send(Request(IF m \in hearts.shown THEN "unset" ELSE "set", m,
                         None, clicks'))
      BY <1>16 DEF ToggleFavorite
    <2>2. CallsFit
      <3>1. CASE m \in hearts.shown
        BY <1>1, <2>1, <3>1, SearchSent DEF CallsFit
      <3>2. CASE m \notin hearts.shown
        BY <1>1, <2>1, <3>2, SearchSent DEF CallsFit
      <3>. QED  BY <3>1, <3>2
    <2>3. UNCHANGED searchVars
      BY <1>16 DEF ToggleFavorite
    <2>. QED  BY <1>4, <2>2, <2>3 DEF searchVars
  <1>17. ASSUME NEW k \in calls, SearchServes(k)
         PROVE  Boxed /\ Sought /\ Loved /\ crossing' \in BOOLEAN /\ CallsFit
    <2>. DEFINE g == IF k.what = "list" THEN hearts.stored ELSE None
    <2>1. SearchCall(k)
      BY <1>1
    <2>2. IsRequest(k) /\ Serves(k, "ok", g)
      BY <1>17, <2>1 DEF SearchServes, SearchCall
    <2>3. PICK n : /\ Same(k, n) /\ n.state = "ok" /\ n.got = g
                   /\ calls' = (calls \ {k}) \cup {n}
      BY <2>2, Served
    <2>4. SearchCall(n)
      BY <1>1, <2>1, <2>3 DEF Same, SearchCall, SearchTypeOK
    <2>5. CallsFit
      BY <1>1, <2>3, <2>4 DEF CallsFit
    <2>6. /\ hearts' = [hearts EXCEPT !.stored = After(k, @)]
          /\ UNCHANGED <<box, search>>
      BY <1>17 DEF SearchServes
    <2>7. After(k, hearts.stored) \subseteq Texts
      BY <1>1, <2>1 DEF After, SearchCall, SearchTypeOK
    <2>8. Loved
      BY <1>1, <2>6, <2>7 DEF Loved, SearchShape, SearchTypeOK
    <2>9. crossing' = (crossing \/ \E j \in calls : j.state # "sent")
      BY <1>17 DEF SearchServes
    <2>. QED  BY <1>4, <2>5, <2>6, <2>8, <2>9
  <1>18. ASSUME NEW k \in calls, SearchAnswered(k)
         PROVE  Boxed /\ Sought /\ Loved /\ crossing' \in BOOLEAN /\ CallsFit
    <2>1. SearchCall(k)
      BY <1>1
    <2>2. CallsFit
      BY <1>1, <1>18 DEF CallsFit, SearchAnswered, Settles
    <2>3. Loved
      <3>. DEFINE l == CASE k.state # "ok" -> hearts.shown
                         [] k.state = "ok" /\ k.what = "list" -> k.got
                         [] OTHER -> After(k, hearts.shown)
      <3>1. hearts' = [hearts EXCEPT !.shown = l]
        BY <1>18 DEF SearchAnswered
      <3>2. l \subseteq Texts
        <4>1. CASE k.state # "ok"
          BY <1>1, <4>1 DEF SearchTypeOK
        <4>2. CASE k.state = "ok" /\ k.what = "list"
          BY <2>1, <4>2 DEF SearchCall
        <4>3. CASE k.state = "ok" /\ k.what # "list"
          BY <1>1, <2>1, <4>3 DEF After, SearchCall, SearchTypeOK
        <4>. QED  BY <4>1, <4>2, <4>3
      <3>. HIDE DEF l
      <3>. QED  BY <1>1, <3>1, <3>2 DEF Loved, SearchShape, SearchTypeOK
    <2>4. Boxed
      <3>1. box' = IF k.what # "suggest" THEN box
                   ELSE [box EXCEPT !.options = IF k.state = "ok" THEN k.of
                                                                  ELSE None]
        BY <1>18 DEF SearchAnswered
      <3>. QED  BY <1>1, <2>1, <3>1
                DEF Boxed, SearchCall, SearchShape, SearchTypeOK
    <2>5. search' = search /\ crossing' = crossing
      BY <1>18 DEF SearchAnswered
    <2>. QED  BY <1>4, <2>2, <2>3, <2>4, <2>5
  <1>19. ASSUME NEW k \in calls, Troubles(k), UNCHANGED searchVars
         PROVE  Boxed /\ Sought /\ Loved /\ crossing' \in BOOLEAN /\ CallsFit
    <2>1. SearchCall(k)
      BY <1>1
    <2>2. PICK n : /\ Same(k, n) /\ calls' = (calls \ {k}) \cup {n}
                   /\ n.state # "ok"
      BY <1>19, <2>1, TroubledAs DEF SearchCall, Refused
    <2>3. SearchCall(n)
      BY <2>1, <2>2 DEF Same, SearchCall
    <2>4. CallsFit
      BY <1>1, <2>2, <2>3 DEF CallsFit
    <2>. QED  BY <1>4, <1>19, <2>4 DEF searchVars
  <1>20. CASE UNCHANGED <<browserVars, fetchVars, searchVars>>
    BY <1>4, <1>20 DEF searchVars
  <1>. QED
    BY <1>10, <1>11, <1>12, <1>13, <1>14, <1>15, <1>16, <1>17, <1>18, <1>19,
       <1>20
    DEF SearchNext

-----------------------------------------------------------------------------
(* The settings of a player: a change is of both switches.                 *)
ConsentCall(k) ==
    /\ IsRequest(k)
    /\ k.what = "anonymize" => k.arg \in Settings
    /\ k.state = "ok" => k.got \in Settings \cup {None}

ConsentTyped ==
    /\ ConsentTypeOK
    /\ page = "consent" => \A k \in calls : ConsentCall(k)

LEMMA ConsentTypesStart ==
    ASSUME NEW s \in Settings \cup {None}, ConsentInit(s),
           page = "consent" => FetchInit(ConsentReads)
    PROVE  ConsentTyped
  <1>1. SwitchedAs(s) \in Settings
    BY DEF SwitchedAs, Settings
  <1>2. ConsentTypeOK
    BY <1>1 DEF ConsentInit, ConsentTypeOK
  <1>. DEFINE r == Request("settings", None, None, 0)
  <1>3. ConsentCall(r)
    BY NewRequest DEF ConsentCall
  <1>4. page = "consent" => calls = {r}
    BY DEF FetchInit, ConsentReads
  <1>. QED  BY <1>2, <1>3, <1>4 DEF ConsentTyped

LEMMA ConsentTypesStep ==
    ASSUME ConsentTyped, page = "consent", page' = page,
           [ConsentNext]_<<browserVars, fetchVars, consentVars>>
    PROVE  ConsentTyped'
  <1>1. ConsentTypeOK /\ \A k \in calls : ConsentCall(k)
    BY DEF ConsentTyped
  <1>2. SUFFICES ConsentTypeOK' /\ \A k \in calls' : ConsentCall(k)
    BY DEF ConsentTyped, ConsentCall, IsRequest, Settings
  <1>3. CASE HandleToggleAnonymize
    <2>. DEFINE shown == SwitchedAs(switches)
                given(type) == IF type = "location" THEN ~shown.hide_location
                                                    ELSE ~shown.anonymized
    <2>1. PICK type \in {"location", "anonymous"} :
            LET value == given(type)
                body == Body(type, value, shown)
            IN  /\ Send(Request("anonymize", None, body, clicks'))
                /\ kept' = body
                /\ meant' = IF type = "location"
                            THEN [meant EXCEPT !.hide_location = value]
                            ELSE [anonymized |-> value,
                                  hide_location |-> value
                                                      \/ meant.hide_location]
      BY <1>3 DEF HandleToggleAnonymize
    <2>2. shown \in Settings
      BY <1>1 DEF ConsentTypeOK, SwitchedAs, Settings
    <2>. HIDE DEF shown
    <2>3. given(type) \in BOOLEAN
      BY <2>2 DEF Settings
    <2>4. PICK v \in BOOLEAN : v = given(type)
      BY <2>3
    <2>. HIDE DEF given
    <2>. DEFINE body == Body(type, v, shown)
    <2>5. body \in Settings
      BY <2>2 DEF Body, Settings
    <2>6. /\ Send(Request("anonymize", None, body, clicks'))
          /\ kept' = body
          /\ meant' = IF type = "location"
                      THEN [meant EXCEPT !.hide_location = v]
                      ELSE [anonymized |-> v,
                            hide_location |-> v \/ meant.hide_location]
      BY <2>1, <2>4
    <2>. HIDE DEF body
    <2>7. meant' \in Settings
      BY <1>1, <2>6 DEF ConsentTypeOK, Settings
    <2>. DEFINE r == Request("anonymize", None, body, clicks')
    <2>8. ConsentCall(r)
      BY <2>5, NewRequest DEF ConsentCall
    <2>9. calls' = calls \cup {r}
      BY <2>6 DEF Send
    <2>. HIDE DEF r
    <2>10. /\ early' = (early \/ calls # {})
           /\ UNCHANGED <<setting, switches, settling, swapped, strayed>>
      BY <1>3 DEF HandleToggleAnonymize
    <2>. QED  BY <1>1, <2>5, <2>6, <2>7, <2>8, <2>9, <2>10 DEF ConsentTypeOK
  <1>4. ASSUME NEW k \in calls, ConsentServes(k)
        PROVE  ConsentTypeOK' /\ \A c \in calls' : ConsentCall(c)
    <2>1. ConsentCall(k)
      BY <1>1
    <2>2. setting' \in Settings \cup {None}
      BY <1>1, <1>4, <2>1 DEF ConsentServes, ConsentCall, ConsentTypeOK
    <2>3. IsRequest(k) /\ Serves(k, "ok", setting')
      BY <1>4, <2>1 DEF ConsentServes, ConsentCall
    <2>4. PICK n : /\ Same(k, n) /\ n.state = "ok" /\ n.got = setting'
                   /\ calls' = (calls \ {k}) \cup {n}
      BY <2>3, Served
    <2>5. ConsentCall(n)
      BY <2>1, <2>2, <2>4 DEF Same, ConsentCall
    <2>6. /\ swapped' = (swapped \/ Overtakes(k))
          /\ UNCHANGED <<kept, switches, settling, meant, early, strayed>>
      BY <1>4 DEF ConsentServes
    <2>. QED  BY <1>1, <2>2, <2>4, <2>5, <2>6 DEF ConsentTypeOK
  <1>5. ASSUME NEW k \in calls, ConsentAnswered(k)
        PROVE  ConsentTypeOK' /\ \A c \in calls' : ConsentCall(c)
    <2>1. ConsentCall(k)
      BY <1>1
    <2>2. calls' = calls \ {k}
      BY <1>5 DEF ConsentAnswered, Settles
    <2>3. /\ IF k.state = "ok"
             THEN kept' = k.got /\ switches' = k.got /\ strayed' = FALSE
             ELSE /\ strayed' = (strayed \/ k.what = "settings")
                  /\ UNCHANGED <<kept, switches>>
          /\ settling' = (settling /\ k.what # "settings")
          /\ swapped' = (swapped \/ Overtakes(k))
          /\ UNCHANGED <<setting, meant, early>>
      BY <1>5 DEF ConsentAnswered
    <2>4. /\ {kept', switches'} \subseteq Settings \cup {None}
          /\ strayed' \in BOOLEAN
      BY <1>1, <2>1, <2>3 DEF ConsentTypeOK, ConsentCall
    <2>. QED  BY <1>1, <2>2, <2>3, <2>4 DEF ConsentTypeOK
  <1>6. ASSUME NEW k \in calls, Troubles(k), UNCHANGED consentVars
        PROVE  ConsentTypeOK' /\ \A c \in calls' : ConsentCall(c)
    <2>1. ConsentCall(k)
      BY <1>1
    <2>2. PICK n : /\ Same(k, n) /\ calls' = (calls \ {k}) \cup {n}
                   /\ n.state # "ok"
      BY <1>6, <2>1, TroubledAs DEF ConsentCall, Refused
    <2>3. ConsentCall(n)
      BY <2>1, <2>2 DEF Same, ConsentCall
    <2>. QED  BY <1>1, <1>6, <2>2, <2>3 DEF consentVars, ConsentTypeOK
  <1>8. CASE RenderAgain
    BY <1>1, <1>8 DEF RenderAgain, fetchVars, ConsentTypeOK
  <1>7. CASE UNCHANGED <<browserVars, fetchVars, consentVars>>
    BY <1>1, <1>7 DEF consentVars, fetchVars, ConsentTypeOK
  <1>. QED  BY <1>3, <1>4, <1>5, <1>6, <1>7, <1>8 DEF ConsentNext

-----------------------------------------------------------------------------
(* The live feed: a stream has a number.                                   *)
LiveTyped == LiveTypeOK /\ streams \subseteq {source} /\ source >= 1

LEMMA LiveTypesStart == LiveInit => LiveTyped
  <1>. SUFFICES ASSUME LiveInit PROVE LiveTyped
    OBVIOUS
  <1>1. /\ streams = {1} /\ source = 1 /\ timers = 0 /\ left = None
        /\ connected = TRUE
        /\ feed = [events |-> <<>>, counters |-> [c \in Badges |-> 0]]
    BY DEF LiveInit
  <1>2. feed.events \in Seq(Channels) /\ feed.counters \in [Badges -> Nat]
    BY <1>1
  <1>. QED  BY <1>1, <1>2 DEF LiveTyped, LiveTypeOK

(* What it lists and counts is known (LiveInv).                            *)
LEMMA LiveTypesStep ==
    ASSUME LiveTyped, LiveInv, LiveInv', [LiveNext]_liveVars
    PROVE  LiveTyped'
  <1>1. feed'.events \in Seq(Channels) /\ feed'.counters \in [Badges -> Nat]
    BY DEF LiveInv, BadgesCount
  <1>2. timers' \in Nat /\ left' \in Nat \cup {None}
    BY DEF LiveInv, OneConnection
  <1>3. connected' \in BOOLEAN
    BY DEF LiveTyped, LiveTypeOK, LiveNext, EventComes, ConnectEventSource,
           LeaveFeed, StreamOpens, StreamFails, liveVars
  <1>4. streams' \subseteq {source'} /\ source' >= 1 /\ source' \in Nat
    <2>1. /\ streams \subseteq {source} /\ source >= 1 /\ source \in Nat
          /\ timers > 0 => streams = {}
      BY DEF LiveTyped, LiveTypeOK, LiveInv, OneConnection
    <2>2. CASE UNCHANGED <<streams, source>>
      BY <2>1, <2>2
    <2>3. ASSUME NEW q, streams' = streams \ {q}, source' = source
          PROVE  streams' \subseteq {source'} /\ source' >= 1 /\ source' \in Nat
      BY <2>1, <2>3
    <2>4. CASE ConnectEventSource
      <3>1. streams' = {source'} /\ source' = source + 1
        BY <2>1, <2>4 DEF ConnectEventSource
      <3>. QED  BY <2>1, <3>1
    <2>5. \/ UNCHANGED <<streams, source>>
          \/ \E q : streams' = streams \ {q} /\ source' = source
          \/ ConnectEventSource
      BY DEF LiveNext, EventComes, LeaveFeed, StreamOpens, StreamFails,
             liveVars
    <2>. QED  BY <2>2, <2>3, <2>4, <2>5
  <1>. QED  BY <1>1, <1>2, <1>3, <1>4 DEF LiveTyped, LiveTypeOK

-----------------------------------------------------------------------------
(* The scene: what is bad is of what is left, also for who traverses it,   *)
(* so the indices that are kept are positions.                             *)
SceneTyped ==
    /\ scene # None => scene.bad \subseteq scene.left
    /\ \A w \in walks : w.bad \subseteq w.objects
    /\ cache = None \/ cache \subseteq Objects
    /\ viewer.slider \in Values /\ passes \subseteq Values
    /\ material \in Values \cup {None}

LEMMA SceneIsTyped == SceneInv /\ SceneTyped => SceneTypeOK
  BY DEF SceneInv, SceneTypes, SceneTyped, SceneTypeOK, Scenes, Phases, Loaded

LEMMA SceneTypesStart ==
    ASSUME NEW bad \in SUBSET Objects, SceneInit(bad)
    PROVE  SceneTyped
  BY DEF SceneInit, SceneTyped, Values

LEMMA IndexIsPosition ==
    ASSUME NEW all \in SUBSET Objects, NEW p \in all
    PROVE  IndexOf(p, all) \in Objects
  <1>. DEFINE upTo == {q \in all : q <= p}
  <1>1. IsFiniteSet(Objects) /\ Objects = 1..Cardinality(Objects)
    BY SceneAssumption
  <1>2. IsFiniteSet(upTo) /\ Cardinality(upTo) <= Cardinality(Objects)
    BY <1>1, FS_Subset
  <1>3. Cardinality(Objects) \in Nat /\ Cardinality(upTo) \in Nat
    BY <1>1, <1>2, FS_CardinalityType
  <1>4. p \in upTo
    BY <1>1, <1>3
  <1>5. Cardinality(upTo) # 0
    BY <1>2, <1>4, FS_EmptySet
  <1>. HIDE DEF upTo
  <1>6. Cardinality(upTo) \in 1..Cardinality(Objects)
    BY <1>2, <1>3, <1>5
  <1>. QED  BY <1>1, <1>6 DEF IndexOf, upTo

LEMMA SceneTypesStep ==
    ASSUME SceneInv, SceneTyped, [SceneNext]_sceneVars
    PROVE  SceneTyped'
  <1>1. SceneTypes
    BY DEF SceneInv
  <1>2. UNCHANGED sceneVars => SceneTyped'
    BY DEF sceneVars, SceneTyped
  <1>3. \A p : Phase(p) => viewer'.slider = viewer.slider
    BY <1>1 DEF SceneTypes, Phase
  <1>4. CASE HandleResolutionClick
    BY <1>4 DEF HandleResolutionClick, SceneTyped, Values
  <1>5. CASE LeaveViewer
    BY <1>3, <1>5 DEF LeaveViewer, SceneTyped
  <1>6. CASE ReloadSite
    BY <1>1, <1>6 DEF ReloadSite, SceneTyped, SceneTypes
  <1>7. CASE MoveMaterial
    <2>1. viewer'.slider = 1 - viewer.slider
      BY <1>1, <1>7 DEF MoveMaterial, SceneTypes
    <2>. QED  BY <1>7, <2>1 DEF MoveMaterial, SceneTyped, Values
  <1>8. CASE Outdate
    BY <1>8 DEF Outdate, SceneTyped
  <1>9. CASE Downloads
    <2>1. PICK s \in IF scene = None THEN {SceneOf(file), Unread} ELSE {scene} :
            scene' = s /\ Phase(IF s.ok THEN "parsing" ELSE "failed")
      BY <1>9 DEF Downloads
    <2>2. file \subseteq Objects
      BY <1>1 DEF SceneTypes
    <2>3. scene' # None => scene'.bad \subseteq scene'.left
      BY <2>1, <2>2 DEF SceneOf, Unread, SceneTyped
    <2>4. viewer'.slider = viewer.slider
      BY <1>3, <2>1
    <2>. QED  BY <1>9, <2>3, <2>4 DEF Downloads, SceneTyped
  <1>10. CASE ValidateScene
    <2>1. scene \in Scenes
      BY <1>1, <1>10
      DEF ValidateScene, SceneInv, ModelIsThere, Loaded, SceneTypes
    <2>2. scene # None
      BY <1>10 DEF SceneInv, ModelIsThere, Loaded, ValidateScene
    <2>3. scene' # None => scene'.bad \subseteq scene'.left
      <3>1. CASE cache # None
        <4>1. RemoveCached
          BY <1>10, <3>1 DEF ValidateScene
        <4>2. PICK gone : Without(gone)
          BY <4>1 DEF RemoveCached
        <4>. QED  BY <2>1, <2>2, <4>2, Removed DEF SceneTyped
      <3>2. CASE cache = None
        BY <1>10, <3>2 DEF ValidateScene, SceneTyped
      <3>. QED  BY <3>1, <3>2
    <2>4. \A w \in walks' : w.bad \subseteq w.objects
      BY <1>10, <2>2 DEF ValidateScene, SceneTyped
    <2>5. viewer'.slider = viewer.slider
      BY <1>3, <1>10 DEF ValidateScene
    <2>. QED  BY <1>10, <2>3, <2>4, <2>5 DEF ValidateScene, SceneTyped
  <1>11. ASSUME NEW w \in walks, WalkEnds(w) PROVE SceneTyped'
    <2>1. w.bad \subseteq w.objects /\ w.objects \subseteq Objects
      BY <1>1 DEF SceneTypes, SceneTyped, Walks
    <2>2. scene \in Scenes
      BY <1>1 DEF SceneInv, ModelIsThere, Loaded, SceneTypes
    <2>3. scene # None
      BY DEF SceneInv, ModelIsThere, Loaded
    <2>4. scene' # None => scene'.bad \subseteq scene'.left
      BY <1>11, <2>2, <2>3, Removed DEF WalkEnds, SceneTyped
    <2>5. cache' \subseteq Objects
      BY <1>11, <2>1, IndexIsPosition DEF WalkEnds, CacheModelData
    <2>6. viewer'.slider = viewer.slider
      BY <1>3, <1>11 DEF WalkEnds
    <2>. QED  BY <1>11, <2>4, <2>5, <2>6 DEF WalkEnds, SceneTyped
  <1>12. CASE OptimizeMaterials
    BY <1>3, <1>12 DEF OptimizeMaterials, SceneTyped
  <1>13. ASSUME NEW v \in passes, PassEnds(v) PROVE SceneTyped'
    BY <1>13 DEF PassEnds, SceneTyped
  <1>. QED
    BY <1>2, <1>4, <1>5, <1>6, <1>7, <1>8, <1>9, <1>10, <1>11, <1>12, <1>13
    DEF SceneNext, SceneAnswers

-----------------------------------------------------------------------------
(* The controls of the viewer: a velocity is a sign, and the speed and the *)
(* distance are among those offered.                                       *)
TunedTyped ==
    /\ walker.velocity \in {-1, 0, 1}
    /\ tuned = [speed |-> tuned.speed, distance |-> tuned.distance,
                moved |-> tuned.moved]
    /\ tuned.speed \in Speeds
    /\ tuned.distance \in {20, 90, 300, 500, 1000}

LEMMA ViewerIsTyped == ControlsInv /\ TunedTyped => ViewerTypeOK
  BY DEF ControlsInv, ViewerTypes, KeysInv, KeysTyped, TunedTyped, ViewerTypeOK

LEMMA SpeedsAre == Speeds = 1..Fastest /\ Fastest \in Nat /\ Fastest >= 10
  <1>1. Fastest \in Nat
    BY SpeedsAssumption, FS_CardinalityType DEF Fastest
  <1>. QED  BY <1>1, SpeedsAssumption DEF Fastest

LEMMA TunedStarts == ViewerInit => TunedTyped
  BY SpeedsAre DEF ViewerInit, TunedTyped, Distance

LEMMA TunedStep ==
    ASSUME ControlsInv, TunedTyped, [ViewerNext]_viewerVars
    PROVE  TunedTyped'
  <1>. DEFINE Walking == walker'.velocity \in {-1, 0, 1}
              Tuning == /\ tuned' = [speed |-> tuned'.speed,
                                     distance |-> tuned'.distance,
                                     moved |-> tuned'.moved]
                        /\ tuned'.speed \in Speeds
                        /\ tuned'.distance \in {20, 90, 300, 500, 1000}
  <1>1. SUFFICES Walking /\ Tuning
    BY DEF TunedTyped
  <1>2. /\ UNCHANGED walker => Walking
        /\ UNCHANGED tuned => Tuning
    BY DEF TunedTyped
  <1>3. walker \in [ladder : BOOLEAN, ground : BOOLEAN, crouching : BOOLEAN,
                    velocity : Int]
    BY DEF ControlsInv, ViewerTypes
  <1>4. CASE UNCHANGED viewerVars
    BY <1>2, <1>4 DEF viewerVars
  <1>5. CASE HandleControlModeChange
    <2>1. PICK m \in Modes : ModeSpeed(m)
      BY <1>5 DEF HandleControlModeChange
    <2>2. Tuning
      <3>. DEFINE v == CASE m = "walk" -> 1
                         [] m = "fly" /\ tuned.speed < 5 -> 10
                         [] OTHER -> tuned.speed
      <3>. DEFINE far == IF m = mode THEN tuned.distance ELSE Distance[m]
      <3>1. tuned' = [tuned EXCEPT !.distance = far, !.speed = v]
        BY <2>1 DEF ModeSpeed
      <3>2. v \in Speeds
        BY SpeedsAre DEF TunedTyped
      <3>3. far \in {20, 90, 300, 500, 1000}
        BY DEF Distance, Modes, TunedTyped
      <3>. HIDE DEF v, far
      <3>4. PICK d : d = far
        OBVIOUS
      <3>5. tuned' = [tuned EXCEPT !.distance = d, !.speed = v]
        BY <3>1, <3>4
      <3>6. tuned' = [speed |-> v, distance |-> d, moved |-> tuned.moved]
        <4>1. PICK t : t = [tuned EXCEPT !.distance = d]
          OBVIOUS
        <4>2. t = [speed |-> tuned.speed, distance |-> d,
                   moved |-> tuned.moved]
          BY <4>1 DEF TunedTyped
        <4>3. tuned' = [t EXCEPT !.speed = v]
          BY <3>5, <4>1, Zenon
        <4>. QED  BY <4>2, <4>3
      <3>. QED  BY <3>2, <3>3, <3>4, <3>6
    <2>. QED  BY <1>2, <1>5, <2>2 DEF HandleControlModeChange
  <1>6. CASE SetSlider \/ ResetAll
    <2>1. Tuning
      BY <1>6 DEF SetSlider, ResetAll, TunedTyped
    <2>. QED  BY <1>2, <1>6, <2>1 DEF SetSlider, ResetAll
  <1>7. CASE HandleWheel
    <2>1. PICK d \in {-1, 1} :
            tuned' = [tuned EXCEPT !.speed = Clamped(tuned.speed + d)]
      BY <1>7 DEF HandleWheel
    <2>2. Clamped(tuned.speed + d) \in Speeds
      BY SpeedsAre DEF Clamped, TunedTyped
    <2>3. Tuning
      BY <2>1, <2>2 DEF TunedTyped
    <2>. QED  BY <1>2, <1>7, <2>3 DEF HandleWheel
  <1>8. CASE EscapeLock \/ RequestPointerLock \/ LockGranted \/ LockLeft
               \/ LoseFocus
    BY <1>2, <1>8 DEF EscapeLock, RequestPointerLock, LockGranted, LockLeft,
                      LoseFocus
  <1>9. CASE KeyDown \/ KeyRepeats \/ KeyUp
    <2>1. \E k : Pressing(k) \/ Releasing(k)
      BY <1>9 DEF KeyDown, KeyRepeats, KeyUp
    <2>2. \E c : walker' = [walker EXCEPT !.crouching = c]
      BY <2>1 DEF Pressing, Releasing
    <2>3. Walking
      BY <1>3, <2>2 DEF TunedTyped
    <2>. QED  BY <1>2, <1>9, <2>3 DEF KeyDown, KeyRepeats, KeyUp
  <1>10. CASE Jump
    <2>1. Walking
      BY <1>3, <1>10 DEF Jump, TunedTyped
    <2>. QED  BY <1>2, <1>10, <2>1 DEF Jump
  <1>11. CASE WalkFrame
    <2>1. PICK near \in BOOLEAN, ground \in BOOLEAN, stepped \in BOOLEAN,
               bumped \in BOOLEAN :
            \E v \in IF bumped THEN {0} ELSE Velocities(near, ground, stepped) :
              walker' = [walker EXCEPT !.ladder = OnLadder(near) \/ bumped,
                                       !.ground = ground, !.velocity = v]
      BY <1>11 DEF WalkFrame
    <2>2. PICK v \in IF bumped THEN {0} ELSE Velocities(near, ground, stepped) :
            walker' = [walker EXCEPT !.ladder = OnLadder(near) \/ bumped,
                                     !.ground = ground, !.velocity = v]
      BY <2>1
    <2>3. Velocities(near, ground, stepped) \subseteq {-1, 0, 1}
      <3>. DEFINE u == IF Mounts(near) THEN 0 ELSE walker.velocity
      <3>1. u \in {-1, 0, 1}
        BY DEF TunedTyped
      <3>2. Falling(u) \subseteq {-1, 0, 1}
        BY <3>1 DEF Falling
      <3>3. Velocities(near, ground, stepped)
              \subseteq {0} \cup {IF u < 0 \/ stepped THEN 0 ELSE u}
                        \cup Falling(u)
        BY DEF Velocities
      <3>. HIDE DEF u
      <3>. QED  BY <3>1, <3>2, <3>3
    <2>4. v \in {-1, 0, 1}
      BY <2>2, <2>3
    <2>5. walker'.velocity = v
      BY <1>3, <2>2
    <2>. QED  BY <1>2, <1>11, <2>4, <2>5 DEF WalkFrame
  <1>. QED
    BY <1>4, <1>5, <1>6, <1>7, <1>8, <1>9, <1>10, <1>11 DEF ViewerNext

-----------------------------------------------------------------------------
(* The admin page of the maps: the list is of the maps there are, so that  *)
(* none of its pages is past the last one, and a dialog of models is of a  *)
(* map.                                                                    *)
BoardOfMaps(b) ==
    /\ b.page = 1 \/ b.page \in 1..Cardinality(MapNames)
    /\ b.search \in MapNames \cup {None}
    /\ b.debounced \in MapNames \cup {None}
    /\ b.shown # None => b.shown.total \in 0..Cardinality(MapNames)

DialogOfMap(a) ==
    /\ a.type \in {"metadata", "models", "delete", None}
    /\ a.map \in MapNames \cup {None}
    /\ a.type = "models" => a.map \in MapNames

UploadOfMap(k) ==
    k.what = "upload" => k.of \in MapNames /\ k.arg \in Resolutions

MapsTyped ==
    /\ BoardOfMaps(board) /\ DialogOfMap(active)
    /\ editor.server \in Flags \cup {"null"} /\ editor.global \in Flags
    /\ mapsApi.models \subseteq MapNames \X Resolutions
    /\ uploader.res \in Resolutions /\ crossed \in BOOLEAN
    /\ page = "maps" => \A k \in calls : UploadOfMap(k)

LEMMA MapsAreTyped == MapsTyped => MapsTypeOK
  BY DEF MapsTyped, MapsTypeOK, BoardOfMaps, DialogOfMap

LEMMA ListingTotal ==
    ASSUME NEW a, NEW k
    PROVE  Listing(a, k).total \in 0..Cardinality(MapNames)
  <1>. DEFINE hits == Found(a, k.search)
              of == {m \in hits :
                       /\ (k.page - 1) * PageSize < Cardinality({h \in hits : h <= m})
                       /\ Cardinality({h \in hits : h <= m}) <= k.page * PageSize}
  <1>1. hits \subseteq MapNames
    BY DEF Found, Stored
  <1>2. IsFiniteSet(MapNames)
    BY AdminMapsAssumption
  <1>3. /\ Cardinality(hits) \in Nat /\ Cardinality(MapNames) \in Nat
        /\ Cardinality(hits) <= Cardinality(MapNames)
    BY <1>1, <1>2, FS_Subset, FS_CardinalityType
  <1>4. Listing(a, k).total = IF of = {} THEN 0 ELSE Cardinality(hits)
    BY DEF Listing
  <1>. HIDE DEF hits, of
  <1>. QED  BY <1>3, <1>4

LEMMA PagesBounded ==
    ASSUME NEW n \in Nat, Pages(n) > 1
    PROVE  Pages(n) \in Int /\ Pages(n) <= n
  <1>. DEFINE q == Pages(n)
  <1>1. PageSize \in Nat /\ PageSize >= 1
    BY AdminMapsAssumption
  <1>2. q = (n + PageSize - 1) \div PageSize
    BY DEF Pages
  <1>3. q \in Int /\ PageSize * q <= n + PageSize - 1
    BY <1>1, <1>2
  <1>. HIDE DEF q
  <1>4. ASSUME q >= n + 1 PROVE FALSE
    <2>1. PageSize * (n + 1) <= PageSize * q
      BY <1>1, <1>3, <1>4
    <2>2. PageSize * (n + 1) = PageSize * n + PageSize
      BY <1>1
    <2>3. n <= PageSize * n
      BY <1>1
    <2>4. PageSize * n \in Int /\ PageSize * q \in Int
      BY <1>1, <1>3
    <2>. QED  BY <1>1, <1>3, <2>1, <2>2, <2>3, <2>4
  <1>5. q <= n
    BY <1>3, <1>4
  <1>. QED  BY <1>3, <1>5 DEF q

LEMMA MapsTypesStart ==
    ASSUME MapsInit, page = "maps" => FetchInit(MapsReads)
    PROVE  MapsTyped
  <1>1. /\ board = [page |-> 1, search |-> None, debounced |-> None,
                    timer |-> "off", shown |-> None, loading |-> TRUE,
                    has |-> {}]
        /\ active = NoDialog
        /\ editor = [of |-> None, global |-> "false", server |-> "null",
                     savingGlobal |-> FALSE, saving |-> FALSE,
                     touched |-> FALSE]
        /\ uploader = [res |-> "low", file |-> FALSE, uploading |-> FALSE,
                       progress |-> FALSE, controller |-> FALSE]
        /\ crossed = FALSE
    BY DEF MapsInit
  <1>2. BoardOfMaps(board)
    BY <1>1 DEF BoardOfMaps
  <1>3. active.type = None /\ active.map = None
    BY <1>1 DEF NoDialog
  <1>4. DialogOfMap(active)
    BY <1>3, AdminMapsAssumption DEF DialogOfMap
  <1>5. mapsApi.models = {<<m, "low">> : m \in MapNames \ Searches}
    BY DEF MapsInit
  <1>6. mapsApi.models \subseteq MapNames \X Resolutions
    BY <1>5 DEF Resolutions
  <1>7. page = "maps" => \A k \in calls : k.what # "upload"
    BY DEF FetchInit, MapsReads, Request
  <1>. QED
    BY <1>1, <1>2, <1>4, <1>6, <1>7 DEF MapsTyped, UploadOfMap, Flags, Resolutions

LEMMA NoDialogOfMap == DialogOfMap(NoDialog)
  <1>1. NoDialog.type = None /\ NoDialog.map = None
    BY DEF NoDialog
  <1>2. None # "models"
    BY AdminMapsAssumption
  <1>. QED  BY <1>1, <1>2 DEF DialogOfMap

(* What a step leaves of it. *)
LEMMA UploadsOfMap ==
    ASSUME \A k \in calls : UploadOfMap(k), NEW n, UploadOfMap(n),
           \A j \in calls' : j = n \/ j \in calls
    PROVE  \A k \in calls' : UploadOfMap(k)
  OBVIOUS

LEMMA ReadNoUpload ==
    ASSUME NEW saw, NEW m
    PROVE  /\ UploadOfMap(ReadList(saw.key, saw.n))
           /\ UploadOfMap([ReadList(saw.key, saw.n) EXCEPT !.what = "find",
                                                         !.of = m])
           /\ UploadOfMap([ReadModels(saw.n) EXCEPT !.arg = "saved"])
           /\ UploadOfMap(ReadModels(saw.n))
  <1>. DEFINE l == ReadList(saw.key, saw.n)
              o == ReadModels(saw.n)
  <1>1. IsRequest(l) /\ l.what = "list" /\ IsRequest(o) /\ o.what = "models"
    BY MapsNew DEF ReadList, ReadModels
  <1>. HIDE DEF l, o
  <1>2. [l EXCEPT !.what = "find", !.of = m].what = "find"
    BY <1>1, FindFields
  <1>3. [o EXCEPT !.arg = "saved"].what = "models"
    BY <1>1, SavedFields
  <1>4. \A r : r.what # "upload" => UploadOfMap(r)
    BY DEF UploadOfMap
  <1>5. /\ UploadOfMap(l)
        /\ UploadOfMap([l EXCEPT !.what = "find", !.of = m])
        /\ UploadOfMap([o EXCEPT !.arg = "saved"])
        /\ UploadOfMap(o)
    BY <1>1, <1>2, <1>3, <1>4
  <1>. QED  BY <1>5 DEF l, o

LEMMA NewNoUpload ==
    ASSUME NEW what, what # "upload", NEW m, NEW arg, NEW n, NEW place
    PROVE  UploadOfMap(MapsRequest(what, m, arg, n, place))
  <1>. DEFINE r == MapsRequest(what, m, arg, n, place)
  <1>1. r.what = what
    BY MapsNew
  <1>. HIDE DEF r
  <1>2. UploadOfMap(r)
    BY <1>1 DEF UploadOfMap
  <1>. QED  BY <1>2 DEF r

LEMMA FetchedOfMap ==
    ASSUME \A k \in calls : UploadOfMap(k), crossed \in BOOLEAN,
           NEW place, NEW n, FetchMetadata(place, n)
    PROVE  (\A k \in calls' : UploadOfMap(k)) /\ crossed' \in BOOLEAN
  <1>. DEFINE r == ReadList(place, n)
  <1>1. calls' = calls \cup {r} /\ crossed' = (crossed \/ Reads(calls) # {})
    BY DEF FetchMetadata
  <1>2. UploadOfMap(r)
    BY NewNoUpload DEF ReadList
  <1>. HIDE DEF r
  <1>. QED  BY <1>1, <1>2

(* What is clicked and typed. *)
LEMMA MapsTypesClicked ==
    ASSUME MapsTyped, page = "maps", page' = page, MapsForms, MapsCalls,
           MapsForms',
           \/ HandleSearchChange \/ SearchSettles \/ TurnPage
           \/ OpenMapDialog \/ CloseMapDialog \/ EditForm
           \/ HandleSaveGlobal \/ HandleSave \/ ConfirmDeleteMap
           \/ ChooseModel \/ HandleUpload \/ UploadProgresses
           \/ HandleCancelUpload \/ HandleDeleteModel
    PROVE  MapsTyped'
  <1>0. /\ BoardOfMaps(board) /\ DialogOfMap(active)
        /\ mapsApi.models \subseteq MapNames \X Resolutions
        /\ uploader.res \in Resolutions /\ crossed \in BOOLEAN
        /\ \A k \in calls : UploadOfMap(k)
        /\ BoardTyped /\ UploaderTyped
        /\ \A k \in calls : IsRequest(k)
    BY DEF MapsTyped, MapsForms, MapsCalls, MapCallsTyped, MapCallTyped
  <1>1. editor'.server \in Flags \cup {"null"} /\ editor'.global \in Flags
    BY DEF MapsForms, EditorTyped
  <1>2. SUFFICES /\ BoardOfMaps(board') /\ DialogOfMap(active')
                 /\ mapsApi'.models \subseteq MapNames \X Resolutions
                 /\ uploader'.res \in Resolutions /\ crossed' \in BOOLEAN
                 /\ \A k \in calls' : UploadOfMap(k)
    BY <1>1 DEF MapsTyped, UploadOfMap, BoardOfMaps, DialogOfMap
  <1>3. CASE HandleSearchChange
    <2>1. PICK s \in Searches \cup {None} :
            board' = [board EXCEPT !.search = s, !.timer = "on"]
      BY <1>3 DEF HandleSearchChange
    <2>2. UNCHANGED <<mapsApi, active, editor, uploader, crossed, calls>>
      BY <1>3 DEF HandleSearchChange, fetchVars
    <2>3. s \in MapNames \cup {None}
      BY AdminMapsAssumption
    <2>4. /\ board'.page = board.page /\ board'.search = s
          /\ board'.debounced = board.debounced /\ board'.shown = board.shown
      BY <1>0, <2>1 DEF BoardTyped
    <2>5. BoardOfMaps(board')
      BY <1>0, <2>3, <2>4 DEF BoardOfMaps
    <2>. QED  BY <1>0, <2>2, <2>5
  <1>4. CASE SearchSettles
    <2>. DEFINE place == [page |-> 1, search |-> board.search]
    <2>1. /\ board' = [board EXCEPT !.page = 1, !.debounced = board.search,
                         !.timer = "off", !.loading = @ \/ place # ListKey]
          /\ IF place = ListKey THEN UNCHANGED <<crossed, fetchVars>>
                              ELSE FetchMetadata(place, clicks)
          /\ UNCHANGED <<mapsApi, active, editor, uploader>>
      BY <1>4 DEF SearchSettles
    <2>2. /\ board'.page = 1 /\ board'.debounced = board.search
          /\ board'.shown = board.shown /\ board'.search = board.search
      BY <1>0, <2>1 DEF BoardTyped
    <2>3. BoardOfMaps(board')
      BY <1>0, <2>2 DEF BoardOfMaps
    <2>4. (\A k \in calls' : UploadOfMap(k)) /\ crossed' \in BOOLEAN
      <3>1. CASE place = ListKey
        BY <1>0, <2>1, <3>1 DEF fetchVars
      <3>2. CASE place # ListKey
        <4>1. FetchMetadata(place, clicks)
          BY <2>1, <3>2
        <4>. HIDE DEF place
        <4>. QED  BY <1>0, <4>1, FetchedOfMap
      <3>. QED  BY <3>1, <3>2
    <2>. QED  BY <1>0, <2>1, <2>3, <2>4
  <1>5. CASE TurnPage
    <2>1. /\ board.shown # None /\ Pages(board.shown.total) > 1
          /\ UNCHANGED <<mapsApi, active, editor, uploader>>
      BY <1>5 DEF TurnPage
    <2>2. PICK p \in {board.page - 1, board.page + 1} :
            /\ p \in 1..Pages(board.shown.total)
            /\ board' = [board EXCEPT !.page = p, !.loading = TRUE]
            /\ FetchMetadata([ListKey EXCEPT !.page = p], clicks')
      BY <1>5 DEF TurnPage
    <2>3. board.shown.total \in 0..Cardinality(MapNames)
      BY <1>0, <2>1 DEF BoardOfMaps
    <2>4. Cardinality(MapNames) \in Nat
      BY AdminMapsAssumption, FS_CardinalityType
    <2>5. /\ Pages(board.shown.total) \in Int
          /\ Pages(board.shown.total) <= board.shown.total
      BY <2>1, <2>3, <2>4, PagesBounded
    <2>6. p \in 1..Cardinality(MapNames)
      BY <2>2, <2>3, <2>4, <2>5
    <2>7. /\ board'.page = p /\ board'.search = board.search
          /\ board'.debounced = board.debounced /\ board'.shown = board.shown
      BY <1>0, <2>2 DEF BoardTyped
    <2>8. BoardOfMaps(board')
      BY <1>0, <2>6, <2>7 DEF BoardOfMaps
    <2>9. (\A k \in calls' : UploadOfMap(k)) /\ crossed' \in BOOLEAN
      BY <1>0, <2>2, FetchedOfMap
    <2>. QED  BY <1>0, <2>1, <2>8, <2>9
  <1>6. CASE OpenMapDialog
    <2>1. /\ board.shown # None
          /\ UNCHANGED <<mapsApi, board, crossed, calls>>
      BY <1>6 DEF OpenMapDialog, fetchVars
    <2>2. PICK m \in DOMAIN board.shown.entries :
            \/ /\ OpensAs("metadata", m)
               /\ UNCHANGED uploader
            \/ /\ OpensAs("models", m)
               /\ Refilled(uploader.res)
            \/ /\ OpensAs("delete", m)
               /\ UNCHANGED uploader
      BY <1>6 DEF OpenMapDialog
    <2>3. m \in MapNames
      BY <1>0, <2>1, <2>2 DEF BoardTyped, Shows
    <2>4. \A type : OpensAs(type, m) => active'.type = type /\ active'.map = m
      BY DEF OpensAs
    <2>5. DialogOfMap(active')
      BY <2>2, <2>3, <2>4 DEF DialogOfMap
    <2>6. uploader'.res = uploader.res
      BY <1>0, <2>2 DEF Refilled, UploaderTyped
    <2>. QED  BY <1>0, <2>1, <2>5, <2>6
  <1>7. CASE CloseMapDialog
    BY <1>0, <1>7, NoDialogOfMap DEF CloseMapDialog, fetchVars
  <1>8. CASE EditForm
    BY <1>0, <1>8 DEF EditForm, fetchVars
  <1>9. CASE HandleSaveGlobal \/ HandleSave
    <2>1. UNCHANGED <<mapsApi, board, active, uploader, crossed>>
      BY <1>9 DEF HandleSaveGlobal, HandleSave, Saves
    <2>2. PICK what, value :
            /\ what # "upload"
            /\ calls' = calls \cup {MapsRequest(what, active.map, value, clicks',
                                                ListKey)}
      <3>1. CASE HandleSaveGlobal
        <4>1. Saves("global", editor.global)
          BY <3>1 DEF HandleSaveGlobal
        <4>. QED  BY <4>1 DEF Saves, Send
      <3>2. CASE HandleSave
        <4>1. Saves("server", TriToBool(editor.server))
          BY <3>2 DEF HandleSave
        <4>. QED  BY <4>1 DEF Saves, Send
      <3>. QED  BY <1>9, <3>1, <3>2
    <2>3. UploadOfMap(MapsRequest(what, active.map, value, clicks', ListKey))
      BY <2>2, NewNoUpload
    <2>. QED  BY <1>0, <2>1, <2>2, <2>3
  <1>10. CASE ConfirmDeleteMap
    <2>1. UNCHANGED <<mapsApi, board, active, uploader, crossed>>
      BY <1>10 DEF ConfirmDeleteMap
    <2>2. calls' = calls \cup {MapsRequest("delete", active.map, None, clicks',
                                          ListKey)}
      BY <1>10 DEF ConfirmDeleteMap, Send
    <2>3. UploadOfMap(MapsRequest("delete", active.map, None, clicks', ListKey))
      BY NewNoUpload
    <2>. QED  BY <1>0, <2>1, <2>2, <2>3
  <1>11. CASE ChooseModel
    <2>1. UNCHANGED <<mapsApi, board, active, editor, crossed, calls>>
      BY <1>11 DEF ChooseModel, fetchVars
    <2>2. uploader'.res \in Resolutions
      <3>1. CASE \E r \in Resolutions : Refilled(r)
        BY <1>0, <3>1 DEF Refilled, UploaderTyped
      <3>2. CASE uploader' = [uploader EXCEPT !.file = TRUE]
        BY <1>0, <3>2 DEF UploaderTyped
      <3>. QED  BY <1>11, <3>1, <3>2 DEF ChooseModel
    <2>. QED  BY <1>0, <2>1, <2>2
  <1>12. CASE HandleUpload
    <2>. DEFINE r == MapsRequest("upload", active.map, uploader.res, clicks',
                                 ListKey)
    <2>1. PICK chunked \in BOOLEAN :
            uploader' = [uploader EXCEPT !.uploading = TRUE, !.progress = FALSE,
                                         !.controller = chunked]
      BY <1>12 DEF HandleUpload
    <2>2. /\ active.type = "models" /\ calls' = calls \cup {r}
          /\ UNCHANGED <<mapsApi, board, active, crossed>>
      BY <1>12 DEF HandleUpload, Send
    <2>3. r.of = active.map /\ r.arg = uploader.res
      BY MapsNew
    <2>. HIDE DEF r
    <2>4. UploadOfMap(r)
      BY <1>0, <2>2, <2>3 DEF UploadOfMap, DialogOfMap
    <2>5. uploader'.res = uploader.res
      BY <1>0, <2>1 DEF UploaderTyped
    <2>. QED  BY <1>0, <2>2, <2>4, <2>5
  <1>13. CASE UploadProgresses
    <2>1. /\ uploader' = [uploader EXCEPT !.progress = TRUE]
          /\ UNCHANGED <<mapsApi, board, active, crossed, calls>>
      BY <1>13 DEF UploadProgresses, fetchVars
    <2>2. uploader'.res = uploader.res
      BY <1>0, <2>1 DEF UploaderTyped
    <2>. QED  BY <1>0, <2>1, <2>2
  <1>14. CASE HandleCancelUpload
    <2>1. PICK k \in calls :
            calls' = (calls \ {k}) \cup
                       {[k EXCEPT !.state = "refused", !.try = Tries[page]]}
      BY <1>14 DEF HandleCancelUpload
    <2>2. UNCHANGED <<mapsApi, board, active, uploader, crossed>>
      BY <1>14 DEF HandleCancelUpload, mapsVars
    <2>3. PICK n : n = Ended(k, Tries[page])
      OBVIOUS
    <2>4. calls' = (calls \ {k}) \cup {n}
      BY <2>1, <2>3 DEF Ended
    <2>5. Same(k, n)
      BY <1>0, <2>1, <2>3, EndedFields
    <2>6. UploadOfMap(n)
      BY <1>0, <2>1, <2>5 DEF UploadOfMap, Same
    <2>. QED  BY <1>0, <2>2, <2>4, <2>6
  <1>15. CASE HandleDeleteModel
    <2>. DEFINE r == MapsRequest("drop", active.map, uploader.res, clicks',
                                 ListKey)
    <2>1. /\ active' = NoDialog
          /\ calls' = calls \/ calls' = calls \cup {r}
          /\ UNCHANGED <<mapsApi, board, uploader, crossed>>
      BY <1>15 DEF HandleDeleteModel
    <2>2. UploadOfMap(r)
      BY NewNoUpload
    <2>. HIDE DEF r
    <2>. QED  BY <1>0, <2>1, <2>2, NoDialogOfMap
  <1>. QED
    BY <1>3, <1>4, <1>5, <1>6, <1>7, <1>8, <1>9, <1>10, <1>11, <1>12, <1>13,
       <1>14, <1>15

(* What the API does, and what its answers do. *)
LEMMA MapsTypesAnswered ==
    ASSUME MapsTyped, page = "maps", page' = page, MapsForms, MapsCalls,
           MapsForms', NEW k \in calls,
           \/ ServeMaps(k) \/ MapsAnswered(k)
           \/ Troubles(k) /\ UNCHANGED mapsVars
    PROVE  MapsTyped'
  <1>0. /\ BoardOfMaps(board) /\ DialogOfMap(active)
        /\ mapsApi.models \subseteq MapNames \X Resolutions
        /\ uploader.res \in Resolutions /\ crossed \in BOOLEAN
        /\ \A c \in calls : UploadOfMap(c)
        /\ BoardTyped /\ UploaderTyped
        /\ IsRequest(k) /\ ApiTyped(mapsApi)
        /\ UploadOfMap(k)
    BY DEF MapsTyped, MapsForms, MapsCalls, MapCallsTyped, MapCallTyped
  <1>1. editor'.server \in Flags \cup {"null"} /\ editor'.global \in Flags
    BY DEF MapsForms, EditorTyped
  <1>2. SUFFICES /\ BoardOfMaps(board') /\ DialogOfMap(active')
                 /\ mapsApi'.models \subseteq MapNames \X Resolutions
                 /\ uploader'.res \in Resolutions /\ crossed' \in BOOLEAN
                 /\ \A c \in calls' : UploadOfMap(c)
    BY <1>1 DEF MapsTyped, UploadOfMap, BoardOfMaps, DialogOfMap
  <1>3. CASE ServeMaps(k)
    <2>1. UNCHANGED <<board, active, editor, uploader, crossed>>
      BY <1>3 DEF ServeMaps
    <2>2. PICK s, g : Serves(k, s, g)
      BY <1>3 DEF ServeMaps
    <2>3. PICK n : Same(k, n) /\ calls' = (calls \ {k}) \cup {n}
      BY <1>0, <2>2, Served
    <2>4. UploadOfMap(n)
      BY <1>0, <2>3 DEF UploadOfMap, Same
    <2>5. mapsApi'.models \subseteq MapNames \X Resolutions
      <3>1. CASE k.what \in {"global", "server"}
        <4>1. PICK field : SetFlag(k, field)
          BY <1>3, <3>1 DEF ServeMaps
        <4>2. PICK e : mapsApi' = [mapsApi EXCEPT !.entries[k.of] = e]
          BY <4>1 DEF SetFlag
        <4>3. mapsApi'.models = mapsApi.models
          BY <1>0, <4>2 DEF ApiTyped
        <4>. QED  BY <1>0, <4>3
      <3>2. CASE k.what = "delete"
        <4>1. mapsApi' = [mapsApi EXCEPT !.entries[k.of] = None]
          BY <1>3, <3>2 DEF ServeMaps
        <4>2. mapsApi'.models = mapsApi.models
          BY <1>0, <4>1 DEF ApiTyped
        <4>. QED  BY <1>0, <4>2
      <3>3. CASE k.what = "upload"
        <4>1. mapsApi' = [mapsApi EXCEPT !.models = @ \cup {<<k.of, k.arg>>}]
          BY <1>3, <3>3 DEF ServeMaps
        <4>2. mapsApi'.models = mapsApi.models \cup {<<k.of, k.arg>>}
          BY <1>0, <4>1 DEF ApiTyped
        <4>3. <<k.of, k.arg>> \in MapNames \X Resolutions
          BY <1>0, <3>3 DEF UploadOfMap
        <4>. QED  BY <1>0, <4>2, <4>3
      <3>4. CASE k.what = "drop"
        <4>1. mapsApi' = [mapsApi EXCEPT !.models = @ \ {<<k.of, k.arg>>}]
          BY <1>3, <3>4 DEF ServeMaps
        <4>2. mapsApi'.models \subseteq mapsApi.models
          BY <1>0, <4>1 DEF ApiTyped
        <4>. QED  BY <1>0, <4>2
      <3>5. CASE k.what \notin {"global", "server", "delete", "upload", "drop"}
        <4>1. mapsApi' = mapsApi
          BY <1>3, <3>5 DEF ServeMaps
        <4>. QED  BY <1>0, <4>1
      <3>. QED  BY <3>1, <3>2, <3>3, <3>4, <3>5
    <2>. QED  BY <1>0, <2>1, <2>3, <2>4, <2>5
  <1>4. CASE Troubles(k) /\ UNCHANGED mapsVars
    <2>1. PICK n : Same(k, n) /\ calls' = (calls \ {k}) \cup {n}
      BY <1>0, <1>4, TroubledAs
    <2>2. UploadOfMap(n)
      BY <1>0, <2>1 DEF UploadOfMap, Same
    <2>. QED  BY <1>0, <1>4, <2>1, <2>2 DEF mapsVars
  <1>5. CASE MapsAnswered(k)
    <2>0. UNCHANGED mapsApi
      BY <1>5 DEF MapsAnswered
    <2>1. CASE ListAnswered(k)
      <3>1. /\ calls' = calls \ {k}
            /\ board' = IF k.state = "ok"
                        THEN [board EXCEPT !.loading = FALSE,
                                           !.shown = Listing(k.got, k.saw.key)]
                        ELSE [board EXCEPT !.loading = FALSE]
            /\ crossed' = (crossed \/ k.state # "ok")
            /\ UNCHANGED <<active, editor, uploader>>
        BY <2>1 DEF ListAnswered, Follows
      <3>2. PICK l : l = Listing(k.got, k.saw.key)
        OBVIOUS
      <3>3. l.total \in 0..Cardinality(MapNames)
        BY <3>2, ListingTotal
      <3>4. /\ board'.page = board.page /\ board'.search = board.search
            /\ board'.debounced = board.debounced
            /\ board'.shown \in {board.shown, l}
        BY <1>0, <3>1, <3>2 DEF BoardTyped
      <3>5. BoardOfMaps(board')
        BY <1>0, <3>3, <3>4 DEF BoardOfMaps
      <3>. QED  BY <1>0, <2>0, <3>1, <3>5
    <2>2. CASE ModelsAnswered(k)
      <3>1. /\ calls' = calls \ {k}
            /\ board' = IF k.state = "ok"
                        THEN [board EXCEPT !.has = k.got.models] ELSE board
            /\ active' \in {NoDialog, active}
            /\ UNCHANGED <<uploader, crossed>>
        BY <2>2 DEF ModelsAnswered, Follows
      <3>2. /\ board'.page = board.page /\ board'.search = board.search
            /\ board'.debounced = board.debounced
            /\ board'.shown = board.shown
        BY <1>0, <3>1 DEF BoardTyped
      <3>3. BoardOfMaps(board')
        BY <1>0, <3>2 DEF BoardOfMaps
      <3>. QED  BY <1>0, <2>0, <3>1, <3>3, NoDialogOfMap
    <2>3. CASE SaveAnswered(k) \/ DropAnswered(k)
      <3>1. UNCHANGED <<board, active, uploader, crossed>>
        BY <2>3 DEF SaveAnswered, DropAnswered
      <3>2. \A c \in calls' :
              \/ c \in calls \/ c = ReadModels(k.saw.n)
              \/ c = [ReadList(k.saw.key, k.saw.n) EXCEPT !.what = "find",
                                                         !.of = k.of]
        BY <2>3 DEF SaveAnswered, DropAnswered, Follows
      <3>3. UploadOfMap(ReadModels(k.saw.n))
        BY ReadNoUpload
      <3>4. UploadOfMap([ReadList(k.saw.key, k.saw.n) EXCEPT !.what = "find",
                                                            !.of = k.of])
        BY ReadNoUpload
      <3>5. \A c \in calls' : UploadOfMap(c)
        BY <1>0, <3>2, <3>3, <3>4, Zenon
      <3>. QED  BY <1>0, <2>0, <3>1, <3>5
    <2>4. CASE FoundAgain(k)
      <3>1. /\ calls' = (calls \ {k}) \cup {ReadList(k.saw.key, k.saw.n)}
            /\ board' = [board EXCEPT !.loading = TRUE]
            /\ crossed' = (crossed \/ Reads(calls) # {} \/ k.saw.key # ListKey)
            /\ UNCHANGED uploader
        BY <2>4 DEF FoundAgain, Follows
      <3>2. \A c \in calls' : UploadOfMap(c)
        BY <1>0, <3>1, ReadNoUpload
      <3>3. /\ board'.page = board.page /\ board'.search = board.search
            /\ board'.debounced = board.debounced
            /\ board'.shown = board.shown
        BY <1>0, <3>1 DEF BoardTyped
      <3>4. BoardOfMaps(board')
        BY <1>0, <3>3 DEF BoardOfMaps
      <3>5. DialogOfMap(active')
        <4>1. CASE k.state = "ok" /\ k.of \in Stored(k.got)
          <5>1. active' = [NoDialog EXCEPT !.type = "metadata", !.map = k.of,
                             !.entry = k.got.entries[k.of]]
            BY <2>4, <4>1 DEF FoundAgain
          <5>2. active'.type = "metadata" /\ active'.map = k.of
            BY <5>1, FoundDialog
          <5>3. k.of \in MapNames
            BY <4>1 DEF Stored
          <5>. QED  BY <5>2, <5>3 DEF DialogOfMap
        <4>2. CASE ~(k.state = "ok" /\ k.of \in Stored(k.got))
          BY <1>0, <2>4, <4>2 DEF FoundAgain
        <4>. QED  BY <4>1, <4>2
      <3>. QED  BY <1>0, <2>0, <3>1, <3>2, <3>4, <3>5
    <2>5. CASE MapDeleted(k)
      <3>1. CASE k.state = "ok"
        <4>1. /\ calls' = (calls \ {k}) \cup {ReadList(k.saw.key, k.saw.n)}
              /\ active' = NoDialog
              /\ board' = [board EXCEPT !.loading = TRUE]
              /\ crossed' = (crossed \/ Reads(calls) # {}
                                     \/ k.saw.key # ListKey)
              /\ UNCHANGED uploader
          BY <2>5, <3>1 DEF MapDeleted, Follows
        <4>2. \A c \in calls' : UploadOfMap(c)
          BY <1>0, <4>1, ReadNoUpload
        <4>3. /\ board'.page = board.page /\ board'.search = board.search
              /\ board'.debounced = board.debounced
              /\ board'.shown = board.shown
          BY <1>0, <4>1 DEF BoardTyped
        <4>4. BoardOfMaps(board')
          BY <1>0, <4>3 DEF BoardOfMaps
        <4>. QED  BY <1>0, <2>0, <4>1, <4>2, <4>4, NoDialogOfMap
      <3>2. CASE k.state # "ok"
        BY <1>0, <2>0, <2>5, <3>2 DEF MapDeleted, Follows
      <3>. QED  BY <3>1, <3>2
    <2>6. CASE UploadAnswered(k)
      <3>1. /\ \A c \in calls' :
                  c \in calls \/ c = [ReadModels(k.saw.n) EXCEPT !.arg = "saved"]
            /\ uploader' = [uploader EXCEPT !.uploading = FALSE,
                              !.progress = FALSE, !.controller = FALSE]
            /\ UNCHANGED <<board, active, editor, crossed>>
        BY <2>6 DEF UploadAnswered, Follows
      <3>2. \A c \in calls' : UploadOfMap(c)
        BY <1>0, <3>1, ReadNoUpload
      <3>3. uploader'.res = uploader.res
        BY <1>0, <3>1 DEF UploaderTyped
      <3>. QED  BY <1>0, <2>0, <3>1, <3>2, <3>3
    <2>. QED  BY <1>5, <2>1, <2>2, <2>3, <2>4, <2>5, <2>6 DEF MapsAnswered
  <1>. QED  BY <1>3, <1>4, <1>5

LEMMA MapsTypesStep ==
    ASSUME MapsTyped, page = "maps", page' = page, MapsInv, MapsInv',
           [MapsNext]_<<browserVars, fetchVars, mapsVars>>
    PROVE  MapsTyped'
  <1>1. MapsForms /\ MapsCalls /\ MapsForms'
    BY DEF MapsInv
  <1>2. CASE UNCHANGED <<browserVars, fetchVars, mapsVars>>
    BY <1>2 DEF browserVars, fetchVars, mapsVars, MapsTyped, UploadOfMap,
                BoardOfMaps, DialogOfMap
  <1>3. CASE MapsNext
    BY <1>1, <1>3, MapsTypesClicked, MapsTypesAnswered DEF MapsNext
  <1>. QED  BY <1>2, <1>3

-----------------------------------------------------------------------------
(* Notifications in the browser: an alert is of a stored row, the endpoint *)
(* is one of those used, and what a button shows is an alert.              *)
DeviceTyped ==
    /\ device.allowed \in {"default", "granted", "denied"}
    /\ device.endpoint \in device.used \cup {None}
    /\ device.used \subseteq Endpoints

StoredTyped ==
    /\ stored.rows \subseteq Endpoints
    /\ stored.alerts \subseteq [kind : Kinds, of : stored.rows]
    /\ stored.pref \in {"on", "off"}

ButtonTyped ==
    /\ button.shows \in Kinds \cup {None}
    /\ button.listed \in Kinds \cup {None}
    /\ button.pref \in {"on", "off", None}

AnswerTyped(k) ==
    /\ k.what = "prefer" /\ k.of = "settings" => k.arg \in {"on", "off"}
    /\ k.what = "prefer" /\ k.of = "bell" => k.arg \in Kinds
    /\ k.what = "alerts" /\ k.state # "sent" => k.got \in Kinds \cup {None}
    /\ k.what \in {"prefs", "prefer"} /\ k.state = "ok" => k.got \in {"on", "off"}

PushTyped ==
    /\ PushTypeOK
    /\ page = "push" => \A k \in calls : AnswerTyped(k)

(* What the invariant of the page leaves to be shown of a step. *)
PushTypes ==
    /\ DeviceTyped /\ StoredTyped /\ ButtonTyped
    /\ dismissed \in BOOLEAN /\ doneBy \subseteq Hooked
    /\ \A k \in calls : AnswerTyped(k)

LEMMA PushIsTyped == PushShape /\ PushTypes => PushTypeOK
  <1>. SUFFICES ASSUME PushShape, PushTypes PROVE PushTypeOK
    OBVIOUS
  <1>1. \A h \in Widgets : /\ hook[h].on \in BOOLEAN
                           /\ hook[h].sub \in Endpoints \cup {None}
                           /\ hook[h].busy \in {"asked", "sent", None}
                           /\ hook[h].then \in Kinds \cup {None}
    BY DEF PushShape, HookShape, HookType
  <1>2. /\ widget \in Widgets \ {"banner"}
        /\ button.busy \in BOOLEAN /\ button.saving \in BOOLEAN
    BY DEF PushShape, ButtonShape
  <1>3. {button.shows, button.listed} \subseteq Kinds \cup {None}
    BY DEF PushTypes, ButtonTyped
  <1>. QED
    BY <1>1, <1>2, <1>3 DEF PushTypeOK, PushTypes, DeviceTyped, StoredTyped,
                            ButtonTyped

LEMMA PushTypesOfPage == PushTyped /\ page = "push" => PushTypes
  <1>. SUFFICES ASSUME PushTyped, page = "push" PROVE PushTypes
    OBVIOUS
  <1>1. PushTypeOK /\ \A k \in calls : AnswerTyped(k)
    BY DEF PushTyped
  <1>2. button.shows \in Kinds \cup {None} /\ button.listed \in Kinds \cup {None}
    BY <1>1 DEF PushTypeOK
  <1>. QED
    BY <1>1, <1>2 DEF PushTypeOK, PushTypes, DeviceTyped, StoredTyped,
                      ButtonTyped

LEMMA NewAnswer ==
    ASSUME NEW what, what # "prefer", NEW h, NEW arg, NEW saw
    PROVE  AnswerTyped(Request(what, h, arg, saw))
  <1>. DEFINE r == Request(what, h, arg, saw)
  <1>1. r.what = what /\ r.state = "sent"
    BY NewRequest
  <1>. HIDE DEF r
  <1>2. AnswerTyped(r)
    BY <1>1 DEF AnswerTyped
  <1>. QED  BY <1>2 DEF r

LEMMA EffectsTyped ==
    /\ \A h, sub : \A r \in Effects(h, sub) : AnswerTyped(r)
    /\ \A r \in Refresh : AnswerTyped(r)
  <1>1. \A h, sub : \A r \in Effects(h, sub) :
          r.state = "sent" /\ r.what # "prefer"
    <2>. SUFFICES ASSUME NEW h, NEW sub, NEW r \in Effects(h, sub)
                  PROVE  r.state = "sent" /\ r.what # "prefer"
      OBVIOUS
    <2>. QED  BY EffectsSent
  <1>2. \A r \in Refresh : r.state = "sent" /\ r.what # "prefer"
    BY RefreshSent
  <1>. QED  BY <1>1, <1>2 DEF AnswerTyped

LEMMA StoredTypedAfter ==
    ASSUME PushShape, StoredTyped, NEW k, PushCall(k), AnswerTyped(k),
           k.what = "alert" => k.saw \in stored.rows,
           stored' = StoredWhen(k)
    PROVE  StoredTyped'
  <1>0. /\ StoredShape /\ stored.rows \subseteq Endpoints
        /\ stored.alerts \subseteq [kind : Kinds, of : stored.rows]
        /\ stored.pref \in {"on", "off"}
    BY DEF PushShape, StoredTyped
  <1>1. CASE k.what = "post"
    <2>1. /\ stored'.rows = stored.rows \cup {k.saw}
          /\ stored'.alerts = stored.alerts /\ stored'.pref = stored.pref
      BY <1>0, <1>1, StoredAfter
    <2>2. k.saw \in Endpoints
      BY <1>1 DEF PushCall
    <2>. QED  BY <1>0, <2>1, <2>2 DEF StoredTyped
  <1>2. CASE k.what = "leave"
    <2>1. stored' = [stored EXCEPT !.rows = @ \ {k.saw},
                          !.alerts = {a \in @ : a.of # k.saw}]
      BY <1>2 DEF StoredWhen
    <2>2. /\ stored'.rows = stored.rows \ {k.saw}
          /\ stored'.alerts = {a \in stored.alerts : a.of # k.saw}
          /\ stored'.pref = stored.pref
      BY <1>0, <2>1 DEF StoredShape
    <2>3. \A a \in stored'.alerts : a \in [kind : Kinds, of : stored'.rows]
      <3>. SUFFICES ASSUME NEW a \in stored'.alerts
                    PROVE  a \in [kind : Kinds, of : stored'.rows]
        OBVIOUS
      <3>1. a \in [kind : Kinds, of : stored.rows] /\ a.of # k.saw
        BY <1>0, <2>2
      <3>. QED  BY <2>2, <3>1
    <2>. QED  BY <1>0, <2>2, <2>3 DEF StoredTyped
  <1>3. CASE k.what = "alert"
    <2>1. /\ stored'.rows = stored.rows /\ stored'.pref = stored.pref
          /\ stored'.alerts = stored.alerts
                                \cup {[kind |-> k.arg, of |-> k.saw]}
      BY <1>0, <1>3, StoredAfter
    <2>2. k.arg \in Kinds
      BY <1>3, CallsOf, KindsKnown DEF PushShape
    <2>3. [kind |-> k.arg, of |-> k.saw] \in [kind : Kinds, of : stored.rows]
      BY <1>3, <2>2
    <2>. QED  BY <1>0, <2>1, <2>3 DEF StoredTyped
  <1>4. CASE k.what = "cancel"
    <2>1. /\ stored'.rows = stored.rows /\ stored'.pref = stored.pref
          /\ stored'.alerts \subseteq stored.alerts
      BY <1>0, <1>4, StoredAfter
    <2>. QED  BY <1>0, <2>1 DEF StoredTyped
  <1>5. CASE k.what = "prefer"
    <2>1. stored' = [stored EXCEPT !.pref = IF k.of = "bell" THEN "on"
                                                             ELSE k.arg]
      BY <1>5 DEF StoredWhen
    <2>2. /\ stored'.rows = stored.rows /\ stored'.alerts = stored.alerts
          /\ stored'.pref = IF k.of = "bell" THEN "on" ELSE k.arg
      BY <1>0, <2>1 DEF StoredShape
    <2>3. k.of \in {"bell", "settings"}
      BY <1>5 DEF PushCall
    <2>4. stored'.pref \in {"on", "off"}
      BY <1>5, <2>2, <2>3 DEF AnswerTyped
    <2>. QED  BY <1>0, <2>2, <2>4 DEF StoredTyped
  <1>6. CASE k.what \notin {"post", "leave", "alert", "cancel", "prefer"}
    <2>1. stored' = stored
      BY <1>6 DEF StoredWhen
    <2>. QED  BY <1>0, <2>1 DEF StoredTyped
  <1>. QED  BY <1>1, <1>2, <1>3, <1>4, <1>5, <1>6

LEMMA PreferredKind ==
    ASSUME NEW alerts PROVE Preferred(alerts) \in Kinds \cup {None}
  <1>. DEFINE kinds == {a.kind : a \in alerts} \cap KindsOf(widget)
  <1>1. CASE "server" \in kinds
    BY <1>1 DEF Preferred, Kinds
  <1>2. CASE "server" \notin kinds /\ kinds = {"all"}
    BY <1>2 DEF Preferred, Kinds
  <1>3. CASE "server" \notin kinds /\ kinds = {"change"}
    BY <1>3 DEF Preferred, Kinds
  <1>4. CASE "server" \notin kinds /\ kinds # {"all"} /\ kinds # {"change"}
    BY <1>4 DEF Preferred, Kinds
  <1>. QED  BY <1>1, <1>2, <1>3, <1>4

LEMMA PushTypesStart ==
    ASSUME NEW w \in Widgets \ {"banner"}, NEW b \in Browsers, PushInit(w, b),
           page = "push" => FetchInit(PushReads(w, b[2]))
    PROVE  PushTyped
  <1>1. /\ b[1] \in {"default", "granted"}
        /\ b[2] \in Endpoints \cup {None} /\ b[3] \in {{}, Endpoints}
        /\ b[2] = None => b[3] = {}
    <2>1. CASE b = <<"default", None, {}>>
      BY <2>1
    <2>2. ASSUME NEW e \in NextEndpoint({}), NEW r \in {{}, Endpoints},
                 b = <<"granted", e, r>>
          PROVE  /\ b[1] \in {"default", "granted"}
                 /\ b[2] \in Endpoints \cup {None} /\ b[3] \in {{}, Endpoints}
                 /\ b[2] = None => b[3] = {}
      BY <2>2, PushAssumption DEF NextEndpoint
    <2>. QED  BY <2>1, <2>2 DEF Browsers
  <1>2. /\ widget = w
        /\ device = [allowed |-> b[1], endpoint |-> b[2],
                     used |-> {b[2]} \ {None}]
        /\ stored = [rows |-> b[3] \cap {b[2]}, alerts |-> {}, pref |-> "off"]
        /\ hook = [h \in Widgets |-> Mounted(h, b)]
        /\ button = [shows |-> None, listed |-> None, busy |-> FALSE,
                     pref |-> None, saving |-> FALSE]
        /\ dismissed = (w # "settings") /\ doneBy = {}
    BY DEF PushInit
  <1>3. DeviceTyped /\ StoredTyped /\ ButtonTyped
    BY <1>1, <1>2 DEF DeviceTyped, StoredTyped, ButtonTyped
  <1>4. ASSUME NEW h \in Widgets
        PROVE  /\ hook[h].on \in BOOLEAN /\ hook[h].sub \in Endpoints \cup {None}
               /\ hook[h].busy = None /\ hook[h].then = None
    BY <1>1, <1>2, <1>4 DEF Mounted
  <1>5. {button.shows, button.listed} \subseteq Kinds \cup {None}
    BY <1>2
  <1>6. PushTypeOK
    BY <1>2, <1>3, <1>4, <1>5 DEF PushTypeOK, DeviceTyped, StoredTyped, ButtonTyped
  <1>7. ASSUME page = "push", NEW k \in calls PROVE AnswerTyped(k)
    <2>1. \/ k = Request("list", w, None, b[2])
          \/ k = Request("alerts", w, None, 0)
      BY <1>7 DEF PushReads, FetchInit
    <2>. QED  BY <2>1, NewAnswer
  <1>. QED  BY <1>6, <1>7 DEF PushTyped

(* What is clicked, and what the browser does. *)
LEMMA PushTypesClicked ==
    ASSUME PushShape, PushTypes,
           \/ HandleDismiss \/ Disable \/ UpdatePreference
           \/ HandleSubscribe \/ HandleUnsubscribe \/ RemoveSubscription
    PROVE  PushTypes'
  <1>0. /\ DeviceTyped /\ StoredTyped /\ ButtonTyped
        /\ dismissed \in BOOLEAN /\ doneBy \subseteq Hooked
        /\ \A k \in calls : AnswerTyped(k)
        /\ DeviceShape /\ StoredShape /\ ButtonShape
    BY DEF PushTypes, PushShape
  <1>. SUFFICES /\ DeviceTyped' /\ StoredTyped' /\ ButtonTyped'
                /\ dismissed' \in BOOLEAN /\ doneBy' \subseteq Hooked'
                /\ \A k \in calls' : AnswerTyped(k)
    BY DEF PushTypes, AnswerTyped
  <1>1. CASE HandleDismiss
    <2>1. /\ dismissed' = TRUE
          /\ UNCHANGED <<widget, device, stored, button, doneBy, calls>>
      BY <1>1 DEF HandleDismiss, fetchVars
    <2>. QED  BY <1>0, <2>1 DEF DeviceTyped, StoredTyped, ButtonTyped, Hooked
  <1>2. CASE Disable
    <2>1. /\ device' = [device EXCEPT !.endpoint = None]
          /\ doneBy' = doneBy \cup {"settings"} /\ widget = "settings"
          /\ UNCHANGED <<widget, stored, button, dismissed>>
      BY <1>2 DEF Disable
    <2>2. \A k \in calls' :
            k \in calls \/ k = Request("leave", "settings", None, device.endpoint)
      BY <1>2 DEF Disable, Sending, fetchVars
    <2>3. \A k \in calls' : AnswerTyped(k)
      BY <1>0, <2>2, NewAnswer
    <2>4. DeviceTyped'
      BY <1>0, <2>1 DEF DeviceTyped, DeviceShape
    <2>. QED  BY <1>0, <2>1, <2>3, <2>4 DEF StoredTyped, ButtonTyped, Hooked
  <1>3. CASE UpdatePreference
    <2>. DEFINE v == IF button.pref = "on" THEN "off" ELSE "on"
                r == Request("prefer", "settings", v, 0)
    <2>1. /\ button' = [button EXCEPT !.saving = TRUE]
          /\ calls' = calls \cup {r}
          /\ UNCHANGED <<widget, device, stored, dismissed, doneBy>>
      BY <1>3 DEF UpdatePreference, Sending
    <2>2. v \in {"on", "off"}
      OBVIOUS
    <2>. HIDE DEF v
    <2>3. r.of = "settings" /\ r.arg = v /\ r.state = "sent"
            /\ r.what = "prefer"
      BY NewRequest
    <2>. HIDE DEF r
    <2>4. AnswerTyped(r)
      BY <2>2, <2>3 DEF AnswerTyped
    <2>5. ButtonTyped'
      BY <1>0, <2>1 DEF ButtonTyped, ButtonShape
    <2>. QED  BY <1>0, <2>1, <2>4, <2>5 DEF DeviceTyped, StoredTyped, Hooked
  <1>4. CASE HandleSubscribe
    <2>1. UNCHANGED <<widget, device, stored, dismissed, doneBy>>
      BY <1>4 DEF HandleSubscribe
    <2>2. PICK kind \in KindsOf(widget) :
            \/ UNCHANGED <<button, fetchVars>>
            \/ /\ button' = [button EXCEPT !.busy = TRUE]
               /\ Sending({Request("alert", widget, kind, hook[widget].sub)})
      BY <1>4 DEF HandleSubscribe
    <2>3. \A k \in calls' :
            \/ k \in calls
            \/ k = Request("alert", widget, kind, hook[widget].sub)
      BY <2>2 DEF Sending, fetchVars
    <2>4. \A k \in calls' : AnswerTyped(k)
      BY <1>0, <2>3, NewAnswer
    <2>5. ButtonTyped'
      BY <1>0, <2>2 DEF ButtonTyped, ButtonShape
    <2>. QED  BY <1>0, <2>1, <2>4, <2>5 DEF DeviceTyped, StoredTyped, Hooked
  <1>5. CASE HandleUnsubscribe
    <2>1. /\ button' = [button EXCEPT !.busy = TRUE]
          /\ calls' = calls \cup {Request("cancel", widget, button.shows, 0)}
          /\ UNCHANGED <<widget, device, stored, dismissed, doneBy>>
      BY <1>5 DEF HandleUnsubscribe, Sending
    <2>2. \A k \in calls' : AnswerTyped(k)
      BY <1>0, <2>1, NewAnswer
    <2>3. ButtonTyped'
      BY <1>0, <2>1 DEF ButtonTyped, ButtonShape
    <2>. QED  BY <1>0, <2>1, <2>2, <2>3 DEF DeviceTyped, StoredTyped, Hooked
  <1>6. CASE RemoveSubscription
    <2>1. /\ device' = [device EXCEPT !.endpoint = None]
          /\ stored' = [stored EXCEPT !.rows = @ \ {device.endpoint},
                          !.alerts = {a \in @ : a.of # device.endpoint}]
          /\ UNCHANGED <<widget, button, dismissed, doneBy, calls>>
      BY <1>6 DEF RemoveSubscription, fetchVars
    <2>2. DeviceTyped'
      BY <1>0, <2>1 DEF DeviceTyped, DeviceShape
    <2>3. /\ stored'.rows = stored.rows \ {device.endpoint}
          /\ stored'.alerts = {a \in stored.alerts : a.of # device.endpoint}
          /\ stored'.pref = stored.pref
      BY <1>0, <2>1 DEF StoredShape
    <2>4. \A a \in stored'.alerts : a \in [kind : Kinds, of : stored'.rows]
      <3>. SUFFICES ASSUME NEW a \in stored'.alerts
                    PROVE  a \in [kind : Kinds, of : stored'.rows]
        OBVIOUS
      <3>1. a \in [kind : Kinds, of : stored.rows] /\ a.of # device.endpoint
        BY <1>0, <2>3 DEF StoredTyped
      <3>. QED  BY <2>3, <3>1
    <2>5. StoredTyped'
      BY <1>0, <2>3, <2>4 DEF StoredTyped
    <2>. QED  BY <1>0, <2>1, <2>2, <2>5 DEF ButtonTyped, Hooked
  <1>. QED  BY <1>1, <1>2, <1>3, <1>4, <1>5, <1>6

LEMMA PushTypesHooked ==
    ASSUME PushShape, PushTypes, NEW h \in Hooked,
           Enable(h) \/ RequestPermission(h) \/ Subscribe(h)
    PROVE  PushTypes'
  <1>0. /\ DeviceTyped /\ StoredTyped /\ ButtonTyped
        /\ dismissed \in BOOLEAN /\ doneBy \subseteq Hooked
        /\ \A k \in calls : AnswerTyped(k)
        /\ DeviceShape
    BY DEF PushTypes, PushShape
  <1>. SUFFICES /\ DeviceTyped' /\ StoredTyped' /\ ButtonTyped'
                /\ dismissed' \in BOOLEAN /\ doneBy' \subseteq Hooked'
                /\ \A k \in calls' : AnswerTyped(k)
    BY DEF PushTypes, AnswerTyped
  <1>1. CASE Enable(h)
    BY <1>0, <1>1 DEF Enable, fetchVars, DeviceTyped, StoredTyped, ButtonTyped,
                      Hooked
  <1>2. CASE RequestPermission(h)
    <2>1. UNCHANGED <<widget, stored, button, dismissed, doneBy, calls>>
      BY <1>2 DEF RequestPermission, fetchVars
    <2>2. \/ UNCHANGED device
          \/ \E p \in {"default", "granted", "denied"} :
               device' = [device EXCEPT !.allowed = p]
      BY <1>2 DEF RequestPermission
    <2>3. DeviceTyped'
      BY <1>0, <2>2 DEF DeviceTyped, DeviceShape
    <2>. QED  BY <1>0, <2>1, <2>3 DEF StoredTyped, ButtonTyped, Hooked
  <1>3. CASE Subscribe(h)
    <2>1. UNCHANGED <<widget, stored, button, dismissed>>
      BY <1>3 DEF Subscribe
    <2>2. CASE UNCHANGED <<device, doneBy, fetchVars>>
      BY <1>0, <2>1, <2>2 DEF fetchVars, DeviceTyped, StoredTyped, ButtonTyped,
                              Hooked
    <2>3. ASSUME NEW e \in IF device.endpoint = None
                           THEN NextEndpoint(device.used) ELSE {device.endpoint},
                 device' = [device EXCEPT !.endpoint = e, !.used = @ \cup {e}],
                 Sending({Request("post", h, hook[h].then, e)}),
                 doneBy' = doneBy \cup {h}
          PROVE  /\ DeviceTyped' /\ doneBy' \subseteq Hooked'
                 /\ \A k \in calls' : AnswerTyped(k)
      <3>1. e \in Endpoints
        BY <1>0, <2>3 DEF NextEndpoint, DeviceTyped
      <3>2. DeviceTyped'
        BY <1>0, <2>3, <3>1 DEF DeviceTyped, DeviceShape
      <3>3. \A k \in calls' :
              k \in calls \/ k = Request("post", h, hook[h].then, e)
        BY <2>3 DEF Sending
      <3>4. \A k \in calls' : AnswerTyped(k)
        BY <1>0, <3>3, NewAnswer
      <3>. QED  BY <1>0, <2>1, <2>3, <3>2, <3>4 DEF Hooked
    <2>4. \/ UNCHANGED <<device, doneBy, fetchVars>>
          \/ \E e \in IF device.endpoint = None
                      THEN NextEndpoint(device.used) ELSE {device.endpoint} :
               /\ device' = [device EXCEPT !.endpoint = e, !.used = @ \cup {e}]
               /\ Sending({Request("post", h, hook[h].then, e)})
               /\ doneBy' = doneBy \cup {h}
      BY <1>3 DEF Subscribe
    <2>. QED  BY <1>0, <2>1, <2>2, <2>3, <2>4 DEF StoredTyped, ButtonTyped
  <1>. QED  BY <1>1, <1>2, <1>3

(* What the API does. *)
LEMMA PushTypesServed ==
    ASSUME PushShape, PushCalls, PushTypes, NEW k \in calls,
           PushServes(k) \/ (Troubles(k) /\ UNCHANGED pushVars)
    PROVE  PushTypes'
  <1>0. /\ DeviceTyped /\ StoredTyped /\ ButtonTyped
        /\ dismissed \in BOOLEAN /\ doneBy \subseteq Hooked
        /\ \A c \in calls : AnswerTyped(c)
        /\ PushCall(k) /\ IsRequest(k) /\ AnswerTyped(k)
    BY DEF PushTypes, PushCalls, PushCall
  <1>1. /\ UNCHANGED <<widget, device, button, dismissed, doneBy>>
    BY DEF PushServes, pushVars
  <1>2. SUFFICES StoredTyped' /\ \A c \in calls' : AnswerTyped(c)
    BY <1>0, <1>1 DEF PushTypes, AnswerTyped, DeviceTyped, ButtonTyped, Hooked
  <1>3. CASE PushServes(k) /\ k.what = "alert" /\ k.saw \notin stored.rows
    <2>1. Serves(k, "refused", None) /\ stored' = stored
      BY <1>3 DEF PushServes
    <2>2. PICK n : /\ Same(k, n) /\ n.state = "refused"
                   /\ calls' = (calls \ {k}) \cup {n}
      BY <1>0, <2>1, Served
    <2>3. AnswerTyped(n)
      BY <1>0, <1>3, <2>2 DEF AnswerTyped, Same
    <2>. QED  BY <1>0, <2>1, <2>2, <2>3 DEF StoredTyped
  <1>4. CASE PushServes(k) /\ ~(k.what = "alert" /\ k.saw \notin stored.rows)
    <2>1. Serves(k, "ok", Got(k)) /\ stored' = StoredWhen(k)
      BY <1>4 DEF PushServes
    <2>2. PICK n : /\ Same(k, n) /\ n.state = "ok" /\ n.got = Got(k)
                   /\ calls' = (calls \ {k}) \cup {n}
      BY <1>0, <2>1, Served
    <2>3. StoredTyped'
      BY <1>0, <1>4, <2>1, StoredTypedAfter
    <2>4. k.what = "alerts" => Got(k) \in Kinds \cup {None}
      BY PreferredKind DEF Got
    <2>5. k.what \in {"prefs", "prefer"} => Got(k) = stored'.pref
      BY <2>1 DEF Got
    <2>6. AnswerTyped(n)
      BY <1>0, <2>2, <2>3, <2>4, <2>5 DEF AnswerTyped, Same, StoredTyped
    <2>. QED  BY <1>0, <2>2, <2>3, <2>6
  <1>5. CASE Troubles(k) /\ UNCHANGED pushVars
    <2>1. PICK n : /\ Same(k, n) /\ calls' = (calls \ {k}) \cup {n}
                   /\ n.state = "sent" \/ Refused(n)
      BY <1>0, <1>5, TroubledAs
    <2>2. AnswerTyped(n)
      BY <1>0, <2>1 DEF AnswerTyped, Same, Refused
    <2>. QED  BY <1>0, <1>5, <2>1, <2>2 DEF StoredTyped, pushVars
  <1>. QED  BY <1>3, <1>4, <1>5

(* What its answers do. *)
LEMMA PushTypesAnswered ==
    ASSUME PushShape, PushCalls, PushTypes, NEW k \in calls, PushAnswered(k)
    PROVE  PushTypes'
  <1>0. /\ DeviceTyped /\ StoredTyped /\ ButtonTyped /\ ButtonShape
        /\ dismissed \in BOOLEAN /\ doneBy \subseteq Hooked
        /\ \A c \in calls : AnswerTyped(c)
        /\ PushCall(k) /\ AnswerTyped(k)
    BY DEF PushTypes, PushCalls, PushShape
  <1>1. UNCHANGED <<widget, device, stored, doneBy>>
    BY DEF PushAnswered, SubscriptionsAnswered, RowAnswered, LeaveAnswered,
           AlertAnswered, PreferAnswered, CancelAnswered, AlertsAnswered,
           PrefsAnswered, GoesOn
  <1>2. SUFFICES ButtonTyped' /\ dismissed' \in BOOLEAN
                   /\ \A c \in calls' : AnswerTyped(c)
    BY <1>0, <1>1 DEF PushTypes, AnswerTyped, DeviceTyped, StoredTyped, Hooked
  <1>3. CASE SubscriptionsAnswered(k)
    <2>1. /\ \E sub : calls' = (calls \ {k}) \cup Effects(k.of, sub)
          /\ UNCHANGED <<button, dismissed>>
      BY <1>3 DEF SubscriptionsAnswered, GoesOn
    <2>2. \A c \in calls' : AnswerTyped(c)
      BY <1>0, <2>1, EffectsTyped
    <2>. QED  BY <1>0, <2>1, <2>2 DEF ButtonTyped
  <1>4. CASE RowAnswered(k) /\ k.state = "ok"
    <2>1. /\ calls' = (calls \ {k}) \cup
                (Effects(k.of, k.saw) \cup
                   {Request("alert", k.of, kind, k.saw) :
                      kind \in {k.arg} \ {None}})
          /\ button' = [button EXCEPT !.busy = @ \/ k.arg # None]
          /\ dismissed' = (dismissed \/ k.of = "banner")
      BY <1>4 DEF RowAnswered, GoesOn
    <2>2. \A kind : AnswerTyped(Request("alert", k.of, kind, k.saw))
      BY NewAnswer
    <2>3. \A c \in calls' : \/ c \in calls \/ c \in Effects(k.of, k.saw)
                            \/ \E kind : c = Request("alert", k.of, kind, k.saw)
      BY <2>1
    <2>4. \A c \in calls' : AnswerTyped(c)
      BY <1>0, <2>2, <2>3, EffectsTyped
    <2>5. ButtonTyped'
      BY <1>0, <2>1 DEF ButtonTyped, ButtonShape
    <2>. QED  BY <1>0, <2>1, <2>4, <2>5
  <1>5. CASE (RowAnswered(k) /\ k.state # "ok") \/ LeaveAnswered(k)
    <2>1. calls' = calls \ {k} /\ UNCHANGED <<button, dismissed>>
      BY <1>5 DEF RowAnswered, LeaveAnswered, GoesOn
    <2>. QED  BY <1>0, <2>1 DEF ButtonTyped
  <1>6. CASE AlertAnswered(k)
    <2>1. k.arg \in Kinds
      BY <1>0, <1>6, CallsOf, KindsKnown DEF AlertAnswered, PushShape
    <2>2. UNCHANGED dismissed
      BY <1>6 DEF AlertAnswered
    <2>3. CASE k.state = "ok" /\ k.of = "bell"
      <3>. DEFINE r == Request("prefer", "bell", k.arg, 0)
      <3>1. calls' = (calls \ {k}) \cup {r} /\ UNCHANGED button
        BY <1>6, <2>3 DEF AlertAnswered, GoesOn
      <3>2. r.of = "bell" /\ r.arg = k.arg /\ r.state = "sent"
        BY NewRequest
      <3>. HIDE DEF r
      <3>3. AnswerTyped(r)
        BY <2>1, <3>2 DEF AnswerTyped
      <3>. QED  BY <1>0, <2>2, <3>1, <3>3 DEF ButtonTyped
    <2>4. CASE ~(k.state = "ok" /\ k.of = "bell")
      <3>1. /\ calls' = calls \ {k}
            /\ button' = [button EXCEPT !.busy = FALSE,
                             !.shows = IF k.state = "ok" THEN k.arg ELSE @]
        BY <1>6, <2>4 DEF AlertAnswered, GoesOn
      <3>2. ButtonTyped'
        BY <1>0, <2>1, <3>1 DEF ButtonTyped, ButtonShape
      <3>. QED  BY <1>0, <2>2, <3>1, <3>2
    <2>. QED  BY <2>3, <2>4
  <1>7. CASE PreferAnswered(k)
    <2>1. /\ calls' = (calls \ {k}) \cup Refresh /\ UNCHANGED dismissed
          /\ k.what = "prefer"
          /\ button' = IF k.of = "bell"
                       THEN [button EXCEPT !.busy = FALSE, !.shows = k.arg]
                       ELSE [button EXCEPT !.saving = FALSE,
                               !.pref = IF k.state = "ok" THEN k.got ELSE @]
      BY <1>7 DEF PreferAnswered, GoesOn
    <2>2. \A c \in calls' : AnswerTyped(c)
      BY <1>0, <2>1, EffectsTyped
    <2>3. ButtonTyped'
      BY <1>0, <2>1 DEF ButtonTyped, ButtonShape, AnswerTyped
    <2>. QED  BY <1>0, <2>1, <2>2, <2>3
  <1>8. CASE CancelAnswered(k)
    <2>1. /\ \A c \in calls' : c \in calls \/ c \in Refresh
          /\ UNCHANGED dismissed
          /\ button' = [button EXCEPT !.busy = FALSE,
                          !.shows = IF k.state = "ok" THEN None ELSE @]
      BY <1>8 DEF CancelAnswered, GoesOn
    <2>2. \A c \in calls' : AnswerTyped(c)
      BY <1>0, <2>1, EffectsTyped
    <2>3. ButtonTyped'
      BY <1>0, <2>1 DEF ButtonTyped, ButtonShape
    <2>. QED  BY <1>0, <2>1, <2>2, <2>3
  <1>9. CASE AlertsAnswered(k)
    <2>1. /\ calls' = calls \ {k} /\ UNCHANGED dismissed
          /\ k.what = "alerts" /\ k.state # "sent"
          /\ button' = IF k.of = "bell"
                       THEN [button EXCEPT !.listed = k.got,
                               !.shows = IF k.got # button.listed THEN k.got
                                                                  ELSE @]
                       ELSE [button EXCEPT
                               !.shows = IF k.state = "ok" THEN k.got ELSE @]
      BY <1>9 DEF AlertsAnswered, GoesOn
    <2>2. k.got \in Kinds \cup {None}
      BY <1>0, <2>1 DEF AnswerTyped
    <2>3. ButtonTyped'
      BY <1>0, <2>1, <2>2 DEF ButtonTyped, ButtonShape
    <2>. QED  BY <1>0, <2>1, <2>3
  <1>10. CASE PrefsAnswered(k)
    <2>1. /\ calls' = calls \ {k} /\ UNCHANGED dismissed /\ k.what = "prefs"
          /\ button' = [button EXCEPT !.pref = IF k.state = "ok" THEN k.got
                                                                 ELSE @]
      BY <1>10 DEF PrefsAnswered, GoesOn
    <2>2. ButtonTyped'
      BY <1>0, <2>1 DEF ButtonTyped, ButtonShape, AnswerTyped
    <2>. QED  BY <1>0, <2>1, <2>2
  <1>. QED
    BY <1>3, <1>4, <1>5, <1>6, <1>7, <1>8, <1>9, <1>10 DEF PushAnswered

LEMMA PushTypesStep ==
    ASSUME PushTyped, page = "push", page' = page, PushInv, PushInv',
           [PushNext]_<<browserVars, fetchVars, pushVars>>
    PROVE  PushTyped'
  <1>0. PushShape /\ PushCalls /\ PushShape' /\ PushTypes
    BY PushTypesOfPage DEF PushInv
  <1>1. CASE UNCHANGED <<browserVars, fetchVars, pushVars>>
    BY <1>1 DEF fetchVars, pushVars, PushTyped, PushTypeOK, AnswerTyped, Hooked
  <1>2. CASE PushNext
    <2>1. PushTypes'
      BY <1>0, <1>2, PushTypesClicked, PushTypesHooked, PushTypesServed,
         PushTypesAnswered DEF PushNext
    <2>2. (PushShape /\ PushTypes => PushTypeOK)'
      BY PushIsTyped, PTL
    <2>. QED  BY <1>0, <2>1, <2>2 DEF PushTyped, PushTypes
  <1>. QED  BY <1>1, <1>2

-----------------------------------------------------------------------------
(* The admin tables: a row is changed once for each time a request is      *)
(* sent.  What the requests may still do, one for each of their tries that *)
(* is left, and what was done to a row, are not more than what was clicked.*)
DialogTyped(d) ==
    /\ d.open \in admin.dialogs \cup {None}
    /\ d.row \in TableRows \cup {None} /\ d.form \in TableRows \cup {None}
    /\ d.sending \subseteq {e \in admin.dialogs : "guarded" \in e}

Chance(k) == IF k.state = "sent" THEN Tries[page] - k.try + 1
                                 ELSE Tries[page] - k.try

Chances(ks) == {c \in ks \X (1..Tries[page]) : c[2] <= Chance(c[1])}

RowCall(k) ==
    /\ IsRequest(k) /\ k.of \in TableRows \cup {None}
    /\ k.try \in 1..Tries[page]

RowsCounted ==
    \A r \in TableRows :
       rows[r] = None \/ /\ rows[r] \in Nat
                         /\ rows[r] + Cardinality(Chances(calls))
                              <= clicks * Tries[page]

TableCounted ==
    /\ IsFiniteSet(calls) /\ clicks \in Nat
    /\ \A k \in calls : RowCall(k)
    /\ Cardinality(Chances(calls)) <= clicks * Tries[page]
    /\ RowsCounted

TableTypes ==
    /\ admin \in AdminPages /\ DOMAIN rows = TableRows
    /\ filter \in TableFilters /\ DialogTyped(dialog)
    /\ busy \in BOOLEAN /\ stray \in BOOLEAN

TableTyped ==
    /\ TableTypes
    /\ page # "table" => \A r \in TableRows : rows[r] \in {None, 0}
    /\ page = "table" => TableCounted

LEMMA TriesPositive ==
    page \in SitePages => Tries[page] \in Nat /\ Tries[page] >= 1
  BY SiteFetchAssumption

LEMMA ChancesFinite ==
    ASSUME page \in SitePages, NEW ks, IsFiniteSet(ks)
    PROVE  IsFiniteSet(Chances(ks)) /\ Cardinality(Chances(ks)) \in Nat
  <1>1. IsFiniteSet(1..Tries[page])
    BY TriesPositive, FS_Interval
  <1>2. IsFiniteSet(ks \X (1..Tries[page]))
    BY <1>1, FS_Product
  <1>3. Chances(ks) \subseteq ks \X (1..Tries[page])
    BY DEF Chances
  <1>4. IsFiniteSet(Chances(ks))
    BY <1>2, <1>3, FS_Subset
  <1>. QED  BY <1>4, FS_CardinalityType

LEMMA ChancesOfOne ==
    ASSUME NEW k, NEW a \in Nat
    PROVE  IsFiniteSet({k} \X (1..a)) /\ Cardinality({k} \X (1..a)) = a
  <1>1. IsFiniteSet(1..a) /\ Cardinality(1..a) = a
    BY FS_Interval
  <1>2. IsFiniteSet({k}) /\ Cardinality({k}) = 1
    BY FS_Singleton
  <1>. QED  BY <1>1, <1>2, FS_Product

(* A request that takes the place of one with as many chances, or more. *)
LEMMA ChancesMoved ==
    ASSUME page \in SitePages, NEW ks, IsFiniteSet(ks), NEW k \in ks, NEW n,
           k.try \in 1..Tries[page], Chance(n) \in 0..Tries[page]
    PROVE  Cardinality(Chances((ks \ {k}) \cup {n}))
             <= Cardinality(Chances(ks)) - Chance(k) + Chance(n)
  <1>. DEFINE T == Tries[page]
              a == Chance(k)
              b == Chance(n)
              K == {k} \X (1..a)
              N == {n} \X (1..b)
              C == Chances(ks)
              D == Chances((ks \ {k}) \cup {n})
  <1>1. T \in Nat /\ T >= 1
    BY TriesPositive
  <1>2. a \in Nat /\ a <= T /\ b \in Nat
    BY <1>1 DEF Chance
  <1>3. IsFiniteSet(C) /\ Cardinality(C) \in Nat
    BY ChancesFinite
  <1>4. K \subseteq C
    BY <1>1, <1>2 DEF Chances
  <1>5. D \subseteq (C \ K) \cup N
    <2>. SUFFICES ASSUME NEW c \in D PROVE c \in (C \ K) \cup N
      OBVIOUS
    <2>1. PICK j \in (ks \ {k}) \cup {n}, t \in 1..T : c = <<j, t>> /\ t <= Chance(j)
      BY DEF Chances
    <2>2. CASE j = n
      BY <1>2, <2>1, <2>2
    <2>3. CASE j \in ks /\ j # k
      BY <2>1, <2>3 DEF Chances
    <2>. QED  BY <2>2, <2>3
  <1>6. IsFiniteSet(K) /\ Cardinality(K) = a /\ IsFiniteSet(N)
          /\ Cardinality(N) = b
    BY <1>2, ChancesOfOne
  <1>. HIDE DEF K, N, C, D, a, b, T
  <1>7. IsFiniteSet(C \ K) /\ Cardinality(C \ K) = Cardinality(C) - a
    <2>1. C \cap K = K
      BY <1>4
    <2>. QED  BY <1>3, <1>6, <2>1, FS_Difference
  <1>8. /\ IsFiniteSet((C \ K) \cup N)
        /\ Cardinality((C \ K) \cup N) <= Cardinality(C) - a + b
    <2>1. IsFiniteSet((C \ K) \cap N) /\ Cardinality((C \ K) \cap N) \in Nat
      <3>1. IsFiniteSet((C \ K) \cap N)
        BY <1>6, FS_Subset
      <3>. QED  BY <3>1, FS_CardinalityType
    <2>2. /\ IsFiniteSet((C \ K) \cup N)
          /\ Cardinality((C \ K) \cup N)
               = Cardinality(C \ K) + Cardinality(N) - Cardinality((C \ K) \cap N)
      BY <1>6, <1>7, FS_Union
    <2>. QED  BY <1>2, <1>3, <1>6, <1>7, <2>1, <2>2
  <1>9. Cardinality(D) <= Cardinality(C) - a + b
    <2>1. IsFiniteSet(D) /\ Cardinality(D) <= Cardinality((C \ K) \cup N)
      BY <1>5, <1>8, FS_Subset
    <2>2. Cardinality(D) \in Nat /\ Cardinality((C \ K) \cup N) \in Nat
      BY <1>8, <2>1, FS_CardinalityType
    <2>. QED  BY <1>2, <1>3, <1>8, <2>1, <2>2
  <1>. QED  BY <1>9 DEF C, D, a, b

LEMMA ChancesFewer ==
    ASSUME page \in SitePages, NEW ks, IsFiniteSet(ks), NEW js,
           js \subseteq ks
    PROVE  Cardinality(Chances(js)) <= Cardinality(Chances(ks))
  <1>1. Chances(js) \subseteq Chances(ks)
    BY DEF Chances
  <1>2. IsFiniteSet(Chances(ks))
    BY ChancesFinite
  <1>. QED  BY <1>1, <1>2, FS_Subset

(* A request that is sent may be done once for each of its tries. *)
LEMMA ChancesAdded ==
    ASSUME page \in SitePages, NEW ks, IsFiniteSet(ks), NEW n, n.try = 1,
           n.state = "sent"
    PROVE  Cardinality(Chances(ks \cup {n}))
             <= Cardinality(Chances(ks)) + Tries[page]
  <1>. DEFINE T == Tries[page]
              N == {n} \X (1..T)
              C == Chances(ks)
              D == Chances(ks \cup {n})
  <1>1. T \in Nat
    BY TriesPositive
  <1>2. IsFiniteSet(C) /\ Cardinality(C) \in Nat
    BY ChancesFinite
  <1>3. D \subseteq C \cup N
    BY DEF Chances
  <1>4. IsFiniteSet(N) /\ Cardinality(N) = T
    BY <1>1, ChancesOfOne
  <1>. HIDE DEF N, C, D, T
  <1>5. /\ IsFiniteSet(C \cup N)
        /\ Cardinality(C \cup N) <= Cardinality(C) + T
    <2>1. IsFiniteSet(C \cap N) /\ Cardinality(C \cap N) \in Nat
      <3>1. IsFiniteSet(C \cap N)
        BY <1>4, FS_Subset
      <3>. QED  BY <3>1, FS_CardinalityType
    <2>2. /\ IsFiniteSet(C \cup N)
          /\ Cardinality(C \cup N)
               = Cardinality(C) + Cardinality(N) - Cardinality(C \cap N)
      BY <1>2, <1>4, FS_Union
    <2>. QED  BY <1>1, <1>2, <1>4, <2>1, <2>2
  <1>6. IsFiniteSet(D) /\ Cardinality(D) <= Cardinality(C \cup N)
    BY <1>3, <1>5, FS_Subset
  <1>7. Cardinality(D) \in Nat /\ Cardinality(C \cup N) \in Nat
    BY <1>5, <1>6, FS_CardinalityType
  <1>. QED  BY <1>1, <1>2, <1>5, <1>6, <1>7 DEF C, D, T

(* A step that clicks may send one request, and a step that does not is at *)
(* most one of the things a request may do.                                *)
LEMMA CountStep ==
    ASSUME page \in SitePages, page' = page, TableCounted,
           clicks' \in {clicks, clicks + 1},
           IsFiniteSet(calls'), \A k \in calls' : RowCall(k), NEW d \in {0, 1},
           Cardinality(Chances(calls'))
             <= Cardinality(Chances(calls)) - d
                  + IF clicks' = clicks THEN 0 ELSE Tries[page],
           \A r \in TableRows : \/ rows'[r] \in {None, 0, rows[r]}
                               \/ (rows[r] # None /\ rows'[r] = rows[r] + d)
    PROVE  TableCounted'
  <1>. DEFINE T == Tries[page]
              n == Cardinality(Chances(calls))
              m == Cardinality(Chances(calls'))
              b == clicks * T
              c == clicks' * T
              e == IF clicks' = clicks THEN 0 ELSE T
  <1>1. /\ T \in Nat /\ clicks \in Nat /\ clicks' \in Nat
        /\ n \in Nat /\ m \in Nat
    BY TriesPositive, ChancesFinite DEF TableCounted
  <1>2. b \in Nat /\ c \in Nat /\ e \in Nat
    BY <1>1
  <1>3. c = b + e
    <2>1. CASE clicks' = clicks
      BY <1>2, <2>1
    <2>2. CASE clicks' # clicks
      <3>1. clicks' = clicks + 1
        BY <2>2
      <3>2. (clicks + 1) * T = clicks * T + T
        BY <1>1
      <3>. QED  BY <2>2, <3>1, <3>2
    <2>. QED  BY <2>1, <2>2
  <1>4. n <= b
    BY DEF TableCounted
  <1>5. m <= n - d + e
    OBVIOUS
  <1>6. Chances(calls)' = Chances(calls')
    BY DEF Chances, Chance
  <1>7. \A r \in TableRows : rows[r] = None \/ (rows[r] \in Nat /\ rows[r] + n <= b)
    BY DEF TableCounted, RowsCounted
  <1>. HIDE DEF n, m, b, c, e
  <1>8. m <= c
    BY <1>1, <1>2, <1>3, <1>4, <1>5
  <1>9. ASSUME NEW r \in TableRows
        PROVE  rows'[r] = None \/ (rows'[r] \in Nat /\ rows'[r] + m <= c)
    <2>1. CASE rows'[r] = None
      BY <2>1
    <2>2. CASE rows'[r] = 0
      BY <1>1, <1>8, <2>2
    <2>3. CASE rows'[r] = rows[r] /\ rows[r] # None
      BY <1>1, <1>2, <1>3, <1>5, <1>7, <2>3
    <2>4. CASE rows[r] # None /\ rows'[r] = rows[r] + d
      BY <1>1, <1>2, <1>3, <1>5, <1>7, <2>4
    <2>. QED  BY <2>1, <2>2, <2>3, <2>4
  <1>10. RowsCounted'
    BY <1>6, <1>9 DEF RowsCounted, m, c
  <1>11. \A k \in calls' : RowCall(k)'
    BY DEF RowCall
  <1>. QED  BY <1>1, <1>6, <1>8, <1>10, <1>11 DEF TableCounted, m, c

LEMMA CountSent ==
    ASSUME page \in SitePages, page' = page, TableCounted,
           clicks' = clicks + 1, rows' = rows, NEW what,
           NEW of \in TableRows \cup {None}, NEW arg, NEW saw,
           Send(Request(what, of, arg, saw))
    PROVE  TableCounted'
  <1>. DEFINE r == Request(what, of, arg, saw)
  <1>1. IsRequest(r) /\ r.of = of /\ r.state = "sent"
    BY NewRequest
  <1>2. r.try = 1 /\ calls' = calls \cup {r}
    BY DEF Request, Send
  <1>. HIDE DEF r
  <1>3. RowCall(r)
    BY <1>1, <1>2, TriesPositive DEF RowCall
  <1>4. IsFiniteSet(calls) /\ clicks \in Nat /\ \A k \in calls : RowCall(k)
    BY DEF TableCounted
  <1>5. IsFiniteSet(calls') /\ \A k \in calls' : RowCall(k)
    <2>1. IsFiniteSet({r})
      BY FS_Singleton
    <2>. QED  BY <1>2, <1>3, <1>4, <2>1, FS_Union
  <1>6. /\ Cardinality(Chances(calls'))
             <= Cardinality(Chances(calls)) + Tries[page]
        /\ Cardinality(Chances(calls')) \in Nat
        /\ Cardinality(Chances(calls)) \in Nat
    BY <1>1, <1>2, <1>4, <1>5, ChancesAdded, ChancesFinite
  <1>7. Cardinality(Chances(calls'))
          <= Cardinality(Chances(calls)) - 0
               + IF clicks' = clicks THEN 0 ELSE Tries[page]
    BY <1>4, <1>6
  <1>. QED  BY <1>5, <1>7, CountStep

LEMMA CountFewer ==
    ASSUME page \in SitePages, page' = page, TableCounted,
           clicks' \in {clicks, clicks + 1}, rows' = rows, calls' \subseteq calls
    PROVE  TableCounted'
  <1>1. IsFiniteSet(calls) /\ \A k \in calls : RowCall(k)
    BY DEF TableCounted
  <1>2. IsFiniteSet(calls') /\ \A k \in calls' : RowCall(k)
    BY <1>1, FS_Subset
  <1>3. /\ Cardinality(Chances(calls')) <= Cardinality(Chances(calls))
        /\ Cardinality(Chances(calls')) \in Nat
        /\ Cardinality(Chances(calls)) \in Nat
    BY <1>1, <1>2, ChancesFewer, ChancesFinite
  <1>4. Cardinality(Chances(calls'))
          <= Cardinality(Chances(calls)) - 0
               + IF clicks' = clicks THEN 0 ELSE Tries[page]
    BY <1>3, TriesPositive
  <1>. QED  BY <1>2, <1>4, CountStep

LEMMA CountMoved ==
    ASSUME page \in SitePages, page' = page, TableCounted,
           clicks' \in {clicks, clicks + 1},
           NEW k \in calls, NEW n, Same(k, n), n.try \in 1..Tries[page],
           calls' = (calls \ {k}) \cup {n}, NEW d \in {0, 1},
           Chance(n) <= Chance(k) - d,
           \A r \in TableRows : \/ rows'[r] \in {None, 0, rows[r]}
                               \/ (rows[r] # None /\ rows'[r] = rows[r] + d)
    PROVE  TableCounted'
  <1>1. /\ IsFiniteSet(calls) /\ \A c \in calls : RowCall(c)
        /\ k.try \in 1..Tries[page]
    BY DEF TableCounted, RowCall
  <1>2. RowCall(n)
    BY <1>1 DEF RowCall, Same
  <1>3. IsFiniteSet(calls') /\ \A c \in calls' : RowCall(c)
    <2>1. IsFiniteSet({n}) /\ IsFiniteSet(calls \ {k})
      BY <1>1, FS_Singleton, FS_Difference
    <2>. QED  BY <1>1, <1>2, <2>1, FS_Union
  <1>4. Chance(n) \in 0..Tries[page] /\ Chance(k) \in 0..Tries[page]
    BY <1>1, TriesPositive DEF Chance
  <1>5. /\ Cardinality(Chances(calls'))
             <= Cardinality(Chances(calls)) - Chance(k) + Chance(n)
        /\ Cardinality(Chances(calls')) \in Nat
        /\ Cardinality(Chances(calls)) \in Nat
    BY <1>1, <1>3, <1>4, ChancesMoved, ChancesFinite
  <1>6. Cardinality(Chances(calls'))
          <= Cardinality(Chances(calls)) - d
               + IF clicks' = clicks THEN 0 ELSE Tries[page]
    BY <1>4, <1>5, TriesPositive
  <1>. QED  BY <1>3, <1>6, CountStep

(* The dialog of a page that reads its rows again. *)
LEMMA TypedRefetch ==
    ASSUME NEW f, NEW d, DialogTyped(d),
           d = [open |-> d.open, row |-> d.row, form |-> d.form,
                sending |-> d.sending],
           stray \in BOOLEAN, FetchData(f, d)
    PROVE  DialogTyped(dialog') /\ busy' = TRUE /\ stray' \in BOOLEAN
  <1>1. /\ dialog' = Remounted(d) /\ busy' = TRUE
        /\ stray' = (stray \/ refreshing # {} \/ f # filter')
    BY DEF FetchData
  <1>2. CASE Is("unmounts") /\ ~busy
    <2>1. PICK m : m = [d EXCEPT !.sending = {}]
      OBVIOUS
    <2>2. m = [open |-> d.open, row |-> d.row, form |-> d.form,
               sending |-> {}]
      BY <2>1
    <2>3. PICK l : l = [m EXCEPT !.form = d.row]
      OBVIOUS
    <2>4. l = [open |-> d.open, row |-> d.row, form |-> d.row,
               sending |-> {}]
      BY <2>2, <2>3
    <2>5. [d EXCEPT !.sending = {}, !.form = d.row]
            = [[d EXCEPT !.sending = {}] EXCEPT !.form = d.row]
      BY Zenon
    <2>6. dialog' = l
      BY <1>1, <1>2, <2>1, <2>3, <2>5 DEF Remounted
    <2>. QED  BY <1>1, <2>4, <2>6 DEF DialogTyped
  <1>3. CASE ~(Is("unmounts") /\ ~busy)
    BY <1>1, <1>3 DEF Remounted
  <1>. QED  BY <1>2, <1>3

LEMMA SavedTyped ==
    ASSUME NEW k, TableShape, DialogTyped(dialog)
    PROVE  LET d == Saved(k, dialog)
           IN  /\ DialogTyped(d)
               /\ d = [open |-> d.open, row |-> d.row, form |-> d.form,
                       sending |-> d.sending]
  <1>0. dialog = [open |-> dialog.open, row |-> dialog.row,
                  form |-> dialog.form, sending |-> dialog.sending]
    BY DEF TableShape
  <1>. DEFINE d == Saved(k, dialog)
  <1>1. CASE k.what = "save"
    <2>1. PICK o : o = IF k.state = "ok" /\ dialog.open = k.arg THEN None
                       ELSE dialog.open
      OBVIOUS
    <2>2. PICK m : m = [dialog EXCEPT !.sending = @ \ {k.arg}]
      OBVIOUS
    <2>3. m = [open |-> dialog.open, row |-> dialog.row,
               form |-> dialog.form, sending |-> dialog.sending \ {k.arg}]
      BY <1>0, <2>2
    <2>4. PICK l : l = [m EXCEPT !.open = o]
      OBVIOUS
    <2>5. l = [open |-> o, row |-> dialog.row,
               form |-> dialog.form, sending |-> dialog.sending \ {k.arg}]
      BY <2>3, <2>4
    <2>6. d = [m EXCEPT !.open = IF k.state = "ok" /\ m.open = k.arg
                                 THEN None ELSE m.open]
      BY <1>1, <2>2, Zenon DEF Saved
    <2>7. d = l
      BY <2>1, <2>3, <2>4, <2>6
    <2>. HIDE DEF d
    <2>8. DialogTyped(d) /\ d = [open |-> d.open, row |-> d.row,
                                 form |-> d.form, sending |-> d.sending]
      BY <2>1, <2>5, <2>7 DEF DialogTyped
    <2>. QED  BY <2>8 DEF d
  <1>2. CASE k.what # "save"
    BY <1>0, <1>2 DEF Saved
  <1>. QED  BY <1>1, <1>2

LEMMA TableTypesStart ==
    ASSUME NEW p \in AdminPages, NEW f \in TableFilters, TableInit(p, f),
           page \in SitePages, page = "table" => calls = {} /\ clicks = 0
    PROVE  TableTyped
  <1>1. /\ dialog = [open |-> None, row |-> None, form |-> None,
                     sending |-> {}]
        /\ admin = p /\ filter = f /\ stray = FALSE /\ busy = TRUE
        /\ rows = [r \in TableRows |-> IF r = NewRow THEN None ELSE 0]
    BY DEF TableInit, Closed
  <1>2. TableTypes
    BY <1>1 DEF TableTypes, DialogTyped
  <1>3. \A r \in TableRows : rows[r] \in {None, 0}
    BY <1>1
  <1>4. ASSUME page = "table" PROVE TableCounted
    <2>1. Chances(calls) = {}
      BY <1>4 DEF Chances
    <2>2. Cardinality(Chances(calls)) = 0 /\ IsFiniteSet(calls)
      BY <1>4, <2>1, FS_EmptySet
    <2>3. clicks * Tries[page] = 0
      BY <1>4, TriesPositive
    <2>. QED  BY <1>3, <1>4, <2>2, <2>3 DEF TableCounted, RowsCounted
  <1>. QED  BY <1>2, <1>3, <1>4 DEF TableTyped

(* What is clicked. *)
LEMMA TableTypesClicked ==
    ASSUME page \in SitePages, page' = page, TableShape, TableTypes, TableCounted,
           SelectFilter \/ ChangeRow \/ OpenDialog \/ CloseDialog \/ Save
    PROVE  TableTypes' /\ TableCounted'
  <1>0. /\ admin \in AdminPages /\ DOMAIN rows = TableRows
        /\ filter \in TableFilters /\ DialogTyped(dialog)
        /\ busy \in BOOLEAN /\ stray \in BOOLEAN
        /\ dialog = [open |-> dialog.open, row |-> dialog.row,
                     form |-> dialog.form, sending |-> dialog.sending]
    BY DEF TableTypes, TableShape
  <1>1. admin' = admin /\ rows' = rows /\ clicks' = clicks + 1
    BY DEF SelectFilter, ChangeRow, OpenDialog, CloseDialog, Save, Click,
           tableVars
  <1>2. SUFFICES /\ filter' \in TableFilters /\ DialogTyped(dialog')
                 /\ busy' \in BOOLEAN /\ stray' \in BOOLEAN
                 /\ TableCounted'
    BY <1>0, <1>1 DEF TableTypes, DialogTyped
  <1>3. CASE SelectFilter
    <2>1. PICK f \in TableFilters : filter' = f /\ FetchData(f, dialog)
      BY <1>3 DEF SelectFilter
    <2>2. DialogTyped(dialog') /\ busy' = TRUE /\ stray' \in BOOLEAN
      BY <1>0, <2>1, TypedRefetch
    <2>3. calls' = calls
      BY <1>3 DEF SelectFilter, fetchVars
    <2>4. TableCounted'
      BY <1>1, <2>3, CountFewer
    <2>. QED  BY <2>1, <2>2, <2>4
  <1>4. CASE ChangeRow
    <2>1. PICK r \in TableRows, what \in {"updates", "removes"} :
            Send(Request(what, r, None, filter))
      BY <1>4 DEF ChangeRow
    <2>2. UNCHANGED <<filter, busy, dialog, stray>>
      BY <1>4 DEF ChangeRow, tableVars
    <2>3. TableCounted'
      BY <1>1, <2>1, CountSent
    <2>. QED  BY <1>0, <2>2, <2>3
  <1>5. CASE OpenDialog
    <2>1. PICK d \in admin.dialogs, r \in TableRows \cup {None} :
            dialog' = [dialog EXCEPT !.open = d, !.row = r, !.form = r]
      BY <1>5 DEF OpenDialog
    <2>2. UNCHANGED <<filter, busy, stray, calls>>
      BY <1>5 DEF OpenDialog, fetchVars
    <2>3. dialog' = [open |-> d, row |-> r, form |-> r,
                     sending |-> dialog.sending]
      BY <1>0, <2>1
    <2>4. DialogTyped(dialog')
      BY <1>0, <2>3 DEF DialogTyped
    <2>5. TableCounted'
      BY <1>1, <2>2, CountFewer
    <2>. QED  BY <1>0, <2>2, <2>4, <2>5
  <1>6. CASE CloseDialog
    <2>1. /\ dialog' = [dialog EXCEPT !.open = None]
          /\ UNCHANGED <<filter, busy, stray, calls>>
      BY <1>6 DEF CloseDialog, fetchVars
    <2>2. dialog' = [open |-> None, row |-> dialog.row, form |-> dialog.form,
                     sending |-> dialog.sending]
      BY <1>0, <2>1
    <2>3. DialogTyped(dialog')
      BY <1>0, <2>2 DEF DialogTyped
    <2>4. TableCounted'
      BY <1>1, <2>1, CountFewer
    <2>. QED  BY <1>0, <2>1, <2>3, <2>4
  <1>7. CASE Save
    <2>1. /\ Send(Request("save", dialog.form, dialog.open, filter))
          /\ dialog.open # None
          /\ dialog' = IF "guarded" \in dialog.open
                       THEN [dialog EXCEPT !.sending = @ \cup {dialog.open}]
                       ELSE dialog
          /\ UNCHANGED <<filter, busy, stray>>
      BY <1>7 DEF Save, Visible
    <2>2. dialog' = [open |-> dialog.open, row |-> dialog.row,
                     form |-> dialog.form,
                     sending |-> IF "guarded" \in dialog.open
                                 THEN dialog.sending \cup {dialog.open}
                                 ELSE dialog.sending]
      BY <1>0, <2>1
    <2>3. DialogTyped(dialog')
      BY <1>0, <2>1, <2>2 DEF DialogTyped
    <2>4. dialog.form \in TableRows \cup {None}
      BY <1>0 DEF DialogTyped
    <2>5. TableCounted'
      BY <1>1, <2>1, <2>4, CountSent
    <2>. QED  BY <1>0, <2>1, <2>3, <2>5
  <1>. QED  BY <1>3, <1>4, <1>5, <1>6, <1>7

(* What the API does, and what its answers do. *)
LEMMA TableTypesServed ==
    ASSUME page \in SitePages, page' = page, TableShape, TableTypes, TableCounted,
           NEW k \in calls, ServeRow(k)
    PROVE  TableTypes' /\ TableCounted'
  <1>0. /\ DOMAIN rows = TableRows /\ RowCall(k)
        /\ IsRequest(k) /\ k.try \in 1..Tries[page]
    BY DEF TableTypes, TableCounted, RowCall
  <1>1. /\ k.state = "sent" /\ clicks' = clicks
        /\ UNCHANGED <<admin, filter, busy, dialog, stray>>
    BY DEF ServeRow, Alone, browserVars
  <1>2. PICK s \in {"ok", "refused"} : Serves(k, s, None)
    BY DEF ServeRow
  <1>3. PICK n : /\ Same(k, n) /\ n.state = s /\ n.try = k.try
                 /\ calls' = (calls \ {k}) \cup {n}
    BY <1>0, <1>2, Served
  <1>4. Chance(n) <= Chance(k) - 1
    BY <1>0, <1>1, <1>3, TriesPositive DEF Chance
  <1>5. /\ DOMAIN rows' = TableRows
        /\ \A r \in TableRows : \/ rows'[r] \in {None, 0, rows[r]}
                               \/ (rows[r] # None /\ rows'[r] = rows[r] + 1)
    <2>1. CASE /\ k.of # None /\ rows[k.of] # None
               /\ IF k.what = "removes" THEN rows' = [rows EXCEPT ![k.of] = None]
                                        ELSE Changed(k.of)
      <3>1. k.of \in TableRows
        BY <1>0, <2>1 DEF RowCall
      <3>2. CASE rows' = [rows EXCEPT ![k.of] = None]
        BY <1>0, <3>1, <3>2
      <3>3. CASE Changed(k.of)
        <4>1. rows' = [rows EXCEPT ![k.of] = rows[k.of] + 1]
          BY <3>3 DEF Changed
        <4>. QED  BY <1>0, <2>1, <3>1, <4>1
      <3>. QED  BY <2>1, <3>2, <3>3
    <2>2. CASE \E r \in TableRows : rows' = [rows EXCEPT ![r] = 0]
      BY <1>0, <2>2
    <2>3. CASE rows' = rows
      BY <1>0, <2>3
    <2>. QED  BY <2>1, <2>2, <2>3 DEF ServeRow
  <1>6. TableCounted'
    BY <1>0, <1>1, <1>3, <1>4, <1>5, CountMoved
  <1>. QED  BY <1>1, <1>5, <1>6 DEF TableTypes, DialogTyped

LEMMA TableTypesAnswered ==
    ASSUME page \in SitePages, page' = page, TableShape, TableTypes, TableCounted,
           NEW k \in calls, RowChanged(k)
    PROVE  TableTypes' /\ TableCounted'
  <1>. DEFINE d == Saved(k, dialog)
  <1>0. /\ admin \in AdminPages /\ DOMAIN rows = TableRows
        /\ filter \in TableFilters /\ DialogTyped(dialog)
        /\ busy \in BOOLEAN /\ stray \in BOOLEAN
    BY DEF TableTypes
  <1>1. /\ calls' = calls \ {k} /\ filter' = filter /\ clicks' = clicks
        /\ UNCHANGED <<admin, rows>>
        /\ \/ FetchData(k.saw, d)
           \/ dialog' = d /\ UNCHANGED <<busy, stray>>
    BY DEF RowChanged, Settles, Alone, browserVars
  <1>2. /\ DialogTyped(d)
        /\ d = [open |-> d.open, row |-> d.row, form |-> d.form,
                sending |-> d.sending]
    BY <1>0, SavedTyped
  <1>. HIDE DEF d
  <1>3. DialogTyped(dialog') /\ busy' \in BOOLEAN /\ stray' \in BOOLEAN
    <2>1. CASE FetchData(k.saw, d)
      BY <1>0, <1>2, <2>1, TypedRefetch
    <2>2. CASE dialog' = d /\ UNCHANGED <<busy, stray>>
      BY <1>0, <1>2, <2>2
    <2>. QED  BY <1>1, <2>1, <2>2
  <1>4. TableCounted'
    BY <1>1, CountFewer
  <1>. QED  BY <1>0, <1>1, <1>3, <1>4 DEF TableTypes, DialogTyped

LEMMA TableTypesTroubled ==
    ASSUME page \in SitePages, page' = page, TableShape, TableTypes, TableCounted,
           NEW k \in calls, Troubles(k), UNCHANGED tableVars
    PROVE  TableTypes' /\ TableCounted'
  <1>0. RowCall(k) /\ IsRequest(k) /\ k.try \in 1..Tries[page]
    BY DEF TableCounted, RowCall
  <1>1. clicks' = clicks + 1
    BY DEF Troubles, Click
  <1>2. PICK n : /\ Same(k, n) /\ calls' = (calls \ {k}) \cup {n}
                 /\ \/ n.state = "sent" /\ k.state = "sent" /\ n.try = k.try
                    \/ /\ n.state = "sent" /\ n.try = k.try + 1
                       /\ k.try < Tries[page]
                    \/ Refused(n) /\ n.try = k.try
    BY <1>0, TroubledAs
  <1>3. Chance(n) <= Chance(k) - 0 /\ n.try \in 1..Tries[page]
    BY <1>0, <1>2, TriesPositive DEF Chance, Refused
  <1>4. UNCHANGED <<admin, rows, filter, busy, dialog, stray>>
    BY DEF tableVars
  <1>5. TableCounted'
    BY <1>1, <1>2, <1>3, <1>4, CountMoved
  <1>. QED  BY <1>4, <1>5 DEF TableTypes, DialogTyped

LEMMA TableTypesRead ==
    ASSUME page \in SitePages, page' = page, TableShape, TableTypes, TableCounted,
           NEW r, ServeTable(r) \/ TableAnswered(r)
    PROVE  TableTypes' /\ TableCounted'
  <1>1. /\ calls' = calls /\ clicks' = clicks
        /\ UNCHANGED <<admin, rows, filter, dialog>>
        /\ busy' \in {busy, FALSE} /\ stray' \in {stray, TRUE}
    BY DEF ServeTable, TableAnswered, fetchVars, Alone, browserVars
  <1>2. TableCounted'
    BY <1>1, CountFewer
  <1>. QED  BY <1>1, <1>2 DEF TableTypes, DialogTyped

LEMMA TableTypesStep ==
    ASSUME page \in SitePages, TableTyped, page = "table", page' = page, TableInv,
           [TableNext]_<<browserVars, fetchVars, tableVars>>
    PROVE  TableTyped'
  <1>0. TableTypes /\ TableCounted /\ TableShape
    BY DEF TableTyped, TableInv
  <1>. SUFFICES TableTypes' /\ TableCounted'
    BY DEF TableTyped
  <1>1. CASE UNCHANGED <<browserVars, fetchVars, tableVars>>
    <2>1. UNCHANGED <<admin, rows, filter, busy, dialog, stray, calls, clicks>>
      BY <1>1 DEF browserVars, fetchVars, tableVars
    <2>2. TableCounted'
      BY <1>0, <2>1, CountFewer
    <2>. QED  BY <1>0, <2>1, <2>2 DEF TableTypes, DialogTyped
  <1>2. CASE TableNext
    BY <1>0, <1>2, TableTypesClicked, TableTypesServed, TableTypesAnswered,
       TableTypesTroubled, TableTypesRead DEF TableNext
  <1>. QED  BY <1>1, <1>2

(* What was done to a row stays below the bound. *)
LEMMA TableIsTyped ==
    Bounded /\ TableTyped => TableTypeOK
  <1>. SUFFICES ASSUME Bounded, TableTyped PROVE TableTypeOK
    OBVIOUS
  <1>. DEFINE T == Tries[page]
              M == MaxClicks[page]
  <1>1. /\ T \in Nat /\ M \in Nat /\ clicks \in 0..M
    BY TriesPositive, ClicksAssumption DEF Bounded
  <1>2. /\ clicks * T \in Nat /\ M * T \in Nat /\ clicks * T <= M * T
    BY <1>1
  <1>. HIDE DEF T, M
  <1>3. ASSUME NEW r \in TableRows
        PROVE  rows[r] = None \/ rows[r] \in 0..M * T
    <2>1. CASE page # "table"
      BY <1>2, <2>1 DEF TableTyped
    <2>2. CASE page = "table"
      <3>1. TableCounted /\ IsFiniteSet(calls) /\ page \in SitePages
        BY <2>2 DEF TableTyped, TableCounted, Bounded
      <3>2. Cardinality(Chances(calls)) \in Nat
        BY <3>1, ChancesFinite
      <3>3. rows[r] = None \/ /\ rows[r] \in Nat
                              /\ rows[r] + Cardinality(Chances(calls)) <= clicks * T
        BY <3>1 DEF TableCounted, RowsCounted, T
      <3>. QED  BY <1>2, <3>2, <3>3
    <2>. QED  BY <2>1, <2>2
  <1>4. {dialog.row, dialog.form} \subseteq TableRows \cup {None}
    BY DEF TableTyped, TableTypes, DialogTyped
  <1>. QED
    BY <1>3, <1>4 DEF TableTyped, TableTypes, DialogTyped, TableTypeOK, T, M

-----------------------------------------------------------------------------
LEMMA BoundedStarts == Init => Bounded
  <1>. SUFFICES ASSUME Init PROVE Bounded
    OBVIOUS
  <1>1. page \in SitePages /\ clicks = 0
    BY DEF Init, BrowserInit
  <1>2. lost = 0
    BY DEF Init, FetchInit
  <1>3. MaxClicks[page] \in Nat /\ Losses[page] \in Nat
    BY <1>1, SiteFetchAssumption, ClicksAssumption
  <1>. QED  BY <1>1, <1>2, <1>3 DEF Bounded

LEMMA BoundedKept == Spec => []Bounded
  BY BoundedStarts, BoundedStep, PTL DEF Spec

LEMMA VisitTyped == Spec => [](SearchTyped /\ LiveTyped)
  <1>1. Init => SearchTyped /\ LiveTyped
    <2>. SUFFICES ASSUME Init PROVE SearchTyped /\ LiveTyped
      OBVIOUS
    <2>1. page = "search" => FetchInit(SearchReads)
      BY DEF Init
    <2>. QED  BY <2>1, SearchTypesStart, LiveTypesStart DEF Init
  <1>2. (SearchTyped /\ LiveTyped) /\ LiveInv /\ LiveInv' /\ [Next]_siteVars
          => (SearchTyped /\ LiveTyped)'
    <2>. SUFFICES ASSUME SearchTyped, LiveTyped, LiveInv, LiveInv',
                         [Next]_siteVars
                  PROVE  SearchTyped' /\ LiveTyped'
      OBVIOUS
    <2>1. page' = page
      BY PageStays
    <2>2. [LiveNext]_liveVars
      BY DEF Next, siteVars, BesideRadar, BesidePanel, BesideGraph,
             BesideComments, BesideGuide, BesideScene, BesideViewer,
             BesideTable, BesideMaps, BesidePush, BesideConsent, BesideSearch
    <2>3. CASE page = "search"
      <3>1. [SearchNext]_<<browserVars, fetchVars, searchVars>>
        BY <2>3 DEF Next, siteVars
      <3>. QED  BY <2>1, <2>2, <2>3, <3>1, LiveTypesStep, SearchTypesStep
    <2>4. CASE page # "search"
      <3>1. UNCHANGED searchVars
        BY <2>4 DEF Next, siteVars, BesideRadar, BesidePanel, BesideGraph,
                    BesideComments, BesideGuide, BesideScene, BesideViewer,
                    BesideTable, BesideMaps, BesidePush, BesideConsent,
                    BesideLive
      <3>2. SearchTyped'
        BY <2>1, <2>4, <3>1 DEF searchVars, SearchTyped, SearchShape,
                                SearchTypeOK
      <3>. QED  BY <2>2, <3>2, LiveTypesStep
    <2>. QED  BY <2>3, <2>4
  <1>. QED  BY <1>1, <1>2, VisitKept, PTL DEF Spec

LEMMA ViewerTyped == Spec => [](SceneTyped /\ TunedTyped)
  <1>1. Init => SceneTyped /\ TunedTyped
    <2>. SUFFICES ASSUME Init PROVE SceneTyped /\ TunedTyped
      OBVIOUS
    <2>1. PICK bad \in Among("model", SUBSET Objects, {}) : SceneInit(bad)
      BY DEF Init
    <2>2. bad \in SUBSET Objects
      BY DEF Among
    <2>. QED  BY <2>1, <2>2, SceneTypesStart, TunedStarts DEF Init
  <1>2. (SceneTyped /\ TunedTyped) /\ (SceneInv /\ ControlsInv)
            /\ [Next]_siteVars
          => (SceneTyped /\ TunedTyped)'
    <2>. SUFFICES ASSUME SceneTyped, TunedTyped, SceneInv, ControlsInv,
                         [Next]_siteVars
                  PROVE  SceneTyped' /\ TunedTyped'
      OBVIOUS
    <2>1. [SceneNext]_sceneVars
      BY DEF Next, siteVars, BesideRadar, BesidePanel, BesideGraph,
             BesideComments, BesideGuide, BesideViewer, BesideTable,
             BesideMaps, BesidePush, BesideConsent, BesideLive, BesideSearch
    <2>2. [ViewerNext]_viewerVars
      BY DEF Next, siteVars, BesideRadar, BesidePanel, BesideGraph,
             BesideComments, BesideGuide, BesideScene, BesideTable,
             BesideMaps, BesidePush, BesideConsent, BesideLive, BesideSearch
    <2>. QED  BY <2>1, <2>2, SceneTypesStep, TunedStep
  <1>. QED  BY <1>1, <1>2, ViewerKept, PTL DEF Spec

LEMMA AdminTyped == Spec => [](TableTyped /\ MapsTyped)
  <1>1. Init => TableTyped /\ MapsTyped
    <2>. SUFFICES ASSUME Init PROVE TableTyped /\ MapsTyped
      OBVIOUS
    <2>1. PICK w, b : FetchInit(CASE page = "maps" -> MapsReads
                                  [] page = "push" -> PushReads(w, b[2])
                                  [] page = "consent" -> ConsentReads
                                  [] page = "search" -> SearchReads
                                  [] OTHER         -> {})
      BY DEF Init
    <2>2. page = "maps" => FetchInit(MapsReads)
      BY <2>1
    <2>3. page = "table" => FetchInit({})
      BY <2>1
    <2>4. MapsTyped
      BY <2>2, MapsTypesStart DEF Init
    <2>5. PICK p \in Among("table", AdminPages, BansPage) :
            TableInit(p, CHOOSE f \in TableFilters : TRUE)
      BY DEF Init
    <2>6. p \in AdminPages
      BY DEF Among, AdminPages
    <2>7. (CHOOSE f \in TableFilters : TRUE) \in TableFilters
      BY AdminTableAssumption
    <2>8. page \in SitePages /\ clicks = 0
      BY DEF Init, BrowserInit
    <2>9. page = "table" => calls = {} /\ clicks = 0
      BY <2>3, <2>8 DEF FetchInit
    <2>10. TableTyped
      BY <2>5, <2>6, <2>7, <2>8, <2>9, TableTypesStart
    <2>. QED  BY <2>4, <2>10
  <1>2. (TableTyped /\ MapsTyped) /\ Bounded /\ (TableInv /\ MapsInv)
            /\ (TableInv /\ MapsInv)' /\ [Next]_siteVars
          => (TableTyped /\ MapsTyped)'
    <2>. SUFFICES ASSUME TableTyped, MapsTyped, Bounded, TableInv, MapsInv,
                         MapsInv', [Next]_siteVars
                  PROVE  TableTyped' /\ MapsTyped'
      OBVIOUS
    <2>1. page' = page /\ page \in SitePages
      BY PageStays DEF Bounded
    <2>2. TableTyped'
      <3>1. CASE page = "table"
        <4>1. [TableNext]_<<browserVars, fetchVars, tableVars>>
          BY <3>1 DEF Next, siteVars
        <4>. QED  BY <2>1, <3>1, <4>1, TableTypesStep
      <3>2. CASE page # "table"
        <4>1. UNCHANGED tableVars
          BY <3>2 DEF Next, siteVars, BesideRadar, BesidePanel, BesideGraph,
                      BesideComments, BesideGuide, BesideScene, BesideViewer,
                      BesideMaps, BesidePush, BesideConsent, BesideLive,
                      BesideSearch
        <4>. QED  BY <2>1, <3>2, <4>1
                  DEF tableVars, TableTyped, TableTypes, DialogTyped
      <3>. QED  BY <3>1, <3>2
    <2>3. MapsTyped'
      <3>1. CASE page = "maps"
        <4>1. [MapsNext]_<<browserVars, fetchVars, mapsVars>>
          BY <3>1 DEF Next, siteVars
        <4>. QED  BY <2>1, <3>1, <4>1, MapsTypesStep
      <3>2. CASE page # "maps"
        <4>1. UNCHANGED mapsVars
          BY <3>2 DEF Next, siteVars, BesideRadar, BesidePanel, BesideGraph,
                      BesideComments, BesideGuide, BesideScene, BesideViewer,
                      BesideTable, BesidePush, BesideConsent, BesideLive,
                      BesideSearch
        <4>. QED  BY <2>1, <3>2, <4>1
                  DEF mapsVars, MapsTyped, BoardOfMaps, DialogOfMap
      <3>. QED  BY <3>1, <3>2
    <2>. QED  BY <2>2, <2>3
  <1>. QED  BY <1>1, <1>2, BoundedKept, AdminKept, PTL DEF Spec

LEMMA AccountTyped == Spec => [](ConsentTyped /\ PushTyped)
  <1>1. Init => ConsentTyped /\ PushTyped
    <2>. SUFFICES ASSUME Init PROVE ConsentTyped /\ PushTyped
      OBVIOUS
    <2>1. PICK w \in Among("push", Widgets \ {"banner"}, "match"),
               b \in Among("push", Browsers, <<"default", None, {}>>) :
            /\ PushInit(w, b)
            /\ FetchInit(CASE page = "maps" -> MapsReads
                           [] page = "push" -> PushReads(w, b[2])
                           [] page = "consent" -> ConsentReads
                           [] page = "search" -> SearchReads
                           [] OTHER         -> {})
      BY DEF Init
    <2>2. page = "push" => FetchInit(PushReads(w, b[2]))
      BY <2>1
    <2>3. page = "consent" => FetchInit(ConsentReads)
      BY <2>1
    <2>4. w \in Widgets \ {"banner"}
      BY DEF Among, Widgets
    <2>5. b \in Browsers
      BY DEF Among, Browsers
    <2>6. PushTyped
      BY <2>1, <2>2, <2>4, <2>5, PushTypesStart
    <2>7. PICK set \in Among("consent", Settings \cup {None}, None) :
            ConsentInit(set)
      BY DEF Init
    <2>8. set \in Settings \cup {None}
      BY DEF Among
    <2>9. ConsentTyped
      BY <2>3, <2>7, <2>8, ConsentTypesStart
    <2>. QED  BY <2>6, <2>9
  <1>2. (ConsentTyped /\ PushTyped) /\ (ConsentInv /\ PushInv)
            /\ (ConsentInv /\ PushInv)' /\ [Next]_siteVars
          => (ConsentTyped /\ PushTyped)'
    <2>. SUFFICES ASSUME ConsentTyped, PushTyped, PushInv, PushInv',
                         [Next]_siteVars
                  PROVE  ConsentTyped' /\ PushTyped'
      OBVIOUS
    <2>1. page' = page
      BY PageStays
    <2>2. ConsentTyped'
      <3>1. CASE page = "consent"
        <4>1. [ConsentNext]_<<browserVars, fetchVars, consentVars>>
          BY <3>1 DEF Next, siteVars
        <4>. QED  BY <2>1, <3>1, <4>1, ConsentTypesStep
      <3>2. CASE page # "consent"
        <4>1. UNCHANGED consentVars
          BY <3>2 DEF Next, siteVars, BesideRadar, BesidePanel, BesideGraph,
                      BesideComments, BesideGuide, BesideScene, BesideViewer,
                      BesideTable, BesideMaps, BesidePush, BesideLive,
                      BesideSearch
        <4>. QED  BY <2>1, <3>2, <4>1
                  DEF consentVars, ConsentTyped, ConsentTypeOK
      <3>. QED  BY <3>1, <3>2
    <2>3. PushTyped'
      <3>1. CASE page = "push"
        <4>1. [PushNext]_<<browserVars, fetchVars, pushVars>>
          BY <3>1 DEF Next, siteVars
        <4>. QED  BY <2>1, <3>1, <4>1, PushTypesStep
      <3>2. CASE page # "push"
        <4>1. UNCHANGED pushVars
          BY <3>2 DEF Next, siteVars, BesideRadar, BesidePanel, BesideGraph,
                      BesideComments, BesideGuide, BesideScene, BesideViewer,
                      BesideTable, BesideMaps, BesideConsent, BesideLive,
                      BesideSearch
        <4>. QED  BY <2>1, <3>2, <4>1
                  DEF pushVars, PushTyped, PushTypeOK, Hooked
      <3>. QED  BY <3>1, <3>2
    <2>. QED  BY <2>2, <2>3
  <1>. QED  BY <1>1, <1>2, AccountKept, PTL DEF Spec

(* In every tab of the site, whatever page it shows and however often its  *)
(* requests fail, are repeated or arrive out of order, every page keeps    *)
(* the state it declares: what is selected is one of the choices there     *)
(* are, what waits is bounded, and a table never counts more changes than  *)
(* its requests had chances to make.                                       *)
THEOREM SiteTyping == Spec => []SiteTypeOK
  <1>1. RadarInv /\ PanelInv /\ GraphInv
          => RadarTypeOK /\ PanelTypeOK /\ GraphTypeOK
    BY DEF RadarInv, PanelInv, GraphInv, GraphTypes, GraphTypeOK, Sources,
           Ticks
  <1>2. CommentsInv /\ GuideInv => CommentsTypeOK /\ GuideTypeOK
    BY DEF CommentsInv, CommentsTyped, GuideInv, GuideTyped
  <1>3. SceneInv /\ ControlsInv /\ SceneTyped /\ TunedTyped
          => SceneTypeOK /\ ViewerTypeOK
    BY SceneIsTyped, ViewerIsTyped
  <1>4. Bounded /\ TableTyped /\ MapsTyped => TableTypeOK /\ MapsTypeOK
    BY TableIsTyped, MapsAreTyped
  <1>5. ConsentTyped /\ PushTyped => ConsentTypeOK /\ PushTypeOK
    BY DEF ConsentTyped, PushTyped
  <1>6. SearchTyped /\ LiveTyped => SearchTypeOK /\ LiveTypeOK
    BY DEF SearchTyped, LiveTyped
  <1>7. /\ Bounded
        /\ RadarTypeOK /\ PanelTypeOK /\ GraphTypeOK /\ CommentsTypeOK
        /\ GuideTypeOK /\ SceneTypeOK /\ ViewerTypeOK /\ TableTypeOK
        /\ MapsTypeOK /\ PushTypeOK /\ ConsentTypeOK /\ LiveTypeOK
        /\ SearchTypeOK
        => SiteTypeOK
    BY DEF Bounded, SiteTypeOK
  <1>. QED  BY <1>1, <1>2, <1>3, <1>4, <1>5, <1>6, <1>7, BoundedKept,
               RadarKept, PanelKept, GraphKept, CommentsKept, GuideKept,
               ViewerKept, ViewerTyped, AdminTyped, AccountTyped, VisitTyped,
               PTL
=============================================================================

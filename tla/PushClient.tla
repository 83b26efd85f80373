----------------------------- MODULE PushClient -----------------------------
(***************************************************************************)
(* Notifications in the browser of somebody who is logged in.  The banner  *)
(* of the layout and a widget of the page (the settings, the match that is *)
(* played, or the bell of a map) each have a usePushNotifications of their *)
(* own over the one subscription of the browser, which the API stores, as  *)
(* it stores the alerts asked for with it.  Deliveries are in MapNotify.   *)
(***************************************************************************)
EXTENDS SiteFetch

CONSTANT Endpoints    \* endpoints the browser may get, one after another

ASSUME PushAssumption == /\ IsFiniteSet(Endpoints) /\ Endpoints \subseteq Nat
                         /\ None \notin Endpoints
                         /\ None \notin {"asked", "sent", "found"}
                         /\ None \notin {"change", "server", "all"}

VARIABLES widget,     \* what the page has besides the banner
          device,     \* permission, endpoint and endpoints used so far
          stored,     \* endpoints, alerts and the preference of the account
          hook,       \* usePushNotifications of the banner and the widget
          button,     \* alert shown and listed, loading, preference, saving
          dismissed,  \* the banner
          doneBy,     \* history: who changed the browser's subscription
          astray      \* history: requests that failed or overlapped

pushVars == <<widget, device, stored, hook, button, dismissed, doneBy, astray>>

Widgets == {"banner", "settings", "match", "bell"}
Kinds == {"change", "server", "all"}
KindsOf(w) == CASE w = "match" -> {"change"}
                [] w = "bell"  -> {"server", "all"}
                [] OTHER       -> {}
Hooked == {"banner", widget}

(* The next endpoint the browser gets, one more each time. *)
NextEndpoint(used) == {e \in Endpoints \ used : \A d \in Endpoints \ used : e <= d}

(* A browser that was never asked, that is subscribed, or that belonged to *)
(* an account before: the API has no row of this account for it.           *)
Browsers ==
    {<<"default", None, {}>>} \cup {<<"granted", e, r>> :
        e \in NextEndpoint({}), r \in {{}, Endpoints}}

(* What the page asks when it is opened: the hook for its row, the bell    *)
(* for the alerts (useMapNotifications).  The banner is there before, and  *)
(* so are the hooks of a list of maps when something else has it read.     *)
PushReads(w, endpoint) ==
    {Request("list", h, None, endpoint) :
       h \in IF endpoint = None THEN {} ELSE {w} \ {"bell"}}
    \cup {Request("alerts", h, None, 0) : h \in {"bell"} \cap {w}}

Mounted(h, b) ==
    [on |-> h \in {"banner", "bell"} /\ b[2] # None,
     sub |-> IF h \in {"banner", "bell"} /\ b[3] # {} THEN b[2] ELSE None,
     busy |-> None, then |-> None]

(* Beside a match or a bell the banner was dismissed before (a bound). *)
PushInit(w, b) ==
    /\ widget = w
    /\ device = [allowed |-> b[1], endpoint |-> b[2],
                 used |-> {b[2]} \ {None}]
    /\ stored = [rows |-> b[3] \cap {b[2]}, alerts |-> {}, pref |-> "off"]
    /\ hook = [h \in Widgets |-> Mounted(h, b)]
    /\ button = [shows |-> None, listed |-> None, busy |-> FALSE,
                 pref |-> None, saving |-> FALSE]
    /\ dismissed = (w # "settings") /\ doneBy = {} /\ astray = {}

-----------------------------------------------------------------------------
(* What several handlers do. *)
BannerShown == ~dismissed /\ ~hook["banner"].on

Idle(h) == hook[h].busy = None /\ ~(h = widget /\ button.busy)

Sending(ks) == calls' = calls \cup ks /\ UNCHANGED <<lost, doubt>>

(* subscribe: the permission is asked for, and then goes on to an alert.   *)
AsksPermission(h, then) ==
    hook' = [hook EXCEPT ![h].busy = "asked", ![h].then = then]

Stops(h) == [hook EXCEPT ![h].busy = None, ![h].then = None]

(* The reads of an effect: of the preferences once a hook is subscribed,   *)
(* of the alert of the match whenever it has another subscription.         *)
Effects(h, sub) ==
    {Request("prefs", g, None, 0) : g \in {h} \cap {"settings"}
                                           \cap {g \in Widgets : ~hook[g].on}}
    \cup {Request("alerts", g, None, clicks) :
             g \in IF sub = None THEN {} ELSE {h} \cap {"match"}}

-----------------------------------------------------------------------------
(* "Enable" of the settings and of the banner. *)
Enable(h) ==
    /\ h \in {"settings", "banner"} \cap Hooked
    /\ Idle(h) /\ ~hook[h].on /\ (h = "banner" => BannerShown)
    /\ Click
    /\ AsksPermission(h, None)
    /\ UNCHANGED <<widget, device, stored, button, dismissed, doneBy, astray,
                   fetchVars>>

(* "Not now", which the browser remembers. *)
HandleDismiss ==
    /\ BannerShown
    /\ Click
    /\ dismissed' = TRUE
    /\ UNCHANGED <<widget, device, stored, hook, button, doneBy, astray,
                   fetchVars>>

(* "Disable": the browser forgets its subscription, then the API is told;  *)
(* without one there is nothing to tell.                                   *)
Disable ==
    /\ widget = "settings" /\ Idle("settings") /\ hook["settings"].on
    /\ Click
    /\ device' = [device EXCEPT !.endpoint = None]
    /\ doneBy' = doneBy \cup {"settings"}
    /\ IF device.endpoint = None
       THEN /\ hook' = [hook EXCEPT !["settings"].on = FALSE,
                                    !["settings"].sub = None]
            /\ UNCHANGED fetchVars
       ELSE /\ hook' = [hook EXCEPT !["settings"].busy = "sent"]
            /\ Sending({Request("leave", "settings", None,
                                device.endpoint)})
    /\ astray' = astray \cup {"mounting" : k \in {k \in calls :
                                  k.what = "list" /\ k.of = "settings"}}
    /\ UNCHANGED <<widget, stored, button, dismissed>>

(* A switch of the settings; it is one of three that behave alike. *)
UpdatePreference ==
    /\ widget = "settings" /\ hook["settings"].on
    /\ button.pref # None /\ ~button.saving
    /\ Click
    /\ button' = [button EXCEPT !.saving = TRUE]
    /\ Sending({Request("prefer", "settings",
                        IF button.pref = "on" THEN "off" ELSE "on", 0)})
    /\ UNCHANGED <<widget, device, stored, hook, dismissed, doneBy, astray>>

(* An alert: with the subscription of the hook, or after subscribing. *)
HandleSubscribe ==
    /\ Idle(widget) /\ button.shows = None
    /\ Click
    /\ \E kind \in KindsOf(widget) :
         IF hook[widget].sub = None
         THEN AsksPermission(widget, kind) /\ UNCHANGED <<button, fetchVars>>
         ELSE /\ button' = [button EXCEPT !.busy = TRUE]
              /\ Sending({Request("alert", widget, kind, hook[widget].sub)})
              /\ UNCHANGED hook
    /\ UNCHANGED <<widget, device, stored, dismissed, doneBy, astray>>

(* Mutant: what is cancelled is the alert of all servers. *)
HandleUnsubscribeAll ==
    /\ Idle(widget) /\ button.shows # None
    /\ Click
    /\ button' = [button EXCEPT !.busy = TRUE]
    /\ Sending({Request("cancel", widget, "all", 0)})
    /\ UNCHANGED <<widget, device, stored, hook, dismissed, doneBy, astray>>

HandleUnsubscribe ==
    /\ Idle(widget) /\ button.shows # None
    /\ Click
    /\ button' = [button EXCEPT !.busy = TRUE]
    /\ Sending({Request("cancel", widget, button.shows, 0)})
    /\ UNCHANGED <<widget, device, stored, hook, dismissed, doneBy, astray>>

(* The person answers the browser, or has answered it before. *)
RequestPermission(h) ==
    /\ hook[h].busy = "asked"
    /\ \/ Click /\ device.allowed = "default"
          /\ \E p \in {"default", "granted", "denied"} :
               device' = [device EXCEPT !.allowed = p]
       \/ Alone /\ device.allowed # "default" /\ UNCHANGED device
    /\ hook' = IF device'.allowed = "granted"
               THEN [hook EXCEPT ![h].busy = "sent"] ELSE Stops(h)
    /\ UNCHANGED <<widget, stored, button, dismissed, doneBy, astray,
                   fetchVars>>

(* The key came, and the browser subscribes, or has a subscription: the    *)
(* API is told.  Or the key did not come.                                  *)
Subscribe(h) ==
    /\ hook[h].busy = "sent"
    /\ ~\E k \in calls : k.of = h /\ k.what \in {"post", "leave"}
    /\ Alone
    /\ \/ \E e \in IF device.endpoint = None
                   THEN NextEndpoint(device.used) ELSE {device.endpoint} :
            /\ device' = [device EXCEPT !.endpoint = e, !.used = @ \cup {e}]
            /\ Sending({Request("post", h, hook[h].then, e)})
            /\ doneBy' = doneBy \cup {h}
            /\ UNCHANGED hook
       \/ hook' = Stops(h) /\ UNCHANGED <<device, doneBy, fetchVars>>
    /\ UNCHANGED <<widget, stored, button, dismissed, astray>>

(* The browser's subscription ends, and the push service that meets its    *)
(* endpoint deletes the row, with the alerts of it (while the page rests). *)
RemoveSubscription ==
    /\ device.endpoint \in stored.rows /\ calls = {}
    /\ Click
    /\ device' = [device EXCEPT !.endpoint = None]
    /\ stored' = [stored EXCEPT !.rows = @ \ {device.endpoint},
                    !.alerts = {a \in @ : a.of # device.endpoint}]
    /\ astray' = astray \cup {"gone"}
    /\ UNCHANGED <<widget, hook, button, dismissed, doneBy, fetchVars>>

-----------------------------------------------------------------------------
(* The API. *)
StoredWhen(k) ==
    CASE k.what = "post"   -> [stored EXCEPT !.rows = @ \cup {k.saw}]
      [] k.what = "leave"  ->
           [stored EXCEPT !.rows = @ \ {k.saw},
                          !.alerts = {a \in @ : a.of # k.saw}]
      [] k.what = "alert"  ->
           [stored EXCEPT !.alerts = @ \cup {[kind |-> k.arg, of |-> k.saw]}]
      [] k.what = "cancel" ->
           [stored EXCEPT !.alerts = {a \in @ : a.kind # k.arg}]
      [] k.what = "prefer" ->
           [stored EXCEPT !.pref = IF k.of = "bell" THEN "on" ELSE k.arg]
      [] OTHER             -> stored

(* The alert of the list that a button shows: the server's before the one  *)
(* of all servers (getSubscriptionType).                                   *)
Preferred(alerts) ==
    LET kinds == {a.kind : a \in alerts} \cap KindsOf(widget)
    IN  CASE "server" \in kinds -> "server"
          [] kinds = {"all"}    -> "all"
          [] kinds = {"change"} -> "change"
          [] OTHER              -> None

Got(k) ==
    CASE k.what = "list"   -> IF k.saw \in stored.rows THEN "found" ELSE None
      [] k.what = "alerts" -> Preferred(stored.alerts)
      [] k.what \in {"prefs", "prefer"} -> StoredWhen(k).pref
      [] OTHER             -> None

(* Answers on their way that a change makes old. *)
Outdated(k) ==
    {a.what : a \in {a \in calls : a.state = "ok"}} \cap
      CASE k.what \in {"alert", "cancel", "leave"} -> {"alerts"}
        [] k.what = "prefer"                       -> {"prefs"}
        [] OTHER                                   -> {}

(* An alert needs the row of its subscription. *)
PushServes(k) ==
    /\ k.state = "sent"
    /\ Alone
    /\ IF k.what = "alert" /\ k.saw \notin stored.rows
       THEN Serves(k, "refused", None) /\ UNCHANGED <<stored, astray>>
       ELSE /\ Serves(k, "ok", Got(k))
            /\ stored' = StoredWhen(k)
            /\ astray' = astray \cup Outdated(k)
    /\ UNCHANGED <<widget, device, hook, button, dismissed, doneBy>>

-----------------------------------------------------------------------------
(* The handlers go on: with more requests, next. *)
GoesOn(k, next) ==
    /\ k.state # "sent"
    /\ calls' = (calls \ {k}) \cup next
    /\ astray' = astray \cup (IF k.state = "ok" THEN {} ELSE {k.what})
    /\ UNCHANGED <<widget, stored, lost, doubt>>

(* The hook learns what the browser has when it mounts; it is subscribed   *)
(* also when its row is not there, or could not be asked for.              *)
SubscriptionsAnswered(k) ==
    LET sub == IF k.got = "found" THEN k.saw ELSE None
    IN  /\ k.what = "list"
        /\ GoesOn(k, Effects(k.of, sub))
        /\ hook' = [hook EXCEPT
                      ![k.of].on = TRUE,
                      ![k.of].sub = IF k.state = "ok" THEN sub ELSE @]
        /\ UNCHANGED <<device, button, dismissed, doneBy>>

(* Subscribed: the banner is dismissed, the alert is asked for. *)
RowAnswered(k) ==
    /\ k.what = "post"
    /\ IF k.state = "ok"
       THEN /\ hook' = [Stops(k.of) EXCEPT ![k.of].on = TRUE,
                                           ![k.of].sub = k.saw]
            /\ GoesOn(k, Effects(k.of, k.saw) \cup
                           {Request("alert", k.of, kind, k.saw) :
                              kind \in {k.arg} \ {None}})
            /\ button' = [button EXCEPT !.busy = @ \/ k.arg # None]
            /\ dismissed' = (dismissed \/ k.of = "banner")
       ELSE /\ hook' = Stops(k.of)
            /\ GoesOn(k, {})
            /\ UNCHANGED <<button, dismissed>>
    /\ UNCHANGED <<device, doneBy>>

(* Mutant: the row of the subscription that is gone is kept. *)
LeaveAnsweredKeeps(k) ==
    /\ k.what = "leave"
    /\ GoesOn(k, {})
    /\ hook' = IF k.state = "ok" THEN [Stops(k.of) EXCEPT ![k.of].on = FALSE]
                                 ELSE Stops(k.of)
    /\ UNCHANGED <<device, button, dismissed, doneBy>>

LeaveAnswered(k) ==
    /\ k.what = "leave"
    /\ GoesOn(k, {})
    /\ hook' = IF k.state = "ok"
               THEN [Stops(k.of) EXCEPT ![k.of].on = FALSE, ![k.of].sub = None]
               ELSE Stops(k.of)
    /\ UNCHANGED <<device, button, dismissed, doneBy>>

(* The bell switches the preference on before it shows the alert. *)
AlertAnswered(k) ==
    /\ k.what = "alert"
    /\ IF k.state = "ok" /\ k.of = "bell"
       THEN /\ GoesOn(k, {Request("prefer", "bell", k.arg, 0)})
            /\ UNCHANGED button
       ELSE /\ GoesOn(k, {})
            /\ button' = [button EXCEPT !.busy = FALSE,
                             !.shows = IF k.state = "ok" THEN k.arg ELSE @]
    /\ UNCHANGED <<device, hook, dismissed, doneBy>>

(* The bell shows its alert whether that succeeded or not, and has the     *)
(* list read again.                                                        *)
Refresh == {Request("alerts", g, None, clicks) : g \in {"bell"} \cap {widget}}

PreferAnswered(k) ==
    /\ k.what = "prefer"
    /\ GoesOn(k, Refresh)
    /\ button' = IF k.of = "bell"
                 THEN [button EXCEPT !.busy = FALSE, !.shows = k.arg]
                 ELSE [button EXCEPT !.saving = FALSE,
                         !.pref = IF k.state = "ok" THEN k.got ELSE @]
    /\ UNCHANGED <<device, hook, dismissed, doneBy>>

CancelAnswered(k) ==
    /\ k.what = "cancel"
    /\ GoesOn(k, IF k.state = "ok" THEN Refresh ELSE {})
    /\ button' = [button EXCEPT !.busy = FALSE,
                     !.shows = IF k.state = "ok" THEN None ELSE @]
    /\ UNCHANGED <<device, hook, dismissed, doneBy>>

(* The bell follows the list when it lists something else than before; a   *)
(* list that could not be read is empty.                                   *)
AlertsAnswered(k) ==
    /\ k.what = "alerts"
    /\ GoesOn(k, {})
    /\ button' = IF k.of = "bell"
                 THEN [button EXCEPT !.listed = k.got,
                         !.shows = IF k.got # button.listed THEN k.got ELSE @]
                 ELSE [button EXCEPT
                         !.shows = IF k.state = "ok" THEN k.got ELSE @]
    /\ UNCHANGED <<device, hook, dismissed, doneBy>>

PrefsAnswered(k) ==
    /\ k.what = "prefs"
    /\ GoesOn(k, {})
    /\ button' = [button EXCEPT !.pref = IF k.state = "ok" THEN k.got ELSE @]
    /\ UNCHANGED <<device, hook, dismissed, doneBy>>

PushAnswered(k) ==
    /\ Alone
    /\ \/ SubscriptionsAnswered(k) \/ RowAnswered(k)
       \/ LeaveAnswered(k) \/ AlertAnswered(k) \/ PreferAnswered(k)
       \/ CancelAnswered(k) \/ AlertsAnswered(k) \/ PrefsAnswered(k)

PushNext ==
    \/ HandleDismiss \/ Disable \/ UpdatePreference
    \/ HandleSubscribe \/ HandleUnsubscribe \/ RemoveSubscription
    \/ \E h \in Hooked : Enable(h) \/ RequestPermission(h) \/ Subscribe(h)
    \/ \E k \in calls : \/ PushServes(k) \/ PushAnswered(k)
                         \/ (Troubles(k) /\ UNCHANGED pushVars)

(* The browser gets the key, the API serves, and its answers come. *)
PushAnswers ==
    \/ \E h \in Hooked : Subscribe(h)
    \/ \E k \in calls : PushServes(k) \/ PushAnswered(k)

(* While something is sent; the browser's prompt may stay for ever. *)
PushWaits ==
    \/ \E h \in Hooked : hook[h].busy = "sent"
    \/ button.busy \/ button.saving

-----------------------------------------------------------------------------
PushTypeOK ==
    /\ widget \in Widgets \ {"banner"}
    /\ device.allowed \in {"default", "granted", "denied"}
    /\ device.endpoint \in device.used \cup {None}
    /\ device.used \subseteq Endpoints
    /\ stored.rows \subseteq Endpoints
    /\ stored.alerts \subseteq [kind : Kinds, of : stored.rows]
    /\ stored.pref \in {"on", "off"}
    /\ \A h \in Widgets : /\ hook[h].on \in BOOLEAN
                          /\ hook[h].sub \in Endpoints \cup {None}
                          /\ hook[h].busy \in {"asked", "sent", None}
                          /\ hook[h].then \in Kinds \cup {None}
    /\ {button.shows, button.listed} \subseteq Kinds \cup {None}
    /\ button.pref \in {"on", "off", None}
    /\ button.busy \in BOOLEAN /\ button.saving \in BOOLEAN
    /\ dismissed \in BOOLEAN /\ doneBy \subseteq Hooked

(* A hook says it is subscribed exactly when the browser is, and the row   *)
(* it would ask alerts with is the browser's and is stored; unless another *)
(* hook of the page changed that, or the API did not answer a change: then *)
(* they stay apart, also after trying again.                               *)
HookIsBrowser ==
    \A h \in Hooked :
        hook[h].busy = None /\ doneBy \subseteq {h}
          /\ astray \cap {"post", "leave", "mounting", "gone"} = {}
          /\ (\A k \in calls : ~(k.what = "list" /\ k.of = h))
        => /\ hook[h].on = (device.endpoint # None)
           /\ hook[h].sub \in {None, device.endpoint}
           /\ hook[h].sub # None => hook[h].sub \in stored.rows

(* Once everything is answered, the button of a map or of a match shows    *)
(* the alert that is stored, unless a request failed or an answer of       *)
(* before a change came after it.                                          *)
AlertShownIsStored ==
    calls = {} /\ astray \cap {"alert", "cancel", "alerts", "gone"} = {}
      /\ (widget = "match" => hook[widget].sub # None)
    => button.shows = Preferred(stored.alerts)

(* The settings show the preference that is stored. *)
PreferenceShownIsStored ==
    calls = {} /\ astray \cap {"prefer", "prefs"} = {} /\ button.pref # None
    => button.pref = stored.pref

(***************************************************************************)
(* What is shown of notifications is what the browser has and the API      *)
(* stores, across the permission, the key, the subscription, its row, the  *)
(* alert and the list of alerts, which are asked for one after another.    *)
(***************************************************************************)
PushInStep ==
    page = "push" =>
        HookIsBrowser /\ AlertShownIsStored /\ PreferenceShownIsStored
=============================================================================

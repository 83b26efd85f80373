------------------------------ MODULE Consent ------------------------------
(***************************************************************************)
(* What a player lets a community show of them: two switches that are sent *)
(* together (UserCommunityConnections).  They are read once.  A click is   *)
(* written into the map the cards are drawn from, in place: to React       *)
(* nothing has changed, so that a card shows its old switches until the    *)
(* answer, or until something else draws the cards again.                  *)
(***************************************************************************)
EXTENDS SiteFetch

VARIABLES setting,   \* as the API stores it
          kept,      \* the card's entry of the map; None: it has none
          switches,  \* as the card was drawn last
          settling,  \* isLoading
          meant,     \* history: what the person has switched on
          swapped,   \* history: two changes were served or answered in turn
          early,     \* history: a switch was used before the answer to a
                     \* change, on a card that shows neither
          strayed    \* history: the API never told what the card shows

consentVars == <<setting, kept, switches, settling, meant, swapped, early,
                 strayed>>

Settings == [anonymized : BOOLEAN, hide_location : BOOLEAN]

ASSUME ConsentAssumption == None \notin Settings

(* A switch without a setting is off. *)
SwitchedAs(s) == IF s = None THEN [anonymized |-> FALSE, hide_location |-> FALSE]
                             ELSE s

ConsentInit(stored) ==
    /\ setting = stored /\ meant = SwitchedAs(stored)
    /\ kept = None /\ switches = None /\ settling = TRUE
    /\ swapped = FALSE /\ early = FALSE /\ strayed = FALSE

ConsentReads == {Request("settings", None, None, 0)}

-----------------------------------------------------------------------------
(* Mutant: "Hide Radar Location" does not send the other switch. *)
BodyWithout(type, value, shown) ==
    IF type = "location"
    THEN [anonymized |-> FALSE, hide_location |-> value]
    ELSE [anonymized |-> value, hide_location |-> value \/ shown.hide_location]

(* Who becomes anonymous hides the location too. *)
Body(type, value, shown) ==
    IF type = "location"
    THEN [shown EXCEPT !.hide_location = value]
    ELSE [anonymized |-> value, hide_location |-> value \/ shown.hide_location]

(* A changed switch is sent with the other one as the card shows it, and   *)
(* the map that the next drawing reads gets both.                          *)
HandleToggleAnonymize ==
    /\ ~settling
    /\ Click
    /\ \E type \in {"location", "anonymous"} :
         LET shown == SwitchedAs(switches)
             value == IF type = "location" THEN ~shown.hide_location
                                           ELSE ~shown.anonymized
             body == Body(type, value, shown)
         IN  /\ Send(Request("anonymize", None, body, clicks'))
             /\ kept' = body
             /\ meant' = IF type = "location"
                         THEN [meant EXCEPT !.hide_location = value]
                         ELSE [anonymized |-> value,
                               hide_location |-> value \/ meant.hide_location]
    /\ early' = (early \/ calls # {})
    /\ UNCHANGED <<setting, switches, settling, swapped, strayed>>

(* Another card's answer, or the page around the cards, draws them all. *)
RenderAgain ==
    /\ Alone
    /\ kept # switches
    /\ switches' = kept /\ strayed' = TRUE
    /\ UNCHANGED <<fetchVars, setting, kept, settling, meant, swapped, early>>

(* Another change that was sent before this one is behind it. *)
Overtakes(k) == \E j \in calls : /\ j.what = "anonymize" /\ j.saw < k.saw
                                 /\ j.state = "sent" \/ k.state # "sent"

ConsentServes(k) ==
    /\ k.state = "sent"
    /\ Alone
    /\ setting' = IF k.what = "anonymize" THEN k.arg ELSE setting
    /\ Serves(k, "ok", setting')
    /\ swapped' = (swapped \/ Overtakes(k))
    /\ UNCHANGED <<kept, switches, settling, meant, early, strayed>>

(* Mutant: a refusal draws the map again, with the change in it. *)
AnsweredWithChange(k) ==
    /\ Settles(k)
    /\ Alone
    /\ kept' = IF k.state = "ok" THEN k.got ELSE kept
    /\ switches' = kept'
    /\ strayed' = (k.state # "ok" /\ (strayed \/ k.what = "settings"))
    /\ settling' = (settling /\ k.what # "settings")
    /\ swapped' = (swapped \/ Overtakes(k))
    /\ UNCHANGED <<setting, meant, early>>

(* A new map is drawn; after a refusal the old one stays as it is. *)
ConsentAnswered(k) ==
    /\ Settles(k)
    /\ Alone
    /\ IF k.state = "ok"
       THEN kept' = k.got /\ switches' = k.got /\ strayed' = FALSE
       ELSE /\ strayed' = (strayed \/ k.what = "settings")
            /\ UNCHANGED <<kept, switches>>
    /\ settling' = (settling /\ k.what # "settings")
    /\ swapped' = (swapped \/ Overtakes(k))
    /\ UNCHANGED <<setting, meant, early>>

ConsentNext ==
    \/ HandleToggleAnonymize
    \/ RenderAgain
    \/ \E k \in calls : \/ ConsentServes(k) \/ ConsentAnswered(k)
                        \/ (Troubles(k) /\ UNCHANGED consentVars)

(* The API serves, and its answers come. *)
ConsentAnswers == \E k \in calls : ConsentServes(k) \/ ConsentAnswered(k)

ConsentWaits == settling

-----------------------------------------------------------------------------
ConsentTypeOK ==
    /\ {setting, kept, switches} \subseteq Settings \cup {None}
    /\ meant \in Settings
    /\ {settling, swapped, early, strayed} \subseteq BOOLEAN

(***************************************************************************)
(* Once everything is answered, the card shows what the API keeps, however *)
(* early the switches were used and whichever changes it refused.  Unless  *)
(* an answer was lost, two changes came to the API or back in turn, or     *)
(* what the card shows was never told by the API: the settings could not   *)
(* be read, or the cards were drawn again before an answer.                *)
(***************************************************************************)
ShowsWhatIsKept ==
    ~strayed /\ doubt = {} => SwitchedAs(switches) = SwitchedAs(setting)

(***************************************************************************)
(* And what the API keeps is what the person has switched: neither switch  *)
(* changes what the other is set to.  This needs each switch to be used    *)
(* after the answer to the last change: before it the card shows the old   *)
(* switches, and the old one is sent along and undoes the change.          *)
(***************************************************************************)
KeepsWhatWasMeant == lost = 0 /\ ~early => SwitchedAs(setting) = meant

ConsentInStep == page = "consent" /\ calls = {} /\ ~swapped
                    => ShowsWhatIsKept /\ KeepsWhatWasMeant
=============================================================================

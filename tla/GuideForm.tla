----------------------------- MODULE GuideForm -----------------------------
(***************************************************************************)
(* Writing a guide (GuideEditor), reading it (GuideDetail), and what the   *)
(* page is told of the server it belongs to (GuideContextProvider).  A     *)
(* guide belongs to a server or to none; resolveGuideLink turns the server *)
(* and the rest of an address into a link, and only links with the slash   *)
(* between "maps" and the map have a route.  The router shows another page *)
(* some time after it was asked to: until then the old one can be used.    *)
(***************************************************************************)
EXTENDS SiteFetch

CONSTANTS Home,      \* the server whose pages are visited
          Elsewhere, \* another server, which the form can choose
          GuideIds   \* guides that will be created, and one that is there

Servers == {Home, Elsewhere}
Old == CHOOSE g \in GuideIds : TRUE

(* Places with a form; and all of them. *)
Forms == {"new", "edit"}
Places == [what : Forms \cup {"detail", "list"}, guide : GuideIds,
          server : Servers \cup {None}]

ASSUME GuidesAssumption == /\ Home # Elsewhere /\ None \notin Servers
                           /\ "absent" \notin Servers \cup {None}
                           /\ None \notin {"server"} \cup Places
                           /\ IsFiniteSet(GuideIds) /\ GuideIds # {}

VARIABLES at,       \* the page: what it is, of which guide, of a server?
          goto,     \* the page the router was asked for; None
          form,     \* the fields of GuideEditor
          guides,   \* [guide -> server, None, or "absent"], as stored
          told,     \* history: the guide saved last, and what its form said
          again,    \* history: how often a form was sent that was saved
          mixed     \* history: two saves were out together, or the router
                    \* was asked for another page before it showed one

guideVars == <<at, goto, form, guides, told, again, mixed>>

Link(server, slash) == [server |-> server, slash |-> slash]

(* serverId of the context: the page of a guide passes the guide's, the    *)
(* page to edit it the server's, and the page to create one passes none.   *)
ServerId == CASE at.what = "new" -> None
              [] at.what = "edit" -> at.server
              [] OTHER -> guides[at.guide]

NothingTold == [what |-> None, scope |-> None, on |-> None, guide |-> None]

(* What the form shows when it opens; sending is the click that sent it    *)
(* and was not answered.                                                   *)
FormOf(what, g, server) ==
    LET owner == IF what = "edit" THEN guides[g] ELSE None
        of    == IF what = "edit" THEN owner ELSE server
    IN  [scope |-> IF of = None THEN "global" ELSE "server",
         server |-> owner, list |-> FALSE,
         title |-> what = "edit", text |-> what = "edit",
         dialog |-> FALSE, sending |-> 0, saved |-> FALSE]

Page(what, g, server) == [what |-> what, guide |-> g, server |-> server]

GuideInit(owner, what, server) ==
    /\ guides = [g \in GuideIds |-> IF g = Old THEN owner ELSE "absent"]
    /\ at = Page(what, Old, server)
    /\ form = FormOf(what, Old, server)
    /\ goto = None /\ told = NothingTold /\ again = 0 /\ mixed = FALSE

Writing == at.what \in Forms
Set(f) == form' = f /\ UNCHANGED <<at, goto, guides, told, again, mixed,
                                  fetchVars>>

(* router.push, or a link: the last page that was asked for is shown. *)
Push(p) == goto' = p /\ mixed' = (mixed \/ goto \notin {None, p})

Navigated ==
    /\ goto # None
    /\ Alone
    /\ at' = goto /\ goto' = None
    /\ form' = IF goto.what = "edit"
               THEN FormOf("edit", goto.guide, goto.server) ELSE form
    /\ UNCHANGED <<guides, told, again, mixed, fetchVars>>

-----------------------------------------------------------------------------
(* The two buttons of the scope; a form for any server then loads the list *)
(* of servers, once.                                                       *)
SetScope ==
    /\ Writing /\ Click
    /\ \/ Set([form EXCEPT !.scope = "global", !.server = None])
       \/ Set([form EXCEPT !.scope = "server",
                 !.server = IF at.server # None THEN ServerId ELSE @])

LoadServers ==
    /\ Writing /\ form.scope = "server" /\ at.server = None /\ ~form.list
    /\ Alone
    /\ Set([form EXCEPT !.list = TRUE])

PickServer ==
    /\ Writing /\ form.scope = "server" /\ form.list
    /\ Click
    /\ \E s \in Servers \ {form.server} : Set([form EXCEPT !.server = s])

(* Typed long enough, or cut too short. *)
Write ==
    /\ Writing /\ ~form.dialog /\ Click
    /\ \/ Set([form EXCEPT !.title = ~@])
       \/ Set([form EXCEPT !.text = ~@])

(* Of a heading, list, link, image, video or code; the dialog is modal. *)
OpenMarkdownDialog == Writing /\ ~form.dialog /\ Click
                      /\ Set([form EXCEPT !.dialog = TRUE])

(* Inserted at the cursor: the text gets longer. *)
HandleDialogSubmit ==
    /\ form.dialog /\ Click
    /\ \E enough \in BOOLEAN :
         Set([form EXCEPT !.dialog = FALSE, !.text = @ \/ enough])

(* Mutant: the server is not required. *)
ValidateAny == form.title /\ form.text

(* No server is required on a server's own page. *)
Validate == /\ form.title /\ form.text
            /\ ~(form.scope = "server" /\ at.server = None
                   /\ form.server = None)

EffectiveServer == IF form.scope = "server" THEN form.server ELSE None

(* Mutant: the button is disabled only once the guide is saved. *)
SubmitEnabled ==
    /\ Writing /\ Validate
    /\ at.what = "new" =>
         Cardinality({g \in GuideIds : guides[g] = "absent"}) >= Tries[page]

(* The buttons are disabled while the form sends. *)
CanSubmit ==
    /\ Writing /\ form.sending = 0 /\ Validate
    /\ at.what = "new" =>
         Cardinality({g \in GuideIds : guides[g] = "absent"}) >= Tries[page]

(* Create asks the endpoint of the scope chosen, edit the one of the page. *)
HandleSubmit ==
    /\ CanSubmit
    /\ Click
    /\ form' = [form EXCEPT !.sending = clicks']
    /\ Send(Request(at.what, at.guide,
                    Link(IF at.what = "new" THEN EffectiveServer
                                            ELSE ServerId, TRUE),
                    [server |-> EffectiveServer, scope |-> form.scope,
                     on |-> at.server, nth |-> clicks']))
    /\ again' = again + (IF at.what = "new" /\ form.saved THEN 1 ELSE 0)
    /\ mixed' = (mixed \/ \E k \in calls : k.what \in Forms)
    /\ UNCHANGED <<at, goto, guides, told>>

(* Back to the guide, or to the list. *)
HandleCancel ==
    /\ Writing /\ form.sending = 0 /\ Click
    /\ Push([at EXCEPT !.what = IF at.what = "edit" THEN "detail" ELSE "list"])
    /\ UNCHANGED <<at, form, guides, told, again, fetchVars>>

(* From the menu of the guide. *)
OpenEditor ==
    /\ at.what = "detail" /\ guides[at.guide] # "absent" /\ Click
    /\ Push([at EXCEPT !.what = "edit"])
    /\ UNCHANGED <<at, form, guides, told, again, fetchVars>>

(* GuideDetail leaves the slash out. *)
Asks(what) ==
    /\ at.what = "detail" /\ Click
    /\ \A k \in calls : k.what # what
    /\ Send(Request(what, at.guide, Link(ServerId, FALSE), None))
    /\ UNCHANGED guideVars

HandleVote   == Asks("vote")
HandleDelete == Asks("delete")
HandleReport == Asks("report")

-----------------------------------------------------------------------------
(* The route handlers and the API behind them: a guide is found by its id, *)
(* whichever server the link names, and a link without a route is a page   *)
(* that is not found, which fetchUrl takes for a failure: the votes, the   *)
(* reports and the deletions of GuideDetail never arrive.                  *)
ServeGuide(k) ==
    /\ k.state = "sent" /\ Alone
    /\ IF ~k.arg.slash
       THEN Serves(k, "refused", None) /\ UNCHANGED guides
       ELSE \E g \in IF k.what = "edit" THEN {k.of}
                     ELSE {h \in GuideIds : guides[h] = "absent"} :
              /\ guides' = [guides EXCEPT ![g] = IF k.what = "edit"
                                                 THEN k.saw.server
                                                 ELSE k.arg.server]
              /\ Serves(k, "ok", g)
    /\ UNCHANGED <<at, goto, form, told, again, mixed>>

(* The end of handleSubmit is in the closure of the form that was sent,    *)
(* also when that form is no longer there.                                 *)
Resumes(k) ==
    form' = IF form.sending = k.saw.nth
            THEN [form EXCEPT !.sending = 0, !.saved = @ \/ k.state = "ok"]
            ELSE form

SavedAs(k) == [what |-> k.what, scope |-> k.saw.scope, on |-> k.saw.on,
               guide |-> k.got]

(* Mutant: the page of the scope of before is opened. *)
SubmittedBefore(k) ==
    /\ k.what \in Forms
    /\ Resumes(k)
    /\ IF k.state = "ok"
       THEN Push(Page("detail", k.got, at.server)) /\ told' = SavedAs(k)
       ELSE UNCHANGED <<goto, told, mixed>>

(* Saved: to the page of the guide. *)
Submitted(k) ==
    /\ k.what \in Forms
    /\ Resumes(k)
    /\ IF k.state = "ok"
       THEN Push(Page("detail", k.got, k.saw.server)) /\ told' = SavedAs(k)
       ELSE UNCHANGED <<goto, told, mixed>>

(* A vote, a report or a deletion that failed: an alert. *)
Told(k) == k.what \notin Forms /\ UNCHANGED <<goto, form, told, mixed>>

GuideAnswered(k) == /\ Alone /\ Settles(k)
                    /\ Submitted(k) \/ Told(k)
                    /\ UNCHANGED <<at, guides, again>>

GuideNext ==
    \/ SetScope \/ LoadServers \/ PickServer \/ Write \/ OpenMarkdownDialog
    \/ HandleDialogSubmit \/ HandleSubmit \/ HandleCancel \/ OpenEditor
    \/ Navigated
    \/ HandleVote \/ HandleDelete \/ HandleReport
    \/ \E k \in calls : \/ ServeGuide(k) \/ GuideAnswered(k)
                        \/ (Troubles(k) /\ UNCHANGED guideVars)

GuideAnswers == \E k \in calls : ServeGuide(k) \/ GuideAnswered(k)

GuideWaits == form.sending # 0

-----------------------------------------------------------------------------
GuideTypeOK ==
    /\ at \in Places /\ goto \in Places \cup {None}
    /\ guides \in [GuideIds -> Servers \cup {None, "absent"}]
    /\ form.scope \in {"global", "server"}
    /\ form.server \in Servers \cup {None}
    /\ \A b \in {form.title, form.text, form.dialog, form.saved, form.list} :
         b \in BOOLEAN
    /\ form.sending \in Nat /\ again \in Nat /\ mixed \in BOOLEAN

Saving == {k \in calls : k.what \in Forms}

(* The page of a guide is under the server the guide is stored for, also   *)
(* the one a form leads to, once no save is out and the page is shown.     *)
LandsOnItsGuide ==
    at.what = "detail" /\ goto = None /\ Saving = {} /\ ~mixed
        => guides[at.guide] \in {at.server, None}

(* A form creates one guide at most: the button is disabled while it       *)
(* sends, though the fields and dialogs are not.  It is enabled again      *)
(* before the page of the guide is shown, and only who sends the same form *)
(* once more then creates another, one each time.                          *)
OneGuidePerForm ==
    Cardinality({g \in GuideIds \ {Old} : guides[g] # "absent"}) <= 1 + again

(* A guide is stored for a server exactly when its form said "server", but *)
(* for one that was created on a server's own page: that page is not told  *)
(* which server it is of, and the guide is stored for none, whatever the   *)
(* form says.                                                              *)
ChosenServerIsKept ==
    told # NothingTold /\ (\A k \in Saving : k.state # "ok") /\ ~mixed
        => (guides[told.guide] # None
              <=> told.scope = "server" /\ ~(told.what = "new"
                                               /\ told.on # None))

(***************************************************************************)
(* A form that is submitted becomes one guide, for the server it says, and *)
(* leads to the page of that guide, also when the guide moves between the  *)
(* servers, when the form is changed while it is sent or sent once more,   *)
(* and when requests fail (unless an answer is lost).  Where a guide is    *)
(* found and stored is not claimed once two saves were out together, or a  *)
(* click turned the router away from a page before it was shown.           *)
(***************************************************************************)
GuideInStep ==
    doubt = {} => LandsOnItsGuide /\ OneGuidePerForm /\ ChosenServerIsKept
=============================================================================

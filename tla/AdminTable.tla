----------------------------- MODULE AdminTable -----------------------------
(***************************************************************************)
(* The tables of the admin pages: they read all their rows again after     *)
(* every change, a row is changed by a button or in a dialog, and nothing  *)
(* aborts a read.  A page is what it does and the dialogs it has:          *)
(*   filters   it lists the rows of a filter, and asks again for another   *)
(*   updates   a button changes a row        removes  a button deletes one *)
(*   unmounts  the spinner takes the place of the page, dialogs included   *)
(* and a dialog is what it does:                                           *)
(*   creates, edits                                                        *)
(*   guarded   its button is disabled while it sends                       *)
(***************************************************************************)
EXTENDS SiteFetch

CONSTANTS TableRows,    \* rows that are there or will be created
          TableFilters  \* statuses, or servers, that can be selected

ASSUME AdminTableAssumption == /\ IsFiniteSet(TableRows) /\ TableRows # {}
                               /\ None \notin TableRows
                               /\ IsFiniteSet(TableFilters)
                               /\ TableFilters # {}

VARIABLES admin,      \* the page
          rows,       \* rows as stored: version, or None if not there
          filter,     \* the filter selected
          listed,     \* filter and rows shown, or None
          refreshing, \* reads of the table, answered by the API or not
          busy,       \* loading
          dialog,     \* open dialog, its row, its form, dialogs sending
          stray       \* history: a read failed, overlapped another, or was
                      \* for a filter that is not selected any more

tableVars == <<admin, rows, filter, listed, refreshing, busy, dialog, stray>>

-----------------------------------------------------------------------------
AnnouncementDialog  == {"creates", "edits", "guarded"}
DonorDialog         == {"creates", "edits", "guarded"}
CommunityDialog     == {"creates", "edits", "guarded"}
ServerBrowserDialog == {"creates", "edits", "guarded"}
EditServerName      == {"edits", "guarded"}
SetCommunity        == {"edits", "guarded"}
BanUserDialog       == {"creates", "edits", "guarded"}
UploadDialog        == {"creates", "edits", "guarded"}
EditingMusic        == {"edits"}

AdminPage(does, dialogs) == [does |-> does, dialogs |-> dialogs]

AnnouncementsPage == AdminPage({"filters", "unmounts", "updates", "removes"},
                               {AnnouncementDialog})
DonorsPage == AdminPage({"unmounts", "removes"}, {DonorDialog})
ServersPage == AdminPage({"unmounts", "removes"},
                         {CommunityDialog, ServerBrowserDialog,
                          EditServerName, SetCommunity})
ServerRequestsPage == AdminPage({"filters", "unmounts", "updates"}, {})
MusicReportsPage == AdminPage({"filters", "unmounts", "updates"},
                              {EditingMusic})
GuideReportsPage == AdminPage({"filters", "unmounts", "updates"},
                              {BanUserDialog})
CommentReportsPage == AdminPage({"filters", "unmounts", "updates"},
                                {BanUserDialog})
BansPage == AdminPage({"unmounts", "updates"}, {BanUserDialog})
CharactersPage == AdminPage({"filters", "updates", "removes"}, {UploadDialog})

AdminPages == {AnnouncementsPage, DonorsPage, ServersPage, ServerRequestsPage,
               MusicReportsPage, GuideReportsPage, CommentReportsPage,
               BansPage, CharactersPage}

Is(what) == what \in admin.does

-----------------------------------------------------------------------------
Closed == [open |-> None, row |-> None, form |-> None, sending |-> {}]

(* One row is yet to be created. *)
NewRow == CHOOSE r \in TableRows : TRUE

TableInit(p, f) ==
    /\ admin = p
    /\ rows = [r \in TableRows |-> IF r = NewRow THEN None ELSE 0]
    /\ filter = f
    /\ listed = None
    /\ refreshing = {[number |-> 1, of |-> f, got |-> None]}
    /\ busy = TRUE
    /\ dialog = Closed
    /\ stray = FALSE

(* Unmounted and mounted again, an open dialog is filled anew and does not *)
(* know that it sends.                                                     *)
Remounted(d) == IF Is("unmounts") /\ ~busy THEN [d EXCEPT !.sending = {},
                                                  !.form = d.row]
                                           ELSE d

(* Mutant: nothing is read again. *)
FetchDataNot(f, d) ==
    /\ dialog' = d
    /\ UNCHANGED <<refreshing, busy, stray>>

(* fetchData of a render whose filter was f. *)
FetchData(f, d) ==
    /\ \E n \in 1..Cardinality(refreshing) + 1 :
         /\ \A r \in refreshing : r.number # n
         /\ \A m \in 1..n - 1 : \E r \in refreshing : r.number = m
         /\ refreshing' = refreshing \cup
                            {[number |-> n, of |-> f, got |-> None]}
    /\ busy' = TRUE
    /\ dialog' = Remounted(d)
    /\ stray' = (stray \/ refreshing # {} \/ f # filter')

(* What the page shows can be clicked. *)
Ready == listed # None /\ ~busy

SelectFilter ==
    /\ Is("filters") /\ dialog.open = None /\ (busy => ~Is("unmounts"))
    /\ Click
    /\ \E f \in TableFilters \ {filter} :
         filter' = f /\ FetchData(f, dialog)
    /\ UNCHANGED <<admin, rows, listed, fetchVars>>

(* Approve, reject, resolve, toggle, unban, or delete after confirm(). *)
ChangeRow ==
    /\ Ready /\ dialog.open = None
    /\ Click
    /\ \E r \in TableRows, what \in {"updates", "removes"} :
         /\ Is(what) /\ listed.rows[r] # None
         /\ Send(Request(what, r, None, filter))
    /\ UNCHANGED tableVars

(* Mutant: the form is not filled again. *)
OpenDialogStale ==
    /\ Ready /\ dialog.open = None
    /\ Click
    /\ \E d \in admin.dialogs, r \in TableRows \cup {None} :
         /\ IF r = None THEN "creates" \in d
            ELSE "edits" \in d /\ listed.rows[r] # None
         /\ dialog' = [dialog EXCEPT !.open = d, !.row = r,
                                     !.form = IF @ = None THEN r ELSE @]
    /\ UNCHANGED <<admin, rows, filter, listed, refreshing, busy, stray,
                   fetchVars>>

(* Filled by the effect on the row and on "open". *)
OpenDialog ==
    /\ Ready /\ dialog.open = None
    /\ Click
    /\ \E d \in admin.dialogs, r \in TableRows \cup {None} :
         /\ IF r = None THEN "creates" \in d
            ELSE "edits" \in d /\ listed.rows[r] # None
         /\ dialog' = [dialog EXCEPT !.open = d, !.row = r, !.form = r]
    /\ UNCHANGED <<admin, rows, filter, listed, refreshing, busy, stray,
                   fetchVars>>

Visible == dialog.open # None /\ (busy => ~Is("unmounts"))

(* Cancel and Escape work while it sends. *)
CloseDialog ==
    /\ Visible
    /\ Click
    /\ dialog' = [dialog EXCEPT !.open = None]
    /\ UNCHANGED <<admin, rows, filter, listed, refreshing, busy, stray,
                   fetchVars>>

(* Mutant: the button is not disabled while it sends. *)
SaveAgain ==
    /\ Visible
    /\ Click
    /\ Send(Request("save", dialog.form, dialog.open, filter))
    /\ dialog' = [dialog EXCEPT !.sending = @ \cup {dialog.open}]
    /\ UNCHANGED <<admin, rows, filter, listed, refreshing, busy, stray>>

(* handleSubmit, once its form is valid. *)
Save ==
    /\ Visible /\ dialog.open \notin dialog.sending
    /\ Click
    /\ Send(Request("save", dialog.form, dialog.open, filter))
    /\ dialog' = IF "guarded" \in dialog.open
                 THEN [dialog EXCEPT !.sending = @ \cup {dialog.open}]
                 ELSE dialog
    /\ UNCHANGED <<admin, rows, filter, listed, refreshing, busy, stray>>

-----------------------------------------------------------------------------
Changed(r) == rows' = [rows EXCEPT ![r] = @ + 1]

ServeRow(k) ==
    /\ k.state = "sent" /\ Alone
    /\ \/ /\ k.of # None /\ rows[k.of] # None
          /\ Serves(k, "ok", None)
          /\ IF k.what = "removes" THEN rows' = [rows EXCEPT ![k.of] = None]
                                   ELSE Changed(k.of)
       \/ /\ k.of = None
          /\ \E r \in TableRows : /\ rows[r] = None
                                  /\ rows' = [rows EXCEPT ![r] = 0]
          /\ Serves(k, "ok", None)
       \/ /\ IF k.of = None THEN \A r \in TableRows : rows[r] # None
                            ELSE rows[k.of] = None
          /\ Serves(k, "refused", None)
          /\ UNCHANGED rows
    /\ UNCHANGED <<admin, filter, listed, refreshing, busy, dialog, stray>>

(* onSuccess(); onOpenChange(false): whatever row the dialog has by then. *)
Saved(k, d) == IF k.what # "save" THEN d
               ELSE [d EXCEPT !.sending = @ \ {k.arg},
                       !.open = IF k.state = "ok" /\ @ = k.arg THEN None
                                                               ELSE @]

RowChanged(k) ==
    /\ Alone
    /\ Settles(k)
    /\ filter' = filter
    /\ IF k.state = "ok" THEN FetchData(k.saw, Saved(k, dialog))
       ELSE dialog' = Saved(k, dialog) /\ UNCHANGED <<refreshing, busy, stray>>
    /\ UNCHANGED <<admin, rows, listed>>

(* The API reads its rows now, and the answer comes later. *)
ServeTable(r) ==
    /\ r.got = None /\ Alone
    /\ refreshing' = (refreshing \ {r}) \cup {[r EXCEPT !.got = rows]}
    /\ UNCHANGED <<admin, rows, filter, listed, busy, dialog, stray, fetchVars>>

TableAnswered(r) ==
    /\ Alone
    /\ refreshing' = refreshing \ {r}
    /\ busy' = FALSE
    /\ \/ /\ r.got # None
          /\ listed' = [of |-> r.of, rows |-> r.got]
          /\ UNCHANGED stray
       \/ /\ r.got = None
          /\ stray' = TRUE
          /\ UNCHANGED listed
    /\ UNCHANGED <<admin, rows, filter, dialog, fetchVars>>

TableNext ==
    \/ SelectFilter \/ ChangeRow \/ OpenDialog \/ CloseDialog \/ Save
    \/ \E k \in calls : \/ ServeRow(k) \/ RowChanged(k)
                        \/ (Troubles(k) /\ UNCHANGED tableVars)
    \/ \E r \in refreshing : ServeTable(r) \/ TableAnswered(r)

TableAnswers == \/ \E k \in calls : ServeRow(k) \/ RowChanged(k)
                \/ \E r \in refreshing : TableAnswered(r)

TableWaits == dialog.sending # {}

-----------------------------------------------------------------------------
TableTypeOK ==
    /\ admin \in AdminPages
    /\ DOMAIN rows = TableRows
    /\ \A r \in TableRows :
         rows[r] = None \/ rows[r] \in 0..MaxClicks[page] * Tries[page]
    /\ filter \in TableFilters
    /\ dialog.open \in admin.dialogs \cup {None}
    /\ {dialog.row, dialog.form} \subseteq TableRows \cup {None}
    /\ dialog.sending \subseteq {d \in admin.dialogs : "guarded" \in d}
    /\ busy \in BOOLEAN /\ stray \in BOOLEAN

(* Once everything is answered the page lists the rows as they are stored: *)
(* every change reads the table again after its own answer.  It needs that *)
(* no answer was lost and that no two reads overlapped, whose answers may  *)
(* come out of order, nor a change that outlived its filter, which reads   *)
(* the old one.                                                            *)
ListIsCurrent ==
    (calls = {} /\ refreshing = {} /\ ~stray /\ doubt = {})
        => listed = [of |-> filter, rows |-> rows]

(* What an open dialog saves is the row it was opened for, though the      *)
(* dialogs of a page live on between two openings and lose their form when *)
(* the spinner takes the page's place.                                     *)
FormIsOfItsRow == dialog.open # None => dialog.form = dialog.row

(* On a page whose dialogs are not unmounted, a guarded dialog sends one   *)
(* save at a time, also when it is closed meanwhile and opened for another *)
(* row.  Where the spinner unmounts it, it forgets that it sends.          *)
OneSaveAtATime ==
    \A d \in admin.dialogs : ("guarded" \in d /\ ~Is("unmounts")) =>
        Cardinality({k \in calls : k.what = "save" /\ k.arg = d}) <= 1

(***************************************************************************)
(* An admin page shows what is stored and saves what it shows, whatever    *)
(* rows, dialogs and filters are changed while requests are on their way.  *)
(***************************************************************************)
TableInStep == ListIsCurrent /\ FormIsOfItsRow /\ OneSaveAtATime
=============================================================================

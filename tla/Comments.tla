------------------------------ MODULE Comments ------------------------------
(***************************************************************************)
(* The comments of a guide as one tab shows them (GuideComments,           *)
(* VoteButtons, ReportDialog) and as the API stores them.  A handler keeps *)
(* the list, the count and the vote of the render it was clicked in until  *)
(* its answer comes, and fetchUrl sends a request again when its answer is *)
(* lost.  The page of comments is on the screen; its own read is a panel.  *)
(***************************************************************************)
EXTENDS SiteFetch

CONSTANTS First,     \* comments on the page when it opens
          Fresh      \* the ids of comments that will be posted

ASSUME CommentsAssumption ==
    /\ IsFiniteSet(First) /\ IsFiniteSet(Fresh) /\ First \cap Fresh = {}
    /\ None \notin First \cup Fresh

VARIABLES api,       \* comments ever created, comments kept, own votes
          list,      \* comments and totalComments, as the page shows them
          fetched,   \* user_vote of each comment as the page got it
          buttons,   \* VoteButtons: userVote, isVoting
          ui,        \* submitting, the delete, edit and report dialogs
          raced      \* history: two changes of the list overlapped

commentVars == <<api, list, fetched, buttons, ui, raced>>

AllComments == First \cup Fresh
Votes == {"UpVote", "DownVote"}
Writes == {"post", "edit", "delete"}

CommentsInit(voted) ==
    /\ fetched = [c \in AllComments |-> IF c \in First THEN voted[c] ELSE None]
    /\ api = [made |-> First, kept |-> First, voted |-> fetched]
    /\ list = [items |-> First, total |-> Cardinality(First)]
    /\ buttons = [vote |-> fetched, waiting |-> {}]
    /\ ui = [posting |-> FALSE, asked |-> None, editing |-> None,
             report |-> None, reporting |-> FALSE]
    /\ raced = FALSE

-----------------------------------------------------------------------------
(* A handler sends a request and keeps what its render knew. *)
Calls(what, c, arg) ==
    /\ Click
    /\ Send(Request(what, c, arg,
                    [items |-> list.items, total |-> list.total,
                     vote |-> IF what = "vote" THEN buttons.vote[c] ELSE None]))
    /\ raced' = (raced \/ (what \in Writes
                            /\ \E k \in calls : k.what \in Writes))
    /\ UNCHANGED <<api, list, fetched>>

(* Disabled while a comment is being posted. *)
SubmitComment ==
    /\ ~ui.posting
    /\ Cardinality(Fresh \ api.made) >= Tries[page]
    /\ Calls("post", None, None)
    /\ ui' = [ui EXCEPT !.posting = TRUE]
    /\ UNCHANGED buttons

(* Save is not disabled while it saves. *)
EditComment(c) ==
    /\ ui.editing = c
    /\ Calls("edit", c, None)
    /\ UNCHANGED <<buttons, ui>>

(* The dialog closes with the click, not with the answer. *)
DeleteComment(c) ==
    /\ ui.asked = c
    /\ Calls("delete", c, None)
    /\ ui' = [ui EXCEPT !.asked = None]
    /\ UNCHANGED buttons

(* Optimistic, and one vote of a comment at a time; the method is chosen   *)
(* from the vote that was fetched with the comment.                        *)
VoteComment(c, v) ==
    /\ c \in list.items \ buttons.waiting
    /\ LET next == IF buttons.vote[c] = v THEN None ELSE v
       IN  buttons' = [vote |-> [buttons.vote EXCEPT ![c] = next],
                       waiting |-> buttons.waiting \cup {c}]
    /\ Calls("vote", c, IF fetched[c] = v THEN None ELSE v)
    /\ UNCHANGED ui

SendReport ==
    /\ ui.report # None /\ ~ui.reporting
    /\ Calls("report", ui.report, None)
    /\ ui' = [ui EXCEPT !.reporting = TRUE]
    /\ UNCHANGED buttons

(* What opens and closes on the page without a request; the report dialog  *)
(* does not close while it sends.                                          *)
Dialogs ==
    /\ Click
    /\ \E c \in list.items :
         \/ ui.asked = None /\ ui' = [ui EXCEPT !.asked = c]
         \/ ui.editing # c /\ ui' = [ui EXCEPT !.editing = c]
         \/ ui.report = None /\ ui' = [ui EXCEPT !.report = c]
         \/ ui.report = c /\ ~ui.reporting /\ ui' = [ui EXCEPT !.report = None]
    /\ UNCHANGED <<api, list, fetched, buttons, raced, fetchVars>>

-----------------------------------------------------------------------------
(* The API: a comment posted is another one each time; a vote that is not  *)
(* there is not deleted; the rest needs the comment.                       *)
Serve(k) ==
    /\ k.state = "sent"
    /\ Alone
    /\ \/ /\ k.what = "post"
          /\ \E c \in Fresh \ api.made :
               /\ api' = [api EXCEPT !.made = @ \cup {c}, !.kept = @ \cup {c}]
               /\ Serves(k, "ok", c)
       \/ /\ k.what = "delete" /\ k.of \in api.kept
          /\ api' = [api EXCEPT !.kept = @ \ {k.of}]
          /\ Serves(k, "ok", None)
       \/ /\ k.what = "vote" /\ k.of \in api.kept \cap First
          /\ k.arg # None \/ api.voted[k.of] # None
          /\ api' = [api EXCEPT !.voted[k.of] = k.arg]
          /\ Serves(k, "ok", k.arg)
       \/ /\ k.what \in {"edit", "report"} /\ k.of \in api.kept
          /\ Serves(k, "ok", None)
          /\ UNCHANGED api
       \/ /\ \/ k.what # "post" /\ k.of \notin api.kept
             \/ k.what = "vote" /\ (k.of \in Fresh \/ (k.arg = None
                                              /\ api.voted[k.of] = None))
          /\ Serves(k, "refused", None)
          /\ UNCHANGED api
    /\ UNCHANGED <<list, fetched, buttons, ui, raced>>

(* The list of a handler's own render, changed.  A comment that comes back *)
(* comes with new buttons, and a comment that goes takes its buttons away. *)
ShowList(items, count) ==
    /\ list' = [items |-> items, total |-> count]
    /\ buttons' =
         [vote |-> [c \in AllComments |-> IF c \in items \ list.items
                                THEN fetched[c] ELSE buttons.vote[c]],
          waiting |-> buttons.waiting \cap list.items \cap items]

(* Mutant: nothing but the optimistic vote is shown. *)
VoteAnsweredKeeps(k) ==
    /\ k.what = "vote"
    /\ buttons' = [buttons EXCEPT !.waiting = @ \ {k.of}]
    /\ UNCHANGED <<list, ui>>

(* The server's vote, or the vote of before the click. *)
VoteAnswered(k) ==
    /\ k.what = "vote"
    /\ buttons' = IF k.of \notin buttons.waiting THEN buttons
                  ELSE [buttons EXCEPT !.waiting = @ \ {k.of},
                         !.vote[k.of] = IF k.state = "ok" THEN k.got
                                                          ELSE k.saw.vote]
    /\ UNCHANGED <<list, ui>>

(* Mutant: the count of the page is not increased. *)
PostAnsweredUncounted(k) ==
    /\ k.what = "post"
    /\ IF k.state = "ok" THEN ShowList(k.saw.items \cup {k.got}, k.saw.total)
                         ELSE UNCHANGED <<list, buttons>>
    /\ ui' = [ui EXCEPT !.posting = FALSE]

PostAnswered(k) ==
    /\ k.what = "post"
    /\ IF k.state = "ok"
       THEN ShowList(k.saw.items \cup {k.got}, k.saw.total + 1)
       ELSE UNCHANGED <<list, buttons>>
    /\ ui' = [ui EXCEPT !.posting = FALSE]

(* Closes whatever delete dialog is open by then. *)
DeleteAnswered(k) ==
    /\ k.what = "delete"
    /\ IF k.state = "ok" THEN ShowList(k.saw.items \ {k.of}, k.saw.total - 1)
                         ELSE UNCHANGED <<list, buttons>>
    /\ ui' = [ui EXCEPT !.asked = None]

(* Ends whatever edit is open by then. *)
EditAnswered(k) ==
    /\ k.what = "edit"
    /\ IF k.state = "ok"
       THEN /\ ShowList(k.saw.items, list.total)
            /\ ui' = [ui EXCEPT !.editing = None]
       ELSE UNCHANGED <<list, buttons, ui>>

ReportAnswered(k) ==
    /\ k.what = "report"
    /\ ui' = [ui EXCEPT !.reporting = FALSE,
                        !.report = IF k.state = "ok" THEN None ELSE @]
    /\ UNCHANGED <<list, buttons>>

Answer(k) ==
    /\ Alone
    /\ Settles(k)
    /\ \/ VoteAnswered(k) \/ PostAnswered(k) \/ DeleteAnswered(k)
       \/ EditAnswered(k) \/ ReportAnswered(k)
    /\ UNCHANGED <<api, fetched, raced>>

CommentsNext ==
    \/ SubmitComment \/ SendReport \/ Dialogs
    \/ \E c \in list.items :
         \/ EditComment(c) \/ DeleteComment(c)
         \/ \E v \in Votes : VoteComment(c, v)
    \/ \E k \in calls : \/ Serve(k) \/ Answer(k)
                         \/ (Troubles(k) /\ UNCHANGED commentVars)

(* The API serves, and its answers come. *)
CommentAnswers == \E k \in calls : Serve(k) \/ Answer(k)

CommentsWait == ui.posting \/ ui.reporting

-----------------------------------------------------------------------------
CommentsTypeOK ==
    /\ api.kept \subseteq api.made /\ api.made \subseteq AllComments
    /\ api.voted \in [AllComments -> Votes \cup {None}]
    /\ list.items \subseteq AllComments /\ list.total \in Int
    /\ buttons.vote \in [AllComments -> Votes \cup {None}]
    /\ buttons.waiting \subseteq AllComments
    /\ {ui.asked, ui.editing, ui.report} \subseteq AllComments \cup {None}
    /\ ui.posting \in BOOLEAN /\ ui.reporting \in BOOLEAN

(* What the buttons of a comment show, once they wait for nothing, is the  *)
(* vote that the API has: the answer replaces the optimistic vote and a    *)
(* refusal rolls it back, whatever was clicked meanwhile.                  *)
VoteShownIsStored ==
    page = "comments" /\ ~raced =>
        \A c \in (list.items \cap api.kept) \ (buttons.waiting \cup doubt) :
            buttons.vote[c] = api.voted[c]

(* Once everything is answered, the page lists and counts the comments     *)
(* that are stored.                                                        *)
ListedIsStored ==
    calls = {} /\ ~raced /\ doubt = {}
        => list.items = api.kept /\ list.total = Cardinality(api.kept)

(***************************************************************************)
(* The page shows the comments and the votes the API has once it waits for *)
(* nothing, however posts, edits, deletions and votes were clicked beside  *)
(* each other and whichever of them failed.  Two changes of the list on    *)
(* their way at once, or an answer that is lost, are excepted: each change *)
(* writes the list of its own render.                                      *)
(***************************************************************************)
CommentsInStep == VoteShownIsStored /\ ListedIsStored
=============================================================================

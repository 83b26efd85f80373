----------------------------- MODULE MapSearch -----------------------------
(***************************************************************************)
(* The maps of a server (MapsSearchIndex, MapsSearchControls): the text of *)
(* the box becomes the search three seconds after it was typed, or at once *)
(* with Enter or a suggestion; the list is asked for a page of the search, *)
(* and brings the favourites, which the hearts change one by one.  That    *)
(* the list is the one last asked for is in Panels.                        *)
(***************************************************************************)
EXTENDS SiteFetch

CONSTANTS Texts,      \* maps: what is typed, suggested, and loved
          ListPages   \* pages of the list

ASSUME MapSearchAssumption == {0} \subseteq ListPages /\ None \notin Texts

VARIABLES box,       \* searchInput, what the suggestions are of, and timers
          search,    \* searchTerm, sortBy and page, which the list is asked for
          hearts,    \* favourites, as shown and as stored
          crossing   \* history: two answers were under way at once

searchVars == <<box, search, hearts, crossing>>

Searched(term, sort, p) == [term |-> term, sort |-> sort, page |-> p]

ListRead == Request("list", None, None, clicks')

SearchInit ==
    /\ box = [input |-> None, options |-> None, timer |-> FALSE,
              suggest |-> FALSE]
    /\ search = Searched(None, "LastPlayed", 0)
    /\ hearts = [shown |-> {}, stored |-> Texts]
    /\ crossing = FALSE

SearchReads == {Request("list", None, None, 0)}

-----------------------------------------------------------------------------
(* The effect of the list asks again when what it asks for has changed. *)
Ask(s) == /\ search' = s
          /\ IF s = search THEN UNCHANGED fetchVars ELSE Send(ListRead)

(* What the effects of the text do: their timers start again, and an empty *)
(* box has neither suggestions nor a search to wait for.                   *)
Typed(t) ==
    IF t = box.input THEN box
    ELSE [input |-> t, options |-> IF t = None THEN None ELSE box.options,
          timer |-> t # None, suggest |-> t # None]

Under(what) == \E k \in calls : k.what \in what

HandleInputChange ==
    /\ Click
    /\ \E t \in (Texts \cup {None}) \ {box.input} :
         /\ box' = Typed(t)
         /\ IF t = None THEN Ask(Searched(None, search.sort, 0))
                        ELSE UNCHANGED <<search, fetchVars>>
         /\ crossing' = (crossing \/ (t = None /\ Under({"suggest"})))
    /\ UNCHANGED hearts

(* Enter; the timer goes on. *)
HandleKeyDown == /\ Click
                 /\ Ask(Searched(box.input, search.sort, 0))
                 /\ UNCHANGED <<box, hearts, crossing>>

(* Mutant: a suggestion is searched for, and not written into the box. *)
HandleSelectUntyped ==
    /\ box.options # None /\ Click
    /\ \E t \in Texts : Ask(Searched(t, search.sort, 0)) /\ box' = box
    /\ UNCHANGED <<hearts, crossing>>

HandleSelect ==
    /\ box.options # None /\ Click
    /\ \E t \in Texts : Ask(Searched(t, search.sort, 0)) /\ box' = Typed(t)
    /\ UNCHANGED <<hearts, crossing>>

SearchTimer == /\ box.timer /\ Alone
               /\ Ask(Searched(box.input, search.sort, 0))
               /\ box' = [box EXCEPT !.timer = FALSE]
               /\ UNCHANGED <<hearts, crossing>>

LoadAutocomplete ==
    /\ box.suggest /\ Alone
    /\ Send(Request("suggest", box.input, None, clicks))
    /\ box' = [box EXCEPT !.suggest = FALSE]
    /\ crossing' = (crossing \/ Under({"suggest"}))
    /\ UNCHANGED <<search, hearts>>

SortBy == /\ Click
          /\ \E s \in {"LastPlayed", "HighestHour"} :
               Ask(Searched(search.term, s, 0))
          /\ UNCHANGED <<box, hearts, crossing>>

HandleChangePage == /\ Click
                    /\ \E p \in ListPages : Ask([search EXCEPT !.page = p])
                    /\ UNCHANGED <<box, hearts, crossing>>

ToggleFavorite ==
    /\ Click
    /\ \E m \in Texts :
         Send(Request(IF m \in hearts.shown THEN "unset" ELSE "set", m, None,
                      clicks'))
    /\ UNCHANGED searchVars

After(k, loved) == CASE k.what = "set"   -> loved \cup {k.of}
                     [] k.what = "unset" -> loved \ {k.of}
                     [] OTHER            -> loved

SearchServes(k) ==
    /\ k.state = "sent" /\ Alone
    /\ hearts' = [hearts EXCEPT !.stored = After(k, @)]
    /\ Serves(k, "ok", IF k.what = "list" THEN hearts.stored ELSE None)
    /\ crossing' = (crossing \/ \E j \in calls : j.state # "sent")
    /\ UNCHANGED <<box, search>>

(* Nothing aborts a read, nor does its answer ask whether it is the last;  *)
(* a heart changes only when the API has changed it.                       *)
SearchAnswered(k) ==
    /\ Settles(k) /\ Alone
    /\ hearts' = [hearts EXCEPT !.shown =
                     CASE k.state # "ok" -> @
                       [] k.state = "ok" /\ k.what = "list" -> k.got
                       [] OTHER -> After(k, @)]
    /\ box' = IF k.what # "suggest" THEN box
              ELSE [box EXCEPT !.options = IF k.state = "ok" THEN k.of
                                                             ELSE None]
    /\ UNCHANGED <<search, crossing>>

SearchNext ==
    \/ HandleInputChange \/ HandleKeyDown \/ HandleSelect \/ SortBy
    \/ HandleChangePage \/ ToggleFavorite \/ SearchTimer \/ LoadAutocomplete
    \/ \E k \in calls : \/ SearchServes(k) \/ SearchAnswered(k)
                        \/ (Troubles(k) /\ UNCHANGED searchVars)

(* The timers run, and the API answers. *)
SearchAnswers == \/ SearchTimer \/ LoadAutocomplete
                 \/ \E k \in calls : SearchServes(k) \/ SearchAnswered(k)

SearchWaits == box.timer \/ box.suggest \/ calls # {}

-----------------------------------------------------------------------------
SearchTypeOK ==
    /\ box.input \in Texts \cup {None} /\ box.options \in Texts \cup {None}
    /\ {box.timer, box.suggest, crossing} \subseteq BOOLEAN
    /\ search.term \in Texts \cup {None} /\ search.page \in ListPages
    /\ hearts.shown \subseteq Texts /\ hearts.stored \subseteq Texts

(***************************************************************************)
(* When no timer runs, the list is searched for what the box says, however *)
(* it got there.  Once everything is answered, the suggestions are those   *)
(* of the box and the hearts those of the API, also of a heart clicked     *)
(* twice, unless a request failed or two answers were under way at once.   *)
(***************************************************************************)
SearchInStep ==
    page = "search" =>
      /\ ~box.timer => search.term = box.input
      /\ calls = {} /\ lost = 0 /\ ~crossing =>
           /\ ~box.suggest => box.options = box.input
           /\ hearts.shown = hearts.stored
=============================================================================

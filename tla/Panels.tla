------------------------------- MODULE Panels -------------------------------
(***************************************************************************)
(* The lists and charts of the website that read the API from an effect:   *)
(* a change of page, filter or search re-runs the effect, whose cleanup    *)
(* may abort the read before it, and the answers set what is shown.  An    *)
(* aborted read is retried twice by fetchUrl, which fails at once, so it   *)
(* ends three seconds later.  A panel is the set of what it does:          *)
(*   paged    it asks one page              filters  it asks for a filter  *)
(*   later    an effect of the filter goes back to the first page          *)
(*   polls    a timer or a dialog that opens asks the same again           *)
(*   aborts   the cleanup aborts the read                                  *)
(*   guards   an aborted read changes nothing when it ends                 *)
(*   spins    a read starts with the spinner or the skeleton               *)
(*   clears   a read starts without the error of the one before            *)
(*   blanks   a read starts without the data of the one before             *)
(*   tells    a failed read is shown as an error                           *)
(*   forgets  a failed read drops the data                                 *)
(*   sticks   a failed read leaves the spinner: nothing catches it         *)
(***************************************************************************)
EXTENDS Browser

CONSTANTS PanelPages,  \* pages a panel may be asked for
          Filters,     \* tabs, categories, dates, searches
          MaxReads     \* bound: reads one panel starts

ASSUME PanelsAssumption ==
    /\ PanelPages = 0..Cardinality(PanelPages) - 1 /\ 0 \in PanelPages
    /\ IsFiniteSet(Filters) /\ Filters # {}
    /\ MaxReads \in Nat \ {0}

VARIABLES panel,       \* what the panel does
          key,         \* what the last read asked for, and its number
          reads,       \* reads without an end: key, and whether aborted
          view,        \* the key of the data shown, or None
          failure,     \* the key of the error shown, or None
          loading,
          overlapped,  \* history: a read was started before another's end
          failed       \* history: the numbers of the reads that failed

panelVars == <<panel, key, reads, view, failure, loading, overlapped, failed>>

-----------------------------------------------------------------------------
(* Lists of a page. *)
PlayerSessionList == {"paged", "filters", "aborts", "guards", "spins"}
MapSessionList    == {"paged", "aborts", "spins", "tells"}
PlayerList        == {"paged", "filters", "later", "aborts", "guards", "spins"}
PlayerRankings    == {"paged", "filters", "later", "aborts", "spins", "clears",
                      "tells"}
MapGuidesList     == {"paged", "filters", "later", "aborts", "spins", "clears",
                      "tells"}
ServerGuidesList  == {"paged", "aborts", "spins", "clears", "tells"}
MapsSearchIndex   == {"paged", "filters", "spins"}
GuideComments     == {"paged", "aborts", "spins", "clears", "tells"}
MapGraphList      == {"paged", "spins", "sticks"}

(* Charts and tables of a choice. *)
TopPerformers     == {"filters", "spins", "clears", "tells"}
CountryStatsList  == {"filters", "spins"}

(* Asked again by a timer, or whenever their dialog opens. *)
FetchStatusTable  == {"polls"}
CurrentMatch      == {"polls", "forgets"}
MapSelectDialog   == {"polls", "aborts", "spins", "clears", "tells"}
MapFilterDialog   == {"polls", "aborts", "spins", "clears", "tells"}
InfractionUpdate  == {"polls", "spins"}

(* Read once, when the page of the map, the player or the server opens. *)
PlayerTopMap                  == {"spins", "clears", "tells"}
PlayTimeHeatmap               == {"spins"}
PlayTimeGraph                 == {"spins"}
PlayerHourOfDay               == {"spins", "blanks", "tells"}
PlayerRegionPlayTime          == {"spins", "clears", "blanks", "tells"}
MapHeatRegion                 == {"spins", "clears", "blanks", "tells"}
MapAverageSessionDistribution == {"spins", "blanks", "tells"}
MapRegionDistribution         == {"spins", "clears", "blanks", "tells"}
MapPlayerType                 == {"spins", "clears", "blanks", "tells"}
MapTop10PlayerList            == {"aborts", "spins", "blanks", "tells"}
MapGuidesButton               == {"aborts", "spins", "tells"}
PlayerByCountries             == {"spins", "clears", "tells"}
PlayersOnline                 == {"spins", "clears", "tells"}
ModelsPageContent             == {"spins"}
MapHeader                     == {}
MapMusicSection               == {}

AllPanels ==
    {PlayerSessionList, MapSessionList, PlayerList, PlayerRankings,
     MapGuidesList, ServerGuidesList, MapsSearchIndex, GuideComments,
     MapGraphList, TopPerformers,
     CountryStatsList, FetchStatusTable, CurrentMatch, MapSelectDialog,
     MapFilterDialog, InfractionUpdate, PlayerTopMap, PlayTimeHeatmap,
     PlayTimeGraph, PlayerHourOfDay, PlayerRegionPlayTime, MapHeatRegion,
     MapAverageSessionDistribution, MapRegionDistribution, MapPlayerType,
     MapTop10PlayerList, MapGuidesButton, PlayerByCountries, PlayersOnline,
     ModelsPageContent, MapHeader, MapMusicSection}

Does(what) == what \in panel

Key(p, f, n) == [page |-> p, filter |-> f, number |-> n]

(* Mounted: the first read is out. *)
PanelInit(p, f) ==
    /\ panel = p
    /\ key = Key(0, f, 1)
    /\ reads = {[of |-> key, aborted |-> FALSE]}
    /\ view = None
    /\ failure = None
    /\ loading = Does("spins")
    /\ overlapped = FALSE
    /\ failed = {}

-----------------------------------------------------------------------------
(* Mutant: the signal is not passed to fetch. *)
CleanedNone(rs) == rs

(* The cleanup of the effect, before it runs again. *)
Cleaned(rs) == IF Does("aborts") THEN {[r EXCEPT !.aborted = TRUE] : r \in rs}
                                 ELSE rs

Shown == /\ loading' = (loading \/ Does("spins"))
         /\ failure' = IF Does("clears") THEN None ELSE failure
         /\ view' = IF Does("blanks") THEN None ELSE view

(* The effect runs for page p and filter f. *)
Read(p, f) ==
    /\ key.number < MaxReads
    /\ key' = Key(p, f, key.number + 1)
    /\ reads' = Cleaned(reads) \cup {[of |-> key', aborted |-> FALSE]}
    /\ overlapped' = (overlapped \/ reads # {})
    /\ Shown
    /\ UNCHANGED <<panel, failed>>

ChangePage == /\ Does("paged") /\ Click
              /\ \E p \in PanelPages \ {key.page} : Read(p, key.filter)

(* The handler goes back to the first page in the same render. *)
ChangeFilter ==
    /\ Does("filters") /\ ~(Does("later") /\ key.page # 0)
    /\ Click
    /\ \E f \in Filters \ {key.filter} : Read(0, f)

(* An effect goes back to the first page once the read of the new filter's *)
(* old page is out: two reads.                                             *)
ChangeFilterLater ==
    /\ Does("filters") /\ Does("later") /\ key.page # 0
    /\ key.number + 1 < MaxReads
    /\ Click
    /\ \E f \in Filters \ {key.filter} :
         LET stray == [of |-> Key(key.page, f, key.number + 1),
                       aborted |-> FALSE]
         IN  /\ key' = Key(0, f, key.number + 2)
             /\ reads' = Cleaned(Cleaned(reads) \cup {stray})
                         \cup {[of |-> key', aborted |-> FALSE]}
    /\ overlapped' = TRUE
    /\ Shown
    /\ UNCHANGED <<panel, failed>>

(* The timer, or the dialog that opens again. *)
AskAgain == Does("polls") /\ Alone /\ Read(key.page, key.filter)

-----------------------------------------------------------------------------
Ends(r) == reads' = reads \ {r} /\ loading' = FALSE

Answered(r) ==
    /\ Alone
    /\ ~r.aborted
    /\ Ends(r)
    /\ view' = r.of
    /\ UNCHANGED <<panel, key, failure, overlapped, failed>>

(* Mutant: the spinner stays when a read fails. *)
FailedSpins(r) ==
    /\ Alone
    /\ ~r.aborted
    /\ reads' = reads \ {r}
    /\ failure' = IF Does("tells") THEN r.of ELSE failure
    /\ view' = IF Does("forgets") THEN None ELSE view
    /\ failed' = failed \cup {r.of.number}
    /\ UNCHANGED <<panel, key, loading, overlapped>>

(* Every try of fetchUrl failed, or the API refused. *)
Failed(r) ==
    /\ Alone
    /\ ~r.aborted
    /\ reads' = reads \ {r}
    /\ loading' = (loading /\ Does("sticks"))
    /\ failure' = IF Does("tells") THEN r.of ELSE failure
    /\ view' = IF Does("forgets") THEN None ELSE view
    /\ failed' = failed \cup {r.of.number}
    /\ UNCHANGED <<panel, key, overlapped>>

(* Mutant: every panel clears the spinner in a "finally". *)
AbortEndsAny(r) ==
    /\ Alone
    /\ r.aborted
    /\ Ends(r)
    /\ UNCHANGED <<panel, key, view, failure, overlapped, failed>>

(* The tries of an aborted read are over: neither answer nor error, but a  *)
(* "finally" that does not look clears the spinner of the read after it.   *)
AbortEnds(r) ==
    /\ Alone
    /\ r.aborted
    /\ IF Does("guards") THEN reads' = reads \ {r} /\ UNCHANGED loading
                         ELSE Ends(r)
    /\ UNCHANGED <<panel, key, view, failure, overlapped, failed>>

PanelNext ==
    \/ ChangePage \/ ChangeFilter \/ ChangeFilterLater \/ AskAgain
    \/ \E r \in reads : Answered(r) \/ Failed(r) \/ AbortEnds(r)

(* fetch is answered, and fetchUrl stops trying. *)
PanelAnswers == \E r \in reads : Answered(r) \/ Failed(r) \/ AbortEnds(r)

(* While it spins, unless it spins for a failed read that nothing catches. *)
PanelWaits == loading /\ ~(Does("sticks") /\ failed # {})

-----------------------------------------------------------------------------
Keys == [page : PanelPages, filter : Filters, number : 1..MaxReads]

PanelTypeOK ==
    /\ panel \in AllPanels
    /\ key \in Keys
    /\ reads \subseteq [of : Keys, aborted : BOOLEAN]
    /\ view \in Keys \cup {None} /\ failure \in Keys \cup {None}
    /\ loading \in BOOLEAN /\ overlapped \in BOOLEAN
    /\ failed \subseteq 1..MaxReads

(* Once nothing is out and the last read did not fail, the answer to that  *)
(* read is shown.  Without an abort the answer that came last is shown, so *)
(* there it holds until two reads overlapped.                              *)
SettledShowsTheLast ==
    reads = {} /\ key.number \notin failed /\ (Does("aborts") \/ ~overlapped)
        => view = key

(* It spins exactly while the read of what is selected is out.  Without    *)
(* the guard the "finally" of an aborted read shows the old list under the *)
(* new page, so there it holds until two reads overlapped.                 *)
SpinnerCovers ==
    (Does("spins") /\ (Does("guards") \/ ~overlapped)
       /\ ~(Does("sticks") /\ key.number \in failed))
        => loading = (\E r \in reads : r.of = key)

(* An error that is shown is the error of what is selected, in a panel     *)
(* that clears the old one and aborts the old read.                        *)
ErrorIsOfTheSelected ==
    Does("clears") /\ (Does("aborts") \/ ~overlapped)
        => failure \in {None, key}

(***************************************************************************)
(* A list or a chart shows the page and the filter that are selected, or   *)
(* that it is waiting for them, or why they did not come, however fast     *)
(* they are changed and in whatever order the reads end.                   *)
(***************************************************************************)
PanelInStep == SettledShowsTheLast /\ SpinnerCovers /\ ErrorIsOfTheSelected
=============================================================================

----------------------------- MODULE GraphRange -----------------------------
(***************************************************************************)
(* The range of dates of a server's page: DateProvider keeps it, the       *)
(* toolbar edits a copy of it and shows "Apply" a second later, the chart  *)
(* proposes what it was zoomed to half a second after the last zoom, the   *)
(* list of sessions sets it, and the chart reads its data.  Whatever sets  *)
(* it says which source it is, and the others synchronise by the source.   *)
(***************************************************************************)
EXTENDS Browser

CONSTANTS Times,     \* dates that can be picked
          Today      \* the range of "Now"

ASSUME GraphAssumption ==
    /\ Times \subseteq Nat
    /\ Today \in Times \X Times /\ Today[1] < Today[2]
    /\ None \notin {"show", "hide"}

VARIABLES dates,     \* range and source of DateProvider
          bar,       \* toolbar: its copy, whether Apply shows, its timer
          zoom,      \* timer of the zoom and its range, and toolBarUse
          graph,     \* reads out, loading, the range shown, the last failed
          asked      \* history: the range and source clicked last, and what
                     \* the chart may put in its place

graphVars == <<dates, bar, zoom, graph, asked>>

AllRanges == Times \X Times
Valid(r) == r[1] < r[2]

-----------------------------------------------------------------------------
(* The effect of the toolbar on its copy and the range: Apply is shown, or *)
(* hidden, a second from now.                                              *)
Judged(local, range) == Valid(local) /\ local # range

(* The effect of the chart: the read before is aborted, and nothing is     *)
(* asked for a range that is not one; the spinner is left as it is.        *)
Fetched(r) ==
    graph' = IF ~Valid(r) THEN [graph EXCEPT !.reads = {}]
             ELSE [graph EXCEPT !.reads = {r}, !.loading = TRUE,
                                !.failed = FALSE]

(* The axis of a chart that is not zoomed spans the data that is shown, or *)
(* the day while there is none.                                            *)
Axis == IF graph.shown = None THEN Today ELSE graph.shown

Skips(source) == IF source = dates.source THEN zoom.skip ELSE source = "toolbar"

(* Mutant: the chart looks at the source, not at when it was set. *)
ZoomResetBySource(source) ==
    zoom' = [timer |-> IF source = dates.source THEN zoom.timer ELSE Axis,
             skip  |-> Skips(source)]

(***************************************************************************)
(* The effects of the chart on a source that is not the zoom: the timer is *)
(* cleared and the zoom is reset, which completes as a zoom does and       *)
(* starts the timer with the axis of that moment.  After a change TO the   *)
(* toolbar the next zoom is skipped: the one of this reset.                *)
(***************************************************************************)
ZoomReset(source) ==
    zoom' = [timer |-> Axis, skip |-> Skips(source)]

(* A click asks for the range.  The chart puts the axis of its reset in    *)
(* its place unless the click changes the source to the toolbar.           *)
AskedFor ==
    asked' = [range |-> dates'.range, source |-> dates'.source,
              axis  |-> IF dates'.source = "toolbar" /\ dates.source # "toolbar"
                        THEN None ELSE Axis]

(* The toolbar's effects: its copy follows every other source. *)
BarFollows(r, source, local) ==
    LET copy == IF source = "toolbar" THEN local ELSE r
    IN  bar' = [local |-> copy, apply |-> FALSE,
                timer |-> IF Judged(copy, r) THEN "show" ELSE "hide"]

(* SET_DATES and every effect it re-runs. *)
SetDates(r, source, local) ==
    /\ dates' = [range |-> r, source |-> source]
    /\ BarFollows(r, source, local)
    /\ Fetched(r)

GraphInit ==
    /\ dates = [range |-> Today, source |-> "url"]
    /\ bar = [local |-> Today, apply |-> FALSE, timer |-> "hide"]
    /\ zoom = [timer |-> Today, skip |-> TRUE]
    /\ graph = [reads |-> {Today}, loading |-> TRUE, shown |-> None,
                failed |-> FALSE]
    /\ asked = [range |-> Today, source |-> "url", axis |-> None]

-----------------------------------------------------------------------------
(* A day or a time is picked; the pickers only exclude days. *)
PickDate ==
    /\ Click
    /\ \E r \in AllRanges :
         /\ r # bar.local /\ (r[1] = bar.local[1] \/ r[2] = bar.local[2])
         /\ bar' = [bar EXCEPT !.local = r,
                      !.timer = IF Judged(r, dates.range) THEN "show" ELSE "hide"]
    /\ UNCHANGED <<dates, zoom, graph, asked>>

HandleApply ==
    /\ bar.apply
    /\ Click
    /\ SetDates(bar.local, "toolbar", bar.local)
    /\ ZoomReset("toolbar")
    /\ AskedFor

HandleToday ==
    /\ Click
    /\ SetDates(Today, "toolbar", Today)
    /\ ZoomReset("toolbar")
    /\ AskedFor

(* A session of the list, to one minute after its end. *)
HandleDateForceChange ==
    /\ Click
    /\ \E r \in AllRanges :
         /\ Valid(r)
         /\ SetDates(r, "external", bar.local)
    /\ ZoomReset("external")
    /\ AskedFor

(* The person zoomed or moved the chart to r. *)
ZoomComplete ==
    /\ Click
    /\ \E r \in AllRanges :
         /\ Valid(r)
         /\ zoom' = [zoom EXCEPT !.timer = r]
         /\ asked' = [range |-> r, source |-> "zoom", axis |-> None]
    /\ UNCHANGED <<dates, bar, graph>>

-----------------------------------------------------------------------------
(* Half a second without another zoom. *)
ZoomTimer ==
    /\ zoom.timer # None
    /\ Alone
    /\ IF zoom.skip
       THEN /\ zoom' = [timer |-> None, skip |-> FALSE]
            /\ UNCHANGED <<dates, bar, graph>>
       ELSE /\ SetDates(zoom.timer, "zoom", bar.local)
            /\ zoom' = [timer |-> None, skip |-> FALSE]
    /\ UNCHANGED asked

(* A second without another change. *)
ApplyTimer ==
    /\ bar.timer # None
    /\ Alone
    /\ bar' = [bar EXCEPT !.apply = bar.timer = "show", !.timer = None]
    /\ UNCHANGED <<dates, zoom, graph, asked>>

(* The counts, and the maps of a short range, came; or one of the counts   *)
(* did not, and the data of before stays.                                  *)
GraphAnswered(r) ==
    /\ Alone
    /\ \/ graph' = [graph EXCEPT !.reads = @ \ {r}, !.loading = FALSE,
                                 !.shown = r]
       \/ graph' = [graph EXCEPT !.reads = @ \ {r}, !.loading = FALSE,
                                 !.failed = TRUE]
    /\ UNCHANGED <<dates, bar, zoom, asked>>

GraphNext ==
    \/ PickDate \/ HandleApply \/ HandleToday \/ HandleDateForceChange
    \/ ZoomComplete \/ ZoomTimer \/ ApplyTimer
    \/ \E r \in graph.reads : GraphAnswered(r)

(* Every read ends. *)
GraphAnswers == \E r \in graph.reads : GraphAnswered(r)

(* While it spins, unless "Apply" took a range that is none. *)
GraphWaits == graph.loading /\ Valid(dates.range)

-----------------------------------------------------------------------------
GraphTypeOK ==
    /\ dates.range \in AllRanges
    /\ dates.source \in {"url", "toolbar", "zoom", "external"}
    /\ bar.local \in AllRanges /\ bar.apply \in BOOLEAN
    /\ bar.timer \in {"show", "hide", None}
    /\ zoom.timer \in AllRanges \cup {None} /\ zoom.skip \in BOOLEAN
    /\ graph.reads \subseteq AllRanges
    /\ graph.loading \in BOOLEAN /\ graph.failed \in BOOLEAN
    /\ graph.shown \in AllRanges \cup {None}

(* Once nothing is out, and unless the last read failed or the range is    *)
(* none, the chart shows the data of the range of the page.                *)
ChartShowsRange ==
    graph.reads = {} /\ ~graph.failed /\ Valid(dates.range)
        => graph.shown = dates.range

(* Once its second is over, "Apply" is offered exactly for a range that is *)
(* one and that is not the page's already.                                 *)
ApplyIsUseful ==
    bar.timer = None => bar.apply = Judged(bar.local, dates.range)

(* What Now, Apply or a session asked for stays until the next click: a    *)
(* zoom of the person before never replaces it.  The chart's own reset     *)
(* does not either ("Race condition where newStart/newEnd become stale on  *)
(* clicking 'Today'") when the click changed the source to the toolbar;    *)
(* after another Now or Apply, or a session, it can put back what the      *)
(* chart showed at the click, and nothing else.                            *)
OldZoomIsForgotten ==
    asked.source # "zoom" =>
        \/ dates = [range |-> asked.range, source |-> asked.source]
        \/ /\ asked.axis # None
           /\ dates = [range |-> asked.axis, source |-> "zoom"]

(***************************************************************************)
(* The page has the range that was asked for last, or the one the chart's  *)
(* own reset put back, the chart shows it and the toolbar offers to change *)
(* it, whatever order the toolbar, the zoom, the list of sessions, their   *)
(* timers and the answers come in.                                         *)
(***************************************************************************)
GraphInStep == ChartShowsRange /\ ApplyIsUseful /\ OldZoomIsForgotten
=============================================================================

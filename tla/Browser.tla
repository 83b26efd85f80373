------------------------------ MODULE Browser ------------------------------
(***************************************************************************)
(* What the pages of the website share: the tab shows one page, the person *)
(* at it does a bounded number of things, and every request the page sends *)
(* is answered in the end.                                                 *)
(***************************************************************************)
EXTENDS Integers, FiniteSets, Sequences

CONSTANTS None,       \* nothing: no timer, no request, no selection
          SitePages,  \* pages that are opened
          MaxClicks   \* bound: clicks on each page, and failures under them

ASSUME ClicksAssumption == MaxClicks \in [SitePages -> Nat]

VARIABLES page,       \* the page the tab shows
          clicks      \* how many things happened to the page

browserVars == <<page, clicks>>

(* The person clicks, types or picks something. *)
Click == /\ clicks < MaxClicks[page]
         /\ clicks' = clicks + 1
         /\ UNCHANGED page

(* A timer, an answer or the clock: nobody touched anything. *)
Alone == UNCHANGED browserVars

BrowserInit(p) == page = p /\ clicks = 0
=============================================================================

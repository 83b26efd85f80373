------------------------------ MODULE Website ------------------------------
(***************************************************************************)
(* The website in a tab, which shows one of its pages.  The pages share    *)
(* the person at the tab, the requests of fetchUrl, and that what is under *)
(* way goes on by itself while the person may stop at any time.            *)
(***************************************************************************)
EXTENDS RadarClock, Panels, GraphRange, Comments, GuideForm, ModelScene,
        ViewerControls, AdminTable, AdminMaps, PushClient, Consent,
        LiveFeed, MapSearch

ASSUME PagesAssumption ==
    SitePages \subseteq {"radar", "panel", "server", "comments", "guide",
                          "model", "viewer", "table", "maps", "push", "consent",
                  "live", "search"}

siteVars == <<browserVars, fetchVars, radarVars, panelVars, graphVars,
              commentVars, guideVars, sceneVars, viewerVars, tableVars,
              mapsVars, pushVars, consentVars, liveVars, searchVars>>

(* What a page starts from; other is what it has when it is not shown. *)
Among(p, choices, other) == IF page = p THEN choices ELSE {other}

(* A guide is of the server whose pages are visited, or of none; its form  *)
(* and its page are opened under that server or under none.                *)
Visits == {[owner |-> o, what |-> w, server |-> s] :
              o \in {Home, None}, w \in {"new", "detail"}, s \in {Home, None}}

Init ==
    /\ \E p \in SitePages : BrowserInit(p)
    /\ \E w \in Among("push", Widgets \ {"banner"}, "match") :
         \E b \in Among("push", Browsers, <<"default", None, {}>>) :
           /\ PushInit(w, b)
           /\ FetchInit(CASE page = "maps" -> MapsReads
                           [] page = "push" -> PushReads(w, b[2])
                           [] page = "consent" -> ConsentReads
                           [] page = "search" -> SearchReads
                           [] OTHER         -> {})
    /\ RadarInit /\ GraphInit /\ ViewerInit /\ MapsInit
    /\ LiveInit /\ SearchInit
    /\ \E set \in Among("consent", Settings \cup {None}, None) :
         ConsentInit(set)
    /\ \E p \in Among("panel", AllPanels, MapHeader) :
         PanelInit(p, CHOOSE f \in Filters : TRUE)
    /\ \E voted \in Among("comments", [First -> Votes \cup {None}],
                          [c \in First |-> None]) : CommentsInit(voted)
    /\ \E v \in Among("guide", {v \in Visits : v.owner \in {v.server, None}},
                      [owner |-> None, what |-> "detail", server |-> None]) :
         GuideInit(v.owner, v.what, v.server)
    /\ \E bad \in Among("model", SUBSET Objects, {}) : SceneInit(bad)
    /\ \E p \in Among("table", AdminPages, BansPage) :
         TableInit(p, CHOOSE f \in TableFilters : TRUE)

-----------------------------------------------------------------------------
(* What a step of each page leaves alone. *)
BesideRadar == UNCHANGED <<fetchVars, panelVars, graphVars, commentVars,
                           guideVars, sceneVars, viewerVars, tableVars,
                           mapsVars, pushVars, consentVars, liveVars,
                           searchVars>>
BesidePanel == UNCHANGED <<fetchVars, radarVars, graphVars, commentVars,
                           guideVars, sceneVars, viewerVars, tableVars,
                           mapsVars, pushVars, consentVars, liveVars,
                           searchVars>>
BesideGraph == UNCHANGED <<fetchVars, radarVars, panelVars, commentVars,
                           guideVars, sceneVars, viewerVars, tableVars,
                           mapsVars, pushVars, consentVars, liveVars,
                           searchVars>>
BesideComments == UNCHANGED <<radarVars, panelVars, graphVars, guideVars,
                              sceneVars, viewerVars, tableVars, mapsVars,
                              pushVars, consentVars, liveVars, searchVars>>
BesideGuide == UNCHANGED <<radarVars, panelVars, graphVars, commentVars,
                           sceneVars, viewerVars, tableVars, mapsVars,
                           pushVars, consentVars, liveVars, searchVars>>
BesideScene == UNCHANGED <<fetchVars, radarVars, panelVars, graphVars,
                           commentVars, guideVars, viewerVars, tableVars,
                           mapsVars, pushVars, consentVars, liveVars,
                           searchVars>>
BesideViewer == UNCHANGED <<fetchVars, radarVars, panelVars, graphVars,
                            commentVars, guideVars, sceneVars, tableVars,
                            mapsVars, pushVars, consentVars, liveVars,
                            searchVars>>
BesideTable == UNCHANGED <<radarVars, panelVars, graphVars, commentVars,
                           guideVars, sceneVars, viewerVars, mapsVars,
                           pushVars, consentVars, liveVars, searchVars>>
BesideMaps == UNCHANGED <<radarVars, panelVars, graphVars, commentVars,
                          guideVars, sceneVars, viewerVars, tableVars,
                          pushVars, consentVars, liveVars, searchVars>>
BesidePush == UNCHANGED <<radarVars, panelVars, graphVars, commentVars,
                          guideVars, sceneVars, viewerVars, tableVars,
                          mapsVars, consentVars, liveVars, searchVars>>
BesideConsent == UNCHANGED <<radarVars, panelVars, graphVars, commentVars,
                             guideVars, sceneVars, viewerVars, tableVars,
                             mapsVars, pushVars, liveVars, searchVars>>
BesideLive == UNCHANGED <<fetchVars, radarVars, panelVars, graphVars,
                          commentVars, guideVars, sceneVars, viewerVars,
                          tableVars, mapsVars, pushVars, consentVars,
                          searchVars>>
BesideSearch == UNCHANGED <<radarVars, panelVars, graphVars, commentVars,
                            guideVars, sceneVars, viewerVars, tableVars,
                            mapsVars, pushVars, consentVars, liveVars>>

Next ==
    \/ page = "radar" /\ RadarNext /\ BesideRadar
    \/ page = "panel" /\ PanelNext /\ BesidePanel
    \/ page = "server" /\ GraphNext /\ BesideGraph
    \/ page = "comments" /\ CommentsNext /\ BesideComments
    \/ page = "guide" /\ GuideNext /\ BesideGuide
    \/ page = "model" /\ SceneNext /\ BesideScene
    \/ page = "viewer" /\ ViewerNext /\ BesideViewer
    \/ page = "table" /\ TableNext /\ BesideTable
    \/ page = "maps" /\ MapsNext /\ BesideMaps
    \/ page = "push" /\ PushNext /\ BesidePush
    \/ page = "consent" /\ ConsentNext /\ BesideConsent
    \/ page = "live" /\ LiveNext /\ BesideLive
    \/ page = "search" /\ SearchNext /\ BesideSearch

(* Requests are answered, and what runs by itself goes on. *)
Answers ==
    \/ page = "radar" /\ PlayTick /\ BesideRadar
    \/ page = "panel" /\ PanelAnswers /\ BesidePanel
    \/ page = "server" /\ GraphAnswers /\ BesideGraph
    \/ page = "comments" /\ CommentAnswers /\ BesideComments
    \/ page = "guide" /\ GuideAnswers /\ BesideGuide
    \/ page = "model" /\ SceneAnswers /\ BesideScene
    \/ page = "table" /\ TableAnswers /\ BesideTable
    \/ page = "maps" /\ MapsAnswers /\ BesideMaps
    \/ page = "push" /\ PushAnswers /\ BesidePush
    \/ page = "consent" /\ ConsentAnswers /\ BesideConsent
    \/ page = "live" /\ LiveAnswers /\ BesideLive
    \/ page = "search" /\ SearchAnswers /\ BesideSearch

Spec == Init /\ [][Next]_siteVars

(* A bounded number of requests fails, the others are answered, and the    *)
(* browser runs the timers and the promises of an open page.               *)
FairSpec == Spec /\ WF_siteVars(Answers)

-----------------------------------------------------------------------------
(* The types of every page. *)
SiteTypeOK ==
    /\ page \in SitePages /\ clicks \in 0..MaxClicks[page]
    /\ lost \in 0..Losses[page]
    /\ RadarTypeOK /\ PanelTypeOK /\ GraphTypeOK /\ CommentsTypeOK
    /\ GuideTypeOK /\ SceneTypeOK /\ ViewerTypeOK /\ TableTypeOK
    /\ MapsTypeOK /\ PushTypeOK /\ ConsentTypeOK /\ LiveTypeOK
    /\ SearchTypeOK

PageWaits ==
    \/ page = "radar" /\ RadarWaits
    \/ page = "panel" /\ PanelWaits
    \/ page = "server" /\ GraphWaits
    \/ page = "comments" /\ CommentsWait
    \/ page = "guide" /\ GuideWaits
    \/ page = "model" /\ SceneWaits
    \/ page = "table" /\ TableWaits
    \/ page = "maps" /\ MapsWaits
    \/ page = "push" /\ PushWaits
    \/ page = "consent" /\ ConsentWaits
    \/ page = "live" /\ LiveWaits
    \/ page = "search" /\ SearchWaits

(***************************************************************************)
(* No page waits for ever: an animation reaches the end of its window,     *)
(* spinners end, a form or a dialog that sends is released, and a viewer   *)
(* becomes ready, whatever is clicked meanwhile and whichever requests     *)
(* fail.                                                                   *)
(***************************************************************************)
PagesSettle == PageWaits ~> ~PageWaits

(***************************************************************************)
(* What belongs to the signed-in person agrees with what the API and the   *)
(* browser keep of it: the alerts of the device (PushInStep) and what      *)
(* communities may see (ConsentInStep).                                    *)
(***************************************************************************)
AccountInStep == PushInStep /\ ConsentInStep

(***************************************************************************)
(* What a visitor follows is what the page says it follows: the map list   *)
(* the search of its box (SearchInStep), the live feed one stream of       *)
(* events (LiveInStep).                                                    *)
(***************************************************************************)
VisitInStep == SearchInStep /\ LiveInStep

(***************************************************************************)
(* The 3D viewer shows the map it was opened for (SceneInStep) and follows *)
(* the keys and the lock of the pointer there are (ControlsInStep).        *)
(***************************************************************************)
ViewerInStep == SceneInStep /\ ControlsInStep

(***************************************************************************)
(* The pages of the admins show, and save, the rows that are stored: the   *)
(* tables (TableInStep) and the maps with their models (MapsInStep).       *)
(***************************************************************************)
AdminInStep == TableInStep /\ MapsInStep
=============================================================================

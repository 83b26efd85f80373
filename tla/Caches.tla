------------------------------- MODULE Caches -------------------------------
(***************************************************************************)
(* What is answered from a cache: the pages of players and maps (worker),  *)
(* the announcements, the pages the listener refreshes, the pass at        *)
(* startup and the pictures.  They share no keys, so a behaviour is one of *)
(* a single group.                                                         *)
(***************************************************************************)
EXTENDS BackgroundWorker, Announcements, Updater, ProfilePictures

VARIABLE cached     \* the group that is used

CONSTANT Groups

ASSUME GroupsAssumption ==
    Groups \subseteq {"worker", "news", "listener", "startup", "pictures"}

cachesVars == <<cached, vars, newsVars, updaterVars, pictureVars>>

CachesInit ==
    /\ cached \in Groups
    /\ Init /\ NewsInit /\ UpdaterInit /\ PictureInit

(* What a step of each group leaves alone. *)
BesideWorker == UNCHANGED <<cached, newsVars, updaterVars, pictureVars>>
BesideNews == UNCHANGED <<cached, vars, updaterVars, pictureVars>>
BesideUpdater == UNCHANGED <<cached, vars, announceVars, pictureVars>>
BesidePictures == UNCHANGED <<cached, vars, newsVars, updaterVars>>

CachesNext ==
    \/ cached = "worker" /\ Next /\ BesideWorker
    \/ cached = "news" /\ NewsNext /\ BesideNews
    \/ /\ cached = "listener"
       /\ ListenerNext \/ Restarts \/ Forgotten \/ TimePasses
       /\ BesideUpdater
    \/ /\ cached = "startup"
       /\ StartupNext \/ Restarts \/ Forgotten \/ TimePasses
       /\ BesideUpdater
    \/ cached = "pictures" /\ PictureNext /\ BesidePictures

CachesSpec == CachesInit /\ [][CachesNext]_cachesVars

Asked(r) == cached = "worker" /\ (Serve(r) \/ Asks(r)) /\ BesideWorker
Worked(t) == cached = "worker" /\ Works(t) /\ BesideWorker
Refreshes(t) == cached = "listener" /\ TaskGoesOn(t) /\ BesideUpdater
Visited(r) == cached = "listener" /\ VisitGoesOn(r) /\ BesideUpdater
Passing == cached = "listener" /\ TimePasses /\ BesideUpdater
Pictured(r) == cached = "pictures" /\ PictureStep(r) /\ BesidePictures

(***************************************************************************)
(* The runtime polls requests and tasks; tokio's lock and semaphore are    *)
(* fair queues; time passes.                                               *)
(***************************************************************************)
CachesFairSpec ==
    /\ CachesSpec
    /\ \A r \in Requests : SF_cachesVars(Asked(r))
    /\ \A t \in Tasks : SF_cachesVars(Worked(t))
    /\ \A t \in Warmers : WF_cachesVars(Refreshes(t))
    /\ \A r \in Visitors : WF_cachesVars(Visited(r))
    /\ WF_cachesVars(Passing)
    /\ \A r \in Seekers : WF_cachesVars(Pictured(r))

-----------------------------------------------------------------------------
(* The types of every group. *)
CachesTypeOK == TypeOK /\ NewsTypeOK /\ UpdaterTypeOK /\ PictureTypeOK

(***************************************************************************)
(* Whoever uses a cache is done in the end: a page that polls              *)
(* (PollingEnds), a task of the listener (UpdatesEnd), a request for a     *)
(* picture (PicturesEnd), although what they call fails.                   *)
(***************************************************************************)
CachesSettle == PollingEnds /\ UpdatesEnd /\ PicturesEnd
=============================================================================

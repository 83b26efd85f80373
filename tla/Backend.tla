------------------------------ MODULE Backend ------------------------------
(***************************************************************************)
(* The endpoints and tasks that work on the website's own tables.  Those   *)
(* of notifications, of guides and of server requests share no rows, so a  *)
(* behaviour is one of a single group.                                     *)
(***************************************************************************)
EXTENDS MapNotify, GuideApi, ServerRequests

VARIABLE part       \* the group that is used

CONSTANTS Parts,
          Begun     \* the parameters of GuidesInit

ASSUME PartsAssumption ==
    /\ Parts \subseteq {"notifications", "guides", "requests"}
    /\ Begun \subseteq GuideMaps \X Users \X Titles \X (Users \union {None})
    /\ Begun # {} /\ Menus # {}

backendVars == <<part, vars, guideVars, nominationVars>>

(* What the guides start from, which is nothing to the other groups. *)
OnlyIf(p, choices) == IF part = p THEN choices
                      ELSE {CHOOSE x \in choices : TRUE}

BackendInit ==
    /\ part \in Parts
    /\ Init
    /\ \E b \in OnlyIf("guides", Begun), m \in OnlyIf("guides", Menus) :
          GuidesInit(b[1], b[2], b[3], b[4], m)
    /\ NominationsInit

(* What a step of each group leaves alone. *)
BesideNotifications == UNCHANGED <<part, guideVars, nominationVars>>
BesideGuides == UNCHANGED <<part, vars, nominationVars>>
BesideRequests == UNCHANGED <<part, vars, guideVars>>

BackendNext ==
    \/ part = "notifications" /\ Next /\ BesideNotifications
    \/ part = "guides" /\ GuidesNext /\ BesideGuides
    \/ part = "requests" /\ NominationsNext /\ BesideRequests

BackendSpec == BackendInit /\ [][BackendNext]_backendVars

Reconnects == part = "notifications" /\ Connect /\ BesideNotifications
Runs ==
    \/ /\ part = "notifications"
       /\ \E t \in Tasks : Work(t)
       /\ BesideNotifications
    \/ part = "guides" /\ (\E c \in Calls : Serve(c)) /\ BesideGuides
    \/ part = "requests" /\ (\E a \in Admins : Reviewing(a)) /\ BesideRequests

(* The listener connects again by itself, the runtime polls tasks and      *)
(* handlers, and PostgreSQL ends a deadlock.                               *)
BackendFairSpec ==
    BackendSpec /\ WF_backendVars(Reconnects) /\ WF_backendVars(Runs)

-----------------------------------------------------------------------------
(* The types of every group. *)
BackendTypeOK == TypeOK /\ GuidesTypeOK /\ NominationsTypeOK

(***************************************************************************)
(* No request waits for ever (CallsEnd), those for each other's rows       *)
(* included, and no subscription that a task has read (EveryRowHandled).   *)
(***************************************************************************)
BackendSettles == EveryRowHandled /\ CallsEnd
=============================================================================

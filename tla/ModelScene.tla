----------------------------- MODULE ModelScene -----------------------------
(***************************************************************************)
(* The 3D model of a map in the browser (MapViewer3D, Model): useGLTF      *)
(* loads its scene once per load of the site and hands the same objects to *)
(* every viewer that is opened; each viewer takes the problematic objects  *)
(* out of it, with the indices that localStorage kept of an earlier        *)
(* traversal or after a traversal in chunks, and then writes the materials *)
(* in chunks.  Nothing stops either when the viewer is left.               *)
(***************************************************************************)
EXTENDS Browser

CONSTANTS Objects    \* positions of the model's objects below its root

ASSUME SceneAssumption ==
    /\ IsFiniteSet(Objects) /\ Objects = 1..Cardinality(Objects)
    /\ \A objects \in SUBSET Objects : None # objects
    /\ None \notin [ok : BOOLEAN, left : SUBSET Objects, bad : SUBSET Objects]
    /\ None \notin {"downloading", "parsing", "validating", "optimizing",
                    "ready", "failed"}

VARIABLES file,      \* the positions that are problematic in the model
          scene,     \* what useGLTF holds: None, or whether it was read,
                     \* the objects left and those of them problematic
          cache,     \* indices kept in localStorage, or None
          viewer,    \* the viewer: how often mounted, phase, slider
          walks,     \* traversals in chunks: mount, objects, problematic
          passes,    \* writes of the materials: the value they write
          material,  \* the value the materials have
          outdated   \* history: the model was replaced or the cache expired

sceneVars == <<file, scene, cache, viewer, walks, passes, material, outdated>>

Values == 0..1      \* of the slider of roughness, say; 1 is the default

Loaded == scene # None /\ scene.ok

SceneOf(bad) == [ok |-> TRUE, left |-> Objects, bad |-> bad]
Unread == [ok |-> FALSE, left |-> {}, bad |-> {}]

Without(gone) == scene' = [scene EXCEPT !.left = @ \ gone, !.bad = @ \ gone]

(* The traversal counts the root, then the objects that are left. *)
IndexOf(p, objects) == Cardinality({q \in objects : q <= p})

SceneInit(bad) ==
    /\ file = bad
    /\ scene = None /\ cache = None
    /\ viewer = [mounts |-> 0, phase |-> None, slider |-> 1]
    /\ walks = {} /\ passes = {} /\ material = None
    /\ outdated = FALSE

Phase(p) == viewer' = [viewer EXCEPT !.phase = p]
Viewing == viewer.phase # None

-----------------------------------------------------------------------------
(* A resolution is picked on the page of the model. *)
HandleResolutionClick ==
    /\ ~Viewing /\ Click
    /\ viewer' = [mounts |-> viewer.mounts + 1, phase |-> "downloading",
                  slider |-> 1]
    /\ UNCHANGED <<file, scene, cache, walks, passes, material, outdated>>

(* Another page of the site: what runs goes on. *)
LeaveViewer ==
    /\ Viewing /\ Click
    /\ Phase(None)
    /\ UNCHANGED <<file, scene, cache, walks, passes, material, outdated>>

(* The site is loaded again: only localStorage stays. *)
ReloadSite ==
    /\ ~Viewing /\ Click
    /\ scene' = None /\ material' = None
    /\ walks' = {} /\ passes' = {}
    /\ viewer' = [viewer EXCEPT !.mounts = 0]
    /\ UNCHANGED <<file, cache, outdated>>

(* Roughness or metalness. *)
MoveMaterial ==
    /\ Viewing /\ Click
    /\ viewer' = [viewer EXCEPT !.slider = 1 - @]
    /\ UNCHANGED <<file, scene, cache, walks, passes, material, outdated>>

(* An administrator replaces the model behind the same link, or the seven  *)
(* days of the cache are over.                                             *)
Outdate ==
    /\ ~outdated /\ Click
    /\ \/ \E bad \in SUBSET Objects : bad # file /\ file' = bad
                                      /\ UNCHANGED cache
       \/ cache # None /\ cache' = None /\ UNCHANGED file
    /\ outdated' = TRUE
    /\ UNCHANGED <<scene, viewer, walks, passes, material>>

-----------------------------------------------------------------------------
(* Suspended until the model is there, or until the next load of the site  *)
(* when it could not be read.                                              *)
Downloads ==
    /\ viewer.phase = "downloading" /\ Alone
    /\ \E s \in IF scene = None THEN {SceneOf(file), Unread} ELSE {scene} :
         /\ scene' = s
         /\ Phase(IF s.ok THEN "parsing" ELSE "failed")
    /\ UNCHANGED <<file, cache, walks, passes, material, outdated>>

(* By the indices kept of an earlier traversal. *)
RemoveCached == Without({p \in scene.left : IndexOf(p, scene.left) \in cache})

(* validateScene: at once with the cache, in chunks without. *)
ValidateScene ==
    /\ viewer.phase = "parsing" /\ Alone
    /\ IF cache # None
       THEN RemoveCached /\ Phase("optimizing") /\ UNCHANGED walks
       ELSE /\ walks' = walks \cup {[by |-> viewer.mounts, bad |-> scene.bad,
                                     objects |-> scene.left]}
            /\ Phase("validating")
            /\ UNCHANGED scene
    /\ UNCHANGED <<file, cache, passes, material, outdated>>

(* Mutant: the indices are counted after the objects are gone. *)
CacheModelDataLate(w) ==
    cache' = {IndexOf(p, w.objects \ w.bad) : p \in w.bad}

CacheModelData(w) == cache' = {IndexOf(p, w.objects) : p \in w.bad}

(* Mutant: a viewer is ready before its traversal ends. *)
WalkEndsUnclean(w) ==
    /\ Alone
    /\ walks' = walks \ {w}
    /\ CacheModelData(w)
    /\ IF viewer.phase = "validating" /\ viewer.mounts = w.by
       THEN Phase("optimizing") ELSE UNCHANGED viewer
    /\ UNCHANGED <<file, scene, passes, material, outdated>>

(* The last chunk: problematic objects go, indices are kept. *)
WalkEnds(w) ==
    /\ Alone
    /\ walks' = walks \ {w}
    /\ Without(w.bad)
    /\ CacheModelData(w)
    /\ IF viewer.phase = "validating" /\ viewer.mounts = w.by
       THEN Phase("optimizing") ELSE UNCHANGED viewer
    /\ UNCHANGED <<file, passes, material, outdated>>

(* optimizeMaterials: ready first, with the value of this render; the      *)
(* effect does not run again in another phase, whatever the sliders say.   *)
OptimizeMaterials ==
    /\ viewer.phase = "optimizing" /\ Alone
    /\ Phase("ready")
    /\ passes' = passes \cup {viewer.slider}
    /\ UNCHANGED <<file, scene, cache, walks, material, outdated>>

(* The last chunk of a pass. *)
PassEnds(v) ==
    /\ Alone
    /\ passes' = passes \ {v}
    /\ material' = v
    /\ UNCHANGED <<file, scene, cache, viewer, walks, outdated>>

SceneAnswers ==
    \/ Downloads \/ ValidateScene \/ OptimizeMaterials
    \/ \E w \in walks : WalkEnds(w)
    \/ \E v \in passes : PassEnds(v)

SceneNext ==
    \/ HandleResolutionClick \/ LeaveViewer \/ ReloadSite \/ MoveMaterial
    \/ Outdate
    \/ SceneAnswers

(* A viewer that stays open becomes ready, or cannot load its model. *)
SceneWaits == viewer.phase \notin {None, "ready", "failed"}

-----------------------------------------------------------------------------
SceneTypeOK ==
    /\ file \subseteq Objects
    /\ Loaded => scene.left \subseteq Objects /\ scene.bad \subseteq Objects
    /\ cache = None \/ cache \subseteq Objects
    /\ viewer.phase \in {None, "downloading", "parsing", "validating",
                         "optimizing", "ready", "failed"}
    /\ viewer.slider \in Values /\ passes \subseteq Values
    /\ material \in Values \cup {None}

(* A viewer that is ready renders no problematic object: each way out of   *)
(* the validation removed them.                                            *)
ReadyIsClean ==
    (viewer.phase = "ready" /\ ~outdated) => scene.bad = {}

(* The first viewer after the site was loaded shows every good object,     *)
(* whoever traversed the model before it and kept the indices.             *)
FirstIsWhole ==
    (viewer.phase = "ready" /\ viewer.mounts = 1 /\ ~outdated)
        => scene.left = Objects \ file

(***************************************************************************)
(* What a viewer shows when it is ready: the model without its problematic *)
(* objects, also when a viewer that was left is still traversing the same  *)
(* scene, and nothing else is missing in the first viewer after a load of  *)
(* the site.  The kept indices have to be of this model.                   *)
(***************************************************************************)
SceneInStep == ReadyIsClean /\ FirstIsWhole

(***************************************************************************)
(* "Removed ... problematic objects from cache" (MapViewer3D.tsx): what is *)
(* taken out of the scene is problematic.  The indices are of the whole    *)
(* scene, and the scene of a second viewer is not whole any more.          *)
(***************************************************************************)
OnlyProblematicRemoved ==
    Loaded /\ ~outdated => Objects \ file \subseteq scene.left
=============================================================================

--------------------------- MODULE ViewerControls ---------------------------
(***************************************************************************)
(* Moving through the 3D model of a map (MapViewer3D): three modes, each   *)
(* with its own listeners of the keyboard and its own memory of the keys,  *)
(* a pointer that is locked and unlocked by the browser when it likes, and *)
(* the walker, whose every frame looks at the ground and for a ladder.     *)
(* Heights and distances are what a ray hits, the velocity is its sign.    *)
(***************************************************************************)
EXTENDS Browser

CONSTANTS Speeds     \* speeds that can be reached: 1 to the fastest

ASSUME SpeedsAssumption == /\ IsFiniteSet(Speeds) /\ 10 \in Speeds
                           /\ Speeds = 1..Cardinality(Speeds)

VARIABLES mode,      \* controlMode
          held,      \* keys that are down
          moves,     \* moveState of FlyControls and of WalkControls
          unseen,    \* history: flags of moves whose key went up or down last
                     \* where the mode's handlers did not take it
          walker,    \* playerState: ladder, ground, crouching, velocity.y
          pointer,   \* lock: the browser's, the listener's, requests on way
          tuned,     \* moveSpeed, renderDistance, is another slider moved
          slipped    \* history: back to orbit while a lock was asked for

keyVars == <<held, moves, unseen>>
viewerVars == <<mode, keyVars, walker, pointer, tuned, slipped>>

Modes == {"orbit", "fly", "walk"}
Movers == {"fly", "walk"}

(* Left and right are as forward and backward; Space, which only who flies *)
(* remembers, is as a Shift key without the other.                         *)
KeyNames == {"forward", "backward", "crouch", "shiftLeft", "shiftRight", "ctrl"}

(* Both Shift keys set and clear one flag: down of who flies, sprint of    *)
(* who walks.                                                              *)
Flag(k) == IF k \in {"shiftLeft", "shiftRight"} THEN "shift" ELSE k
KeysOf(f) == {k \in KeyNames : Flag(k) = f}

Remembers == [fly  |-> {"forward", "backward", "shift"},
              walk |-> {"forward", "backward", "shift", "crouch"}]

Distance == [orbit |-> 300, fly |-> 500, walk |-> 90]
Fastest == Cardinality(Speeds)
Clamped(n) == IF n < 1 THEN 1 ELSE IF n > Fastest THEN Fastest ELSE n

ViewerInit ==
    /\ mode = "orbit"
    /\ held = {}
    /\ moves = [m \in Movers |-> {}]
    /\ unseen = [m \in Movers |-> {}]
    /\ walker = [ladder |-> FALSE, ground |-> FALSE, crouching |-> FALSE,
                 velocity |-> 0]
    /\ pointer = [locked |-> FALSE, heard |-> FALSE, asked |-> FALSE,
                  leaving |-> FALSE]
    /\ tuned = [speed |-> 10, distance |-> Distance.orbit, moved |-> FALSE]
    /\ slipped = FALSE

-----------------------------------------------------------------------------
(* Walking starts slow, and flying is not that slow; the distance follows  *)
(* when the mode is another one.                                           *)
ModeSpeed(m) ==
    tuned' = [tuned EXCEPT !.distance = IF m = mode THEN @ ELSE Distance[m],
                !.speed = CASE m = "walk" -> 1
                            [] m = "fly" /\ tuned.speed < 5 -> 10
                            [] OTHER -> tuned.speed]

(* A button, F1, F2 or F3.  The old listeners go, with the keys they saw;  *)
(* the listener of the lock is mounted by the modes that need it.          *)
HandleControlModeChange ==
    /\ Click
    /\ \E m \in Modes :
         /\ mode' = m
         /\ ModeSpeed(m)
         /\ pointer' =
              [pointer EXCEPT !.leaving = @ \/ (m = "orbit" /\ pointer.locked),
                 !.heard = @ /\ m # "orbit" /\ mode # "orbit"]
         /\ slipped' = (slipped \/ (m = "orbit" /\ pointer.asked))
    /\ UNCHANGED <<keyVars, walker>>

(* The slider of the distance, and those of the mouse, the light and the   *)
(* materials.                                                              *)
SetSlider ==
    /\ Click
    /\ \/ \E d \in {20, 1000} \ {tuned.distance} :
            tuned' = [tuned EXCEPT !.distance = d]
       \/ tuned' = [tuned EXCEPT !.moved = TRUE]
    /\ UNCHANGED <<mode, keyVars, walker, pointer, slipped>>

(* "Reset All" leaves the distance. *)
ResetAll ==
    /\ Click
    /\ tuned' = [tuned EXCEPT !.moved = FALSE]
    /\ UNCHANGED <<mode, keyVars, walker, pointer, slipped>>

(* Mutant: the speed is not clamped. *)
HandleWheelFar ==
    /\ mode # "orbit" /\ pointer.locked /\ Click
    /\ \E d \in {-1, 1} : tuned' = [tuned EXCEPT !.speed = @ + d]
    /\ UNCHANGED <<mode, keyVars, walker, pointer, slipped>>

(* Only while the pointer is locked. *)
HandleWheel ==
    /\ mode # "orbit" /\ pointer.locked /\ Click
    /\ \E d \in {-1, 1} :
         tuned' = [tuned EXCEPT !.speed = Clamped(@ + d)]
    /\ UNCHANGED <<mode, keyVars, walker, pointer, slipped>>

Unlocked == [pointer EXCEPT !.locked = FALSE, !.heard = FALSE]

(* Without a lock, a slip is over once nothing is asked for. *)
Recovers == slipped' = (slipped /\ pointer.asked)

(* Escape is the browser's. *)
EscapeLock ==
    /\ pointer.locked /\ Click
    /\ pointer' = Unlocked
    /\ Recovers
    /\ UNCHANGED <<mode, keyVars, walker, tuned>>

(* A click on the canvas, where a listener is mounted. *)
RequestPointerLock ==
    /\ mode # "orbit" /\ ~pointer.heard /\ Click
    /\ pointer' = [pointer EXCEPT !.asked = TRUE]
    /\ UNCHANGED <<mode, keyVars, walker, tuned, slipped>>

(* pointerlockchange, for those who listen. *)
LockGranted ==
    /\ pointer.asked /\ Alone
    /\ pointer' = [pointer EXCEPT !.asked = FALSE, !.locked = TRUE,
                                  !.heard = mode # "orbit"]
    /\ UNCHANGED <<mode, keyVars, walker, tuned, slipped>>

(* document.exitPointerLock() of a switch to orbit. *)
LockLeft ==
    /\ pointer.leaving /\ Alone
    /\ pointer' = [Unlocked EXCEPT !.leaving = FALSE]
    /\ Recovers
    /\ UNCHANGED <<mode, keyVars, walker, tuned>>

-----------------------------------------------------------------------------
(* The handler of the mode that is on takes a key it knows; who flies does *)
(* not take the letters while Ctrl is down.                                *)
Takes(m, k) ==
    /\ mode = m /\ Flag(k) \in Remembers[m]
    /\ m = "fly" /\ "ctrl" \in held => k \notin {"forward", "backward"}

(* keydown: the flag is set, and C crouches. *)
Pressing(k) ==
    /\ moves' = [m \in Movers |-> IF Takes(m, k) THEN moves[m] \cup {Flag(k)}
                                                 ELSE moves[m]]
    /\ walker' = [walker EXCEPT !.crouching =
                                  @ \/ (mode = "walk" /\ k = "crouch")]

(* What the mode m did not see of keys with the flags fs. *)
Missed(m, fs) == unseen[m] \cup (fs \cap Remembers[m])

KeyDown ==
    /\ Click
    /\ \E k \in KeyNames \ held :
         /\ held' = held \cup {k}
         /\ Pressing(k)
         /\ unseen' = [m \in Movers |-> IF Takes(m, k)
                                        THEN unseen[m] \ {Flag(k)}
                                        ELSE Missed(m, {Flag(k)})]
    /\ UNCHANGED <<mode, pointer, tuned, slipped>>

(* The keyboard repeats a key that is held. *)
KeyRepeats ==
    /\ Alone
    /\ \E k \in held :
         /\ Pressing(k)
         /\ unseen' = [m \in Movers |-> IF Takes(m, k)
                                        THEN unseen[m] \ {Flag(k)}
                                        ELSE unseen[m]]
    /\ UNCHANGED <<mode, held, pointer, tuned, slipped>>

(* Mutant: a key-up with Ctrl is ignored as a key-down is. *)
ReleasingTaken(k) ==
    /\ moves' = [m \in Movers |-> IF Takes(m, k) THEN moves[m] \ {Flag(k)}
                                                 ELSE moves[m]]
    /\ walker' = [walker EXCEPT !.crouching =
                                  @ /\ ~(mode = "walk" /\ k = "crouch")]

(* keyup, with Ctrl or without: the flag is cleared by either Shift. *)
Releasing(k) ==
    /\ moves' = [m \in Movers |-> IF mode = m THEN moves[m] \ {Flag(k)}
                                              ELSE moves[m]]
    /\ walker' = [walker EXCEPT !.crouching =
                                  @ /\ ~(mode = "walk" /\ k = "crouch")]

KeyUp ==
    /\ Click
    /\ \E k \in held :
         /\ held' = held \ {k}
         /\ Releasing(k)
         /\ unseen' = [m \in Movers |-> IF mode = m
                                        THEN unseen[m] \ {Flag(k)}
                                        ELSE Missed(m, {Flag(k)})]
    /\ UNCHANGED <<mode, pointer, tuned, slipped>>

(* Another window: the keys are released there. *)
LoseFocus ==
    /\ held # {} /\ Click
    /\ held' = {}
    /\ unseen' = [m \in Movers |-> Missed(m, {Flag(k) : k \in held})]
    /\ pointer' = Unlocked
    /\ Recovers
    /\ UNCHANGED <<mode, moves, walker, tuned>>

(* Space: off the ladder, or up from the ground of the last frame. *)
Jump ==
    /\ mode = "walk" /\ Click
    /\ walker' = IF walker.ladder \/ (walker.ground /\ ~walker.crouching)
                 THEN [walker EXCEPT !.ladder = FALSE, !.velocity = 1]
                 ELSE walker
    /\ UNCHANGED <<mode, keyVars, pointer, tuned, slipped>>

-----------------------------------------------------------------------------
Pressed(f) == f \in moves["walk"]

(* On the ladder by walking towards one that is near, off it by walking    *)
(* backwards or away from it.                                              *)
OnLadder(near) ==
    /\ near /\ ~Pressed("backward")
    /\ walker.ladder \/ Pressed("forward")

Mounts(near) == near /\ Pressed("forward") /\ ~walker.ladder

(* What gravity makes of it in a frame. *)
Falling(v) == IF v > 0 THEN {v, -1} ELSE {-1}

(* None on a ladder; on the ground a fall ends, as does a jump on a step   *)
(* of the ground or of the walker's height; in the air gravity takes over. *)
Velocities(near, ground, stepped) ==
    LET v == IF Mounts(near) THEN 0 ELSE walker.velocity
    IN  CASE OnLadder(near) -> {0}
          [] ~OnLadder(near) /\ ground -> {IF v < 0 \/ stepped THEN 0 ELSE v}
          [] OTHER -> Falling(v)

(* A frame: near a ladder or not, above ground or not, the ground stepped  *)
(* up or down, and a ladder that was bumped into on the way.               *)
WalkFrame ==
    /\ mode = "walk" /\ Alone
    /\ \E near, ground, stepped, bumped \in BOOLEAN :
         /\ bumped => Pressed("forward") /\ ~OnLadder(near)
         /\ \E v \in IF bumped THEN {0} ELSE Velocities(near, ground, stepped) :
              walker' = [walker EXCEPT !.ladder = OnLadder(near) \/ bumped,
                                       !.ground = ground, !.velocity = v]
    /\ UNCHANGED <<mode, keyVars, pointer, tuned, slipped>>

ViewerNext ==
    \/ HandleControlModeChange \/ SetSlider \/ ResetAll \/ HandleWheel
    \/ EscapeLock \/ RequestPointerLock \/ LockGranted \/ LockLeft
    \/ KeyDown \/ KeyRepeats \/ KeyUp \/ LoseFocus \/ Jump \/ WalkFrame

-----------------------------------------------------------------------------
ViewerTypeOK ==
    /\ mode \in Modes /\ held \subseteq KeyNames
    /\ \A m \in Movers : /\ moves[m] \subseteq Remembers[m]
                         /\ unseen[m] \subseteq Remembers[m]
    /\ walker.velocity \in {-1, 0, 1}
    /\ tuned.speed \in Speeds
    /\ tuned.distance \in {20, 90, 300, 500, 1000}

(* No key sticks: where the handlers took what last happened to the keys   *)
(* of a flag, the flag is only set while such a key is held, and it is set *)
(* while all of them are, in the modes that are off too, whatever Ctrl and *)
(* the other Shift do, and however the keyboard repeats.  What a mode did  *)
(* not see of a key is over when the key is pressed or released in it.     *)
NoKeySticks ==
    /\ \A m \in Movers : \A f \in Remembers[m] \ unseen[m] :
          /\ f \in moves[m] => \E k \in held : Flag(k) = f
          /\ KeysOf(f) \subseteq held => f \in moves[m]
    /\ walker.crouching = ("crouch" \in moves["walk"])

(* Who climbs does not fall: on a ladder there is no velocity, whichever   *)
(* way the walker got onto it, in the air, from a jump or from the ground. *)
ClimbingIsStill == walker.ladder => walker.velocity = 0

(* The mouse turns the camera exactly while the pointer is locked, and     *)
(* orbit does not keep the pointer, once the browser has done what it was  *)
(* asked and no lock was on its way to orbit.                              *)
LockIsHeard ==
    (~slipped /\ ~pointer.leaving)
        => pointer.heard = pointer.locked /\ (mode = "orbit" => ~pointer.locked)

(***************************************************************************)
(* The camera does what the keys and the mouse ask for in the mode that is *)
(* on, however modes, jumps and ladders follow each other: what sticks is  *)
(* what the listeners were not there for.                                  *)
(***************************************************************************)
ControlsInStep == NoKeySticks /\ ClimbingIsStill /\ LockIsHeard
=============================================================================

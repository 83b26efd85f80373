---------------------------- MODULE PagesProofs ----------------------------
(***************************************************************************)
(* Lemmas about pages of the website: an inductive invariant of the radar, *)
(* the graph, the lists, the 3D viewer, the live feed, the map search, the *)
(* admins' tables and maps and the switches of what is shown of a player,  *)
(* for every value of their constants, and the radar's theorems.           *)
(* WebsiteProofs goes on with the other pages that write, and states what  *)
(* holds of the whole site.                                                *)
(***************************************************************************)
EXTENDS Website, FunctionTheorems, FiniteSetTheorems, TLAPS

Windows  == [start : Int, end : Int]
Playings == [end : Int, interval : Nat \ {0}]
Askings  == [at : Int, interval : Nat \ {0}]

(* No window ends after the clock, nor before it starts; a timer knows a   *)
(* window that does not end after the present one.                         *)
WindowInv ==
    /\ Opened <= now
    /\ window.start <= window.end /\ window.end <= now
    /\ liveTimer # None => /\ liveTimer.start <= liveTimer.end
                           /\ liveTimer.end <= window.end
    /\ playTimer # None => playTimer.end <= window.end

(* What is debounced is the cursor and the interval of now: whoever moves  *)
(* one of them debounces again.                                            *)
DebounceInv == debounce # None => debounce = Asked(cursor, interval)

(* What CursorInWindow and LayerFollows need to be inductive. *)
RadarInv == /\ RadarTypeOK /\ interval \in Intervals
            /\ OneClock /\ LayerFollows /\ CursorInWindow
            /\ WindowInv /\ DebounceInv

-----------------------------------------------------------------------------
LEMMA LongestInterval ==
    /\ Intervals \subseteq Nat \ {0}
    /\ MaxInterval \in Nat \ {0}
    /\ \A x \in Intervals : x <= MaxInterval
  <1>1. Intervals \subseteq Nat \ {0}
    BY RadarAssumption DEF Intervals
  <1>2. PICK s \in Intervals : \A x \in Intervals : x <= s
    BY RadarAssumption
  <1>3. /\ MaxInterval \in Intervals
        /\ \A x \in Intervals : x <= MaxInterval
    BY <1>2 DEF MaxInterval
  <1>. QED  BY <1>1, <1>3

(* An interval that a range offers. *)
LEMMA Offered ==
    ASSUME NEW r \in Ranges
    PROVE  /\ \A i \in DOMAIN Options[r] : Options[r][i] \in Intervals
           /\ Options[r][1] \in Intervals
  <1>1. \A i \in DOMAIN Options[r] : Options[r][i] \in Intervals
    BY DEF Intervals
  <1>2. 1 \in DOMAIN Options[r]
    BY RadarAssumption
  <1>. QED  BY <1>1, <1>2

(* The slider goes back by less than a minute. *)
LEMMA CutToMinute ==
    ASSUME NEW t \in Int
    PROVE  /\ WholeMinute(t) \in Int /\ WholeMinute(t) <= t
           /\ t - WholeMinute(t) < Minute
  <1>1. Minute \in Int /\ Minute > 0
    BY RadarAssumption
  <1>2. t % Minute \in 0..(Minute - 1)
    BY <1>1
  <1>. QED  BY <1>1, <1>2 DEF WholeMinute

LEMMA Records ==
    /\ \A s, e \in Int : Window(s, e) \in Windows /\ Window(s, e) # None
    /\ \A e \in Int, i \in Nat \ {0} :
         [end |-> e, interval |-> i] \in Playings \ {None}
    /\ \A t \in Int, i \in Nat \ {0} :
         Asked(t, i) \in Askings /\ Asked(t, i) # None
  BY NothingAssumption DEF Windows, Playings, Askings, Window, Asked

LEMMA WindowOfRange ==
    ASSUME NEW r \in Ranges, now \in Int, Opened <= now
    PROVE  /\ WindowOf(r) \in Windows
           /\ WindowOf(r).start <= now /\ WindowOf(r).end = now
  <1>1. CASE r = "all"
    BY <1>1, RadarAssumption DEF WindowOf, Window, Windows
  <1>2. CASE r # "all"
    <2>1. Span[r] \in Nat \ {0}
      BY <1>2, RadarAssumption
    <2>. QED  BY <1>2, <2>1 DEF WindowOf, Window, Windows
  <1>. QED  BY <1>1, <1>2

LEMMA RadarStarts == RadarInit => RadarInv
  <1>. SUFFICES ASSUME RadarInit PROVE RadarInv
    OBVIOUS
  <1>1. now = Opened /\ now \in Int /\ cursor = now
        /\ interval = TenMinutes /\ TenMinutes \in Nat \ {0}
    BY RadarAssumption, LongestInterval DEF RadarInit
  <1>2. /\ window \in Windows /\ window.start <= now /\ window.end = now
    <2>1. "1month" \in Ranges /\ window = WindowOf("1month")
      BY RadarAssumption DEF RadarInit
    <2>. QED  BY <1>1, <2>1, WindowOfRange
  <1>3. /\ liveTimer \in Windows /\ liveTimer # None
        /\ liveTimer.start <= liveTimer.end /\ liveTimer.end = now
    BY <1>1, Records, RadarAssumption DEF RadarInit, Window
  <1>4. debounce \in Askings /\ debounce # None
    BY <1>1, Records, RadarAssumption DEF RadarInit
  <1>5. RadarTypeOK
    <2>1. \A a \in {debounce, layer} : a = None \/ a \in Askings
      BY <1>4 DEF RadarInit
    <2>2. range \in Ranges /\ isLive \in BOOLEAN /\ isPlaying \in BOOLEAN
      BY RadarAssumption DEF RadarInit
    <2>3. playTimer = None
      BY DEF RadarInit
    <2>. QED
      BY <1>1, <1>2, <1>3, <2>1, <2>2, <2>3
      DEF RadarTypeOK, Windows, Askings
  <1>6. interval \in Intervals
    BY <1>1, RadarAssumption
  <1>7. OneClock /\ LayerFollows /\ DebounceInv
    BY <1>1, <1>3, <1>4 DEF RadarInit, OneClock, LayerFollows, DebounceInv
  <1>8. WindowInv
    BY <1>1, <1>2, <1>3 DEF RadarInit, WindowInv, Windows
  <1>9. CursorInWindow
    BY <1>1, <1>2, LongestInterval, RadarAssumption
    DEF CursorInWindow, Windows
  <1>. QED  BY <1>5, <1>6, <1>7, <1>8, <1>9 DEF RadarInv

-----------------------------------------------------------------------------
(* What RadarInv says of one state, part by part. *)
LEMMA Facts ==
    ASSUME RadarInv
    PROVE  /\ now \in Int /\ Opened \in Int /\ Opened <= now
           /\ window \in Windows /\ window.start \in Int /\ window.end \in Int
           /\ window.start <= window.end /\ window.end <= now
           /\ range \in Ranges /\ cursor \in Int
           /\ interval \in Intervals /\ interval \in Nat \ {0}
           /\ isLive \in BOOLEAN /\ isPlaying \in BOOLEAN
           /\ window.start - cursor < Minute /\ Minute \in Nat \ {0}
           /\ TenMinutes \in Intervals /\ TenMinutes \in Nat \ {0}
           /\ 2 * (cursor - window.end) <= MaxInterval
           /\ MaxInterval \in Nat \ {0} /\ interval <= MaxInterval
  BY RadarAssumption, LongestInterval
  DEF RadarInv, RadarTypeOK, WindowInv, CursorInWindow, Windows

(* The timers, each with the mode it belongs to. *)
TimersInv ==
    /\ liveTimer = None \/ liveTimer \in Windows
    /\ playTimer = None \/ playTimer \in Playings
    /\ OneClock
    /\ liveTimer # None => /\ liveTimer.start <= liveTimer.end
                           /\ liveTimer.end <= window.end
    /\ playTimer # None => playTimer.end <= window.end

(* The layer, and what it will be asked for. *)
LayerInv ==
    /\ \A a \in {debounce, layer} : a = None \/ a \in Askings
    /\ LayerFollows /\ DebounceInv

(* The bar. *)
BarInv ==
    /\ now \in Int /\ Opened <= now
    /\ window \in Windows
    /\ window.start <= window.end /\ window.end <= now
    /\ range \in Ranges /\ interval \in Intervals
    /\ cursor \in Int /\ window.start - cursor < Minute
    /\ 2 * (cursor - window.end) <= MaxInterval

LEMMA Parts == RadarInv => TimersInv /\ LayerInv /\ BarInv
  <1>1. RadarInv => TimersInv
    BY DEF RadarInv, TimersInv, RadarTypeOK, WindowInv, Windows, Playings
  <1>2. RadarInv => LayerInv
    BY DEF RadarInv, LayerInv, RadarTypeOK, Askings
  <1>3. RadarInv => BarInv
    BY DEF RadarInv, BarInv, RadarTypeOK, WindowInv, CursorInWindow, Windows
  <1>. QED  BY <1>1, <1>2, <1>3

(* After a step, the parts are the invariant again. *)
LEMMA Joined ==
    ASSUME TimersInv', LayerInv', BarInv',
           isLive' \in BOOLEAN, isPlaying' \in BOOLEAN
    PROVE  RadarInv'
  <1>1. interval' \in Nat \ {0}
    BY LongestInterval DEF BarInv
  <1>2. RadarTypeOK'
    BY <1>1 DEF TimersInv, LayerInv, BarInv, RadarTypeOK, Windows, Playings,
                Askings
  <1>3. WindowInv' /\ CursorInWindow'
    BY DEF TimersInv, BarInv, WindowInv, CursorInWindow
  <1>. QED  BY <1>2, <1>3 DEF RadarInv, TimersInv, LayerInv, BarInv

(* A cursor that moves is debounced, so the layer follows it later. *)
LEMMA ShownWindow ==
    ASSUME LayerInv, NEW t \in Int, NEW i \in Nat \ {0},
           ShowAt(t, i), interval' = i, layer' = layer
    PROVE  LayerInv' /\ cursor' = t
  <1>1. /\ debounce' \in Askings /\ debounce' # None
        /\ debounce' = Asked(cursor', interval')
    BY Records DEF ShowAt
  <1>. QED  BY <1>1 DEF LayerInv, LayerFollows, DebounceInv, ShowAt

(* What leaves the bar alone leaves the layer alone. *)
LEMMA LayerKept ==
    ASSUME LayerInv, UNCHANGED <<debounce, layer, cursor, interval>>
    PROVE  LayerInv'
  BY DEF LayerInv, LayerFollows, DebounceInv

LEMMA BarKept ==
    ASSUME BarInv, UNCHANGED <<now, window, range, interval, cursor>>
    PROVE  BarInv'
  BY DEF BarInv

(* The cursor moves within what the window allows. *)
LEMMA BarMoves ==
    ASSUME BarInv, UNCHANGED <<now, window, range, interval>>,
           cursor' \in Int, window.start - cursor' < Minute,
           2 * (cursor' - window.end) <= MaxInterval
    PROVE  BarInv'
  BY DEF BarInv

(* The live mode ends; the animation goes on as it did. *)
LEMMA LiveLeft ==
    ASSUME TimersInv, LeaveLive, UNCHANGED <<window, isPlaying, playTimer>>,
           isPlaying \in BOOLEAN
    PROVE  TimersInv' /\ isLive' \in BOOLEAN /\ isPlaying' \in BOOLEAN
  BY DEF TimersInv, LeaveLive, OneClock

(* The window ends no earlier, and the timers go on. *)
LEMMA TimersKept ==
    ASSUME TimersInv, UNCHANGED <<isLive, isPlaying, liveTimer, playTimer>>,
           window \in Windows, window' \in Windows, window.end <= window'.end,
           isLive \in BOOLEAN, isPlaying \in BOOLEAN
    PROVE  TimersInv' /\ isLive' \in BOOLEAN /\ isPlaying' \in BOOLEAN
  BY DEF TimersInv, OneClock, Windows, Playings

-----------------------------------------------------------------------------
LEMMA RadarStep == RadarInv /\ [RadarNext]_radarVars => RadarInv'
  <1>. SUFFICES ASSUME RadarInv, [RadarNext]_radarVars
                PROVE  RadarInv'
    OBVIOUS
  <1>. TimersInv /\ LayerInv /\ BarInv
    BY Parts
  <1>. SUFFICES /\ TimersInv' /\ LayerInv' /\ BarInv'
                /\ isLive' \in BOOLEAN /\ isPlaying' \in BOOLEAN
    BY Joined
  <1>1. CASE TogglePlay
    <2>1. /\ UNCHANGED <<now, window, range, cursor, interval, debounce, layer>>
      BY <1>1 DEF TogglePlay
    <2>2. BarInv' /\ LayerInv'
      BY <2>1, BarKept, LayerKept
    <2>3. CASE isPlaying
      BY <1>1, <2>1, <2>2, <2>3, Facts
      DEF TogglePlay, StopPlay, TimersInv, OneClock
    <2>4. CASE ~isPlaying
      <3>1. [end |-> window.end, interval |-> interval] \in Playings \ {None}
        BY Facts, Records
      <3>2. /\ isPlaying' = TRUE /\ LeaveLive
            /\ playTimer' = [end |-> window.end, interval |-> interval]
        BY <1>1, <2>4 DEF TogglePlay
      <3>3. /\ playTimer' \in Playings /\ playTimer' # None
            /\ playTimer'.end = window.end
        BY <3>1, <3>2
      <3>4. TimersInv'
        <4>1. liveTimer' = None /\ isLive' = FALSE
          BY <3>2 DEF LeaveLive
        <4>2. OneClock'
          BY <3>2, <3>3, <4>1 DEF OneClock
        <4>3. playTimer'.end <= window'.end
          BY <2>1, <3>3, Facts
        <4>. QED  BY <3>3, <4>1, <4>2, <4>3 DEF TimersInv
      <3>. QED  BY <2>2, <3>2, <3>4 DEF LeaveLive
    <2>. QED  BY <2>2, <2>3, <2>4
  <1>2. CASE ToggleLive
    <2>1. CASE isLive
      <3>1. UNCHANGED <<now, window, range, cursor, interval, debounce, layer>>
        BY <1>2, <2>1 DEF ToggleLive
      <3>2. BarInv' /\ LayerInv'
        BY <3>1, BarKept, LayerKept
      <3>. QED
        BY <1>2, <2>1, <3>1, <3>2, Facts, LiveLeft DEF ToggleLive
    <2>2. CASE ~isLive
      <3>1. /\ ToLive(window, TenMinutes) /\ interval' = TenMinutes
            /\ StopPlay
            /\ isLive' = TRUE /\ liveTimer' = window
            /\ UNCHANGED <<now, range, layer>>
        BY <1>2, <2>2 DEF ToggleLive
      <3>2. /\ LayerInv' /\ cursor' = now
        BY <3>1, Facts, ShownWindow DEF ToLive
      <3>3. /\ window' \in Windows /\ window'.end = now
            /\ window'.start <= now
        BY <3>1, Facts DEF ToLive, Window, Windows
      <3>6. /\ window'.start - cursor' < Minute
            /\ 2 * (cursor' - window'.end) <= MaxInterval
        BY <3>2, <3>3, Facts DEF Windows
      <3>4. BarInv'
        BY <3>1, <3>2, <3>3, <3>6, Facts DEF BarInv
      <3>5. window # None
        BY Facts, NothingAssumption DEF Windows
      <3>. QED
        BY <3>1, <3>2, <3>3, <3>4, <3>5, Facts
        DEF TimersInv, OneClock, StopPlay
    <2>. QED  BY <2>1, <2>2
  <1>3. CASE StepBack
    <2>. DEFINE t == IF cursor - interval < window.start THEN window.start
                                                         ELSE cursor - interval
    <2>1. ShowAt(t, interval) /\ LeaveLive
          /\ UNCHANGED <<now, window, range, interval, isPlaying, playTimer,
                         layer>>
      BY <1>3 DEF StepBack
    <2>2. /\ t \in Int /\ window.start <= t
          /\ window.start - t < Minute
          /\ 2 * (t - window.end) <= MaxInterval
      BY Facts
    <2>. QED  BY <2>1, <2>2, ShownWindow, BarMoves, LiveLeft, Facts
  <1>4. CASE StepForward
    <2>. DEFINE t == IF cursor + interval > window.end THEN window.end
                                                      ELSE cursor + interval
    <2>1. ShowAt(t, interval) /\ LeaveLive
          /\ UNCHANGED <<now, window, range, interval, isPlaying, playTimer,
                         layer>>
      BY <1>4 DEF StepForward
    <2>2. /\ t \in Int /\ window.start - t < Minute
          /\ 2 * (t - window.end) <= MaxInterval
      BY Facts
    <2>. QED  BY <2>1, <2>2, ShownWindow, BarMoves, LiveLeft, Facts
  <1>5. CASE MoveSlider
    <2>1. PICK offset \in Snapped :
            ShowAt(WholeMinute(window.start + offset), interval)
      BY <1>5 DEF MoveSlider
    <2>2. LeaveLive /\ UNCHANGED <<now, window, range, interval, isPlaying,
                                   playTimer, layer>>
      BY <1>5 DEF MoveSlider
    <2>3. PICK k \in 0..(window.end - window.start + 1) :
            /\ offset = k * interval
            /\ 2 * (k * interval) <= 2 * (window.end - window.start) + interval
      BY DEF Snapped
    <2>4. offset \in Nat
      <3>1. k \in Nat /\ interval \in Nat
        BY <2>3, Facts
      <3>. QED  BY <2>3, <3>1
    <2>. DEFINE t == WholeMinute(window.start + offset)
    <2>5. /\ t \in Int /\ window.start - t < Minute
          /\ 2 * (t - window.end) <= MaxInterval
      <3>1. 2 * offset <= 2 * (window.end - window.start) + interval
        BY <2>3
      <3>2. /\ t \in Int /\ t <= window.start + offset
            /\ window.start + offset - t < Minute
        BY <2>4, CutToMinute, Facts
      <3>. QED  BY <2>4, <3>1, <3>2, Facts
    <2>6. LayerInv' /\ cursor' = t
      BY <2>1, <2>2, <2>5, ShownWindow, Facts
    <2>7. /\ cursor' \in Int /\ window.start - cursor' < Minute
          /\ 2 * (cursor' - window.end) <= MaxInterval
      BY <2>5, <2>6
    <2>8. BarInv'
      BY <2>2, <2>7, BarMoves
    <2>. QED  BY <2>2, <2>6, <2>8, LiveLeft, Facts
  <1>6. CASE \E r \in Ranges : ChangeRange(r)
    <2>1. PICK r \in Ranges : ChangeRange(r)
      BY <1>6
    <2>2. /\ window' \in Windows /\ window'.end = now /\ window'.start <= now
      BY <2>1, WindowOfRange, Facts DEF ChangeRange
    <2>3. interval' \in Intervals /\ interval' \in Nat \ {0}
      BY <2>1, Offered, Facts, LongestInterval DEF ChangeRange
    <2>. DEFINE t == IF cursor < window'.start THEN window'.start ELSE cursor
    <2>4. /\ t \in Int /\ window'.start - t < Minute
          /\ 2 * (t - now) <= MaxInterval
      BY <2>2, Facts DEF Windows
    <2>5. /\ ShowAt(t, interval') /\ range' = r
          /\ UNCHANGED <<now, isLive, isPlaying, liveTimer, playTimer, layer>>
      BY <2>1 DEF ChangeRange
    <2>6. LayerInv' /\ cursor' = t
      BY <2>3, <2>4, <2>5, ShownWindow
    <2>7. BarInv'
      BY <2>2, <2>3, <2>4, <2>5, <2>6, Facts DEF BarInv
    <2>8. window.end <= window'.end
      BY <2>2, Facts
    <2>. QED  BY <2>2, <2>5, <2>6, <2>7, <2>8, TimersKept, Facts
  <1>7. CASE \E i \in DOMAIN Options[range] : ChangeInterval(Options[range][i])
    <2>1. PICK n \in DOMAIN Options[range] : ChangeInterval(Options[range][n])
      BY <1>7
    <2>. DEFINE i == Options[range][n]
    <2>2. i \in Intervals /\ i \in Nat \ {0}
      BY <2>1, Offered, Facts, LongestInterval
    <2>3. /\ interval' = i /\ ShowAt(cursor, i)
          /\ UNCHANGED <<now, window, range, isLive, isPlaying, liveTimer,
                         playTimer, layer>>
      BY <2>1 DEF ChangeInterval
    <2>4. LayerInv' /\ cursor' = cursor
      BY <2>2, <2>3, Facts, ShownWindow
    <2>5. BarInv'
      BY <2>2, <2>3, <2>4 DEF BarInv
    <2>. QED  BY <2>3, <2>4, <2>5, TimersKept, Facts
  <1>8. CASE PlayTick
    <2>. DEFINE next == cursor + playTimer.interval
    <2>1. /\ playTimer \in Playings /\ playTimer # None /\ isPlaying
          /\ playTimer.end <= window.end
      BY <1>8 DEF PlayTick, TimersInv, OneClock
    <2>2. UNCHANGED <<now, window, range, interval, isLive, liveTimer, layer>>
      BY <1>8 DEF PlayTick
    <2>3. CASE next > playTimer.end
      <3>1. StopPlay /\ UNCHANGED <<cursor, debounce>>
        BY <1>8, <2>3 DEF PlayTick
      <3>. QED
        BY <2>1, <2>2, <3>1, BarKept, LayerKept, Facts
        DEF StopPlay, TimersInv, OneClock
    <2>4. CASE ~(next > playTimer.end)
      <3>1. ShowAt(next, interval) /\ UNCHANGED <<isPlaying, playTimer>>
        BY <1>8, <2>4 DEF PlayTick
      <3>2. /\ next \in Int /\ window.start - next < Minute
            /\ 2 * (next - window.end) <= MaxInterval
        BY <2>1, <2>4, Facts DEF Playings
      <3>. QED
        BY <2>2, <3>1, <3>2, ShownWindow, BarMoves, TimersKept, Facts
    <2>. QED  BY <2>3, <2>4
  <1>9. CASE LiveTick
    <2>1. /\ liveTimer \in Windows /\ liveTimer.end <= window.end
          /\ liveTimer.start <= liveTimer.end
      BY <1>9 DEF LiveTick, TimersInv, OneClock
    <2>2. /\ ToLive(liveTimer, interval)
          /\ UNCHANGED <<now, range, interval, isLive, isPlaying, liveTimer,
                         playTimer, layer>>
      BY <1>9 DEF LiveTick
    <2>3. LayerInv' /\ cursor' = now
      BY <2>2, Facts, ShownWindow DEF ToLive
    <2>4. /\ window' \in Windows /\ window'.end = now /\ window'.start <= now
      BY <2>1, <2>2, Facts DEF ToLive, Window, Windows
    <2>7. /\ window'.start - cursor' < Minute
          /\ 2 * (cursor' - window'.end) <= MaxInterval
      BY <2>3, <2>4, Facts DEF Windows
    <2>5. BarInv'
      BY <2>2, <2>3, <2>4, <2>7, Facts DEF BarInv
    <2>6. window.end <= window'.end
      BY <2>4, Facts
    <2>. QED  BY <2>2, <2>3, <2>4, <2>5, <2>6, TimersKept, Facts
  <1>10. CASE LayerUpdates
    <2>1. /\ debounce # None /\ layer' = debounce /\ debounce' = None
          /\ UNCHANGED <<now, window, range, cursor, interval, isLive,
                         isPlaying, liveTimer, playTimer>>
      BY <1>10 DEF LayerUpdates
    <2>2. LayerInv'
      BY <2>1 DEF LayerInv, LayerFollows, DebounceInv, Asked
    <2>. QED  BY <2>1, <2>2, BarKept, TimersKept, Facts
  <1>11. CASE ClockTicks
    <2>1. /\ now' = now + 1
          /\ UNCHANGED <<window, range, cursor, interval, isLive, isPlaying,
                         liveTimer, playTimer, debounce, layer>>
      BY <1>11 DEF ClockTicks
    <2>2. BarInv'
      BY <2>1, Facts DEF BarInv
    <2>. QED  BY <2>1, <2>2, LayerKept, TimersKept, Facts
  <1>12. CASE UNCHANGED radarVars
    BY <1>12, BarKept, LayerKept, TimersKept, Facts DEF radarVars
  <1>. QED
    BY <1>1, <1>2, <1>3, <1>4, <1>5, <1>6, <1>7, <1>8, <1>9, <1>10, <1>11,
       <1>12 DEF RadarNext

-----------------------------------------------------------------------------
LEMMA RadarInvariant == RadarSpec => []RadarInv
  <1>1. RadarInv /\ [RadarNext]_<<browserVars, radarVars>> => RadarInv'
    BY RadarStep
  <1>. QED  BY <1>1, RadarStarts, PTL DEF RadarSpec

(* The clock, the window, the timers and the layer keep their types,       *)
(* whatever ranges and intervals the page offers.                          *)
THEOREM RadarTyping == RadarSpec => []RadarTypeOK
  <1>1. RadarInv => RadarTypeOK
    BY DEF RadarInv
  <1>. QED  BY <1>1, RadarInvariant, PTL

(* The radar's bar, timers and layer stay in step: one clock drives the    *)
(* cursor, the cursor stays in its window, and the layer is asked for what *)
(* the bar shows, for every set of ranges and intervals.                   *)
THEOREM RadarStaysInStep == RadarSpec => []RadarInStep
  <1>1. RadarInv => RadarInStep
    BY DEF RadarInv, RadarInStep
  <1>. QED  BY <1>1, RadarInvariant, PTL

-----------------------------------------------------------------------------
(* The range of dates of a server's page. *)
Sources == {"url", "toolbar", "zoom", "external"}
Ticks   == {"show", "hide", None}

GraphTypes ==
    /\ dates \in [range : AllRanges, source : Sources]
    /\ bar \in [local : AllRanges, apply : BOOLEAN, timer : Ticks]
    /\ zoom \in [timer : AllRanges \cup {None}, skip : BOOLEAN]
    /\ graph \in [reads : SUBSET AllRanges, loading : BOOLEAN,
                  shown : AllRanges \cup {None}, failed : BOOLEAN]

(* The chart reads for no range but the page's. *)
ReadsOfRange == graph.reads \subseteq {dates.range}

(* What the timer of the toolbar will say is true already: whoever changes *)
(* the copy or the range starts it again.                                  *)
BarWillTell ==
    bar.timer # None =>
        (bar.timer = "show") = Judged(bar.local, dates.range)

(* No zoom of the person is under way once something else set the range:   *)
(* the timer is that of the chart's own reset, which is skipped or puts    *)
(* the axis of the click in the place of the range.                        *)
ZoomForgotten ==
    asked.source # "zoom" =>
        \/ /\ dates = [range |-> asked.range, source |-> asked.source]
           /\ zoom.timer = None \/ zoom.skip \/ zoom.timer = asked.axis
        \/ /\ asked.axis # None /\ zoom.timer = None
           /\ dates = [range |-> asked.axis, source |-> "zoom"]

GraphInv == /\ GraphTypes /\ ReadsOfRange /\ ChartShowsRange
            /\ ApplyIsUseful /\ BarWillTell /\ ZoomForgotten

LEMMA GraphStarts == GraphInit => GraphInv
  <1>. SUFFICES ASSUME GraphInit PROVE GraphInv
    OBVIOUS
  <1>1. Today \in AllRanges /\ ~Judged(Today, Today)
    BY GraphAssumption DEF AllRanges, Judged
  <1>2. GraphTypes
    BY <1>1 DEF GraphInit, GraphTypes, Sources, Ticks
  <1>3. ReadsOfRange /\ ChartShowsRange
    BY DEF GraphInit, ReadsOfRange, ChartShowsRange
  <1>5. ApplyIsUseful /\ BarWillTell
    BY GraphAssumption DEF GraphInit, ApplyIsUseful, BarWillTell, Judged
  <1>4. ZoomForgotten
    BY DEF GraphInit, ZoomForgotten
  <1>. QED  BY <1>2, <1>3, <1>4, <1>5 DEF GraphInv

(* The three effects of a new range, which any source may set. *)
LEMMA DatesSet ==
    ASSUME GraphInv, NEW r \in AllRanges, NEW local \in AllRanges,
           NEW by \in Sources, SetDates(r, by, local)
    PROVE  /\ dates' = [range |-> r, source |-> by]
           /\ dates' \in [range : AllRanges, source : Sources]
           /\ bar' \in [local : AllRanges, apply : BOOLEAN, timer : Ticks]
           /\ graph' \in [reads : SUBSET AllRanges, loading : BOOLEAN,
                          shown : AllRanges \cup {None}, failed : BOOLEAN]
           /\ ReadsOfRange' /\ ChartShowsRange'
           /\ ApplyIsUseful' /\ BarWillTell'
  <1>1. /\ dates' = [range |-> r, source |-> by]
        /\ dates'.range = r
    BY DEF SetDates
  <1>2. PICK copy \in AllRanges :
          bar' = [local |-> copy, apply |-> FALSE,
                  timer |-> IF Judged(copy, r) THEN "show" ELSE "hide"]
    BY DEF SetDates, BarFollows
  <1>3. /\ bar'.local = copy /\ bar'.timer \in {"show", "hide"}
        /\ (bar'.timer = "show") = Judged(copy, r)
    BY <1>2 DEF Judged
  <1>4. ApplyIsUseful' /\ BarWillTell'
    BY <1>1, <1>3, GraphAssumption DEF ApplyIsUseful, BarWillTell, Judged
  <1>5. CASE Valid(r)
    <2>1. graph' = [graph EXCEPT !.reads = {r}, !.loading = TRUE,
                                 !.failed = FALSE]
      BY <1>5 DEF SetDates, Fetched
    <2>2. /\ graph'.reads = {r}
          /\ graph' \in [reads : SUBSET AllRanges, loading : BOOLEAN,
                         shown : AllRanges \cup {None}, failed : BOOLEAN]
      BY <2>1 DEF GraphInv, GraphTypes
    <2>. QED  BY <1>1, <1>2, <1>4, <2>2
              DEF ReadsOfRange, ChartShowsRange, Ticks
  <1>6. CASE ~Valid(r)
    <2>1. graph' = [graph EXCEPT !.reads = {}]
      BY <1>6 DEF SetDates, Fetched
    <2>2. /\ graph'.reads = {}
          /\ graph' \in [reads : SUBSET AllRanges, loading : BOOLEAN,
                         shown : AllRanges \cup {None}, failed : BOOLEAN]
      BY <2>1 DEF GraphInv, GraphTypes
    <2>. QED  BY <1>1, <1>2, <1>4, <1>6, <2>2
              DEF ReadsOfRange, ChartShowsRange, Ticks, Valid
  <1>. QED  BY <1>5, <1>6

(* A range that the toolbar or the list of sessions sets. *)
LEMMA OthersSet ==
    ASSUME GraphInv, NEW r \in AllRanges, NEW local \in AllRanges,
           NEW by \in {"toolbar", "external"},
           SetDates(r, by, local), ZoomReset(by), AskedFor
    PROVE  GraphInv'
  <1>1. by \in Sources
    BY DEF Sources
  <1>2. Axis \in AllRanges /\ Skips(by) \in BOOLEAN
    BY GraphAssumption DEF Axis, Skips, AllRanges, GraphInv, GraphTypes
  <1>3. /\ zoom' \in [timer : AllRanges \cup {None}, skip : BOOLEAN]
        /\ zoom'.timer = Axis /\ zoom'.skip = Skips(by)
    BY <1>2 DEF ZoomReset
  <1>4. ZoomForgotten'
    <2>1. /\ dates' = [range |-> r, source |-> by]
          /\ dates'.range = r /\ dates'.source = by
      BY DEF SetDates
    <2>2. /\ asked'.range = r /\ asked'.source = by
          /\ asked'.axis = IF by = "toolbar" /\ dates.source # "toolbar"
                           THEN None ELSE Axis
      BY <2>1 DEF AskedFor
    <2>3. zoom'.skip \/ zoom'.timer = asked'.axis
      BY <1>3, <2>2 DEF Skips
    <2>. QED  BY <2>1, <2>2, <2>3 DEF ZoomForgotten
  <1>. QED  BY <1>1, <1>3, <1>4, DatesSet DEF GraphInv, GraphTypes

LEMMA GraphStep == GraphInv /\ [GraphNext]_graphVars => GraphInv'
  <1>. SUFFICES ASSUME GraphInv, [GraphNext]_graphVars PROVE GraphInv'
    OBVIOUS
  <1>. USE DEF GraphInv
  <1>0. /\ dates.range \in AllRanges /\ dates.source \in Sources
        /\ bar.local \in AllRanges /\ Today \in AllRanges
        /\ graph.reads \subseteq AllRanges
    BY GraphAssumption DEF GraphTypes, AllRanges
  <1>1. CASE PickDate
    <2>1. PICK r \in AllRanges :
            bar' = [bar EXCEPT !.local = r,
                      !.timer = IF Judged(r, dates.range) THEN "show"
                                                          ELSE "hide"]
      BY <1>1 DEF PickDate
    <2>2. UNCHANGED <<dates, zoom, graph, asked>>
      BY <1>1 DEF PickDate
    <2>3. /\ bar' \in [local : AllRanges, apply : BOOLEAN, timer : Ticks]
          /\ bar'.local = r /\ bar'.timer \in {"show", "hide"}
          /\ (bar'.timer = "show") = Judged(r, dates.range)
      BY <2>1 DEF GraphTypes, Judged, Ticks
    <2>4. ApplyIsUseful' /\ BarWillTell'
      BY <2>2, <2>3, GraphAssumption DEF ApplyIsUseful, BarWillTell, Judged
    <2>. QED  BY <2>2, <2>3, <2>4
              DEF GraphTypes, ReadsOfRange, ChartShowsRange, ZoomForgotten
  <1>2. CASE HandleApply
    BY <1>0, <1>2, OthersSet DEF HandleApply
  <1>3. CASE HandleToday
    BY <1>0, <1>3, OthersSet DEF HandleToday
  <1>4. CASE HandleDateForceChange
    BY <1>0, <1>4, OthersSet DEF HandleDateForceChange
  <1>5. CASE ZoomComplete
    <2>1. PICK r \in AllRanges :
            /\ zoom' = [zoom EXCEPT !.timer = r]
            /\ asked' = [range |-> r, source |-> "zoom", axis |-> None]
      BY <1>5 DEF ZoomComplete
    <2>2. UNCHANGED <<dates, bar, graph>>
      BY <1>5 DEF ZoomComplete
    <2>3. GraphTypes' /\ ZoomForgotten'
      BY <2>1, <2>2 DEF GraphTypes, ZoomForgotten
    <2>. QED  BY <2>2, <2>3
              DEF ReadsOfRange, ChartShowsRange, ApplyIsUseful, BarWillTell
  <1>6. CASE ZoomTimer
    <2>1. /\ zoom.timer \in AllRanges /\ zoom.timer # None
          /\ asked' = asked
          /\ zoom' = [timer |-> None, skip |-> FALSE]
      BY <1>6 DEF ZoomTimer, GraphTypes
    <2>2. zoom' \in [timer : AllRanges \cup {None}, skip : BOOLEAN]
          /\ zoom'.timer = None
      BY <2>1
    <2>3. CASE zoom.skip
      <3>1. UNCHANGED <<dates, bar, graph>>
        BY <1>6, <2>3 DEF ZoomTimer
      <3>2. ZoomForgotten'
        BY <2>1, <2>2, <3>1 DEF ZoomForgotten
      <3>. QED  BY <2>2, <3>1, <3>2
                DEF GraphTypes, ReadsOfRange, ChartShowsRange, ApplyIsUseful,
                    BarWillTell
    <2>4. CASE ~zoom.skip
      <3>1. SetDates(zoom.timer, "zoom", bar.local) /\ "zoom" \in Sources
        BY <1>6, <2>4 DEF ZoomTimer, Sources
      <3>2. dates' = [range |-> zoom.timer, source |-> "zoom"]
        BY <3>1 DEF SetDates
      <3>3. ZoomForgotten'
        BY <2>1, <2>2, <2>4, <3>2 DEF ZoomForgotten
      <3>. QED  BY <1>0, <2>1, <2>2, <3>1, <3>3, DatesSet DEF GraphTypes
    <2>. QED  BY <2>3, <2>4
  <1>7. CASE ApplyTimer
    <2>1. /\ bar.timer # None /\ UNCHANGED <<dates, zoom, graph, asked>>
          /\ bar' = [bar EXCEPT !.apply = bar.timer = "show", !.timer = None]
      BY <1>7 DEF ApplyTimer
    <2>2. /\ bar' \in [local : AllRanges, apply : BOOLEAN, timer : Ticks]
          /\ bar'.local = bar.local /\ bar'.timer = None
          /\ bar'.apply = (bar.timer = "show")
      BY <2>1 DEF GraphTypes, Ticks
    <2>3. ApplyIsUseful' /\ BarWillTell'
      BY <2>1, <2>2 DEF ApplyIsUseful, BarWillTell, Judged
    <2>. QED  BY <2>1, <2>2, <2>3
              DEF GraphTypes, ReadsOfRange, ChartShowsRange, ZoomForgotten
  <1>8. CASE \E r \in graph.reads : GraphAnswered(r)
    <2>1. UNCHANGED <<dates, bar, zoom, asked>>
      BY <1>8 DEF GraphAnswered
    <2>2. ASSUME NEW r \in graph.reads, GraphAnswered(r)
          PROVE  GraphTypes' /\ ReadsOfRange' /\ ChartShowsRange'
      <3>1. r = dates.range /\ r \in AllRanges
        BY <1>0 DEF ReadsOfRange
      <3>2. CASE graph' = [graph EXCEPT !.reads = @ \ {r}, !.loading = FALSE,
                                        !.shown = r]
        BY <2>1, <3>1, <3>2 DEF GraphTypes, ReadsOfRange, ChartShowsRange
      <3>3. CASE graph' = [graph EXCEPT !.reads = @ \ {r}, !.loading = FALSE,
                                        !.failed = TRUE]
        BY <2>1, <3>1, <3>3 DEF GraphTypes, ReadsOfRange, ChartShowsRange
      <3>. QED  BY <2>2, <3>2, <3>3 DEF GraphAnswered
    <2>. QED  BY <1>8, <2>1, <2>2 DEF ApplyIsUseful, BarWillTell, ZoomForgotten
  <1>9. CASE UNCHANGED graphVars
    BY <1>9 DEF graphVars, GraphTypes, ReadsOfRange, ChartShowsRange,
                ApplyIsUseful, BarWillTell, ZoomForgotten
  <1>. QED  BY <1>1, <1>2, <1>3, <1>4, <1>5, <1>6, <1>7, <1>8, <1>9
            DEF GraphNext

-----------------------------------------------------------------------------
(* The lists and charts: what has the read of what is selected is out. *)
PanelReads == [of : Keys, aborted : BOOLEAN]
LastOut == \E r \in reads : r.of = key

(* The read of what is selected is never aborted, all the others are, in a *)
(* panel that aborts, and there are no others before two overlapped.       *)
OthersAborted ==
    \A r \in reads :
      /\ r.of.number < key.number \/ (r.of = key /\ ~r.aborted)
      /\ (Does("aborts") \/ ~overlapped) => r.aborted \/ r.of = key
      /\ ~overlapped => r.of = key

(* Not only when nothing is out: whatever is still out does not matter. *)
AnswerShown ==
    ~LastOut /\ key.number \notin failed /\ (Does("aborts") \/ ~overlapped)
        => view = key

PanelInv == /\ PanelTypeOK /\ OthersAborted /\ AnswerShown
            /\ \A n \in failed : n <= key.number
            /\ SpinnerCovers /\ ErrorIsOfTheSelected

(* Only panels that abort look whether they were aborted. *)
LEMMA GuardsAbort == PanelTypeOK /\ Does("guards") => Does("aborts")
  BY DEF PanelTypeOK, Does, AllPanels, PlayerSessionList, MapSessionList,
         PlayerList, PlayerRankings, MapGuidesList, ServerGuidesList,
         MapsSearchIndex, GuideComments, MapGraphList, TopPerformers,
         CountryStatsList, FetchStatusTable, CurrentMatch, MapSelectDialog,
         MapFilterDialog, InfractionUpdate, PlayerTopMap, PlayTimeHeatmap,
         PlayTimeGraph, PlayerHourOfDay, PlayerRegionPlayTime, MapHeatRegion,
         MapAverageSessionDistribution, MapRegionDistribution, MapPlayerType,
         MapTop10PlayerList, MapGuidesButton, PlayerByCountries,
         PlayersOnline, ModelsPageContent, MapHeader, MapMusicSection

LEMMA PanelStarts ==
    ASSUME NEW p \in AllPanels, NEW f \in Filters, PanelInit(p, f)
    PROVE  PanelInv
  <1>1. /\ key \in Keys /\ key.number = 1
    BY PanelsAssumption DEF PanelInit, Key, Keys
  <1>2. reads = {[of |-> key, aborted |-> FALSE]} /\ reads \subseteq PanelReads
    BY <1>1 DEF PanelInit, PanelReads
  <1>3. PanelTypeOK
    <2>1. loading \in BOOLEAN
      BY DEF PanelInit, Does
    <2>2. failed \subseteq 1..MaxReads /\ overlapped \in BOOLEAN
      BY DEF PanelInit
    <2>. QED  BY <1>1, <1>2, <2>1, <2>2
              DEF PanelInit, PanelTypeOK, PanelReads
  <1>4. LastOut
    BY <1>2 DEF LastOut
  <1>5. SpinnerCovers /\ ErrorIsOfTheSelected
    BY <1>2, <1>4 DEF PanelInit, SpinnerCovers, ErrorIsOfTheSelected, LastOut,
                      Does
  <1>. QED
    BY <1>2, <1>3, <1>4, <1>5
    DEF PanelInv, PanelInit, OthersAborted, AnswerShown

(* A read of q starts next to others that are out, each of them aborted in *)
(* a panel that aborts.                                                    *)
LEMMA ReadStarts ==
    ASSUME PanelInv, NEW q \in Keys, key.number < q.number,
           NEW others \in SUBSET PanelReads,
           \A r \in others : /\ r.of.number < q.number
                             /\ Does("aborts") => r.aborted,
           key' = q, reads' = others \cup {[of |-> q, aborted |-> FALSE]},
           overlapped' \in BOOLEAN, overlapped' \/ others = {},
           Shown, UNCHANGED <<panel, failed>>
    PROVE  PanelInv'
  <1>. USE DEF PanelInv
  <1>1. key \in Keys /\ key.number \in Nat /\ q.number \in Nat
    BY DEF PanelTypeOK, Keys
  <1>2. [of |-> q, aborted |-> FALSE] \in PanelReads
    BY DEF PanelReads
  <1>3. PanelTypeOK'
    BY <1>2 DEF PanelTypeOK, PanelReads, Shown
  <1>4. LastOut'
    BY <1>2 DEF LastOut
  <1>5. OthersAborted'
    BY <1>1 DEF OthersAborted, Does
  <1>6. \A n \in failed' : n <= key'.number /\ n # key'.number
    BY <1>1, PanelsAssumption DEF PanelTypeOK
  <1>7. SpinnerCovers' /\ ErrorIsOfTheSelected' /\ AnswerShown'
    <2>1. SpinnerCovers'
      BY <1>4 DEF SpinnerCovers, Shown, LastOut, Does, PanelTypeOK
    <2>2. ErrorIsOfTheSelected'
      BY DEF ErrorIsOfTheSelected, Shown, Does
    <2>. QED  BY <1>4, <2>1, <2>2 DEF AnswerShown
  <1>. QED  BY <1>3, <1>5, <1>6, <1>7

LEMMA CleanedReads ==
    ASSUME NEW rs \in SUBSET PanelReads, NEW n \in Nat,
           \A r \in rs : r.of.number < n
    PROVE  /\ Cleaned(rs) \in SUBSET PanelReads
           /\ \A r \in Cleaned(rs) : /\ r.of.number < n
                                     /\ Does("aborts") => r.aborted
           /\ rs = {} => Cleaned(rs) = {}
  <1>1. \A r \in rs : /\ [r EXCEPT !.aborted = TRUE] \in PanelReads
                      /\ [r EXCEPT !.aborted = TRUE].of = r.of
                      /\ [r EXCEPT !.aborted = TRUE].aborted
    BY DEF PanelReads
  <1>. QED  BY <1>1 DEF Cleaned

LEMMA ReadStep ==
    ASSUME PanelInv, NEW p \in PanelPages, NEW f \in Filters, Read(p, f)
    PROVE  PanelInv'
  <1>. DEFINE q == Key(p, f, key.number + 1)
  <1>1. /\ key.number \in Nat /\ key.number < q.number
        /\ q \in Keys /\ q.number = key.number + 1
    BY PanelsAssumption DEF PanelInv, PanelTypeOK, Keys, Key, Read
  <1>2. /\ key' = q
        /\ reads' = Cleaned(reads) \cup {[of |-> q, aborted |-> FALSE]}
        /\ Shown /\ UNCHANGED <<panel, failed>>
    BY DEF Read
  <1>3. reads \in SUBSET PanelReads /\ \A r \in reads : r.of.number < q.number
    BY <1>1 DEF PanelInv, PanelTypeOK, PanelReads, OthersAborted, Keys
  <1>4. /\ Cleaned(reads) \in SUBSET PanelReads
        /\ \A r \in Cleaned(reads) : /\ r.of.number < q.number
                                     /\ Does("aborts") => r.aborted
        /\ reads = {} => Cleaned(reads) = {}
    BY <1>1, <1>3, CleanedReads
  <1>5. overlapped' \in BOOLEAN /\ (overlapped' \/ Cleaned(reads) = {})
    BY <1>4 DEF Read, PanelInv, PanelTypeOK
  <1>. QED  BY <1>1, <1>2, <1>4, <1>5, ReadStarts

LEMMA LaterStep == PanelInv /\ ChangeFilterLater => PanelInv'
  <1>. SUFFICES ASSUME PanelInv, ChangeFilterLater PROVE PanelInv'
    OBVIOUS
  <1>1. PICK f \in Filters :
          LET old == [of |-> Key(key.page, f, key.number + 1),
                      aborted |-> FALSE]
          IN  /\ key' = Key(0, f, key.number + 2)
              /\ reads' = Cleaned(Cleaned(reads) \cup {old})
                          \cup {[of |-> key', aborted |-> FALSE]}
    BY DEF ChangeFilterLater
  <1>. DEFINE q == Key(0, f, key.number + 2)
              s == [of |-> Key(key.page, f, key.number + 1),
                    aborted |-> FALSE]
              rs == Cleaned(reads) \cup {s}
  <1>2. /\ key.number \in Nat /\ key.number < q.number
        /\ q \in Keys /\ q.number = key.number + 2
    BY PanelsAssumption DEF PanelInv, PanelTypeOK, Keys, Key, ChangeFilterLater
  <1>3. s \in PanelReads /\ s.of.number = key.number + 1
    BY PanelsAssumption
    DEF PanelInv, PanelTypeOK, Keys, Key, ChangeFilterLater, PanelReads
  <1>4. reads \in SUBSET PanelReads /\ \A r \in reads : r.of.number < q.number
    BY <1>2 DEF PanelInv, PanelTypeOK, PanelReads, OthersAborted, Keys
  <1>5. /\ Cleaned(reads) \in SUBSET PanelReads
        /\ \A r \in Cleaned(reads) : r.of.number < q.number
    BY <1>2, <1>4, CleanedReads
  <1>6. rs \in SUBSET PanelReads /\ \A r \in rs : r.of.number < q.number
    <2>1. s.of.number < q.number
      BY <1>2, <1>3
    <2>. HIDE DEF s, q
    <2>. QED  BY <1>3, <1>5, <2>1
  <1>7. /\ Cleaned(rs) \in SUBSET PanelReads
        /\ \A r \in Cleaned(rs) : /\ r.of.number < q.number
                                  /\ Does("aborts") => r.aborted
    BY <1>2, <1>6, CleanedReads
  <1>8. /\ key' = q
        /\ reads' = Cleaned(rs) \cup {[of |-> q, aborted |-> FALSE]}
    BY <1>1
  <1>9. overlapped' = TRUE /\ Shown /\ UNCHANGED <<panel, failed>>
    BY DEF ChangeFilterLater
  <1>. QED  BY <1>2, <1>7, <1>8, <1>9, ReadStarts

(* A read ends: if it was not aborted, in a panel that aborts or before    *)
(* two overlapped, it was the read of what is selected, and it was the     *)
(* only one.                                                               *)
LEMMA OneEnds ==
    ASSUME PanelInv, NEW r \in reads, reads' = reads \ {r},
           UNCHANGED <<panel, key, overlapped>>
    PROVE  /\ reads' \subseteq PanelReads /\ OthersAborted'
           /\ r.of \in Keys /\ r.of.number \in 1..MaxReads
           /\ r.of.number <= key.number
           /\ r.of = key => ~LastOut'
           /\ r.of # key => (LastOut' <=> LastOut)
           /\ (Does("aborts") \/ ~overlapped) /\ ~r.aborted => r.of = key
           /\ r.aborted => r.of # key /\ (Does("aborts") \/ overlapped)
  <1>. USE DEF PanelInv
  <1>1. reads \subseteq PanelReads /\ key.number \in Nat
    BY DEF PanelTypeOK, PanelReads, Keys
  <1>2. /\ r.of \in Keys /\ r.of.number \in 1..MaxReads
    BY <1>1 DEF PanelReads, Keys
  <1>3. OthersAborted'
    BY DEF OthersAborted, Does
  <1>4. r.of.number <= key.number
    BY <1>1, <1>2, PanelsAssumption DEF OthersAborted
  <1>5. ASSUME r.of = key PROVE ~LastOut'
    <2>1. ASSUME NEW x \in reads, x.of = key PROVE x = r
      <3>1. ~x.aborted /\ ~r.aborted
        BY <1>1, <1>5, <2>1 DEF OthersAborted
      <3>. QED  BY <1>1, <1>5, <2>1, <3>1 DEF PanelReads
    <2>. QED  BY <2>1 DEF LastOut
  <1>6. r.of # key => (LastOut' <=> LastOut)
    BY DEF LastOut
  <1>7. (Does("aborts") \/ ~overlapped) /\ ~r.aborted => r.of = key
    BY DEF OthersAborted
  <1>8. r.aborted => r.of # key /\ (Does("aborts") \/ overlapped)
    BY <1>1 DEF OthersAborted
  <1>. QED  BY <1>1, <1>2, <1>3, <1>4, <1>5, <1>6, <1>7, <1>8

LEMMA EndStep ==
    ASSUME PanelInv, NEW r \in reads,
           Answered(r) \/ Failed(r) \/ AbortEnds(r)
    PROVE  PanelInv'
  <1>. USE DEF PanelInv
  <1>0. /\ reads' = reads \ {r} /\ UNCHANGED <<panel, key, overlapped>>
        /\ Does("guards")' = Does("guards") /\ Does("aborts")' = Does("aborts")
        /\ Does("spins")' = Does("spins") /\ Does("sticks")' = Does("sticks")
        /\ Does("clears")' = Does("clears")
    BY DEF Answered, Failed, AbortEnds, Ends, Does
  <1>1. /\ reads' \subseteq PanelReads /\ OthersAborted'
        /\ r.of \in Keys /\ r.of.number \in 1..MaxReads
        /\ r.of.number <= key.number
        /\ r.of = key => ~LastOut'
        /\ r.of # key => (LastOut' <=> LastOut)
        /\ (Does("aborts") \/ ~overlapped) /\ ~r.aborted => r.of = key
        /\ r.aborted => r.of # key /\ (Does("aborts") \/ overlapped)
    BY <1>0, OneEnds
  <1>2. Does("guards") => Does("aborts")
    BY GuardsAbort
  <1>3. CASE Answered(r)
    <2>1. /\ loading' = FALSE /\ view' = r.of /\ ~r.aborted
          /\ UNCHANGED <<failure, failed>>
      BY <1>3 DEF Answered, Ends
    <2>2. PanelTypeOK'
      BY <1>0, <1>1, <2>1 DEF PanelTypeOK, PanelReads
    <2>3. AnswerShown' /\ ErrorIsOfTheSelected'
      BY <1>0, <1>1, <2>1 DEF AnswerShown, ErrorIsOfTheSelected
    <2>4. SpinnerCovers'
      BY <1>0, <1>1, <1>2, <2>1 DEF SpinnerCovers, LastOut
    <2>. QED  BY <1>0, <1>1, <2>1, <2>2, <2>3, <2>4
  <1>4. CASE Failed(r)
    <2>1. /\ loading' = (loading /\ Does("sticks")) /\ ~r.aborted
          /\ failure' = IF Does("tells") THEN r.of ELSE failure
          /\ view' = IF Does("forgets") THEN None ELSE view
          /\ failed' = failed \cup {r.of.number}
      BY <1>4 DEF Failed
    <2>2. PanelTypeOK'
      <3>1. failed' \subseteq 1..MaxReads /\ loading' \in BOOLEAN
        BY <1>1, <2>1 DEF PanelTypeOK
      <3>. QED  BY <1>0, <1>1, <2>1, <3>1 DEF PanelTypeOK, PanelReads
    <2>3. AnswerShown' /\ ErrorIsOfTheSelected'
      BY <1>0, <1>1, <2>1 DEF AnswerShown, ErrorIsOfTheSelected
    <2>4. SpinnerCovers'
      <3>1. CASE r.of = key
        BY <1>0, <1>1, <2>1, <3>1 DEF SpinnerCovers, LastOut
      <3>2. CASE r.of # key
        BY <1>0, <1>1, <1>2, <2>1, <3>2 DEF SpinnerCovers
      <3>. QED  BY <3>1, <3>2
    <2>5. \A n \in failed' : n <= key'.number
      BY <1>0, <1>1, <2>1
    <2>. QED  BY <1>1, <2>2, <2>3, <2>4, <2>5
  <1>5. CASE AbortEnds(r)
    <2>1. /\ r.aborted /\ UNCHANGED <<view, failure, failed>>
          /\ loading' = IF Does("guards") THEN loading ELSE FALSE
      BY <1>5 DEF AbortEnds, Ends
    <2>2. PanelTypeOK'
      BY <1>0, <1>1, <2>1 DEF PanelTypeOK, PanelReads
    <2>3. AnswerShown' /\ ErrorIsOfTheSelected'
      BY <1>0, <1>1, <2>1 DEF AnswerShown, ErrorIsOfTheSelected
    <2>4. SpinnerCovers'
      <3>1. ~overlapped => r.of = key
        BY DEF OthersAborted
      <3>. QED  BY <1>0, <1>1, <2>1, <3>1 DEF SpinnerCovers, LastOut
    <2>. QED  BY <1>0, <1>1, <2>1, <2>2, <2>3, <2>4
  <1>. QED  BY <1>3, <1>4, <1>5

LEMMA PanelStep == PanelInv /\ [PanelNext]_panelVars => PanelInv'
  <1>. SUFFICES ASSUME PanelInv, [PanelNext]_panelVars PROVE PanelInv'
    OBVIOUS
  <1>0. key.page \in PanelPages /\ key.filter \in Filters /\ 0 \in PanelPages
    BY PanelsAssumption DEF PanelInv, PanelTypeOK, Keys
  <1>1. CASE ChangePage
    BY <1>0, <1>1, ReadStep DEF ChangePage
  <1>2. CASE ChangeFilter
    BY <1>0, <1>2, ReadStep DEF ChangeFilter
  <1>3. CASE ChangeFilterLater
    BY <1>3, LaterStep
  <1>4. CASE AskAgain
    BY <1>0, <1>4, ReadStep DEF AskAgain
  <1>5. CASE \E r \in reads : Answered(r) \/ Failed(r) \/ AbortEnds(r)
    BY <1>5, EndStep
  <1>6. CASE UNCHANGED panelVars
    <2>1. \A w : Does(w)' = Does(w)
      BY <1>6 DEF panelVars, Does
    <2>. QED  BY <1>6, <2>1
              DEF PanelInv, panelVars, PanelTypeOK, OthersAborted,
                  AnswerShown, LastOut, SpinnerCovers, ErrorIsOfTheSelected
  <1>. QED  BY <1>1, <1>2, <1>3, <1>4, <1>5, <1>6 DEF PanelNext

-----------------------------------------------------------------------------
(* The 3D viewer, its scene first: what the history says nothing of is     *)
(* that the model was replaced, and then all that was kept is of it.       *)
Phases == {"downloading", "parsing", "validating", "optimizing", "ready",
           "failed"}
Scenes == [ok : BOOLEAN, left : SUBSET Objects, bad : SUBSET Objects]
Walks  == [by : Nat \ {0}, bad : SUBSET Objects, objects : SUBSET Objects]

SceneTypes ==
    /\ file \in SUBSET Objects /\ scene \in Scenes \cup {None}
    /\ viewer \in [mounts : Nat, phase : Phases \cup {None}, slider : Int]
    /\ walks \subseteq Walks /\ outdated \in BOOLEAN

(* Who parses or traverses has a model; before the first viewer there is   *)
(* none, nor does anybody traverse it.                                     *)
ModelIsThere ==
    /\ viewer.phase \in {"parsing", "validating", "optimizing", "ready"}
         => Loaded
    /\ walks # {} => Loaded
    /\ \A w \in walks : w.by <= viewer.mounts
    /\ viewer.mounts = 0 => /\ scene = None /\ walks = {}
                            /\ viewer.phase = None

(* Whoever traverses the scene began with all of it, so the indices it     *)
(* keeps are those of the whole model.                                     *)
IndicesOfTheModel ==
    /\ Loaded => /\ scene.bad = file \cap scene.left
                 /\ scene.left = Objects \/ scene.bad = {}
    /\ cache # None => cache = file
    /\ cache = None => (Loaded => scene.left = Objects)
    /\ \A w \in walks : w.objects = Objects /\ w.bad = file

(* The first viewer, from a whole model to one without what is bad. *)
FirstViewer ==
    viewer.mounts = 1 =>
      /\ viewer.phase \in {"downloading", "parsing"} => walks = {}
      /\ viewer.phase = "downloading" => scene = None
      /\ viewer.phase \in {"parsing", "validating"} => scene.left = Objects
      /\ viewer.phase \in {"optimizing", "ready"} => scene.left = Objects \ file

CleanOnceValidated ==
    viewer.phase \in {"optimizing", "ready"} => scene.bad = {}

SceneInv ==
    /\ SceneTypes /\ ModelIsThere
    /\ ~outdated => IndicesOfTheModel /\ FirstViewer /\ CleanOnceValidated

(* In the whole model the traversal counts an object by its position. *)
LEMMA IndexInModel == \A p \in Objects : IndexOf(p, Objects) = p
  <1>. SUFFICES ASSUME NEW p \in Objects PROVE IndexOf(p, Objects) = p
    OBVIOUS
  <1>1. Cardinality(Objects) \in Nat
    BY SceneAssumption, FS_CardinalityType
  <1>2. p \in 1..Cardinality(Objects)
    BY SceneAssumption
  <1>3. {q \in Objects : q <= p} = {q \in 1..Cardinality(Objects) : q <= p}
    BY SceneAssumption
  <1>4. {q \in 1..Cardinality(Objects) : q <= p} = 1..p
    BY <1>1, <1>2
  <1>5. 1 \in Int /\ p \in Int
    BY <1>2
  <1>6. Cardinality(1..p) = IF 1 > p THEN 0 ELSE p - 1 + 1
    BY <1>5, FS_Interval
  <1>7. Cardinality(1..p) = p
    BY <1>2, <1>6
  <1>. QED  BY <1>3, <1>4, <1>7 DEF IndexOf

LEMMA SceneStarts ==
    ASSUME NEW bad \in SUBSET Objects, SceneInit(bad)
    PROVE  SceneInv
  <1>1. /\ file = bad /\ scene = None /\ cache = None /\ walks = {}
        /\ viewer = [mounts |-> 0, phase |-> None, slider |-> 1]
        /\ outdated = FALSE
    BY DEF SceneInit
  <1>2. /\ viewer \in [mounts : Nat, phase : Phases \cup {None}, slider : Int]
        /\ viewer.mounts = 0 /\ viewer.phase = None
    BY <1>1
  <1>3. SceneTypes
    BY <1>1, <1>2 DEF SceneTypes
  <1>4. viewer.phase \notin Phases
    BY <1>2, SceneAssumption DEF Phases
  <1>5. ModelIsThere /\ FirstViewer /\ CleanOnceValidated
    BY <1>1, <1>2, <1>4
    DEF ModelIsThere, FirstViewer, CleanOnceValidated, Phases
  <1>6. IndicesOfTheModel
    BY <1>1 DEF IndicesOfTheModel, Loaded
  <1>. QED  BY <1>3, <1>5, <1>6 DEF SceneInv

(* Objects are taken out of the scene. *)
LEMMA Removed ==
    ASSUME scene \in Scenes, NEW gone, Without(gone)
    PROVE  /\ scene' \in Scenes
           /\ scene'.ok = scene.ok
           /\ scene'.left = scene.left \ gone
           /\ scene'.bad = scene.bad \ gone
  BY DEF Without, Scenes

LEMMA PhaseSet ==
    ASSUME SceneTypes, NEW p \in Phases \cup {None}, Phase(p)
    PROVE  /\ viewer' \in [mounts : Nat, phase : Phases \cup {None},
                           slider : Int]
           /\ viewer'.phase = p /\ viewer'.mounts = viewer.mounts
  BY DEF SceneTypes, Phase

LEMMA SceneStep == SceneInv /\ [SceneNext]_sceneVars => SceneInv'
  <1>. SUFFICES ASSUME SceneInv, [SceneNext]_sceneVars PROVE SceneInv'
    OBVIOUS
  <1>. USE DEF SceneInv
  <1>0. /\ viewer.mounts \in Nat /\ viewer.phase \in Phases \cup {None}
        /\ None \notin Phases /\ None \notin Scenes
        /\ None \notin SUBSET Objects
        /\ Loaded => scene \in Scenes
    BY SceneAssumption DEF SceneTypes, Phases, Scenes, Loaded
  <1>1. CASE HandleResolutionClick
    <2>1. /\ viewer' = [mounts |-> viewer.mounts + 1,
                        phase |-> "downloading", slider |-> 1]
          /\ UNCHANGED <<file, scene, cache, walks, outdated>>
      BY <1>1 DEF HandleResolutionClick
    <2>2. /\ viewer'.mounts = viewer.mounts + 1 /\ viewer'.mounts # 0
          /\ viewer'.phase = "downloading" /\ Loaded' = Loaded
      BY <1>0, <2>1 DEF Loaded
    <2>3. SceneTypes'
      BY <1>0, <2>1 DEF SceneTypes, Phases
    <2>4. ModelIsThere'
      BY <1>0, <2>1, <2>2 DEF ModelIsThere, SceneTypes, Walks
    <2>5. FirstViewer'
      BY <1>0, <2>1, <2>2 DEF ModelIsThere, FirstViewer
    <2>6. CleanOnceValidated'
      BY <2>2 DEF CleanOnceValidated
    <2>7. ~outdated' => IndicesOfTheModel'
      BY <2>1, <2>2 DEF IndicesOfTheModel
    <2>. QED  BY <2>3, <2>4, <2>5, <2>6, <2>7
  <1>2. CASE LeaveViewer
    <2>1. /\ Phase(None)
          /\ UNCHANGED <<file, scene, cache, walks, outdated>>
      BY <1>2 DEF LeaveViewer
    <2>2. /\ viewer' \in [mounts : Nat, phase : Phases \cup {None},
                          slider : Int]
          /\ viewer'.phase = None /\ viewer'.mounts = viewer.mounts
      BY <2>1, PhaseSet
    <2>. QED
      BY <1>0, <2>1, <2>2
      DEF SceneTypes, ModelIsThere, IndicesOfTheModel, FirstViewer,
          CleanOnceValidated, Loaded, Phases
  <1>3. CASE ReloadSite
    <2>1. /\ scene' = None /\ walks' = {}
          /\ viewer' = [viewer EXCEPT !.mounts = 0] /\ viewer.phase = None
          /\ UNCHANGED <<file, cache, outdated>>
      BY <1>3 DEF ReloadSite, Viewing
    <2>2. /\ viewer' \in [mounts : Nat, phase : Phases \cup {None},
                          slider : Int]
          /\ viewer'.phase = None /\ viewer'.mounts = 0
      BY <2>1 DEF SceneTypes
    <2>. QED
      BY <1>0, <2>1, <2>2
      DEF SceneTypes, ModelIsThere, IndicesOfTheModel, FirstViewer,
          CleanOnceValidated, Loaded, Phases
  <1>4. CASE MoveMaterial
    <2>1. /\ viewer' = [viewer EXCEPT !.slider = 1 - @]
          /\ UNCHANGED <<file, scene, cache, walks, outdated>>
      BY <1>4 DEF MoveMaterial
    <2>2. /\ viewer' \in [mounts : Nat, phase : Phases \cup {None},
                          slider : Int]
          /\ viewer'.phase = viewer.phase /\ viewer'.mounts = viewer.mounts
      BY <2>1 DEF SceneTypes
    <2>. QED
      BY <2>1, <2>2
      DEF SceneTypes, ModelIsThere, IndicesOfTheModel, FirstViewer,
          CleanOnceValidated, Loaded
  <1>5. CASE Outdate
    <2>1. outdated' = TRUE /\ UNCHANGED <<scene, viewer, walks>>
      BY <1>5 DEF Outdate
    <2>2. file' \in SUBSET Objects
      BY <1>5 DEF Outdate, SceneTypes
    <2>. QED  BY <2>1, <2>2 DEF SceneTypes, ModelIsThere, Loaded
  <1>6. CASE Downloads
    <2>1. PICK s \in IF scene = None THEN {SceneOf(file), Unread} ELSE {scene} :
            /\ scene' = s
            /\ Phase(IF s.ok THEN "parsing" ELSE "failed")
      BY <1>6 DEF Downloads
    <2>2. /\ viewer.phase = "downloading"
          /\ UNCHANGED <<file, cache, walks, outdated>>
      BY <1>6 DEF Downloads
    <2>3. s \in Scenes /\ s # None
      <3>1. SceneOf(file) \in Scenes /\ Unread \in Scenes
        BY DEF SceneTypes, SceneOf, Unread, Scenes
      <3>2. s \in Scenes
        BY <2>1, <3>1 DEF SceneTypes
      <3>. QED  BY <1>0, <3>2
    <2>4. /\ viewer' \in [mounts : Nat, phase : Phases \cup {None},
                          slider : Int]
          /\ viewer'.phase = IF s.ok THEN "parsing" ELSE "failed"
          /\ viewer'.mounts = viewer.mounts
      BY <2>1, PhaseSet DEF Phases
    <2>5. SceneTypes'
      BY <2>1, <2>2, <2>3, <2>4 DEF SceneTypes
    <2>6. Loaded' = s.ok /\ (Loaded => s = scene /\ s.ok)
      BY <2>1, <2>3 DEF Loaded, Scenes
    <2>7. ModelIsThere'
      <3>1. viewer.mounts # 0
        BY <1>0, <2>2 DEF ModelIsThere, Phases
      <3>2. walks # {} => s.ok
        BY <2>6 DEF ModelIsThere
      <3>3. viewer'.phase \in {"parsing", "validating", "optimizing", "ready"}
              => s.ok
        BY <2>4
      <3>. QED  BY <2>2, <2>4, <2>6, <3>1, <3>2, <3>3 DEF ModelIsThere
    <2>8. ASSUME ~outdated
          PROVE  IndicesOfTheModel' /\ FirstViewer' /\ CleanOnceValidated'
      <3>. IndicesOfTheModel /\ FirstViewer
        BY <2>8
      <3>1. CASE scene = None
        <4>1. /\ s.ok => s.left = Objects /\ s.bad = file
          BY <2>1, <3>1 DEF SceneOf, Unread
        <4>2. IndicesOfTheModel'
          BY <2>1, <2>2, <2>6, <4>1 DEF IndicesOfTheModel, SceneTypes
        <4>. QED  BY <2>1, <2>2, <2>4, <4>1, <4>2
                  DEF FirstViewer, CleanOnceValidated
      <3>2. CASE scene # None
        <4>1. s = scene /\ viewer.mounts # 1 /\ Loaded' = Loaded
          BY <2>1, <2>2, <3>2 DEF FirstViewer, Loaded
        <4>2. IndicesOfTheModel'
          BY <2>1, <2>2, <4>1 DEF IndicesOfTheModel
        <4>. QED  BY <2>4, <4>1, <4>2 DEF FirstViewer, CleanOnceValidated
      <3>. QED  BY <3>1, <3>2
    <2>. QED  BY <2>2, <2>5, <2>7, <2>8
  <1>7. CASE ValidateScene
    <2>1. /\ viewer.phase = "parsing" /\ UNCHANGED <<file, cache, outdated>>
          /\ Loaded /\ scene \in Scenes
      BY <1>0, <1>7 DEF ValidateScene, ModelIsThere
    <2>2. CASE cache # None
      <3>. DEFINE gone == {p \in scene.left : IndexOf(p, scene.left) \in cache}
      <3>1. Without(gone) /\ Phase("optimizing") /\ walks' = walks
        BY <1>7, <2>2 DEF ValidateScene, RemoveCached
      <3>2. /\ scene' \in Scenes /\ scene'.ok = scene.ok
            /\ scene'.left = scene.left \ gone
            /\ scene'.bad = scene.bad \ gone
        <4>. HIDE DEF gone
        <4>. QED  BY <2>1, <3>1, Removed
      <3>3. /\ viewer' \in [mounts : Nat, phase : Phases \cup {None},
                            slider : Int]
            /\ viewer'.phase = "optimizing"
            /\ viewer'.mounts = viewer.mounts
        BY <3>1, PhaseSet DEF Phases
      <3>4. Loaded'
        BY <1>0, <2>1, <3>2 DEF Loaded
      <3>5. SceneTypes' /\ ModelIsThere'
        <4>. HIDE DEF gone
        <4>. QED  BY <1>0, <2>1, <3>1, <3>2, <3>3, <3>4
                  DEF SceneTypes, ModelIsThere, Loaded
      <3>6. ASSUME ~outdated
            PROVE  /\ scene'.bad = file \cap scene'.left /\ scene'.bad = {}
                   /\ viewer.mounts = 1 => scene'.left = Objects \ file
        <4>1. /\ scene.bad = file \cap scene.left
              /\ scene.left = Objects \/ scene.bad = {}
              /\ cache = file
          BY <2>1, <2>2, <3>6 DEF IndicesOfTheModel
        <4>2. CASE scene.left = Objects
          <5>1. gone = {p \in Objects : p \in file}
            BY <4>1, <4>2, IndexInModel
          <5>2. gone = file
            BY <5>1 DEF SceneTypes
          <5>. HIDE DEF gone
          <5>. QED  BY <3>2, <4>1, <4>2, <5>2
        <4>3. CASE scene.left # Objects
          <5>1. viewer.mounts # 1
            BY <2>1, <3>6, <4>3 DEF FirstViewer
          <5>. HIDE DEF gone
          <5>. QED  BY <3>2, <4>1, <4>3, <5>1
        <4>. QED  BY <4>2, <4>3
      <3>7. ~outdated => IndicesOfTheModel' /\ FirstViewer'
                         /\ CleanOnceValidated'
        <4>. HIDE DEF gone
        <4>. QED  BY <2>1, <2>2, <3>1, <3>3, <3>6
                  DEF IndicesOfTheModel, FirstViewer, CleanOnceValidated
      <3>. QED  BY <2>1, <3>5, <3>7
    <2>3. CASE cache = None
      <3>. DEFINE w == [by |-> viewer.mounts, bad |-> scene.bad,
                        objects |-> scene.left]
      <3>1. walks' = walks \cup {w} /\ Phase("validating") /\ scene' = scene
        BY <1>7, <2>3 DEF ValidateScene
      <3>2. /\ viewer' \in [mounts : Nat, phase : Phases \cup {None},
                            slider : Int]
            /\ viewer'.phase = "validating"
            /\ viewer'.mounts = viewer.mounts
        BY <3>1, PhaseSet DEF Phases
      <3>3. viewer.mounts # 0
        BY <1>0, <2>1 DEF ModelIsThere, Phases
      <3>4. w \in Walks /\ w.by = viewer.mounts
        BY <1>0, <2>1, <3>3 DEF Walks, Scenes
      <3>5. Loaded' = Loaded
        BY <3>1 DEF Loaded
      <3>6. SceneTypes' /\ ModelIsThere'
        <4>1. SceneTypes'
          BY <2>1, <3>1, <3>2, <3>4 DEF SceneTypes
        <4>2. \A x \in walks' : x.by <= viewer.mounts
          BY <1>0, <3>1, <3>4 DEF ModelIsThere
        <4>. QED  BY <2>1, <3>2, <3>3, <3>5, <4>1, <4>2 DEF ModelIsThere
      <3>7. ASSUME ~outdated
            PROVE  IndicesOfTheModel' /\ FirstViewer' /\ CleanOnceValidated'
        <4>1. w.objects = Objects /\ w.bad = file
          BY <2>1, <2>3, <3>7 DEF IndicesOfTheModel, SceneTypes
        <4>. HIDE DEF w
        <4>2. IndicesOfTheModel'
          BY <2>1, <2>3, <3>1, <3>5, <3>7, <4>1 DEF IndicesOfTheModel
        <4>. QED  BY <2>1, <3>1, <3>2, <3>7, <4>2
                  DEF FirstViewer, CleanOnceValidated
      <3>. QED  BY <2>1, <3>6, <3>7
    <2>. QED  BY <2>2, <2>3
  <1>8. CASE OptimizeMaterials
    <2>1. /\ viewer.phase = "optimizing" /\ Phase("ready")
          /\ UNCHANGED <<file, scene, cache, walks, outdated>>
      BY <1>8 DEF OptimizeMaterials
    <2>2. /\ viewer' \in [mounts : Nat, phase : Phases \cup {None},
                          slider : Int]
          /\ viewer'.phase = "ready" /\ viewer'.mounts = viewer.mounts
      BY <2>1, PhaseSet DEF Phases
    <2>. QED
      BY <1>0, <2>1, <2>2
      DEF SceneTypes, ModelIsThere, IndicesOfTheModel, FirstViewer,
          CleanOnceValidated, Loaded, Phases
  <1>9. ASSUME NEW w \in walks, WalkEnds(w) PROVE SceneInv'
    <2>1. /\ walks' = walks \ {w} /\ Without(w.bad)
          /\ cache' = {IndexOf(p, w.objects) : p \in w.bad}
          /\ UNCHANGED <<file, outdated>>
      BY <1>9 DEF WalkEnds, CacheModelData
    <2>2. Loaded /\ scene \in Scenes
      BY <1>0 DEF ModelIsThere
    <2>3. /\ scene' \in Scenes /\ scene'.ok = scene.ok
          /\ scene'.left = scene.left \ w.bad
          /\ scene'.bad = scene.bad \ w.bad
      BY <2>1, <2>2, Removed
    <2>4. Loaded'
      BY <1>0, <2>2, <2>3 DEF Loaded
    <2>. DEFINE goes == viewer.phase = "validating" /\ viewer.mounts = w.by
    <2>5. /\ viewer' \in [mounts : Nat, phase : Phases \cup {None},
                          slider : Int]
          /\ viewer'.phase = IF goes THEN "optimizing" ELSE viewer.phase
          /\ viewer'.mounts = viewer.mounts
      <3>1. CASE goes
        BY <1>9, <3>1, PhaseSet DEF WalkEnds, Phases
      <3>2. CASE ~goes
        BY <1>9, <3>2 DEF WalkEnds, SceneTypes
      <3>. QED  BY <3>1, <3>2
    <2>6. SceneTypes'
      BY <2>1, <2>3, <2>5 DEF SceneTypes
    <2>7. ModelIsThere'
      BY <1>0, <2>1, <2>4, <2>5 DEF ModelIsThere, Phases
    <2>8. ASSUME ~outdated
          PROVE  IndicesOfTheModel' /\ FirstViewer' /\ CleanOnceValidated'
      <3>. IndicesOfTheModel /\ FirstViewer /\ CleanOnceValidated
        BY <2>8
      <3>1. w.objects = Objects /\ w.bad = file
        BY DEF IndicesOfTheModel
      <3>2. file \in SUBSET Objects
        BY DEF SceneTypes
      <3>3. cache' = file /\ cache' # None
        <4>1. cache' = {p : p \in file}
          BY <2>1, <3>1, <3>2, IndexInModel
        <4>. QED  BY <1>0, <3>2, <4>1
      <3>4. /\ scene.bad = file \cap scene.left
            /\ scene'.left = scene.left \ file /\ scene'.bad = {}
        BY <2>2, <2>3, <3>1 DEF IndicesOfTheModel
      <3>5. IndicesOfTheModel'
        BY <2>1, <3>3, <3>4 DEF IndicesOfTheModel
      <3>6. FirstViewer'
        <4>1. SUFFICES ASSUME viewer.mounts = 1 PROVE FirstViewer'
          BY <2>5 DEF FirstViewer
        <4>2. w.by = 1
          BY <4>1 DEF ModelIsThere, SceneTypes, Walks
        <4>3. viewer.phase \notin {"downloading", "parsing"}
          BY <4>1 DEF FirstViewer
        <4>4. viewer'.phase \in {"optimizing", "ready"}
                => scene.left = Objects \/ scene.left = Objects \ file
          BY <2>5, <4>1 DEF FirstViewer
        <4>5. viewer'.phase \notin {"downloading", "parsing", "validating"}
          BY <2>5, <4>1, <4>2, <4>3
        <4>6. viewer'.phase \in {"optimizing", "ready"}
                => scene'.left = Objects \ file
          BY <3>4, <4>4
        <4>. QED  BY <2>1, <4>5, <4>6 DEF FirstViewer
      <3>. QED  BY <3>4, <3>5, <3>6 DEF CleanOnceValidated
    <2>. QED  BY <2>1, <2>6, <2>7, <2>8
  <1>10. ASSUME NEW v \in passes, PassEnds(v) PROVE SceneInv'
    BY <1>10
    DEF PassEnds, SceneTypes, ModelIsThere, IndicesOfTheModel, FirstViewer,
        CleanOnceValidated, Loaded
  <1>11. CASE UNCHANGED sceneVars
    BY <1>11
    DEF sceneVars, SceneTypes, ModelIsThere, IndicesOfTheModel, FirstViewer,
        CleanOnceValidated, Loaded
  <1>. QED
    BY <1>1, <1>2, <1>3, <1>4, <1>5, <1>6, <1>7, <1>8, <1>9, <1>10, <1>11
    DEF SceneNext, SceneAnswers

(* The controls: what the modes remember of the keys, those that are off   *)
(* too, and that no lock is on its way to orbit.                           *)
KeysAsHeld ==
    \A m \in Movers : \A f \in Remembers[m] \ unseen[m] :
       /\ f \in moves[m] => \E k \in held : Flag(k) = f
       /\ KeysOf(f) \subseteq held => f \in moves[m]

CrouchesAsHeld == walker.crouching <=> "crouch" \in moves["walk"]

AsksWhereHeard == ~slipped /\ pointer.asked => mode # "orbit"

(* The flags that a mode keeps and those it missed are its own. *)
KeysTyped ==
    /\ held \subseteq KeyNames
    /\ \A m \in Movers : /\ moves[m] \subseteq Remembers[m]
                         /\ unseen[m] \subseteq Remembers[m]

ViewerTypes ==
    /\ mode \in Modes
    /\ walker \in [ladder : BOOLEAN, ground : BOOLEAN, crouching : BOOLEAN,
                   velocity : Int]
    /\ pointer \in [locked : BOOLEAN, heard : BOOLEAN, asked : BOOLEAN,
                    leaving : BOOLEAN]
    /\ slipped \in BOOLEAN

KeysInv == KeysTyped /\ KeysAsHeld
PointerInv == AsksWhereHeard /\ LockIsHeard

ControlsInv == /\ ViewerTypes /\ KeysInv /\ CrouchesAsHeld
               /\ ClimbingIsStill /\ PointerInv

(* Every flag has its keys. *)
LEMMA FlagsHaveKeys ==
    \A m \in Movers : \A f \in Remembers[m] : \E k \in KeyNames : Flag(k) = f
  <1>. SUFFICES ASSUME NEW m \in Movers, NEW f \in Remembers[m]
                PROVE  \E k \in KeyNames : Flag(k) = f
    OBVIOUS
  <1>1. f \in {"forward", "backward", "shift", "crouch"}
    BY DEF Movers, Remembers
  <1>2. CASE f = "shift"
    BY <1>2 DEF Flag, KeyNames
  <1>3. CASE f # "shift"
    BY <1>1, <1>3 DEF Flag, KeyNames
  <1>. QED  BY <1>2, <1>3

LEMMA ControlsStart == ViewerInit => ControlsInv
  <1>. SUFFICES ASSUME ViewerInit PROVE ControlsInv
    OBVIOUS
  <1>0. /\ mode = "orbit" /\ held = {} /\ slipped = FALSE
        /\ moves = [m \in Movers |-> {}] /\ unseen = [m \in Movers |-> {}]
        /\ walker = [ladder |-> FALSE, ground |-> FALSE, crouching |-> FALSE,
                     velocity |-> 0]
        /\ pointer = [locked |-> FALSE, heard |-> FALSE, asked |-> FALSE,
                      leaving |-> FALSE]
    BY DEF ViewerInit
  <1>1. ViewerTypes
    <2>1. /\ walker \in [ladder : BOOLEAN, ground : BOOLEAN,
                         crouching : BOOLEAN, velocity : Int]
          /\ pointer \in [locked : BOOLEAN, heard : BOOLEAN,
                          asked : BOOLEAN, leaving : BOOLEAN]
      BY <1>0
    <2>. QED  BY <1>0, <2>1 DEF ViewerTypes, Modes
  <1>2. KeysInv
    <2>1. \A m \in Movers : moves[m] = {} /\ unseen[m] = {}
      BY <1>0
    <2>2. KeysTyped
      BY <1>0, <2>1 DEF KeysTyped
    <2>3. \A m \in Movers : \A f \in Remembers[m] : ~(KeysOf(f) \subseteq held)
      BY <1>0, FlagsHaveKeys DEF KeysOf
    <2>4. KeysAsHeld
      BY <2>1, <2>3 DEF KeysAsHeld
    <2>. QED  BY <2>2, <2>4 DEF KeysInv
  <1>3. ClimbingIsStill /\ PointerInv /\ CrouchesAsHeld
    <2>1. moves["walk"] = {}
      BY <1>0 DEF Movers
    <2>. QED  BY <1>0, <2>1 DEF ClimbingIsStill, PointerInv, LockIsHeard,
                                AsksWhereHeard, CrouchesAsHeld
  <1>. QED  BY <1>1, <1>2, <1>3 DEF ControlsInv

(* The keys are as they were. *)
LEMMA KeysKept ==
    ASSUME KeysInv, UNCHANGED keyVars
    PROVE  KeysInv'
  BY DEF KeysInv, keyVars, KeysTyped, KeysAsHeld, Flag, KeysOf

(* The pointer moves: the keys are as they were. *)
LEMMA PointerMoves ==
    ASSUME ControlsInv, UNCHANGED <<mode, keyVars, walker>>,
           pointer' \in [locked : BOOLEAN, heard : BOOLEAN, asked : BOOLEAN,
                         leaving : BOOLEAN],
           slipped' \in BOOLEAN, PointerInv'
    PROVE  ControlsInv'
  <1>1. KeysInv'
    BY KeysKept DEF ControlsInv
  <1>2. UNCHANGED <<mode, moves, walker>>
    BY DEF keyVars
  <1>. QED  BY <1>1, <1>2 DEF ControlsInv, ViewerTypes, CrouchesAsHeld,
                              ClimbingIsStill

(* What Takes says of a key. *)
LEMMA TakenIsOn ==
    ASSUME NEW m \in Movers, NEW k \in KeyNames, Takes(m, k)
    PROVE  mode = m /\ Flag(k) \in Remembers[m]
  BY DEF Takes

(* A key-down, the first or a repeated one, sets the flags of the mode.    *)
LEMMA KeyGoesDown ==
    ASSUME KeysInv, NEW k \in KeyNames,
           held' = held \cup {k},
           \A m \in Movers :
              moves'[m] = IF Takes(m, k) THEN moves[m] \cup {Flag(k)}
                                         ELSE moves[m],
           \A m \in Movers :
              unseen'[m] = IF Takes(m, k) THEN unseen[m] \ {Flag(k)}
                           ELSE IF k \in held THEN unseen[m]
                           ELSE Missed(m, {Flag(k)})
    PROVE  KeysInv'
  <1>1. KeysTyped'
    <2>1. \A m \in Movers : Takes(m, k) => Flag(k) \in Remembers[m]
      BY TakenIsOn
    <2>. QED  BY <2>1 DEF KeysInv, KeysTyped, Missed
  <1>2. KeysAsHeld'
    <2>. SUFFICES ASSUME NEW m \in Movers, NEW f \in Remembers[m] \ unseen'[m]
                  PROVE  /\ f \in moves'[m] => \E x \in held' : Flag(x) = f
                         /\ KeysOf(f) \subseteq held' => f \in moves'[m]
      BY DEF KeysAsHeld, Flag, KeysOf
    <2>1. CASE Flag(k) = f /\ Takes(m, k)
      <3>1. f \in moves'[m] /\ k \in held'
        BY <2>1
      <3>. QED  BY <2>1, <3>1
    <2>2. CASE Flag(k) = f /\ ~Takes(m, k)
      <3>1. k \in held /\ held' = held /\ f \notin unseen[m]
        BY <2>2 DEF Missed
      <3>2. moves'[m] = moves[m]
        BY <2>2
      <3>. QED  BY <3>1, <3>2 DEF KeysInv, KeysAsHeld
    <2>3. CASE Flag(k) # f
      <3>1. f \notin unseen[m]
        BY <2>3 DEF Missed
      <3>2. f \in moves'[m] <=> f \in moves[m]
        BY <2>3
      <3>3. KeysOf(f) \subseteq held' => KeysOf(f) \subseteq held
        BY <2>3 DEF KeysOf
      <3>. QED  BY <3>1, <3>2, <3>3 DEF KeysInv, KeysAsHeld
    <2>. QED  BY <2>1, <2>2, <2>3
  <1>. QED  BY <1>1, <1>2 DEF KeysInv

(* Keys go up: one where the mode m is on, or all of them elsewhere.       *)
LEMMA KeysGoUp ==
    ASSUME KeysInv, NEW gone \in SUBSET held,
           held' = held \ gone,
           \A m \in Movers :
              \/ /\ moves'[m] = moves[m] \ {Flag(k) : k \in gone}
                 /\ unseen'[m] = unseen[m] \ {Flag(k) : k \in gone}
              \/ /\ moves'[m] = moves[m]
                 /\ unseen'[m] = Missed(m, {Flag(k) : k \in gone})
    PROVE  KeysInv'
  <1>1. KeysTyped'
    BY DEF KeysInv, KeysTyped, Missed
  <1>2. KeysAsHeld'
    <2>. SUFFICES ASSUME NEW m \in Movers, NEW f \in Remembers[m] \ unseen'[m]
                  PROVE  /\ f \in moves'[m] => \E x \in held' : Flag(x) = f
                         /\ KeysOf(f) \subseteq held' => f \in moves'[m]
      BY DEF KeysAsHeld, Flag, KeysOf
    <2>1. gone \subseteq KeyNames
      BY DEF KeysInv, KeysTyped
    <2>2. CASE \E k \in gone : Flag(k) = f
      <3>1. f \notin moves'[m]
        BY <2>2 DEF Missed
      <3>2. ~(KeysOf(f) \subseteq held')
        BY <2>1, <2>2 DEF KeysOf
      <3>. QED  BY <3>1, <3>2
    <2>3. CASE \A k \in gone : Flag(k) # f
      <3>1. f \notin unseen[m] /\ (f \in moves'[m] <=> f \in moves[m])
        BY <2>3 DEF Missed
      <3>2. KeysOf(f) \subseteq held' => KeysOf(f) \subseteq held
        OBVIOUS
      <3>3. \A x \in held : Flag(x) = f => x \in held'
        BY <2>3
      <3>. QED  BY <3>1, <3>2, <3>3 DEF KeysInv, KeysAsHeld
    <2>. QED  BY <2>2, <2>3
  <1>. QED  BY <1>1, <1>2 DEF KeysInv

(* C crouches and stands up where W walks. *)
LEMMA WhoCrouches ==
    ASSUME ViewerTypes, NEW c \in BOOLEAN,
           walker' = [walker EXCEPT !.crouching = c]
    PROVE  /\ walker' \in [ladder : BOOLEAN, ground : BOOLEAN,
                           crouching : BOOLEAN, velocity : Int]
           /\ walker'.ladder = walker.ladder
           /\ walker'.velocity = walker.velocity
           /\ walker'.crouching = c
  BY DEF ViewerTypes

(* Whoever takes C walks, and C alone has its flag. *)
LEMMA CrouchIsTaken ==
    ASSUME NEW k \in KeyNames
    PROVE  /\ Takes("walk", k) /\ Flag(k) = "crouch"
                <=> mode = "walk" /\ k = "crouch"
           /\ Flag(k) = "crouch" <=> k = "crouch"
  BY DEF Takes, Flag, Remembers, KeyNames

LEMMA PressingCrouches ==
    ASSUME ViewerTypes, CrouchesAsHeld, NEW k \in KeyNames, Pressing(k)
    PROVE  /\ CrouchesAsHeld' /\ UNCHANGED <<walker.ladder, walker.velocity>>
           /\ walker' \in [ladder : BOOLEAN, ground : BOOLEAN,
                           crouching : BOOLEAN, velocity : Int]
           /\ \A m \in Movers :
                moves'[m] = IF Takes(m, k) THEN moves[m] \cup {Flag(k)}
                                           ELSE moves[m]
  <1>1. \A m \in Movers :
           moves'[m] = IF Takes(m, k) THEN moves[m] \cup {Flag(k)} ELSE moves[m]
    BY DEF Pressing
  <1>. DEFINE c == walker.crouching \/ (mode = "walk" /\ k = "crouch")
  <1>2. walker' = [walker EXCEPT !.crouching = c] /\ c \in BOOLEAN
    BY DEF Pressing
  <1>3. "walk" \in Movers
    BY DEF Movers
  <1>4. "crouch" \in moves'["walk"] <=> c
    BY <1>1, <1>3, CrouchIsTaken DEF CrouchesAsHeld
  <1>. QED  BY <1>1, <1>2, <1>4, WhoCrouches DEF CrouchesAsHeld

LEMMA ReleasingStands ==
    ASSUME ViewerTypes, CrouchesAsHeld, NEW k \in KeyNames, Releasing(k)
    PROVE  /\ CrouchesAsHeld' /\ UNCHANGED <<walker.ladder, walker.velocity>>
           /\ walker' \in [ladder : BOOLEAN, ground : BOOLEAN,
                           crouching : BOOLEAN, velocity : Int]
           /\ \A m \in Movers :
                moves'[m] = IF mode = m THEN moves[m] \ {Flag(k)} ELSE moves[m]
  <1>1. \A m \in Movers :
           moves'[m] = IF mode = m THEN moves[m] \ {Flag(k)} ELSE moves[m]
    BY DEF Releasing
  <1>. DEFINE c == walker.crouching /\ ~(mode = "walk" /\ k = "crouch")
  <1>2. walker' = [walker EXCEPT !.crouching = c] /\ c \in BOOLEAN
    BY DEF Releasing
  <1>3. "walk" \in Movers
    BY DEF Movers
  <1>4. "crouch" \in moves'["walk"] <=> c
    BY <1>1, <1>3, CrouchIsTaken DEF CrouchesAsHeld
  <1>. QED  BY <1>1, <1>2, <1>4, WhoCrouches DEF CrouchesAsHeld

(* A key moves: the mode and the pointer are as they were. *)
LEMMA KeyMoves ==
    ASSUME ControlsInv, UNCHANGED <<mode, pointer, slipped>>, KeysInv',
           CrouchesAsHeld', UNCHANGED <<walker.ladder, walker.velocity>>,
           walker' \in [ladder : BOOLEAN, ground : BOOLEAN,
                        crouching : BOOLEAN, velocity : Int]
    PROVE  ControlsInv'
  BY DEF ControlsInv, ViewerTypes, ClimbingIsStill, PointerInv,
         AsksWhereHeard, LockIsHeard

(* The walker moves: his keys and the pointer are as they were.            *)
LEMMA WalkerMoves ==
    ASSUME ControlsInv, UNCHANGED <<mode, keyVars, pointer, slipped>>,
           walker' \in [ladder : BOOLEAN, ground : BOOLEAN,
                        crouching : BOOLEAN, velocity : Int],
           walker'.crouching = walker.crouching, ClimbingIsStill'
    PROVE  ControlsInv'
  <1>1. KeysInv'
    BY KeysKept DEF ControlsInv
  <1>2. UNCHANGED <<mode, moves, pointer, slipped>>
    BY DEF keyVars
  <1>. QED  BY <1>1, <1>2 DEF ControlsInv, ViewerTypes, CrouchesAsHeld,
                              PointerInv, AsksWhereHeard, LockIsHeard

LEMMA ControlsStep == ControlsInv /\ [ViewerNext]_viewerVars => ControlsInv'
  <1>. SUFFICES ASSUME ControlsInv, [ViewerNext]_viewerVars
                PROVE  ControlsInv'
    OBVIOUS
  <1>. USE DEF ControlsInv
  <1>. DEFINE Pointers == [locked : BOOLEAN, heard : BOOLEAN,
                           asked : BOOLEAN, leaving : BOOLEAN]
  <1>0. pointer \in Pointers /\ slipped \in BOOLEAN
    BY DEF ViewerTypes
  <1>1. CASE HandleControlModeChange
    <2>1. PICK m \in Modes :
            /\ mode' = m
            /\ pointer' =
                 [pointer EXCEPT
                    !.leaving = @ \/ (m = "orbit" /\ pointer.locked),
                    !.heard = @ /\ m # "orbit" /\ mode # "orbit"]
            /\ slipped' = (slipped \/ (m = "orbit" /\ pointer.asked))
      BY <1>1 DEF HandleControlModeChange
    <2>2. UNCHANGED <<keyVars, walker>>
      BY <1>1 DEF HandleControlModeChange
    <2>3. /\ pointer' \in Pointers /\ pointer'.asked = pointer.asked
          /\ pointer'.locked = pointer.locked
          /\ pointer'.leaving = (pointer.leaving
                                   \/ (m = "orbit" /\ pointer.locked))
          /\ pointer'.heard = (pointer.heard /\ m # "orbit"
                                 /\ mode # "orbit")
      BY <1>0, <2>1
    <2>4. ViewerTypes'
      BY <1>0, <2>1, <2>2, <2>3 DEF ViewerTypes
    <2>5. KeysInv' /\ CrouchesAsHeld' /\ ClimbingIsStill'
      <3>1. UNCHANGED moves
        BY <2>2 DEF keyVars
      <3>. QED  BY <2>2, <3>1, KeysKept DEF CrouchesAsHeld, ClimbingIsStill
    <2>6. AsksWhereHeard'
      BY <1>0, <2>1, <2>3 DEF PointerInv, AsksWhereHeard
    <2>7. LockIsHeard'
      BY <1>0, <2>1, <2>2, <2>3 DEF PointerInv, LockIsHeard
    <2>. QED  BY <2>4, <2>5, <2>6, <2>7 DEF PointerInv
  <1>2. CASE SetSlider \/ ResetAll \/ HandleWheel
    <2>1. UNCHANGED <<mode, keyVars, walker, pointer, slipped>>
      BY <1>2 DEF SetSlider, ResetAll, HandleWheel
    <2>2. PointerInv'
      BY <2>1 DEF PointerInv, LockIsHeard, AsksWhereHeard
    <2>. QED  BY <1>0, <2>1, <2>2, PointerMoves
  <1>3. CASE EscapeLock
    <2>1. /\ pointer' = [pointer EXCEPT !.locked = FALSE, !.heard = FALSE]
          /\ slipped' = (slipped /\ pointer.asked)
          /\ UNCHANGED <<mode, keyVars, walker>>
      BY <1>3 DEF EscapeLock, Unlocked, Recovers
    <2>2. /\ pointer' \in Pointers /\ pointer'.asked = pointer.asked
          /\ ~pointer'.locked /\ ~pointer'.heard
      BY <1>0, <2>1
    <2>3. PointerInv'
      BY <1>0, <2>1, <2>2 DEF PointerInv, LockIsHeard, AsksWhereHeard
    <2>. QED  BY <1>0, <2>1, <2>2, <2>3, PointerMoves
  <1>4. CASE RequestPointerLock
    <2>1. /\ mode # "orbit" /\ pointer' = [pointer EXCEPT !.asked = TRUE]
          /\ UNCHANGED <<mode, keyVars, walker, slipped>>
      BY <1>4 DEF RequestPointerLock
    <2>2. /\ pointer' \in Pointers /\ pointer'.locked = pointer.locked
          /\ pointer'.heard = pointer.heard
          /\ pointer'.leaving = pointer.leaving
      BY <1>0, <2>1
    <2>3. PointerInv'
      BY <2>1, <2>2 DEF PointerInv, LockIsHeard, AsksWhereHeard
    <2>. QED  BY <1>0, <2>1, <2>2, <2>3, PointerMoves
  <1>5. CASE LockGranted
    <2>1. /\ pointer.asked
          /\ pointer' = [pointer EXCEPT !.asked = FALSE, !.locked = TRUE,
                                        !.heard = mode # "orbit"]
          /\ UNCHANGED <<mode, keyVars, walker, slipped>>
      BY <1>5 DEF LockGranted
    <2>2. /\ pointer' \in Pointers /\ ~pointer'.asked /\ pointer'.locked
          /\ pointer'.heard = (mode # "orbit")
      BY <1>0, <2>1
    <2>3. PointerInv'
      BY <2>1, <2>2 DEF PointerInv, LockIsHeard, AsksWhereHeard
    <2>. QED  BY <1>0, <2>1, <2>2, <2>3, PointerMoves
  <1>6. CASE LockLeft
    <2>1. /\ pointer' = [Unlocked EXCEPT !.leaving = FALSE]
          /\ slipped' = (slipped /\ pointer.asked)
          /\ UNCHANGED <<mode, keyVars, walker>>
      BY <1>6 DEF LockLeft, Recovers
    <2>2. /\ pointer' \in Pointers /\ pointer'.asked = pointer.asked
          /\ ~pointer'.locked /\ ~pointer'.heard
      BY <1>0, <2>1 DEF Unlocked
    <2>3. PointerInv'
      BY <1>0, <2>1, <2>2 DEF PointerInv, LockIsHeard, AsksWhereHeard
    <2>. QED  BY <1>0, <2>1, <2>2, <2>3, PointerMoves
  <1>7. CASE KeyDown
    <2>1. PICK k \in KeyNames \ held :
            /\ held' = held \cup {k} /\ Pressing(k)
            /\ unseen' = [m \in Movers |-> IF Takes(m, k)
                                           THEN unseen[m] \ {Flag(k)}
                                           ELSE Missed(m, {Flag(k)})]
      BY <1>7 DEF KeyDown
    <2>2. UNCHANGED <<mode, pointer, slipped>>
      BY <1>7 DEF KeyDown
    <2>3. \A m \in Movers :
             unseen'[m] = IF Takes(m, k) THEN unseen[m] \ {Flag(k)}
                                         ELSE Missed(m, {Flag(k)})
      BY <2>1
    <2>4. /\ CrouchesAsHeld' /\ UNCHANGED <<walker.ladder, walker.velocity>>
          /\ walker' \in [ladder : BOOLEAN, ground : BOOLEAN,
                          crouching : BOOLEAN, velocity : Int]
          /\ \A m \in Movers :
               moves'[m] = IF Takes(m, k) THEN moves[m] \cup {Flag(k)}
                                          ELSE moves[m]
      BY <2>1, PressingCrouches
    <2>5. KeysInv'
      BY <2>1, <2>3, <2>4, KeyGoesDown
    <2>. QED  BY <2>2, <2>4, <2>5, KeyMoves
  <1>13. CASE KeyRepeats
    <2>1. PICK k \in held :
            /\ Pressing(k)
            /\ unseen' = [m \in Movers |-> IF Takes(m, k)
                                           THEN unseen[m] \ {Flag(k)}
                                           ELSE unseen[m]]
      BY <1>13 DEF KeyRepeats
    <2>2. UNCHANGED <<mode, held, pointer, slipped>> /\ k \in KeyNames
      BY <1>13 DEF KeyRepeats, KeysInv, KeysTyped
    <2>3. \A m \in Movers :
             unseen'[m] = IF Takes(m, k) THEN unseen[m] \ {Flag(k)}
                                         ELSE unseen[m]
      BY <2>1
    <2>4. /\ CrouchesAsHeld' /\ UNCHANGED <<walker.ladder, walker.velocity>>
          /\ walker' \in [ladder : BOOLEAN, ground : BOOLEAN,
                          crouching : BOOLEAN, velocity : Int]
          /\ \A m \in Movers :
               moves'[m] = IF Takes(m, k) THEN moves[m] \cup {Flag(k)}
                                          ELSE moves[m]
      BY <2>1, <2>2, PressingCrouches
    <2>5. held' = held \cup {k}
      BY <2>2
    <2>6. KeysInv'
      BY <2>2, <2>3, <2>4, <2>5, KeyGoesDown
    <2>. QED  BY <2>2, <2>4, <2>6, KeyMoves
  <1>8. CASE KeyUp
    <2>1. PICK k \in held :
            /\ held' = held \ {k} /\ Releasing(k)
            /\ unseen' = [m \in Movers |-> IF mode = m
                                           THEN unseen[m] \ {Flag(k)}
                                           ELSE Missed(m, {Flag(k)})]
      BY <1>8 DEF KeyUp
    <2>2. UNCHANGED <<mode, pointer, slipped>> /\ k \in KeyNames
      BY <1>8 DEF KeyUp, KeysInv, KeysTyped
    <2>3. \A m \in Movers :
             unseen'[m] = IF mode = m THEN unseen[m] \ {Flag(k)}
                                      ELSE Missed(m, {Flag(k)})
      BY <2>1
    <2>4. /\ CrouchesAsHeld' /\ UNCHANGED <<walker.ladder, walker.velocity>>
          /\ walker' \in [ladder : BOOLEAN, ground : BOOLEAN,
                          crouching : BOOLEAN, velocity : Int]
          /\ \A m \in Movers :
               moves'[m] = IF mode = m THEN moves[m] \ {Flag(k)} ELSE moves[m]
      BY <2>1, <2>2, ReleasingStands
    <2>. DEFINE gone == {k}
    <2>5. {Flag(x) : x \in gone} = {Flag(k)}
      OBVIOUS
    <2>6. \A m \in Movers :
             \/ /\ moves'[m] = moves[m] \ {Flag(x) : x \in gone}
                /\ unseen'[m] = unseen[m] \ {Flag(x) : x \in gone}
             \/ /\ moves'[m] = moves[m]
                /\ unseen'[m] = Missed(m, {Flag(x) : x \in gone})
      BY <2>3, <2>4, <2>5
    <2>7. gone \in SUBSET held /\ held' = held \ gone
      BY <2>1
    <2>8. KeysInv'
      <3>. HIDE DEF gone
      <3>. QED  BY <2>6, <2>7, KeysGoUp
    <2>. QED  BY <2>2, <2>4, <2>8, KeyMoves
  <1>9. CASE LoseFocus
    <2>1. /\ held' = {}
          /\ unseen' = [m \in Movers |-> Missed(m, {Flag(k) : k \in held})]
          /\ UNCHANGED <<mode, moves, walker>>
          /\ slipped' = (slipped /\ pointer.asked)
          /\ pointer' = [pointer EXCEPT !.locked = FALSE, !.heard = FALSE]
      BY <1>9 DEF LoseFocus, Unlocked, Recovers
    <2>2. KeysInv'
      <3>1. \A m \in Movers :
               /\ moves'[m] = moves[m]
               /\ unseen'[m] = Missed(m, {Flag(k) : k \in held})
        BY <2>1
      <3>2. held \in SUBSET held /\ held' = held \ held
        BY <2>1
      <3>. QED  BY <3>1, <3>2, KeysGoUp
    <2>3. /\ pointer' \in Pointers /\ pointer'.asked = pointer.asked
          /\ ~pointer'.locked /\ ~pointer'.heard
      BY <1>0, <2>1
    <2>4. PointerInv'
      BY <1>0, <2>1, <2>3 DEF PointerInv, LockIsHeard, AsksWhereHeard
    <2>. QED  BY <1>0, <2>1, <2>2, <2>3, <2>4
              DEF ViewerTypes, CrouchesAsHeld, ClimbingIsStill
  <1>10. CASE Jump
    <2>1. /\ walker' \in {walker, [walker EXCEPT !.ladder = FALSE,
                                                 !.velocity = 1]}
          /\ UNCHANGED <<mode, keyVars, pointer, slipped>>
      BY <1>10 DEF Jump
    <2>2. /\ walker' \in [ladder : BOOLEAN, ground : BOOLEAN,
                          crouching : BOOLEAN, velocity : Int]
          /\ walker'.crouching = walker.crouching
          /\ walker'.ladder => walker'.velocity = 0
      <3>1. CASE walker' = walker
        BY <3>1 DEF ViewerTypes, ClimbingIsStill
      <3>2. CASE walker' = [walker EXCEPT !.ladder = FALSE, !.velocity = 1]
        <4>1. walker'.ladder = FALSE /\ walker'.crouching = walker.crouching
          BY <3>2 DEF ViewerTypes
        <4>2. walker' \in [ladder : BOOLEAN, ground : BOOLEAN,
                           crouching : BOOLEAN, velocity : Int]
          <5>1. walker' = [ladder |-> FALSE, ground |-> walker.ground,
                           crouching |-> walker.crouching, velocity |-> 1]
            BY <3>2 DEF ViewerTypes
          <5>2. walker.ground \in BOOLEAN /\ walker.crouching \in BOOLEAN
            BY DEF ViewerTypes
          <5>. QED  BY <5>1, <5>2
        <4>. QED  BY <4>1, <4>2
      <3>. QED  BY <2>1, <3>1, <3>2
    <2>. QED  BY <2>1, <2>2, WalkerMoves DEF ClimbingIsStill
  <1>11. CASE WalkFrame
    <2>1. UNCHANGED <<mode, keyVars, pointer, slipped>>
      BY <1>11 DEF WalkFrame
    <2>2. PICK near \in BOOLEAN, ground \in BOOLEAN, stepped \in BOOLEAN,
               bumped \in BOOLEAN :
            \E v \in IF bumped THEN {0} ELSE Velocities(near, ground, stepped) :
              walker' = [walker EXCEPT !.ladder = OnLadder(near) \/ bumped,
                                       !.ground = ground, !.velocity = v]
      BY <1>11 DEF WalkFrame
    <2>3. PICK v \in IF bumped THEN {0}
                     ELSE Velocities(near, ground, stepped) :
            walker' = [walker EXCEPT !.ladder = OnLadder(near) \/ bumped,
                                     !.ground = ground, !.velocity = v]
      BY <2>2
    <2>4. v \in Int /\ (OnLadder(near) \/ bumped => v = 0)
      BY DEF Velocities, Falling, ViewerTypes
    <2>5. (OnLadder(near) \/ bumped) \in BOOLEAN
      BY DEF OnLadder
    <2>6. /\ walker' \in [ladder : BOOLEAN, ground : BOOLEAN,
                          crouching : BOOLEAN, velocity : Int]
          /\ walker'.crouching = walker.crouching
          /\ walker'.velocity = v
          /\ walker'.ladder = (OnLadder(near) \/ bumped)
      BY <2>3, <2>4, <2>5 DEF ViewerTypes
    <2>. QED  BY <2>1, <2>4, <2>6, WalkerMoves DEF ClimbingIsStill
  <1>12. CASE UNCHANGED viewerVars
    <2>1. UNCHANGED <<mode, keyVars, walker, pointer, slipped>>
      BY <1>12 DEF viewerVars
    <2>2. PointerInv'
      BY <2>1 DEF PointerInv, LockIsHeard, AsksWhereHeard
    <2>. QED  BY <1>0, <2>1, <2>2, PointerMoves
  <1>. QED
    BY <1>1, <1>2, <1>3, <1>4, <1>5, <1>6, <1>7, <1>8, <1>9, <1>10, <1>11,
       <1>12, <1>13 DEF ViewerNext

-----------------------------------------------------------------------------
(* The live feed: one stream or one timer, and a page that was left with a *)
(* stream has nothing.                                                     *)
OneConnection ==
    /\ source \in Nat
    /\ \/ streams = {source} /\ timers = 0
       \/ streams = {} /\ timers \in {0, 1}
    /\ left \in Nat \cup {None}
    /\ left = 0 => streams = {} /\ timers = 0

Listed(b) == {i \in DOMAIN feed.events : feed.events[i] = b}

BadgesCount ==
    /\ feed \in [events : Seq(Channels), counters : [Badges -> Nat]]
    /\ \A b \in Badges : feed.counters[b] = Cardinality(Listed(b))

LiveInv == OneConnection /\ BadgesCount

(* What an event in front of the others adds to the count of a badge. *)
LEMMA OneMore ==
    ASSUME NEW e \in Seq(Channels), NEW c \in Channels, NEW b \in Badges
    PROVE  Cardinality({i \in DOMAIN (<<c>> \o e) : (<<c>> \o e)[i] = b})
             = Cardinality({i \in DOMAIN e : e[i] = b})
                 + IF c = b THEN 1 ELSE 0
  <1>. DEFINE d == <<c>> \o e
              S == {i \in DOMAIN e : e[i] = b}
              T == {i + 1 : i \in S}
              f == [i \in S |-> i + 1]
  <1>1. /\ DOMAIN e = 1..Len(e) /\ Len(e) \in Nat
        /\ DOMAIN d = 1..(Len(e) + 1)
        /\ d[1] = c /\ \A i \in 1..Len(e) : d[i + 1] = e[i]
    OBVIOUS
  <1>2. IsFiniteSet(S) /\ Cardinality(S) \in Nat /\ S \subseteq 1..Len(e)
    <2>1. IsFiniteSet(1..Len(e))
      <3>1. 1 \in Int /\ Len(e) \in Int
        BY <1>1
      <3>. QED  BY <3>1, FS_Interval
    <2>2. S \in SUBSET (1..Len(e))
      BY <1>1
    <2>. QED  BY <2>1, <2>2, FS_Subset, FS_CardinalityType
  <1>3. f \in [S -> T] /\ \A x, y \in S : f[x] = f[y] => x = y
    BY <1>2
  <1>4. \A t \in T : \E s \in S : f[s] = t
    OBVIOUS
  <1>5. f \in Bijection(S, T)
    BY <1>3, <1>4, Fun_IsBij
  <1>6. ExistsBijection(S, T)
    BY <1>5 DEF ExistsBijection
  <1>7. IsFiniteSet(T) /\ Cardinality(T) = Cardinality(S)
    <2>. HIDE DEF S, T
    <2>. QED  BY <1>2, <1>6, FS_Bijection
  <1>8. {i \in DOMAIN d : d[i] = b} = IF c = b THEN T \cup {1} ELSE T
    <2>1. ASSUME NEW i \in DOMAIN d, i # 1
          PROVE  d[i] = b <=> i \in T
      <3>1. i - 1 \in 1..Len(e) /\ i = (i - 1) + 1
        BY <1>1, <2>1
      <3>2. d[i] = e[i - 1]
        BY <1>1, <3>1
      <3>3. i \in T <=> i - 1 \in S
        BY <1>2, <3>1
      <3>. QED  BY <1>1, <3>1, <3>2, <3>3
    <2>2. T \subseteq DOMAIN d /\ 1 \notin T /\ 1 \in DOMAIN d
      BY <1>1, <1>2
    <2>3. ASSUME NEW i
          PROVE  i \in {j \in DOMAIN d : d[j] = b}
                   <=> i \in IF c = b THEN T \cup {1} ELSE T
      <3>. HIDE DEF T, d
      <3>1. CASE i = 1
        BY <1>1, <2>2, <3>1
      <3>2. CASE i # 1
        BY <2>1, <2>2, <3>2
      <3>. QED  BY <3>1, <3>2
    <2>. HIDE DEF T, d
    <2>. QED  BY <2>3
  <1>9. 1 \notin T
    BY <1>2
  <1>10. Cardinality(T \cup {1}) = Cardinality(T) + 1
    <2>. HIDE DEF T
    <2>. QED  BY <1>7, <1>9, FS_AddElement
  <1>. HIDE DEF S, T, d
  <1>11. Cardinality({i \in DOMAIN d : d[i] = b})
           = Cardinality(S) + IF c = b THEN 1 ELSE 0
    <2>1. CASE c = b
      BY <1>7, <1>8, <1>10, <2>1
    <2>2. CASE c # b
      <3>1. {i \in DOMAIN d : d[i] = b} = T
        BY <1>8, <2>2
      <3>2. Cardinality({i \in DOMAIN d : d[i] = b}) = Cardinality(S)
        BY <1>7, <3>1
      <3>. QED  BY <1>2, <2>2, <3>2
    <2>. QED  BY <2>1, <2>2
  <1>. QED  BY <1>11 DEF S, d

LEMMA LiveStarts == LiveInit => LiveInv
  <1>. SUFFICES ASSUME LiveInit PROVE LiveInv
    OBVIOUS
  <1>1. OneConnection
    BY LiveAssumption DEF LiveInit, OneConnection
  <1>2. feed = [events |-> <<>>, counters |-> [c \in Badges |-> 0]]
    BY DEF LiveInit
  <1>3. \A b : Listed(b) = {}
    BY <1>2 DEF Listed
  <1>4. BadgesCount
    <2>1. feed \in [events : Seq(Channels), counters : [Badges -> Nat]]
      BY <1>2
    <2>2. ASSUME NEW b \in Badges
          PROVE  feed.counters[b] = Cardinality(Listed(b))
      <3>1. Listed(b) = {}
        BY <1>3
      <3>2. Cardinality(Listed(b)) = 0
        BY <3>1, FS_EmptySet
      <3>. QED  BY <1>2, <3>2
    <2>. QED  BY <2>1, <2>2 DEF BadgesCount
  <1>. QED  BY <1>1, <1>4 DEF LiveInv

LEMMA LiveStep == LiveInv /\ [LiveNext]_liveVars => LiveInv'
  <1>. SUFFICES ASSUME LiveInv, [LiveNext]_liveVars PROVE LiveInv'
    OBVIOUS
  <1>. USE DEF LiveInv
  <1>1. feed' = feed => BadgesCount'
    BY DEF BadgesCount, Listed
  <1>2. CASE EventComes
    <2>1. OneConnection'
      BY <1>2 DEF EventComes, OneConnection
    <2>2. PICK c \in Channels \cup {"heartbeat"} :
            feed' = IF c = "heartbeat" THEN feed
                    ELSE [events |-> <<c>> \o feed.events,
                          counters |-> [b \in Badges |-> feed.counters[b]
                                          + IF b = c THEN 1 ELSE 0]]
      BY <1>2 DEF EventComes
    <2>3. CASE c = "heartbeat"
      BY <1>1, <2>1, <2>2, <2>3
    <2>4. CASE c # "heartbeat"
      <3>1. /\ c \in Channels /\ feed'.events = <<c>> \o feed.events
            /\ feed'.counters = [b \in Badges |-> feed.counters[b]
                                   + IF b = c THEN 1 ELSE 0]
        BY <2>2, <2>4
      <3>2. feed.events \in Seq(Channels) /\ feed.counters \in [Badges -> Nat]
        BY DEF BadgesCount
      <3>3. feed' \in [events : Seq(Channels), counters : [Badges -> Nat]]
        BY <2>2, <2>4, <3>1, <3>2
      <3>4. ASSUME NEW b \in Badges
            PROVE  feed'.counters[b] = Cardinality(Listed(b)')
        <4>1. Cardinality(Listed(b)') = Cardinality(Listed(b))
                                          + IF c = b THEN 1 ELSE 0
          <5>. DEFINE e == feed.events
          <5>1. e \in Seq(Channels) /\ c \in Channels
            BY <3>1, <3>2
          <5>. HIDE DEF e
          <5>2. Cardinality({i \in DOMAIN (<<c>> \o e) : (<<c>> \o e)[i] = b})
                  = Cardinality({i \in DOMAIN e : e[i] = b})
                      + IF c = b THEN 1 ELSE 0
            BY <5>1, OneMore
          <5>. QED  BY <3>1, <5>2 DEF Listed, e
        <4>. QED  BY <3>1, <4>1 DEF BadgesCount
      <3>5. BadgesCount'
        BY <3>3, <3>4 DEF BadgesCount
      <3>. QED  BY <2>1, <3>5
    <2>. QED  BY <2>3, <2>4
  <1>3. CASE ConnectEventSource
    BY <1>1, <1>3 DEF ConnectEventSource, OneConnection
  <1>4. CASE LeaveFeed
    BY <1>1, <1>4, LiveAssumption DEF LeaveFeed, OneConnection
  <1>5. CASE StreamOpens
    BY <1>1, <1>5 DEF StreamOpens, OneConnection
  <1>6. CASE \E s \in streams : StreamFails(s)
    BY <1>1, <1>6 DEF StreamFails, OneConnection
  <1>7. CASE UNCHANGED liveVars
    BY <1>1, <1>7 DEF liveVars, OneConnection
  <1>. QED  BY <1>2, <1>3, <1>4, <1>5, <1>6, <1>7 DEF LiveNext

(* One stream at most, which the counts of LiveInStep say. *)
LEMMA LiveCounted == LiveInv => LiveInStep
  <1>. SUFFICES ASSUME LiveInv PROVE LiveInStep
    OBVIOUS
  <1>1. Cardinality({}) = 0 /\ Cardinality({source}) = 1
    BY FS_EmptySet, FS_Singleton
  <1>2. Cardinality(streams) + timers <= 1
    <2>1. CASE streams = {}
      BY <1>1, <2>1 DEF LiveInv, OneConnection
    <2>2. CASE streams = {source}
      <3>1. timers = 0 \/ streams = {}
        BY DEF LiveInv, OneConnection
      <3>. QED  BY <1>1, <2>1, <2>2, <3>1
    <2>. QED  BY <2>1, <2>2 DEF LiveInv, OneConnection
  <1>3. left = 0 => streams = {}
    BY DEF LiveInv, OneConnection
  <1>. QED  BY <1>2, <1>3 DEF LiveInv, BadgesCount, Listed, LiveInStep

-----------------------------------------------------------------------------
(* The tab shows one page: whatever happens, the person clicks or nobody   *)
(* does.                                                                   *)
Happens == Click \/ Alone

LEMMA TroublesHappen == \A k : Troubles(k) => Happens
  BY DEF Troubles, Happens

LEMMA PagesHappen ==
    /\ RadarNext \/ PanelNext \/ GraphNext \/ SceneNext \/ ViewerNext
         \/ LiveNext => Happens
    /\ CommentsNext \/ GuideNext \/ TableNext \/ MapsNext \/ PushNext
         \/ ConsentNext \/ SearchNext => Happens
  <1>1. RadarNext => Happens
    BY DEF Happens, RadarNext, TogglePlay, ToggleLive, StepBack, StepForward,
           MoveSlider, ChangeRange, ChangeInterval, PlayTick, LiveTick,
           LayerUpdates, ClockTicks
  <1>2. PanelNext => Happens
    BY DEF Happens, PanelNext, ChangePage, ChangeFilter, ChangeFilterLater,
           AskAgain, Answered, Failed, AbortEnds
  <1>3. GraphNext => Happens
    BY DEF Happens, GraphNext, PickDate, HandleApply, HandleToday,
           HandleDateForceChange, ZoomComplete, ZoomTimer, ApplyTimer,
           GraphAnswered
  <1>4. SceneNext => Happens
    BY DEF Happens, SceneNext, SceneAnswers, HandleResolutionClick,
           LeaveViewer, ReloadSite, MoveMaterial, Outdate, Downloads,
           ValidateScene, OptimizeMaterials, WalkEnds, PassEnds
  <1>5. ViewerNext => Happens
    BY DEF Happens, ViewerNext, HandleControlModeChange, SetSlider, ResetAll,
           HandleWheel, EscapeLock, RequestPointerLock, LockGranted, LockLeft,
           KeyDown, KeyRepeats, KeyUp, LoseFocus, Jump, WalkFrame
  <1>6. LiveNext => Happens
    BY DEF Happens, LiveNext, EventComes, ConnectEventSource, LeaveFeed,
           StreamOpens, StreamFails
  <1>7. CommentsNext => Happens
    <2>1. \A k : Serve(k) \/ Answer(k) => Happens
      BY DEF Happens, Serve, Answer
    <2>2. SubmitComment \/ SendReport \/ Dialogs => Happens
      BY DEF Happens, SubmitComment, SendReport, Dialogs, Calls
    <2>3. \A c, v : EditComment(c) \/ DeleteComment(c) \/ VoteComment(c, v)
                      => Happens
      BY DEF Happens, EditComment, DeleteComment, VoteComment, Calls
    <2>. QED  BY <2>1, <2>2, <2>3, TroublesHappen DEF CommentsNext
  <1>8. GuideNext => Happens
    <2>1. \A k : ServeGuide(k) \/ GuideAnswered(k) => Happens
      BY DEF Happens, ServeGuide, GuideAnswered
    <2>2. SetScope \/ LoadServers \/ PickServer \/ Write
            \/ OpenMarkdownDialog \/ HandleDialogSubmit => Happens
      BY DEF Happens, SetScope, LoadServers, PickServer, Write,
             OpenMarkdownDialog, HandleDialogSubmit
    <2>3. HandleSubmit \/ HandleCancel \/ OpenEditor \/ Navigated
            \/ HandleVote \/ HandleDelete \/ HandleReport => Happens
      BY DEF Happens, HandleSubmit, HandleCancel, OpenEditor, Navigated,
             HandleVote, HandleDelete, HandleReport, Asks
    <2>. QED  BY <2>1, <2>2, <2>3, TroublesHappen DEF GuideNext
  <1>9. TableNext => Happens
    <2>1. \A k : ServeRow(k) \/ RowChanged(k) => Happens
      BY DEF Happens, ServeRow, RowChanged
    <2>2. SelectFilter \/ ChangeRow \/ OpenDialog \/ CloseDialog \/ Save
            => Happens
      BY DEF Happens, SelectFilter, ChangeRow, OpenDialog, CloseDialog, Save
    <2>3. \A r : ServeTable(r) \/ TableAnswered(r) => Happens
      BY DEF Happens, ServeTable, TableAnswered
    <2>. QED  BY <2>1, <2>2, <2>3, TroublesHappen DEF TableNext
  <1>10. MapsNext => Happens
    <2>1. \A k : ServeMaps(k) \/ MapsAnswered(k) => Happens
      BY DEF Happens, ServeMaps, MapsAnswered
    <2>2. HandleSearchChange \/ SearchSettles \/ TurnPage => Happens
      BY DEF Happens, HandleSearchChange, SearchSettles, TurnPage
    <2>3. OpenMapDialog \/ CloseMapDialog \/ EditForm => Happens
      BY DEF Happens, OpenMapDialog, CloseMapDialog, EditForm
    <2>4. HandleSaveGlobal \/ HandleSave \/ ConfirmDeleteMap => Happens
      BY DEF Happens, HandleSaveGlobal, HandleSave, ConfirmDeleteMap, Saves
    <2>5. ChooseModel \/ HandleUpload \/ UploadProgresses
            \/ HandleCancelUpload \/ HandleDeleteModel => Happens
      BY DEF Happens, ChooseModel, HandleUpload, UploadProgresses,
             HandleCancelUpload, HandleDeleteModel
    <2>. QED  BY <2>1, <2>2, <2>3, <2>4, <2>5, TroublesHappen DEF MapsNext
  <1>11. PushNext => Happens
    <2>1. \A k : PushServes(k) \/ PushAnswered(k) => Happens
      BY DEF Happens, PushServes, PushAnswered
    <2>2. HandleDismiss \/ Disable \/ UpdatePreference => Happens
      BY DEF Happens, HandleDismiss, Disable, UpdatePreference
    <2>3. HandleSubscribe \/ HandleUnsubscribe \/ RemoveSubscription
            => Happens
      BY DEF Happens, HandleSubscribe, HandleUnsubscribe, RemoveSubscription
    <2>4. \A h : Enable(h) \/ RequestPermission(h) \/ Subscribe(h) => Happens
      BY DEF Happens, Enable, RequestPermission, Subscribe
    <2>. QED  BY <2>1, <2>2, <2>3, <2>4, TroublesHappen DEF PushNext
  <1>12. ConsentNext => Happens
    <2>1. \A k : ConsentServes(k) \/ ConsentAnswered(k) => Happens
      BY DEF Happens, ConsentServes, ConsentAnswered
    <2>. QED  BY <2>1, TroublesHappen DEF ConsentNext, HandleToggleAnonymize,
                                          RenderAgain, Alone, Happens
  <1>13. SearchNext => Happens
    <2>1. \A k : SearchServes(k) \/ SearchAnswered(k) => Happens
      BY DEF Happens, SearchServes, SearchAnswered
    <2>2. HandleInputChange \/ HandleKeyDown \/ HandleSelect \/ SortBy
            => Happens
      BY DEF Happens, HandleInputChange, HandleKeyDown, HandleSelect, SortBy
    <2>3. HandleChangePage \/ ToggleFavorite \/ SearchTimer
            \/ LoadAutocomplete => Happens
      BY DEF Happens, HandleChangePage, ToggleFavorite, SearchTimer,
             LoadAutocomplete
    <2>. QED  BY <2>1, <2>2, <2>3, TroublesHappen DEF SearchNext
  <1>. QED
    BY <1>1, <1>2, <1>3, <1>4, <1>5, <1>6, <1>7, <1>8, <1>9, <1>10, <1>11,
       <1>12, <1>13

LEMMA PageStays == [Next]_siteVars => page' = page
  <1>1. Happens => page' = page
    BY DEF Happens, Click, Alone, browserVars
  <1>2. Next => Happens
    BY PagesHappen DEF Next
  <1>3. UNCHANGED siteVars => page' = page
    BY DEF siteVars, browserVars
  <1>. QED  BY <1>1, <1>2, <1>3

-----------------------------------------------------------------------------
(* The maps of a server: the search and the text of its box. *)
SearchShape ==
    /\ box = [input |-> box.input, options |-> box.options,
              timer |-> box.timer, suggest |-> box.suggest]
    /\ search = Searched(search.term, search.sort, search.page)
    /\ hearts = [shown |-> hearts.shown, stored |-> hearts.stored]

SearchedAsTyped == ~box.timer => search.term = box.input

(* Nothing failed, so a request is on its way or was answered. *)
Healthy ==
    \A k \in calls :
      /\ k = [what |-> k.what, of |-> k.of, arg |-> k.arg, saw |-> k.saw,
              try |-> k.try, limited |-> k.limited, state |-> k.state,
              got |-> k.got]
      /\ k.state \in {"sent", "ok"}

(* At most one read of suggestions is out, and it is for the text. *)
SuggestionsComing ==
    /\ \A j, k \in calls : j.what = "suggest" /\ k.what = "suggest" => j = k
    /\ ~box.suggest =>
         \/ \E k \in calls : k.what = "suggest" /\ k.of = box.input
         \/ /\ \A k \in calls : k.what # "suggest"
            /\ box.options = box.input

(* At most one answer is under way.  A list has the hearts as they are     *)
(* stored; without a list, the hearts are those shown, after the answer.   *)
HeartsComing ==
    /\ \A j, k \in calls : j.state = "ok" /\ k.state = "ok" => j = k
    /\ \A k \in calls : k.what = "list" /\ k.state = "ok"
                          => k.got = hearts.stored
    /\ (\A k \in calls : k.what # "list") =>
         /\ \/ \E k \in calls : k.state = "ok"
            \/ hearts.shown = hearts.stored
         /\ \A k \in calls : k.state = "ok"
                               => hearts.stored = After(k, hearts.shown)

SearchInv ==
    page = "search" =>
      /\ SearchShape /\ SearchedAsTyped /\ lost \in Nat
      /\ lost = 0 => Healthy
      /\ lost = 0 /\ ~crossing => SuggestionsComing /\ HeartsComing

(* What a request is when it is sent. *)
LEMMA Requested ==
    ASSUME NEW what, NEW of, NEW arg, NEW saw
    PROVE  LET k == Request(what, of, arg, saw)
           IN  /\ k.what = what /\ k.of = of /\ k.state = "sent"
               /\ k = [what |-> k.what, of |-> k.of, arg |-> k.arg,
                       saw |-> k.saw, try |-> k.try, limited |-> k.limited,
                       state |-> k.state, got |-> k.got]
  BY DEF Request

(* A request more, which says nothing of the hearts until it is served.    *)
LEMMA SentBeside ==
    ASSUME NEW what, NEW of, NEW arg, NEW saw,
           Send(Request(what, of, arg, saw))
    PROVE  /\ lost' = lost /\ calls \subseteq calls'
           /\ \A k \in calls' : k \in calls \/ (k.what = what /\ k.of = of)
           /\ \E k \in calls' : k.what = what /\ k.of = of
           /\ Healthy => Healthy'
           /\ HeartsComing /\ UNCHANGED hearts => HeartsComing'
  <1>. DEFINE r == Request(what, of, arg, saw)
  <1>1. /\ calls' = calls \cup {r} /\ lost' = lost
    BY DEF Send
  <1>2. /\ r.what = what /\ r.of = of /\ r.state = "sent"
        /\ r = [what |-> r.what, of |-> r.of, arg |-> r.arg, saw |-> r.saw,
                try |-> r.try, limited |-> r.limited, state |-> r.state,
                got |-> r.got]
    BY Requested
  <1>. HIDE DEF r
  <1>3. Healthy => Healthy'
    BY <1>1, <1>2 DEF Healthy
  <1>4. HeartsComing /\ UNCHANGED hearts => HeartsComing'
    <2>. SUFFICES ASSUME HeartsComing, UNCHANGED hearts PROVE HeartsComing'
      OBVIOUS
    <2>1. \A k \in calls' : k.state = "ok" => k \in calls
      BY <1>1, <1>2
    <2>2. calls \subseteq calls'
      BY <1>1
    <2>. QED  BY <2>1, <2>2 DEF HeartsComing, After
  <1>. QED  BY <1>1, <1>2, <1>3, <1>4

LEMMA AskedBeside ==
    ASSUME NEW s, Ask(s)
    PROVE  /\ search' = s /\ lost' = lost /\ calls \subseteq calls'
           /\ \A k \in calls' : k \in calls \/ k.what = "list"
           /\ Healthy => Healthy'
           /\ HeartsComing /\ UNCHANGED hearts => HeartsComing'
  <1>1. CASE s = search
    BY <1>1 DEF Ask, fetchVars, Healthy, HeartsComing, After
  <1>2. CASE s # search
    <2>1. search' = s /\ Send(Request("list", None, None, clicks'))
      BY <1>2 DEF Ask, ListRead
    <2>. QED  BY <2>1, SentBeside
  <1>. QED  BY <1>1, <1>2

(* What a request is once the API did it. *)
LEMMA OkRecord ==
    ASSUME NEW k, NEW g,
           k = [what |-> k.what, of |-> k.of, arg |-> k.arg, saw |-> k.saw,
                try |-> k.try, limited |-> k.limited, state |-> k.state,
                got |-> k.got]
    PROVE  [k EXCEPT !.state = "ok", !.got = g]
             = [what |-> k.what, of |-> k.of, arg |-> k.arg, saw |-> k.saw,
                try |-> k.try, limited |-> k.limited, state |-> "ok",
                got |-> g]
  <1>1. PICK m : m = [k EXCEPT !.state = "ok"]
    OBVIOUS
  <1>2. m = [what |-> k.what, of |-> k.of, arg |-> k.arg, saw |-> k.saw,
             try |-> k.try, limited |-> k.limited, state |-> "ok",
             got |-> k.got]
    BY <1>1
  <1>3. PICK n : n = [m EXCEPT !.got = g]
    OBVIOUS
  <1>4. n = [what |-> k.what, of |-> k.of, arg |-> k.arg, saw |-> k.saw,
             try |-> k.try, limited |-> k.limited, state |-> "ok",
             got |-> g]
    BY <1>2, <1>3
  <1>5. [k EXCEPT !.state = "ok", !.got = g]
          = [[k EXCEPT !.state = "ok"] EXCEPT !.got = g]
    BY Zenon
  <1>. QED  BY <1>1, <1>3, <1>4, <1>5

(* Nothing is suggested meanwhile, and the box says the same. *)
LEMMA SuggestionsKept ==
    ASSUME SuggestionsComing, calls \subseteq calls',
           \A k \in calls' : k \in calls \/ k.what # "suggest",
           box'.input = box.input, box'.options = box.options,
           box'.suggest = box.suggest
    PROVE  SuggestionsComing'
  BY DEF SuggestionsComing

(* What a text in the box does. *)
LEMMA TypedText ==
    ASSUME SearchShape, NEW t
    PROVE  LET b == Typed(t)
           IN  /\ b = [input |-> b.input, options |-> b.options,
                       timer |-> b.timer, suggest |-> b.suggest]
               /\ b.input = t
               /\ t = box.input => b = box
               /\ t # box.input /\ t # None => b.timer /\ b.suggest
               /\ t # box.input /\ t = None =>
                    ~b.timer /\ ~b.suggest /\ b.options = None
  BY DEF SearchShape, Typed

LEMMA SearchTypes == \A x \in Texts : x # None
  BY MapSearchAssumption

LEMMA SearchStep ==
    ASSUME page = "search", SearchInv,
           [SearchNext]_<<browserVars, fetchVars, searchVars>>
    PROVE  SearchInv'
  <1>0. /\ SearchShape /\ SearchedAsTyped /\ lost \in Nat
        /\ lost = 0 => Healthy
        /\ lost = 0 /\ ~crossing => SuggestionsComing /\ HeartsComing
    BY DEF SearchInv
  <1>1. CASE HandleInputChange
    <2>1. PICK t \in (Texts \cup {None}) \ {box.input} :
            /\ box' = Typed(t)
            /\ IF t = None THEN Ask(Searched(None, search.sort, 0))
                           ELSE UNCHANGED <<search, fetchVars>>
            /\ crossing' = (crossing \/ (t = None /\ Under({"suggest"})))
      BY <1>1 DEF HandleInputChange
    <2>2. hearts' = hearts
      BY <1>1 DEF HandleInputChange
    <2>3. /\ box' = [input |-> box'.input, options |-> box'.options,
                     timer |-> box'.timer, suggest |-> box'.suggest]
          /\ box'.input = t
          /\ t # None => box'.timer /\ box'.suggest
          /\ t = None => ~box'.timer /\ ~box'.suggest /\ box'.options = None
      BY <1>0, <2>1, TypedText
    <2>4. CASE t = None
      <3>1. /\ search' = Searched(None, search.sort, 0) /\ lost' = lost
            /\ calls \subseteq calls'
            /\ \A k \in calls' : k \in calls \/ k.what = "list"
            /\ Healthy => Healthy'
            /\ HeartsComing => HeartsComing'
        BY <2>1, <2>2, <2>4, AskedBeside
      <3>2. SearchShape' /\ SearchedAsTyped'
        BY <1>0, <2>2, <2>3, <2>4, <3>1
        DEF SearchShape, SearchedAsTyped, Searched
      <3>3. ~crossing' => ~crossing /\ \A k \in calls : k.what # "suggest"
        BY <2>1, <2>4 DEF Under
      <3>4. ~crossing' => SuggestionsComing'
        BY <2>3, <2>4, <3>1, <3>3 DEF SuggestionsComing
      <3>. QED  BY <1>0, <3>1, <3>2, <3>3, <3>4 DEF SearchInv
    <2>5. CASE t # None
      <3>1. UNCHANGED <<search, fetchVars, hearts>> /\ (crossing' <=> crossing)
        <4>1. UNCHANGED <<search, fetchVars>>
          BY <2>1, <2>5
        <4>2. crossing' <=> crossing
          BY <2>1, <2>5
        <4>. QED  BY <2>2, <4>1, <4>2
      <3>2. SearchShape' /\ SearchedAsTyped'
        BY <1>0, <2>3, <2>5, <3>1
        DEF SearchShape, SearchedAsTyped, Searched
      <3>3. /\ Healthy => Healthy'
            /\ HeartsComing => HeartsComing'
            /\ SuggestionsComing => SuggestionsComing'
        BY <2>3, <2>5, <3>1
        DEF Healthy, HeartsComing, SuggestionsComing, After, fetchVars
      <3>. QED  BY <1>0, <3>1, <3>2, <3>3 DEF SearchInv, fetchVars
    <2>. QED  BY <2>4, <2>5
  <1>2. CASE HandleKeyDown
    <2>1. /\ Ask(Searched(box.input, search.sort, 0))
          /\ UNCHANGED <<box, hearts, crossing>>
      BY <1>2 DEF HandleKeyDown
    <2>2. /\ search' = Searched(box.input, search.sort, 0) /\ lost' = lost
          /\ calls \subseteq calls'
          /\ \A k \in calls' : k \in calls \/ k.what = "list"
          /\ Healthy => Healthy'
          /\ HeartsComing => HeartsComing'
      BY <2>1, AskedBeside
    <2>3. SearchShape' /\ SearchedAsTyped'
      BY <1>0, <2>1, <2>2 DEF SearchShape, SearchedAsTyped, Searched
    <2>4. SuggestionsComing => SuggestionsComing'
      BY <2>1, <2>2, SuggestionsKept
    <2>. QED  BY <1>0, <2>1, <2>2, <2>3, <2>4 DEF SearchInv
  <1>3. CASE HandleSelect
    <2>1. PICK t \in Texts : /\ Ask(Searched(t, search.sort, 0))
                             /\ box' = Typed(t)
      BY <1>3 DEF HandleSelect
    <2>2. UNCHANGED <<hearts, crossing>>
      BY <1>3 DEF HandleSelect
    <2>3. /\ search' = Searched(t, search.sort, 0) /\ lost' = lost
          /\ calls \subseteq calls'
          /\ \A k \in calls' : k \in calls \/ k.what = "list"
          /\ Healthy => Healthy'
          /\ HeartsComing => HeartsComing'
      BY <2>1, <2>2, AskedBeside
    <2>4. /\ box' = [input |-> box'.input, options |-> box'.options,
                     timer |-> box'.timer, suggest |-> box'.suggest]
          /\ box'.input = t
          /\ t = box.input => box' = box
          /\ t # box.input => box'.suggest
      BY <1>0, <2>1, TypedText, SearchTypes
    <2>5. SearchShape' /\ SearchedAsTyped'
      BY <1>0, <2>2, <2>3, <2>4 DEF SearchShape, SearchedAsTyped, Searched
    <2>6. SuggestionsComing => SuggestionsComing'
      <3>1. CASE t = box.input
        BY <2>3, <2>4, <3>1, SuggestionsKept
      <3>2. CASE t # box.input
        BY <2>3, <2>4, <3>2 DEF SuggestionsComing
      <3>. QED  BY <3>1, <3>2
    <2>. QED  BY <1>0, <2>2, <2>3, <2>5, <2>6 DEF SearchInv
  <1>4. CASE SortBy \/ HandleChangePage
    <2>1. PICK s : /\ Ask(s) /\ s.term = search.term
                   /\ s = Searched(s.term, s.sort, s.page)
      <3>1. CASE SortBy
        <4>1. PICK o \in {"LastPlayed", "HighestHour"} :
                Ask(Searched(search.term, o, 0))
          BY <3>1 DEF SortBy
        <4>2. LET s == Searched(search.term, o, 0)
              IN  s.term = search.term /\ s = Searched(s.term, s.sort, s.page)
          BY DEF Searched
        <4>. QED  BY <4>1, <4>2
      <3>2. CASE HandleChangePage
        <4>1. PICK p \in ListPages : Ask([search EXCEPT !.page = p])
          BY <3>2 DEF HandleChangePage
        <4>2. LET s == [search EXCEPT !.page = p]
              IN  s.term = search.term /\ s = Searched(s.term, s.sort, s.page)
          BY <1>0 DEF SearchShape, Searched
        <4>. QED  BY <4>1, <4>2
      <3>. QED  BY <1>4, <3>1, <3>2
    <2>2. UNCHANGED <<box, hearts, crossing>>
      BY <1>4 DEF SortBy, HandleChangePage
    <2>3. /\ search' = s /\ lost' = lost /\ calls \subseteq calls'
          /\ \A k \in calls' : k \in calls \/ k.what = "list"
          /\ Healthy => Healthy'
          /\ HeartsComing => HeartsComing'
      BY <2>1, <2>2, AskedBeside
    <2>4. SearchShape' /\ SearchedAsTyped'
      BY <1>0, <2>1, <2>2, <2>3 DEF SearchShape, SearchedAsTyped
    <2>5. SuggestionsComing => SuggestionsComing'
      BY <2>2, <2>3, SuggestionsKept
    <2>. QED  BY <1>0, <2>2, <2>3, <2>4, <2>5 DEF SearchInv
  <1>5. CASE ToggleFavorite
    <2>1. PICK m \in Texts :
            Send(Request(IF m \in hearts.shown THEN "unset" ELSE "set", m,
                         None, clicks'))
      BY <1>5 DEF ToggleFavorite
    <2>2. UNCHANGED <<box, search, hearts, crossing>>
      BY <1>5 DEF ToggleFavorite, searchVars
    <2>3. /\ lost' = lost /\ calls \subseteq calls'
          /\ \A k \in calls' : k \in calls \/ k.what \in {"set", "unset"}
          /\ Healthy => Healthy'
          /\ HeartsComing => HeartsComing'
      BY <2>1, <2>2, SentBeside
    <2>4. SearchShape' /\ SearchedAsTyped'
      BY <1>0, <2>2 DEF SearchShape, SearchedAsTyped, Searched
    <2>5. SuggestionsComing => SuggestionsComing'
      BY <2>2, <2>3, SuggestionsKept
    <2>. QED  BY <1>0, <2>2, <2>3, <2>4, <2>5 DEF SearchInv
  <1>6. CASE SearchTimer
    <2>1. /\ Ask(Searched(box.input, search.sort, 0))
          /\ box' = [box EXCEPT !.timer = FALSE]
          /\ UNCHANGED <<hearts, crossing>>
      BY <1>6 DEF SearchTimer
    <2>2. /\ search' = Searched(box.input, search.sort, 0) /\ lost' = lost
          /\ calls \subseteq calls'
          /\ \A k \in calls' : k \in calls \/ k.what = "list"
          /\ Healthy => Healthy'
          /\ HeartsComing => HeartsComing'
      BY <2>1, AskedBeside
    <2>3. /\ box' = [input |-> box.input, options |-> box.options,
                     timer |-> FALSE, suggest |-> box.suggest]
      BY <1>0, <2>1 DEF SearchShape
    <2>4. SearchShape' /\ SearchedAsTyped'
      BY <1>0, <2>1, <2>2, <2>3 DEF SearchShape, SearchedAsTyped, Searched
    <2>5. SuggestionsComing => SuggestionsComing'
      BY <2>2, <2>3, SuggestionsKept
    <2>. QED  BY <1>0, <2>1, <2>2, <2>4, <2>5 DEF SearchInv
  <1>7. CASE LoadAutocomplete
    <2>1. /\ Send(Request("suggest", box.input, None, clicks))
          /\ box' = [box EXCEPT !.suggest = FALSE]
          /\ crossing' = (crossing \/ Under({"suggest"}))
          /\ UNCHANGED <<search, hearts>>
      BY <1>7 DEF LoadAutocomplete
    <2>2. /\ lost' = lost /\ calls \subseteq calls'
          /\ \A k \in calls' : k \in calls
                                 \/ (k.what = "suggest" /\ k.of = box.input)
          /\ \E k \in calls' : k.what = "suggest" /\ k.of = box.input
          /\ Healthy => Healthy'
          /\ HeartsComing => HeartsComing'
      BY <2>1, SentBeside
    <2>3. /\ box' = [input |-> box.input, options |-> box.options,
                     timer |-> box.timer, suggest |-> FALSE]
      BY <1>0, <2>1 DEF SearchShape
    <2>4. SearchShape' /\ SearchedAsTyped'
      BY <1>0, <2>1, <2>3 DEF SearchShape, SearchedAsTyped, Searched
    <2>5. ~crossing' => ~crossing /\ SuggestionsComing'
      <3>. SUFFICES ASSUME ~crossing' PROVE ~crossing /\ SuggestionsComing'
        OBVIOUS
      <3>1. ~crossing /\ \A k \in calls : k.what # "suggest"
        BY <2>1 DEF Under
      <3>2. \A j, k \in calls' : j.what = "suggest" /\ k.what = "suggest"
                                   => j = k
        <4>. DEFINE r == Request("suggest", box.input, None, clicks)
        <4>1. calls' = calls \cup {r}
          BY <2>1 DEF Send
        <4>. HIDE DEF r
        <4>. QED  BY <3>1, <4>1
      <3>. QED  BY <2>2, <2>3, <3>1, <3>2 DEF SuggestionsComing
    <2>. QED  BY <1>0, <2>2, <2>4, <2>5 DEF SearchInv
  <1>8. ASSUME NEW k \in calls, SearchServes(k) PROVE SearchInv'
    <2>. DEFINE r == [k EXCEPT !.state = "ok",
                               !.got = IF k.what = "list" THEN hearts.stored
                                                          ELSE None]
    <2>1. /\ k.state = "sent" /\ UNCHANGED <<box, search>>
          /\ hearts' = [hearts EXCEPT !.stored = After(k, @)]
          /\ calls' = (calls \ {k}) \cup {r} /\ lost' = lost
          /\ crossing' = (crossing \/ \E j \in calls : j.state # "sent")
      BY <1>8 DEF SearchServes, Serves
    <2>2. hearts' = [shown |-> hearts.shown, stored |-> After(k, hearts.stored)]
      BY <1>0, <2>1 DEF SearchShape
    <2>3. SearchShape' /\ SearchedAsTyped'
      BY <1>0, <2>1, <2>2 DEF SearchShape, SearchedAsTyped, Searched
    <2>4. ASSUME lost = 0
          PROVE  /\ r.what = k.what /\ r.of = k.of /\ r.state = "ok"
                 /\ k.what = "list" => r.got = hearts.stored
                 /\ r = [what |-> r.what, of |-> r.of, arg |-> r.arg,
                         saw |-> r.saw, try |-> r.try,
                         limited |-> r.limited, state |-> r.state,
                         got |-> r.got]
      <3>1. k = [what |-> k.what, of |-> k.of, arg |-> k.arg, saw |-> k.saw,
                 try |-> k.try, limited |-> k.limited, state |-> k.state,
                 got |-> k.got]
        BY <1>0, <2>4 DEF Healthy
      <3>2. r = [what |-> k.what, of |-> k.of, arg |-> k.arg, saw |-> k.saw,
                 try |-> k.try, limited |-> k.limited, state |-> "ok",
                 got |-> IF k.what = "list" THEN hearts.stored ELSE None]
        BY <3>1, OkRecord
      <3>. HIDE DEF r
      <3>. QED  BY <3>2
    <2>. HIDE DEF r
    <2>5. lost = 0 => Healthy'
      BY <1>0, <2>1, <2>4 DEF Healthy
    <2>6. ASSUME lost = 0, ~crossing' PROVE SuggestionsComing' /\ HeartsComing'
      <3>1. /\ ~crossing /\ SuggestionsComing /\ HeartsComing
            /\ \A j \in calls : j.state = "sent"
        BY <1>0, <2>1, <2>6
      <3>2. SuggestionsComing'
        <4>1. \A j \in calls' : j = r \/ (j \in calls /\ j # k)
          BY <2>1
        <4>2. r \in calls' /\ \A j \in calls : j # k => j \in calls'
          BY <2>1
        <4>3. \A i, j \in calls' : i.what = "suggest" /\ j.what = "suggest"
                                     => i = j
          BY <2>4, <2>6, <3>1, <4>1 DEF SuggestionsComing
        <4>4. ASSUME ~box.suggest
              PROVE  \/ \E j \in calls' : j.what = "suggest" /\ j.of = box.input
                     \/ /\ \A j \in calls' : j.what # "suggest"
                        /\ box.options = box.input
          <5>1. CASE \E j \in calls : j.what = "suggest" /\ j.of = box.input
            BY <2>4, <2>6, <4>2, <5>1
          <5>2. CASE ~\E j \in calls : j.what = "suggest" /\ j.of = box.input
            <6>1. /\ \A j \in calls : j.what # "suggest"
                  /\ box.options = box.input
              BY <3>1, <4>4, <5>2 DEF SuggestionsComing
            <6>. QED  BY <2>4, <2>6, <4>1, <6>1
          <5>. QED  BY <5>1, <5>2
        <4>. QED  BY <2>1, <4>3, <4>4 DEF SuggestionsComing
      <3>3. \A j \in calls' : j.state = "ok" => j = r
        BY <2>1, <3>1
      <3>4. k.what = "list" => hearts'.stored = hearts.stored
        BY <2>2 DEF After
      <3>5. ASSUME \A j \in calls' : j.what # "list"
            PROVE  hearts'.stored = After(r, hearts'.shown)
        <4>1. r.what # "list" /\ r \in calls'
          BY <2>1, <3>5
        <4>2. \A j \in calls : j.what # "list"
          BY <2>1, <2>4, <2>6, <3>5, <4>1
        <4>3. hearts.shown = hearts.stored
          BY <3>1, <4>2 DEF HeartsComing
        <4>. QED  BY <2>2, <2>4, <2>6, <4>3 DEF After
      <3>6. r \in calls' /\ r.state = "ok"
        BY <2>1, <2>4, <2>6
      <3>7. r.what = "list" => r.got = hearts'.stored
        BY <2>4, <2>6, <3>4
      <3>8. HeartsComing'
        BY <3>3, <3>5, <3>6, <3>7 DEF HeartsComing
      <3>. QED  BY <3>2, <3>8
    <2>. QED  BY <1>0, <2>1, <2>3, <2>5, <2>6 DEF SearchInv
  <1>9. ASSUME NEW k \in calls, SearchAnswered(k) PROVE SearchInv'
    <2>1. /\ calls' = calls \ {k} /\ lost' = lost
          /\ UNCHANGED <<search, crossing>>
          /\ hearts' = [hearts EXCEPT !.shown =
                          CASE k.state # "ok"  -> @
                            [] k.what = "list" -> k.got
                            [] OTHER           -> After(k, @)]
          /\ box' = IF k.what # "suggest" THEN box
                    ELSE [box EXCEPT !.options = IF k.state = "ok" THEN k.of
                                                                   ELSE None]
          /\ k.state # "sent"
      BY <1>9 DEF SearchAnswered, Settles
    <2>2. /\ hearts'.stored = hearts.stored
          /\ hearts' = [shown |-> hearts'.shown, stored |-> hearts'.stored]
      BY <1>0, <2>1 DEF SearchShape
    <2>3. /\ box' = [input |-> box.input, options |-> box'.options,
                     timer |-> box.timer, suggest |-> box.suggest]
          /\ k.what # "suggest" => box'.options = box.options
          /\ k.what = "suggest" /\ k.state = "ok" => box'.options = k.of
      BY <1>0, <2>1 DEF SearchShape
    <2>4. SearchShape' /\ SearchedAsTyped'
      BY <1>0, <2>1, <2>2, <2>3 DEF SearchShape, SearchedAsTyped, Searched
    <2>5. lost = 0 => Healthy'
      BY <1>0, <2>1 DEF Healthy
    <2>6. ASSUME lost = 0, ~crossing PROVE SuggestionsComing' /\ HeartsComing'
      <3>1. SuggestionsComing /\ HeartsComing /\ k.state = "ok"
        BY <1>0, <2>1, <2>6 DEF Healthy
      <3>2. SuggestionsComing'
        <4>1. CASE k.what = "suggest"
          <5>1. \A j \in calls' : j.what # "suggest"
            BY <2>1, <3>1, <4>1 DEF SuggestionsComing
          <5>2. ~box.suggest => k.of = box.input
            BY <3>1, <4>1 DEF SuggestionsComing
          <5>. QED  BY <2>3, <3>1, <4>1, <5>1, <5>2 DEF SuggestionsComing
        <4>2. CASE k.what # "suggest"
          BY <2>1, <2>3, <3>1, <4>2 DEF SuggestionsComing
        <4>. QED  BY <4>1, <4>2
      <3>3. \A j \in calls' : j.state # "ok"
        BY <2>1, <3>1 DEF HeartsComing
      <3>4. ASSUME \A j \in calls' : j.what # "list"
            PROVE  hearts'.shown = hearts'.stored
        <4>1. CASE k.what = "list"
          <5>1. hearts'.shown = k.got
            BY <1>0, <2>1, <3>1, <4>1 DEF SearchShape
          <5>. QED  BY <2>2, <3>1, <4>1, <5>1 DEF HeartsComing
        <4>2. CASE k.what # "list"
          <5>1. hearts'.shown = After(k, hearts.shown)
            BY <1>0, <2>1, <3>1, <4>2 DEF SearchShape
          <5>2. \A j \in calls : j.what # "list"
            BY <2>1, <3>4, <4>2
          <5>. QED  BY <2>2, <3>1, <5>1, <5>2 DEF HeartsComing
        <4>. QED  BY <4>1, <4>2
      <3>5. HeartsComing'
        BY <3>3, <3>4 DEF HeartsComing
      <3>. QED  BY <3>2, <3>5
    <2>. QED  BY <1>0, <2>1, <2>4, <2>5, <2>6 DEF SearchInv
  <1>10. ASSUME NEW k \in calls, Troubles(k), UNCHANGED searchVars
         PROVE  SearchInv'
    <2>1. lost' = lost + 1
      BY <1>10 DEF Troubles, RequestFails, AnswerLost, TooMany
    <2>2. lost' \in Nat /\ lost' # 0
      BY <1>0, <2>1
    <2>3. SearchShape' /\ SearchedAsTyped'
      BY <1>0, <1>10 DEF searchVars, SearchShape, SearchedAsTyped, Searched
    <2>. QED  BY <2>2, <2>3 DEF SearchInv
  <1>11. CASE UNCHANGED <<browserVars, fetchVars, searchVars>>
    BY <1>0, <1>11
    DEF browserVars, fetchVars, searchVars, SearchInv, SearchShape, Searched,
        SearchedAsTyped, Healthy, SuggestionsComing, HeartsComing, After
  <1>. QED
    BY <1>1, <1>2, <1>3, <1>4, <1>5, <1>6, <1>7, <1>8, <1>9, <1>10, <1>11
    DEF SearchNext

-----------------------------------------------------------------------------
(* What a page's requests are, whatever becomes of them. *)
IsRequest(k) ==
    k = [what |-> k.what, of |-> k.of, arg |-> k.arg, saw |-> k.saw,
         try |-> k.try, limited |-> k.limited, state |-> k.state,
         got |-> k.got]

Requests == \A k \in calls : IsRequest(k)

(* The same request at another point of its life. *)
Same(k, n) == /\ IsRequest(n) /\ n.what = k.what /\ n.of = k.of
              /\ n.arg = k.arg /\ n.saw = k.saw

LEMMA NewRequest ==
    ASSUME NEW what, NEW of, NEW arg, NEW saw
    PROVE  LET k == Request(what, of, arg, saw)
           IN  /\ IsRequest(k) /\ k.what = what /\ k.of = of /\ k.arg = arg
               /\ k.saw = saw /\ k.state = "sent" /\ k.got = None
  BY DEF Request, IsRequest

(* What becomes of one: an answer, another try, a pause after a 429, or an *)
(* end by who sent it.                                                     *)
WithAnswer(k, s, g) == [k EXCEPT !.state = s, !.got = g]
TriedAgain(k, t)    == [k EXCEPT !.try = t, !.state = "sent"]
Paused(k, t)        == [k EXCEPT !.limited = t]
Ended(k, t)         == [k EXCEPT !.state = "refused", !.try = t]

LEMMA AnswerFields ==
    ASSUME NEW k, IsRequest(k), NEW s, NEW g
    PROVE  LET n == WithAnswer(k, s, g)
           IN  Same(k, n) /\ n.state = s /\ n.got = g /\ n.try = k.try
  <1>1. PICK m : m = [k EXCEPT !.state = s]
    OBVIOUS
  <1>2. m = [what |-> k.what, of |-> k.of, arg |-> k.arg, saw |-> k.saw,
             try |-> k.try, limited |-> k.limited, state |-> s, got |-> k.got]
    BY <1>1 DEF IsRequest
  <1>3. PICK n : n = [m EXCEPT !.got = g]
    OBVIOUS
  <1>4. n = [what |-> k.what, of |-> k.of, arg |-> k.arg, saw |-> k.saw,
             try |-> k.try, limited |-> k.limited, state |-> s, got |-> g]
    BY <1>2, <1>3
  <1>5. [k EXCEPT !.state = s, !.got = g]
          = [[k EXCEPT !.state = s] EXCEPT !.got = g]
    BY Zenon
  <1>6. n = WithAnswer(k, s, g)
    BY <1>1, <1>3, <1>5 DEF WithAnswer
  <1>7. Same(k, n) /\ n.state = s /\ n.got = g /\ n.try = k.try
    BY <1>4 DEF Same, IsRequest
  <1>. QED  BY <1>6, <1>7

LEMMA TriedFields ==
    ASSUME NEW k, IsRequest(k), NEW t
    PROVE  LET n == TriedAgain(k, t)
           IN  Same(k, n) /\ n.state = "sent" /\ n.try = t
  <1>1. PICK m : m = [k EXCEPT !.try = t]
    OBVIOUS
  <1>2. m = [what |-> k.what, of |-> k.of, arg |-> k.arg, saw |-> k.saw,
             try |-> t, limited |-> k.limited, state |-> k.state,
             got |-> k.got]
    BY <1>1 DEF IsRequest
  <1>3. PICK n : n = [m EXCEPT !.state = "sent"]
    OBVIOUS
  <1>4. n = [what |-> k.what, of |-> k.of, arg |-> k.arg, saw |-> k.saw,
             try |-> t, limited |-> k.limited, state |-> "sent",
             got |-> k.got]
    BY <1>2, <1>3
  <1>5. [k EXCEPT !.try = t, !.state = "sent"]
          = [[k EXCEPT !.try = t] EXCEPT !.state = "sent"]
    BY Zenon
  <1>6. n = TriedAgain(k, t)
    BY <1>1, <1>3, <1>5 DEF TriedAgain
  <1>7. Same(k, n) /\ n.state = "sent" /\ n.try = t
    BY <1>4 DEF Same, IsRequest
  <1>. QED  BY <1>6, <1>7

LEMMA PausedFields ==
    ASSUME NEW k, IsRequest(k), NEW t
    PROVE  LET n == Paused(k, t)
           IN  Same(k, n) /\ n.state = k.state /\ n.try = k.try
  <1>1. PICK n : n = [k EXCEPT !.limited = t]
    OBVIOUS
  <1>2. n = [what |-> k.what, of |-> k.of, arg |-> k.arg, saw |-> k.saw,
             try |-> k.try, limited |-> t, state |-> k.state, got |-> k.got]
    BY <1>1 DEF IsRequest
  <1>3. Same(k, n) /\ n.state = k.state /\ n.try = k.try
    BY <1>2 DEF Same, IsRequest
  <1>. QED  BY <1>1, <1>3 DEF Paused

LEMMA EndedFields ==
    ASSUME NEW k, IsRequest(k), NEW t
    PROVE  LET n == Ended(k, t) IN Same(k, n) /\ n.state = "refused"
  <1>1. PICK m : m = [k EXCEPT !.state = "refused"]
    OBVIOUS
  <1>2. m = [what |-> k.what, of |-> k.of, arg |-> k.arg, saw |-> k.saw,
             try |-> k.try, limited |-> k.limited, state |-> "refused",
             got |-> k.got]
    BY <1>1 DEF IsRequest
  <1>3. PICK n : n = [m EXCEPT !.try = t]
    OBVIOUS
  <1>4. n = [what |-> k.what, of |-> k.of, arg |-> k.arg, saw |-> k.saw,
             try |-> t, limited |-> k.limited, state |-> "refused",
             got |-> k.got]
    BY <1>2, <1>3
  <1>5. [k EXCEPT !.state = "refused", !.try = t]
          = [[k EXCEPT !.state = "refused"] EXCEPT !.try = t]
    BY Zenon
  <1>6. n = Ended(k, t)
    BY <1>1, <1>3, <1>5 DEF Ended
  <1>7. Same(k, n) /\ n.state = "refused"
    BY <1>4 DEF Same, IsRequest
  <1>. QED  BY <1>6, <1>7

(* A request that is served, and one that fails. *)
LEMMA Served ==
    ASSUME NEW k, IsRequest(k), NEW s, NEW g, Serves(k, s, g)
    PROVE  \E n : /\ Same(k, n) /\ n.state = s /\ n.got = g /\ n.try = k.try
                  /\ calls' = (calls \ {k}) \cup {n}
                  /\ lost' = lost /\ doubt' = doubt
  <1>1. /\ calls' = (calls \ {k}) \cup {WithAnswer(k, s, g)}
        /\ lost' = lost /\ doubt' = doubt
    BY DEF Serves, WithAnswer
  <1>. QED  BY <1>1, AnswerFields

LEMMA FailsOnce ==
    ASSUME NEW k, IsRequest(k)
    PROVE  \E n : /\ Same(k, n) /\ n.state \in {"sent", "refused"}
                  /\ Fails(k) = (calls \ {k}) \cup {n}
  <1>1. CASE k.try < Tries[page]
    <2>1. Fails(k) = (calls \ {k}) \cup {TriedAgain(k, k.try + 1)}
      BY <1>1 DEF Fails, TriedAgain
    <2>. QED  BY <2>1, TriedFields
  <1>2. CASE ~(k.try < Tries[page])
    <2>1. Fails(k) = (calls \ {k}) \cup {WithAnswer(k, "refused", None)}
      BY <1>2 DEF Fails, WithAnswer
    <2>. QED  BY <2>1, AnswerFields
  <1>. QED  BY <1>1, <1>2

(* Until an answer was lost, what fails was not done. *)
LEMMA Troubled ==
    ASSUME NEW k, IsRequest(k), Troubles(k)
    PROVE  \E n : /\ Same(k, n) /\ n.state \in {"sent", "refused"}
                  /\ calls' = (calls \ {k}) \cup {n}
                  /\ doubt' = {} => doubt = {} /\ k.state = "sent"
                  /\ doubt \subseteq doubt'
                  /\ k.state = "sent" \/ k.of \in doubt'
  <1>0. PICK n : /\ Same(k, n) /\ n.state \in {"sent", "refused"}
                 /\ Fails(k) = (calls \ {k}) \cup {n}
    BY FailsOnce
  <1>1. CASE RequestFails(k)
    BY <1>0, <1>1 DEF RequestFails
  <1>2. CASE AnswerLost(k)
    BY <1>0, <1>2 DEF AnswerLost
  <1>3. CASE TooMany(k)
    <2>1. CASE k.limited < RateTries
      <3>1. calls' = (calls \ {k}) \cup {Paused(k, k.limited + 1)}
        BY <1>3, <2>1 DEF TooMany, Paused
      <3>2. k.state = "sent" /\ doubt' = doubt
        BY <1>3 DEF TooMany
      <3>. QED  BY <3>1, <3>2, PausedFields
    <2>2. CASE ~(k.limited < RateTries)
      BY <1>0, <1>3, <2>2 DEF TooMany
    <2>. QED  BY <2>1, <2>2
  <1>. QED  BY <1>1, <1>2, <1>3 DEF Troubles

-----------------------------------------------------------------------------
(* The admin tables: while the page has one of another kind, its table     *)
(* waits for the first read.                                               *)
TableShape ==
    /\ dialog = [open |-> dialog.open, row |-> dialog.row,
                 form |-> dialog.form, sending |-> dialog.sending]
    /\ stray \in BOOLEAN
    /\ \A r \in refreshing : r = [number |-> r.number, of |-> r.of,
                                  got |-> r.got]

TableElsewhere == page # "table" => Is("unmounts") /\ refreshing # {}

GuardedForGood(d) == "guarded" \in d /\ ~Is("unmounts")

(* A guarded dialog knows that it sends, and has one save at most.         *)
SavesAreKnown ==
    /\ Requests
    /\ \A d \in admin.dialogs : GuardedForGood(d) =>
         /\ \A k \in calls : k.what = "save" /\ k.arg = d
                               => d \in dialog.sending
         /\ \A j, k \in calls :
                (j.what = "save" /\ j.arg = d) /\ (k.what = "save" /\ k.arg = d)
                  => j = k

(* Who reads, reads for the filter, and no two do.  Until the rows are     *)
(* listed as they are, they are being read, or a change that was answered  *)
(* will have them read.                                                    *)
RowsAreComing ==
    ~stray /\ doubt = {} =>
      /\ \A q, r \in refreshing : q = r
      /\ \A r \in refreshing : r.of = filter
      /\ \/ \E k \in calls : k.state = "ok"
         \/ \E r \in refreshing : r.got = None \/ r.got = rows
         \/ refreshing = {} /\ listed = [of |-> filter, rows |-> rows]

TableInv ==
    /\ TableShape /\ TableElsewhere /\ FormIsOfItsRow
    /\ page = "table" => SavesAreKnown /\ RowsAreComing

LEMMA TableStarts ==
    ASSUME NEW p, NEW f, TableInit(p, f),
           page # "table" => p = BansPage,
           page = "table" => calls = {} /\ doubt = {}
    PROVE  TableInv
  <1>1. /\ dialog = [open |-> None, row |-> None, form |-> None,
                     sending |-> {}]
        /\ admin = p /\ filter = f /\ stray = FALSE
        /\ refreshing = {[number |-> 1, of |-> f, got |-> None]}
    BY DEF TableInit, Closed
  <1>2. TableShape /\ FormIsOfItsRow
    <2>1. PICK r : r = [number |-> 1, of |-> f, got |-> None]
      OBVIOUS
    <2>2. r = [number |-> r.number, of |-> r.of, got |-> r.got]
      BY <2>1
    <2>3. \A q \in refreshing : q = r
      BY <1>1, <2>1
    <2>4. dialog = [open |-> dialog.open, row |-> dialog.row,
                    form |-> dialog.form, sending |-> dialog.sending]
      BY <1>1
    <2>5. FormIsOfItsRow
      BY <1>1 DEF FormIsOfItsRow
    <2>. QED  BY <1>1, <2>2, <2>3, <2>4, <2>5 DEF TableShape
  <1>3. TableElsewhere
    BY <1>1 DEF TableElsewhere, Is, BansPage, AdminPage
  <1>4. page = "table" => SavesAreKnown
    BY DEF SavesAreKnown, Requests
  <1>5. page = "table" => RowsAreComing
    BY <1>1 DEF RowsAreComing
  <1>. QED  BY <1>2, <1>3, <1>4, <1>5 DEF TableInv

(* What a read of the rows, begun by whatever was done, leaves.  What a    *)
(* dialog was sending it still sends where it is not unmounted.            *)
LEMMA Refetched ==
    ASSUME TableShape, NEW f, NEW d,
           d = [open |-> d.open, row |-> d.row, form |-> d.form,
                sending |-> d.sending],
           d.open # None => d.form = d.row,
           FetchData(f, d)
    PROVE  /\ TableShape' /\ FormIsOfItsRow'
           /\ ~Is("unmounts") => dialog'.sending = d.sending
           /\ refreshing' # {}
           /\ ~stray' => /\ ~stray /\ refreshing = {} /\ f = filter'
                         /\ \E r : /\ refreshing' = {r} /\ r.of = f
                                   /\ r.got = None
  <1>1. PICK n : refreshing' = refreshing \cup
                                 {[number |-> n, of |-> f, got |-> None]}
    BY DEF FetchData
  <1>2. /\ dialog' = Remounted(d)
        /\ stray' = (stray \/ refreshing # {} \/ f # filter')
    BY DEF FetchData
  <1>3. PICK r : r = [number |-> n, of |-> f, got |-> None]
    OBVIOUS
  <1>4. refreshing' = refreshing \cup {r} /\ r.of = f /\ r.got = None
        /\ r = [number |-> r.number, of |-> r.of, got |-> r.got]
    BY <1>1, <1>3
  <1>5. CASE Is("unmounts") /\ ~busy
    <2>1. PICK m : m = [d EXCEPT !.sending = {}]
      OBVIOUS
    <2>2. m = [open |-> d.open, row |-> d.row, form |-> d.form,
               sending |-> {}]
      BY <2>1
    <2>3. PICK l : l = [m EXCEPT !.form = d.row]
      OBVIOUS
    <2>4. l = [open |-> d.open, row |-> d.row, form |-> d.row,
               sending |-> {}]
      BY <2>2, <2>3
    <2>5. [d EXCEPT !.sending = {}, !.form = d.row]
            = [[d EXCEPT !.sending = {}] EXCEPT !.form = d.row]
      BY Zenon
    <2>6. dialog' = l
      BY <1>2, <1>5, <2>1, <2>3, <2>5 DEF Remounted
    <2>7. TableShape' /\ FormIsOfItsRow'
      BY <1>2, <1>4, <2>4, <2>6 DEF TableShape, FormIsOfItsRow
    <2>. QED  BY <1>2, <1>4, <1>5, <2>7 DEF TableShape
  <1>6. CASE ~(Is("unmounts") /\ ~busy)
    <2>1. dialog' = d
      BY <1>2, <1>6 DEF Remounted
    <2>2. TableShape' /\ FormIsOfItsRow'
      BY <1>2, <1>4, <2>1 DEF TableShape, FormIsOfItsRow
    <2>. QED  BY <1>2, <1>4, <2>1, <2>2 DEF TableShape
  <1>. QED  BY <1>5, <1>6

(* A request less, one more, or another point of the life of one: what a   *)
(* guarded dialog sends is still known.                                    *)
LEMMA SavesUnsent ==
    ASSUME SavesAreKnown, admin' = admin, calls' \subseteq calls,
           dialog'.sending = dialog.sending
    PROVE  SavesAreKnown'
  BY DEF SavesAreKnown, Requests, GuardedForGood, Is

LEMMA SavesMoved ==
    ASSUME SavesAreKnown, admin' = admin, NEW k \in calls, NEW n, Same(k, n),
           calls' = (calls \ {k}) \cup {n}, dialog'.sending = dialog.sending
    PROVE  SavesAreKnown'
  <1>1. \A j \in calls' : j = n \/ (j \in calls /\ j # k)
    OBVIOUS
  <1>2. Requests'
    BY <1>1 DEF SavesAreKnown, Requests, Same
  <1>3. n.what = k.what /\ n.arg = k.arg
    BY DEF Same
  <1>4. ASSUME NEW d \in admin.dialogs, GuardedForGood(d)
        PROVE  /\ \A j \in calls' : j.what = "save" /\ j.arg = d
                                      => d \in dialog.sending
               /\ \A i, j \in calls' :
                      (i.what = "save" /\ i.arg = d) /\ (j.what = "save" /\ j.arg = d)
                        => i = j
    BY <1>1, <1>3, <1>4 DEF SavesAreKnown
  <1>. QED  BY <1>2, <1>4 DEF SavesAreKnown, GuardedForGood, Is

LEMMA OtherAdded ==
    ASSUME SavesAreKnown, admin' = admin, NEW r, IsRequest(r),
           r.what # "save", calls' = calls \cup {r},
           dialog'.sending = dialog.sending
    PROVE  SavesAreKnown'
  <1>1. \A j \in calls' : j \in calls \/ j = r
    OBVIOUS
  <1>2. Requests'
    BY <1>1 DEF SavesAreKnown, Requests
  <1>3. ASSUME NEW d \in admin.dialogs, GuardedForGood(d)
        PROVE  /\ \A j \in calls' : j.what = "save" /\ j.arg = d
                                      => d \in dialog.sending
               /\ \A i, j \in calls' :
                      (i.what = "save" /\ i.arg = d) /\ (j.what = "save" /\ j.arg = d)
                        => i = j
    BY <1>1, <1>3 DEF SavesAreKnown
  <1>. QED  BY <1>2, <1>3 DEF SavesAreKnown, GuardedForGood, Is

LEMMA OtherSent ==
    ASSUME SavesAreKnown, admin' = admin, NEW what, NEW of, NEW arg, NEW saw,
           Send(Request(what, of, arg, saw)), what # "save",
           dialog'.sending = dialog.sending
    PROVE  SavesAreKnown'
  <1>1. PICK r : r = Request(what, of, arg, saw)
    OBVIOUS
  <1>2. calls' = calls \cup {r}
    BY <1>1 DEF Send
  <1>3. IsRequest(r) /\ r.what # "save"
    BY <1>1, NewRequest
  <1>. QED  BY <1>2, <1>3, OtherAdded

LEMMA SaveAdded ==
    ASSUME SavesAreKnown, admin' = admin, NEW r, IsRequest(r),
           calls' = calls \cup {r}, r.arg \notin dialog.sending,
           dialog.sending \subseteq dialog'.sending,
           "guarded" \in r.arg => r.arg \in dialog'.sending
    PROVE  SavesAreKnown'
  <1>1. \A j \in calls' : j \in calls \/ j = r
    OBVIOUS
  <1>2. Requests'
    BY <1>1 DEF SavesAreKnown, Requests
  <1>3. ASSUME NEW d \in admin.dialogs, GuardedForGood(d)
        PROVE  /\ \A j \in calls' : j.what = "save" /\ j.arg = d
                                      => d \in dialog'.sending
               /\ \A i, j \in calls' :
                      (i.what = "save" /\ i.arg = d) /\ (j.what = "save" /\ j.arg = d)
                        => i = j
    <2>1. CASE d = r.arg
      <3>1. \A j \in calls : ~(j.what = "save" /\ j.arg = d)
        BY <1>3, <2>1 DEF SavesAreKnown
      <3>2. d \in dialog'.sending
        BY <1>3, <2>1 DEF GuardedForGood
      <3>. QED  BY <1>1, <3>1, <3>2
    <2>2. CASE d # r.arg
      BY <1>1, <1>3, <2>2 DEF SavesAreKnown
    <2>. QED  BY <2>1, <2>2
  <1>. QED  BY <1>2, <1>3 DEF SavesAreKnown, GuardedForGood, Is

LEMMA SaveSent ==
    ASSUME SavesAreKnown, admin' = admin, NEW of, NEW arg, NEW saw,
           Send(Request("save", of, arg, saw)), arg \notin dialog.sending,
           "guarded" \in arg => dialog'.sending = dialog.sending \cup {arg},
           "guarded" \notin arg => dialog'.sending = dialog.sending
    PROVE  SavesAreKnown'
  <1>1. PICK r : r = Request("save", of, arg, saw)
    OBVIOUS
  <1>2. calls' = calls \cup {r}
    BY <1>1 DEF Send
  <1>3. IsRequest(r) /\ r.arg = arg
    BY <1>1, NewRequest
  <1>4. /\ dialog.sending \subseteq dialog'.sending
        /\ "guarded" \in arg => arg \in dialog'.sending
    OBVIOUS
  <1>. QED  BY <1>2, <1>3, <1>4, SaveAdded

(* A dialog forgets a save that was answered. *)
LEMMA SaveAnsweredOnce ==
    ASSUME SavesAreKnown, admin' = admin, NEW k \in calls,
           calls' = calls \ {k},
           ~Is("unmounts") =>
             dialog'.sending = IF k.what = "save" THEN dialog.sending \ {k.arg}
                                                  ELSE dialog.sending
    PROVE  SavesAreKnown'
  <1>1. ASSUME NEW d \in admin.dialogs, GuardedForGood(d)
        PROVE  /\ \A j \in calls' : j.what = "save" /\ j.arg = d
                                      => d \in dialog'.sending
               /\ \A i, j \in calls' :
                      (i.what = "save" /\ i.arg = d) /\ (j.what = "save" /\ j.arg = d)
                        => i = j
    <2>1. CASE k.what = "save" /\ k.arg = d
      BY <1>1, <2>1 DEF SavesAreKnown
    <2>2. CASE ~(k.what = "save" /\ k.arg = d)
      <3>1. d \in dialog.sending => d \in dialog'.sending
        BY <1>1, <2>2 DEF GuardedForGood
      <3>. QED  BY <1>1, <3>1 DEF SavesAreKnown
    <2>. QED  BY <2>1, <2>2
  <1>2. Requests'
    BY DEF SavesAreKnown, Requests
  <1>. QED  BY <1>1, <1>2 DEF SavesAreKnown, GuardedForGood, Is

(* Nobody reads meanwhile, and what was answered still has its reader. *)
LEMMA RowsStillComing ==
    ASSUME RowsAreComing,
           UNCHANGED <<rows, filter, listed, refreshing, stray>>,
           doubt' = {} => doubt = {},
           \A k \in calls : k.state = "ok" => k \in calls'
    PROVE  RowsAreComing'
  BY DEF RowsAreComing

LEMMA TableStep ==
    ASSUME page = "table", page' = page, TableInv,
           [TableNext]_<<browserVars, fetchVars, tableVars>>
    PROVE  TableInv'
  <1>0. /\ TableShape /\ FormIsOfItsRow /\ SavesAreKnown /\ RowsAreComing
        /\ dialog = [open |-> dialog.open, row |-> dialog.row,
                     form |-> dialog.form, sending |-> dialog.sending]
        /\ dialog.open # None => dialog.form = dialog.row
    BY DEF TableInv, TableShape, FormIsOfItsRow
  <1>. SUFFICES TableShape' /\ FormIsOfItsRow' /\ SavesAreKnown'
                  /\ RowsAreComing'
    BY DEF TableInv, TableElsewhere
  <1>1. CASE SelectFilter
    <2>1. PICK f \in TableFilters : filter' = f /\ FetchData(f, dialog)
      BY <1>1 DEF SelectFilter
    <2>2. UNCHANGED <<admin, rows, listed, calls, doubt>>
      BY <1>1 DEF SelectFilter, fetchVars
    <2>3. /\ TableShape' /\ FormIsOfItsRow'
          /\ ~Is("unmounts") => dialog'.sending = dialog.sending
          /\ ~stray' => \E r : /\ refreshing' = {r} /\ r.of = filter'
                               /\ r.got = None
      BY <1>0, <2>1, Refetched
    <2>4. SavesAreKnown'
      BY <1>0, <2>2, <2>3 DEF SavesAreKnown, Requests, GuardedForGood, Is
    <2>5. RowsAreComing'
      BY <2>3 DEF RowsAreComing
    <2>. QED  BY <2>3, <2>4, <2>5
  <1>2. CASE ChangeRow
    <2>1. PICK r \in TableRows, what \in {"updates", "removes"} :
            Send(Request(what, r, None, filter))
      BY <1>2 DEF ChangeRow
    <2>2. UNCHANGED <<admin, rows, filter, listed, refreshing, busy, dialog,
                      stray>>
      BY <1>2 DEF ChangeRow, tableVars
    <2>3. calls \subseteq calls' /\ doubt' = doubt
      BY <2>1 DEF Send
    <2>4. SavesAreKnown'
      BY <1>0, <2>1, <2>2, OtherSent
    <2>. QED  BY <1>0, <2>2, <2>3, <2>4, RowsStillComing
              DEF TableShape, FormIsOfItsRow
  <1>3. CASE OpenDialog
    <2>1. PICK d \in admin.dialogs, r \in TableRows \cup {None} :
            dialog' = [dialog EXCEPT !.open = d, !.row = r, !.form = r]
      BY <1>3 DEF OpenDialog
    <2>2. UNCHANGED <<admin, rows, filter, listed, refreshing, stray, calls,
                      doubt>>
      BY <1>3 DEF OpenDialog, fetchVars
    <2>3. dialog' = [open |-> d, row |-> r, form |-> r,
                     sending |-> dialog.sending]
      BY <1>0, <2>1
    <2>4. TableShape' /\ FormIsOfItsRow'
      BY <1>0, <2>2, <2>3 DEF TableShape, FormIsOfItsRow
    <2>5. dialog'.sending = dialog.sending
      BY <2>3
    <2>. QED  BY <1>0, <2>2, <2>4, <2>5, RowsStillComing, SavesUnsent
  <1>4. CASE CloseDialog
    <2>1. /\ dialog' = [dialog EXCEPT !.open = None]
          /\ UNCHANGED <<admin, rows, filter, listed, refreshing, stray,
                         calls, doubt>>
      BY <1>4 DEF CloseDialog, fetchVars
    <2>2. dialog' = [open |-> None, row |-> dialog.row, form |-> dialog.form,
                     sending |-> dialog.sending]
      BY <1>0, <2>1
    <2>3. TableShape' /\ FormIsOfItsRow'
      BY <1>0, <2>1, <2>2 DEF TableShape, FormIsOfItsRow
    <2>4. dialog'.sending = dialog.sending
      BY <2>2
    <2>. QED  BY <1>0, <2>1, <2>3, <2>4, RowsStillComing, SavesUnsent
  <1>5. CASE Save
    <2>1. /\ Send(Request("save", dialog.form, dialog.open, filter))
          /\ dialog.open \notin dialog.sending
          /\ dialog' = IF "guarded" \in dialog.open
                       THEN [dialog EXCEPT !.sending = @ \cup {dialog.open}]
                       ELSE dialog
          /\ UNCHANGED <<admin, rows, filter, listed, refreshing, stray>>
      BY <1>5 DEF Save
    <2>2. dialog' = [open |-> dialog.open, row |-> dialog.row,
                     form |-> dialog.form,
                     sending |-> IF "guarded" \in dialog.open
                                 THEN dialog.sending \cup {dialog.open}
                                 ELSE dialog.sending]
      BY <1>0, <2>1
    <2>3. TableShape' /\ FormIsOfItsRow'
      BY <1>0, <2>1, <2>2 DEF TableShape, FormIsOfItsRow
    <2>4. SavesAreKnown'
      BY <1>0, <2>1, <2>2, SaveSent
    <2>5. calls \subseteq calls' /\ doubt' = doubt
      BY <2>1 DEF Send
    <2>. QED  BY <1>0, <2>1, <2>3, <2>4, <2>5, RowsStillComing
  <1>6. ASSUME NEW k \in calls, ServeRow(k)
        PROVE  TableShape' /\ FormIsOfItsRow' /\ SavesAreKnown'
                 /\ RowsAreComing'
    <2>1. /\ k.state = "sent"
          /\ UNCHANGED <<admin, filter, listed, refreshing, dialog, stray>>
          /\ \/ Serves(k, "ok", None)
             \/ Serves(k, "refused", None) /\ UNCHANGED rows
      BY <1>6 DEF ServeRow
    <2>2. IsRequest(k)
      BY <1>0 DEF SavesAreKnown, Requests
    <2>3. PICK n : /\ Same(k, n) /\ calls' = (calls \ {k}) \cup {n}
                   /\ doubt' = doubt
                   /\ n.state = "ok" \/ UNCHANGED rows
      <3>1. CASE Serves(k, "ok", None)
        BY <2>2, <3>1, Served
      <3>2. CASE Serves(k, "refused", None) /\ UNCHANGED rows
        BY <2>2, <3>2, Served
      <3>. QED  BY <2>1, <3>1, <3>2
    <2>4. TableShape' /\ FormIsOfItsRow'
      BY <1>0, <2>1 DEF TableShape, FormIsOfItsRow
    <2>5. SavesAreKnown'
      BY <1>0, <2>1, <2>3, SavesMoved
    <2>6. RowsAreComing'
      <3>1. CASE n.state = "ok"
        BY <1>0, <2>1, <2>3, <3>1 DEF RowsAreComing
      <3>2. CASE UNCHANGED rows
        <4>1. \A j \in calls : j.state = "ok" => j \in calls'
          BY <2>1, <2>3
        <4>. QED  BY <1>0, <2>1, <2>3, <3>2, <4>1, RowsStillComing
      <3>. QED  BY <2>3, <3>1, <3>2
    <2>. QED  BY <2>4, <2>5, <2>6
  <1>7. ASSUME NEW k \in calls, RowChanged(k)
        PROVE  TableShape' /\ FormIsOfItsRow' /\ SavesAreKnown'
                 /\ RowsAreComing'
    <2>. DEFINE d == Saved(k, dialog)
    <2>1. /\ calls' = calls \ {k} /\ doubt' = doubt /\ filter' = filter
          /\ UNCHANGED <<admin, rows, listed>>
          /\ \/ k.state = "ok" /\ FetchData(k.saw, d)
             \/ /\ k.state # "ok" /\ dialog' = d
                /\ UNCHANGED <<refreshing, stray>>
      BY <1>7 DEF RowChanged, Settles
    <2>2. /\ d = [open |-> d.open, row |-> d.row, form |-> d.form,
                  sending |-> d.sending]
          /\ d.open \in {dialog.open, None} /\ d.row = dialog.row
          /\ d.form = dialog.form
          /\ d.sending = IF k.what = "save" THEN dialog.sending \ {k.arg}
                                            ELSE dialog.sending
      <3>1. CASE k.what = "save"
        <4>1. PICK o : o = IF k.state = "ok" /\ dialog.open = k.arg THEN None
                           ELSE dialog.open
          OBVIOUS
        <4>2. PICK m : m = [dialog EXCEPT !.sending = @ \ {k.arg}]
          OBVIOUS
        <4>3. m = [open |-> dialog.open, row |-> dialog.row,
                   form |-> dialog.form, sending |-> dialog.sending \ {k.arg}]
          BY <1>0, <4>2
        <4>4. PICK l : l = [m EXCEPT !.open = o]
          OBVIOUS
        <4>5. l = [open |-> o, row |-> dialog.row,
                   form |-> dialog.form, sending |-> dialog.sending \ {k.arg}]
          BY <4>3, <4>4
        <4>6. d = [m EXCEPT !.open = IF k.state = "ok" /\ m.open = k.arg
                                     THEN None ELSE m.open]
          BY <3>1, <4>2, Zenon DEF Saved
        <4>7. d = l
          BY <4>1, <4>3, <4>4, <4>6
        <4>. QED  BY <3>1, <4>1, <4>5, <4>7
      <3>2. CASE k.what # "save"
        BY <1>0, <3>2 DEF Saved
      <3>. QED  BY <3>1, <3>2
    <2>. HIDE DEF d
    <2>3. d.open # None => d.form = d.row
      BY <1>0, <2>2
    <2>4. CASE k.state = "ok" /\ FetchData(k.saw, d)
      <3>1. /\ TableShape' /\ FormIsOfItsRow'
            /\ ~Is("unmounts") => dialog'.sending = d.sending
            /\ ~stray' => \E r : /\ refreshing' = {r} /\ r.of = filter
                                 /\ r.got = None
        BY <1>0, <2>1, <2>2, <2>3, <2>4, Refetched
      <3>2. SavesAreKnown'
        BY <1>0, <2>1, <2>2, <3>1, SaveAnsweredOnce
      <3>3. RowsAreComing'
        BY <2>1, <3>1 DEF RowsAreComing
      <3>. QED  BY <3>1, <3>2, <3>3
    <2>5. CASE k.state # "ok" /\ dialog' = d /\ UNCHANGED <<refreshing, stray>>
      <3>1. TableShape' /\ FormIsOfItsRow'
        BY <1>0, <2>2, <2>3, <2>5 DEF TableShape, FormIsOfItsRow
      <3>2. SavesAreKnown'
        BY <1>0, <2>1, <2>2, <2>5, SaveAnsweredOnce
      <3>3. RowsAreComing'
        BY <1>0, <2>1, <2>5, RowsStillComing
      <3>. QED  BY <3>1, <3>2, <3>3
    <2>. QED  BY <2>1, <2>4, <2>5
  <1>8. ASSUME NEW k \in calls, Troubles(k), UNCHANGED tableVars
        PROVE  TableShape' /\ FormIsOfItsRow' /\ SavesAreKnown'
                 /\ RowsAreComing'
    <2>1. UNCHANGED <<admin, rows, filter, listed, refreshing, busy, dialog,
                      stray>>
      BY <1>8 DEF tableVars
    <2>2. IsRequest(k)
      BY <1>0 DEF SavesAreKnown, Requests
    <2>3. PICK n : /\ Same(k, n) /\ calls' = (calls \ {k}) \cup {n}
                   /\ doubt' = {} => doubt = {} /\ k.state = "sent"
      BY <1>8, <2>2, Troubled
    <2>4. SavesAreKnown'
      BY <1>0, <2>1, <2>3, SavesMoved
    <2>5. RowsAreComing'
      BY <1>0, <2>1, <2>3 DEF RowsAreComing
    <2>. QED  BY <1>0, <2>1, <2>4, <2>5 DEF TableShape, FormIsOfItsRow
  <1>9. ASSUME NEW r \in refreshing, ServeTable(r)
        PROVE  TableShape' /\ FormIsOfItsRow' /\ SavesAreKnown'
                 /\ RowsAreComing'
    <2>1. PICK q : q = [r EXCEPT !.got = rows]
      OBVIOUS
    <2>2. /\ refreshing' = (refreshing \ {r}) \cup {q}
          /\ UNCHANGED <<admin, rows, filter, listed, dialog, stray, calls,
                         doubt>>
      BY <1>9, <2>1 DEF ServeTable, fetchVars
    <2>3. q = [number |-> r.number, of |-> r.of, got |-> rows]
      BY <1>0, <2>1 DEF TableShape
    <2>4. /\ q = [number |-> q.number, of |-> q.of, got |-> q.got]
          /\ q.of = r.of /\ q.got = rows
      BY <2>3
    <2>5. TableShape' /\ FormIsOfItsRow'
      BY <1>0, <2>2, <2>4 DEF TableShape, FormIsOfItsRow
    <2>6. SavesAreKnown'
      BY <1>0, <2>2, SavesUnsent
    <2>7. RowsAreComing'
      BY <1>0, <2>2, <2>4 DEF RowsAreComing
    <2>. QED  BY <2>5, <2>6, <2>7
  <1>10. ASSUME NEW r \in refreshing, TableAnswered(r)
         PROVE  TableShape' /\ FormIsOfItsRow' /\ SavesAreKnown'
                  /\ RowsAreComing'
    <2>1. /\ refreshing' = refreshing \ {r}
          /\ UNCHANGED <<admin, rows, filter, dialog, calls, doubt>>
          /\ \/ /\ r.got # None /\ listed' = [of |-> r.of, rows |-> r.got]
                /\ stray' = stray
             \/ stray' = TRUE
      BY <1>10 DEF TableAnswered, fetchVars
    <2>2. TableShape' /\ FormIsOfItsRow'
      BY <1>0, <2>1 DEF TableShape, FormIsOfItsRow
    <2>3. SavesAreKnown'
      BY <1>0, <2>1, SavesUnsent
    <2>4. RowsAreComing'
      <3>1. SUFFICES ASSUME ~stray', doubt = {} PROVE RowsAreComing'
        BY <2>1 DEF RowsAreComing
      <3>2. ~stray /\ r.got # None /\ listed' = [of |-> r.of, rows |-> r.got]
        BY <2>1, <3>1
      <3>3. refreshing = {r} /\ r.of = filter
        BY <1>0, <3>1, <3>2 DEF RowsAreComing
      <3>4. refreshing' = {}
        BY <2>1, <3>3
      <3>5. (\E k \in calls : k.state = "ok") \/ r.got = rows
        BY <1>0, <3>1, <3>2, <3>3 DEF RowsAreComing
      <3>. QED  BY <2>1, <3>2, <3>3, <3>4, <3>5 DEF RowsAreComing
    <2>. QED  BY <2>2, <2>3, <2>4
  <1>11. CASE UNCHANGED <<browserVars, fetchVars, tableVars>>
    <2>1. UNCHANGED <<admin, rows, filter, listed, refreshing, busy, dialog,
                      stray, calls, doubt>>
      BY <1>11 DEF fetchVars, tableVars
    <2>. QED  BY <1>0, <2>1, SavesUnsent, RowsStillComing
              DEF TableShape, FormIsOfItsRow
  <1>. QED
    BY <1>1, <1>2, <1>3, <1>4, <1>5, <1>6, <1>7, <1>8, <1>9, <1>10, <1>11
    DEF TableNext

(* What the pages of the tables promise follows. *)
LEMMA TablePromises == TableInv => TableInStep
  <1>. SUFFICES ASSUME TableInv PROVE TableInStep
    OBVIOUS
  <1>1. ListIsCurrent
    BY DEF TableInv, TableElsewhere, RowsAreComing, ListIsCurrent
  <1>2. OneSaveAtATime
    <2>. SUFFICES ASSUME NEW d \in admin.dialogs, "guarded" \in d,
                         ~Is("unmounts")
                  PROVE  Cardinality({k \in calls : k.what = "save"
                                                      /\ k.arg = d}) <= 1
      BY DEF OneSaveAtATime
    <2>. DEFINE S == {k \in calls : k.what = "save" /\ k.arg = d}
    <2>1. page = "table" /\ GuardedForGood(d)
      BY DEF TableInv, TableElsewhere, GuardedForGood
    <2>2. \A j, k \in S : j = k
      BY <2>1 DEF TableInv, SavesAreKnown
    <2>3. CASE S = {}
      <3>1. Cardinality(S) = 0
        BY <2>3, FS_EmptySet
      <3>. QED  BY <3>1
    <2>4. CASE S # {}
      <3>1. PICK k \in S : TRUE
        BY <2>4
      <3>2. S = {k}
        BY <2>2, <3>1
      <3>. HIDE DEF S
      <3>3. Cardinality(S) = 1
        BY <3>2, FS_Singleton
      <3>. QED  BY <3>3 DEF S
    <2>. QED  BY <2>3, <2>4
  <1>. QED  BY <1>1, <1>2 DEF TableInv, TableInStep

-----------------------------------------------------------------------------
(* The admin page of the maps: what its records are. *)
Entries == [global : Flags \cup {None}, server : Flags \cup {None}]

ApiTyped(a) == /\ a = [entries |-> a.entries, models |-> a.models]
               /\ a.entries \in [MapNames -> Entries \cup {None}]

Shows(s) == /\ DOMAIN s.entries \subseteq MapNames
            /\ \A m \in DOMAIN s.entries : s.entries[m] \in Entries

BoardTyped ==
    /\ board = [page |-> board.page, search |-> board.search,
                debounced |-> board.debounced, timer |-> board.timer,
                shown |-> board.shown, loading |-> board.loading,
                has |-> board.has]
    /\ board.shown # None => Shows(board.shown)
    /\ board.timer = "off" => board.debounced = board.search

EditorTyped ==
    /\ editor = [of |-> editor.of, global |-> editor.global,
                 server |-> editor.server,
                 savingGlobal |-> editor.savingGlobal,
                 saving |-> editor.saving, touched |-> editor.touched]
    /\ editor.server \in Flags \cup {"null"}
    /\ editor.global \in Flags

UploaderTyped ==
    uploader = [res |-> uploader.res, file |-> uploader.file,
                uploading |-> uploader.uploading,
                progress |-> uploader.progress,
                controller |-> uploader.controller]

(* A save and a deletion are of a map, and a read brought what was stored. *)
MapCallTyped(k) ==
    /\ IsRequest(k)
    /\ k.what \in {"global", "server", "delete"} => k.of \in MapNames
    /\ k.what = "global" => k.arg \in Flags
    /\ k.what = "server" => k.arg \in Flags \cup {None}
    /\ k.what \in {"list", "find"} /\ k.state = "ok" => ApiTyped(k.got)

MapCallsTyped == \A k \in calls : MapCallTyped(k)

MapOfDialog == active.type \in {"metadata", "delete"} => active.map \in MapNames

(* Of the page's forms and lists. *)
MapsForms == /\ BoardTyped /\ EditorTyped /\ UploaderTyped
             /\ MapOfDialog /\ FormIsOfItsMap

(* Who uploads, or saves the global settings, knows that it does. *)
OneUpload ==
    /\ uploader.uploading <=> \E k \in calls : k.what = "upload"
    /\ \A j, k \in calls : j.what = "upload" /\ k.what = "upload" => j = k

OneGlobal ==
    /\ (\E k \in calls : k.what = "global") => editor.savingGlobal
    /\ \A j, k \in calls : j.what = "global" /\ k.what = "global" => j = k

(* After a change the list will be read again: once a save was answered    *)
(* its map is asked for, and then the list.                                *)
WillRead(k) == \/ k.what = "find"
               \/ k.what \in {"global", "server", "delete"} /\ k.state = "ok"

(* One read at most is out, of the page that is shown.  Until the list is  *)
(* what is stored, it is being read or will be.                            *)
ListIsComing ==
    ~crossed /\ doubt = {} =>
      /\ \A j, k \in Reads(calls) : j = k
      /\ \A k \in Reads(calls) : k.saw.key = ListKey
      /\ \/ \E k \in calls : WillRead(k)
         \/ \E k \in Reads(calls) : \/ k.state # "ok"
                                    \/ k.got.entries = mapsApi.entries
         \/ /\ Reads(calls) = {}
            /\ board.shown = Listing(mapsApi, ListKey)

(* Of what is stored, asked and answered. *)
MapsCalls == /\ ApiTyped(mapsApi) /\ MapCallsTyped
             /\ OneUpload /\ OneGlobal /\ ListIsComing

MapsInv ==
    /\ page # "maps" => active.type # "metadata"
    /\ page = "maps" => MapsForms /\ MapsCalls

(* The list is of the entries, and has those that are stored. *)
LEMMA ListingOfEntries ==
    ASSUME NEW a, NEW b, a.entries = b.entries, NEW k
    PROVE  Listing(a, k) = Listing(b, k)
  <1>1. Stored(a) = Stored(b)
    BY DEF Stored
  <1>2. Found(a, k.search) = Found(b, k.search)
    BY <1>1 DEF Found
  <1>. QED  BY <1>2 DEF Listing

LEMMA ListingShows ==
    ASSUME NEW a, ApiTyped(a), NEW k
    PROVE  Shows(Listing(a, k))
  <1>. DEFINE s == Listing(a, k)
  <1>1. DOMAIN s.entries \subseteq Found(a, k.search)
    BY DEF Listing
  <1>2. \A m \in DOMAIN s.entries : s.entries[m] = a.entries[m]
    BY DEF Listing
  <1>3. Found(a, k.search) \subseteq Stored(a)
    BY DEF Found
  <1>4. \A m \in Stored(a) : m \in MapNames /\ a.entries[m] \in Entries
    BY DEF Stored, ApiTyped
  <1>5. DOMAIN s.entries \subseteq MapNames
    BY <1>1, <1>3, <1>4
  <1>6. \A m \in DOMAIN s.entries : s.entries[m] \in Entries
    BY <1>1, <1>2, <1>3, <1>4
  <1>. HIDE DEF s
  <1>7. Shows(s)
    BY <1>5, <1>6 DEF Shows
  <1>. QED  BY <1>7 DEF s

LEMMA FlagSet ==
    ASSUME ApiTyped(mapsApi), NEW k, k.of \in MapNames,
           k.arg \in Flags \cup {None}, NEW field \in {"global", "server"},
           SetFlag(k, field)
    PROVE  /\ ApiTyped(mapsApi')
           /\ mapsApi.entries[k.of] = None
                => mapsApi'.entries = mapsApi.entries
  <1>. DEFINE old == mapsApi.entries[k.of]
              e == IF old = None THEN None ELSE [old EXCEPT ![field] = k.arg]
  <1>1. mapsApi' = [mapsApi EXCEPT !.entries[k.of] = e]
    BY DEF SetFlag
  <1>2. old \in Entries \cup {None}
    BY DEF ApiTyped
  <1>3. e \in Entries \cup {None}
    BY <1>2 DEF Entries
  <1>4. old = None => e = old
    OBVIOUS
  <1>. HIDE DEF e
  <1>5. /\ mapsApi'.entries = [mapsApi.entries EXCEPT ![k.of] = e]
        /\ mapsApi'.models = mapsApi.models
        /\ mapsApi' = [entries |-> mapsApi'.entries,
                       models |-> mapsApi'.models]
    BY <1>1 DEF ApiTyped
  <1>6. mapsApi'.entries \in [MapNames -> Entries \cup {None}]
    BY <1>3, <1>5 DEF ApiTyped
  <1>7. ASSUME old = None PROVE mapsApi'.entries = mapsApi.entries
    BY <1>4, <1>5, <1>7 DEF ApiTyped
  <1>. QED  BY <1>5, <1>6, <1>7 DEF ApiTyped

LEMMA MapsStarts ==
    ASSUME MapsInit, page = "maps" => FetchInit(MapsReads)
    PROVE  MapsInv
  <1>1. /\ board = [page |-> 1, search |-> None, debounced |-> None,
                    timer |-> "off", shown |-> None, loading |-> TRUE,
                    has |-> {}]
        /\ active = NoDialog /\ active.type = None
        /\ editor = [of |-> None, global |-> "false", server |-> "null",
                     savingGlobal |-> FALSE, saving |-> FALSE,
                     touched |-> FALSE]
        /\ uploader = [res |-> "low", file |-> FALSE, uploading |-> FALSE,
                       progress |-> FALSE, controller |-> FALSE]
    BY DEF MapsInit, NoDialog
  <1>2. active.type \notin {"metadata", "delete"}
    BY <1>1, AdminMapsAssumption
  <1>3. ApiTyped(mapsApi)
    <2>. DEFINE e == [global |-> None, server |-> "true"]
                es == [m \in MapNames |-> e]
    <2>1. e \in Entries
      BY DEF Entries, Flags
    <2>. HIDE DEF e
    <2>2. es \in [MapNames -> Entries \cup {None}]
      BY <2>1
    <2>. HIDE DEF es
    <2>3. mapsApi = [entries |-> es,
                     models |-> {<<m, "low">> : m \in MapNames \ Searches}]
      BY DEF MapsInit, es, e
    <2>. QED  BY <2>2, <2>3 DEF ApiTyped
  <1>4. BoardTyped /\ EditorTyped /\ UploaderTyped
    BY <1>1 DEF BoardTyped, EditorTyped, UploaderTyped, Flags
  <1>5. FormIsOfItsMap /\ MapOfDialog
    BY <1>2 DEF FormIsOfItsMap, MapOfDialog
  <1>6. ASSUME page = "maps" PROVE MapCallsTyped /\ OneUpload /\ OneGlobal
                                     /\ ListIsComing
    <2>. DEFINE saw == [n |-> 0, key |-> [page |-> 1, search |-> None]]
                l == Request("list", None, None, saw)
                m == Request("models", None, None, saw)
    <2>1. saw.key = ListKey
      BY <1>1 DEF ListKey
    <2>2. calls = {l, m}
      BY <1>6 DEF FetchInit, MapsReads
    <2>. HIDE DEF saw
    <2>3. /\ IsRequest(l) /\ l.what = "list" /\ l.saw = saw /\ l.state = "sent"
          /\ IsRequest(m) /\ m.what = "models" /\ m.state = "sent"
      BY NewRequest
    <2>. HIDE DEF l, m
    <2>4. MapCallsTyped
      BY <2>2, <2>3 DEF MapCallsTyped, MapCallTyped
    <2>5. OneUpload /\ OneGlobal
      BY <1>1, <2>2, <2>3 DEF OneUpload, OneGlobal
    <2>6. Reads(calls) = {l}
      BY <2>2, <2>3 DEF Reads
    <2>7. ListIsComing
      BY <2>1, <2>3, <2>6 DEF ListIsComing
    <2>. QED  BY <2>4, <2>5, <2>7
  <1>. QED  BY <1>2, <1>3, <1>4, <1>5, <1>6 DEF MapsInv, MapsForms, MapsCalls

(* What the calls that come and go leave alone. *)
LEMMA UploadsBeside ==
    ASSUME OneUpload, uploader'.uploading = uploader.uploading,
           \A j : j.what = "upload" => (j \in calls' <=> j \in calls)
    PROVE  OneUpload'
  BY DEF OneUpload

LEMMA GlobalsBeside ==
    ASSUME OneGlobal, editor'.savingGlobal = editor.savingGlobal,
           \A j : j.what = "global" => (j \in calls' <=> j \in calls)
    PROVE  OneGlobal'
  BY DEF OneGlobal

LEMMA OnesMoved ==
    ASSUME OneUpload, OneGlobal, UNCHANGED <<editor, uploader>>,
           NEW k \in calls, NEW n, n.what = k.what,
           calls' = (calls \ {k}) \cup {n}
    PROVE  OneUpload' /\ OneGlobal'
  <1>1. \A j \in calls' : j = n \/ (j \in calls /\ j # k)
    OBVIOUS
  <1>2. n \in calls' /\ \A j \in calls : j # k => j \in calls'
    OBVIOUS
  <1>3. OneUpload'
    BY <1>1, <1>2 DEF OneUpload
  <1>4. OneGlobal'
    BY <1>1, <1>2 DEF OneGlobal
  <1>. QED  BY <1>3, <1>4

LEMMA ListBeside ==
    ASSUME ListIsComing, UNCHANGED <<crossed, doubt>>,
           board'.page = board.page, board'.debounced = board.debounced,
           board'.shown = board.shown, mapsApi'.entries = mapsApi.entries,
           \A j : j.what = "list" => (j \in calls' <=> j \in calls),
           (\E j \in calls : WillRead(j)) => \E j \in calls' : WillRead(j)
    PROVE  ListIsComing'
  <1>1. ListKey' = ListKey
    BY DEF ListKey
  <1>2. Reads(calls)' = Reads(calls)
    BY DEF Reads
  <1>3. Listing(mapsApi', ListKey) = Listing(mapsApi, ListKey)
    BY ListingOfEntries
  <1>. SUFFICES ASSUME ~crossed', doubt' = {} PROVE ListIsComing'
    BY DEF ListIsComing
  <1>4. /\ \A j, k \in Reads(calls) : j = k
        /\ \A k \in Reads(calls) : k.saw.key = ListKey
        /\ \/ \E k \in calls : WillRead(k)
           \/ \E k \in Reads(calls) : \/ k.state # "ok"
                                      \/ k.got.entries = mapsApi.entries
           \/ /\ Reads(calls) = {}
              /\ board.shown = Listing(mapsApi, ListKey)
    BY DEF ListIsComing
  <1>5. \/ \E k \in calls' : WillRead(k)
        \/ \E k \in Reads(calls)' : \/ k.state # "ok"
                                    \/ k.got.entries = mapsApi'.entries
        \/ /\ Reads(calls)' = {}
           /\ board'.shown = Listing(mapsApi', ListKey')
    BY <1>1, <1>2, <1>3, <1>4
  <1>6. /\ \A j, k \in Reads(calls)' : j = k
        /\ \A k \in Reads(calls)' : k.saw.key = ListKey'
    BY <1>1, <1>2, <1>4
  <1>. QED  BY <1>5, <1>6 DEF ListIsComing

(* A request at another point of its life: nothing was stored, or the list *)
(* will be read.                                                           *)
LEMMA ListMoved ==
    ASSUME ListIsComing, UNCHANGED <<board, crossed>>,
           NEW k \in calls, NEW n, Same(k, n),
           calls' = (calls \ {k}) \cup {n},
           doubt' = {} => doubt = {} /\ k.state = "sent",
           \/ WillRead(n)
           \/ /\ mapsApi'.entries = mapsApi.entries
              /\ n.what = "list" /\ n.state = "ok"
                   => n.got.entries = mapsApi'.entries
    PROVE  ListIsComing'
  <1>. SUFFICES ASSUME ~crossed', doubt' = {} PROVE ListIsComing'
    BY DEF ListIsComing
  <1>1. /\ \A i, j \in Reads(calls) : i = j
        /\ \A j \in Reads(calls) : j.saw.key = ListKey
        /\ \/ \E j \in calls : WillRead(j)
           \/ \E j \in Reads(calls) : \/ j.state # "ok"
                                      \/ j.got.entries = mapsApi.entries
           \/ /\ Reads(calls) = {}
              /\ board.shown = Listing(mapsApi, ListKey)
        /\ k.state = "sent"
    BY DEF ListIsComing
  <1>2. ListKey' = ListKey
    BY DEF ListKey
  <1>3. n.what = k.what /\ n.saw = k.saw
    BY DEF Same
  <1>4. \A j \in calls' : j = n \/ (j \in calls /\ j # k)
    OBVIOUS
  <1>5. n \in calls' /\ \A j \in calls : j # k => j \in calls'
    OBVIOUS
  <1>6. \A i, j \in Reads(calls)' : i = j
    BY <1>1, <1>3, <1>4 DEF Reads
  <1>7. \A j \in Reads(calls)' : j.saw.key = ListKey'
    BY <1>1, <1>2, <1>3, <1>4 DEF Reads
  <1>8. CASE WillRead(n)
    BY <1>5, <1>6, <1>7, <1>8 DEF ListIsComing
  <1>9. CASE /\ mapsApi'.entries = mapsApi.entries
             /\ n.what = "list" /\ n.state = "ok"
                  => n.got.entries = mapsApi'.entries
    <2>1. CASE \E j \in calls : WillRead(j)
      <3>1. PICK j \in calls : WillRead(j)
        BY <2>1
      <3>2. j = k => WillRead(n)
        BY <1>1, <1>3, <3>1 DEF WillRead
      <3>3. \E i \in calls' : WillRead(i)
        BY <1>5, <3>1, <3>2
      <3>. QED  BY <1>6, <1>7, <3>3 DEF ListIsComing
    <2>2. CASE \E j \in Reads(calls) : \/ j.state # "ok"
                                       \/ j.got.entries = mapsApi.entries
      <3>1. PICK j \in Reads(calls) : \/ j.state # "ok"
                                      \/ j.got.entries = mapsApi.entries
        BY <2>2
      <3>2. j \in calls /\ j.what = "list"
        BY <3>1 DEF Reads
      <3>3. CASE j = k
        <4>1. n \in Reads(calls)'
          BY <1>3, <1>5, <3>2, <3>3 DEF Reads
        <4>2. n.what = "list"
          BY <1>3, <3>2, <3>3
        <4>. QED  BY <1>6, <1>7, <1>9, <4>1, <4>2 DEF ListIsComing
      <3>4. CASE j # k
        <4>1. j \in Reads(calls)'
          BY <1>5, <3>2, <3>4 DEF Reads
        <4>. QED  BY <1>6, <1>7, <1>9, <3>1, <4>1 DEF ListIsComing
      <3>. QED  BY <3>3, <3>4
    <2>3. CASE Reads(calls) = {} /\ board.shown = Listing(mapsApi, ListKey)
      <3>1. k.what # "list"
        BY <2>3 DEF Reads
      <3>2. Reads(calls)' = {}
        BY <1>3, <1>4, <2>3, <3>1 DEF Reads
      <3>3. Listing(mapsApi', ListKey) = Listing(mapsApi, ListKey)
        BY <1>9, ListingOfEntries
      <3>4. board'.shown = Listing(mapsApi', ListKey')
        BY <1>2, <2>3, <3>3
      <3>. QED  BY <1>6, <1>7, <3>2, <3>4 DEF ListIsComing
    <2>. QED  BY <1>1, <2>1, <2>2, <2>3
  <1>. QED  BY <1>8, <1>9

(* The list is read again, and no other read is out. *)
LEMMA ListAgain ==
    ASSUME NEW r \in calls', r.what = "list", r.state = "sent",
           ~crossed' => /\ r.saw.key = ListKey'
                        /\ \A j \in calls' : j.what = "list" => j = r
    PROVE  ListIsComing'
  <1>. SUFFICES ASSUME ~crossed' PROVE ListIsComing'
    BY DEF ListIsComing
  <1>1. Reads(calls)' = {r}
    BY DEF Reads
  <1>. QED  BY <1>1 DEF ListIsComing

(* What is shared: the calls may be left alone, or one more is sent. *)
LEMMA Uncalled ==
    ASSUME MapsCalls, UNCHANGED <<mapsApi, calls, crossed, doubt>>,
           board'.page = board.page, board'.debounced = board.debounced,
           board'.shown = board.shown,
           uploader'.uploading = uploader.uploading,
           editor'.savingGlobal = editor.savingGlobal
    PROVE  MapsCalls'
  <1>0. ApiTyped(mapsApi) /\ MapCallsTyped /\ OneUpload /\ OneGlobal
          /\ ListIsComing
    BY DEF MapsCalls
  <1>1. ApiTyped(mapsApi)' /\ MapCallsTyped'
    BY <1>0 DEF MapCallsTyped, ApiTyped
  <1>2. OneUpload' /\ OneGlobal'
    BY <1>0, UploadsBeside, GlobalsBeside
  <1>3. ListIsComing'
    BY <1>0, ListBeside
  <1>. QED  BY <1>1, <1>2, <1>3 DEF MapsCalls

LEMMA MapsNew ==
    ASSUME NEW what, NEW m, NEW arg, NEW n, NEW place
    PROVE  LET r == MapsRequest(what, m, arg, n, place)
           IN  /\ IsRequest(r) /\ r.what = what /\ r.of = m /\ r.arg = arg
               /\ r.saw.key = place /\ r.state = "sent"
  <1>. DEFINE saw == [n |-> n, key |-> place]
  <1>1. saw.key = place
    OBVIOUS
  <1>. HIDE DEF saw
  <1>2. LET r == Request(what, m, arg, saw)
        IN  /\ IsRequest(r) /\ r.what = what /\ r.of = m /\ r.arg = arg
            /\ r.saw = saw /\ r.state = "sent"
    BY NewRequest
  <1>3. MapsRequest(what, m, arg, n, place) = Request(what, m, arg, saw)
    BY DEF MapsRequest, saw
  <1>. QED  BY <1>1, <1>2, <1>3

LEMMA CallsTyped ==
    ASSUME MapCallsTyped, NEW n, MapCallTyped(n),
           \A j \in calls' : j = n \/ j \in calls
    PROVE  MapCallsTyped'
  BY DEF MapCallsTyped

LEMMA Called ==
    ASSUME MapsCalls, UNCHANGED <<mapsApi, board, crossed, doubt>>,
           uploader'.uploading = uploader.uploading,
           editor'.savingGlobal = editor.savingGlobal,
           NEW r, MapCallTyped(r), calls' = calls \cup {r},
           r.what \notin {"list", "upload", "global"}
    PROVE  MapsCalls'
  <1>0. ApiTyped(mapsApi) /\ MapCallsTyped /\ OneUpload /\ OneGlobal
          /\ ListIsComing
    BY DEF MapsCalls
  <1>1. ApiTyped(mapsApi)' /\ MapCallsTyped'
    BY <1>0, CallsTyped DEF ApiTyped
  <1>2. \A j : j.what \in {"list", "upload", "global"}
                 => (j \in calls' <=> j \in calls)
    OBVIOUS
  <1>3. OneUpload' /\ OneGlobal'
    BY <1>0, <1>2, UploadsBeside, GlobalsBeside
  <1>4. ListIsComing'
    BY <1>0, <1>2, ListBeside
  <1>. QED  BY <1>1, <1>3, <1>4 DEF MapsCalls

(* The form of a map is filled from its entry, and a resolution's emptied. *)
LEMMA FormFilled ==
    ASSUME EditorTyped, NEW m, NEW entry \in Entries, Filled(m, entry)
    PROVE  /\ EditorTyped' /\ editor'.of = m
           /\ editor'.savingGlobal = editor.savingGlobal
           /\ TriToBool(editor'.server) = entry.server
  <1>. DEFINE g == IF entry.global = None THEN "false" ELSE entry.global
              t == BoolToTri(entry.server)
  <1>1. g \in Flags /\ t \in Flags \cup {"null"}
    BY DEF Entries, Flags, BoolToTri
  <1>2. TriToBool(t) = entry.server
    BY DEF Entries, Flags, BoolToTri, TriToBool
  <1>3. editor' = [editor EXCEPT !.of = m, !.touched = FALSE, !.global = g,
                                 !.server = t]
    BY DEF Filled
  <1>. HIDE DEF g, t
  <1>4. /\ editor' = [of |-> editor'.of, global |-> editor'.global,
                      server |-> editor'.server,
                      savingGlobal |-> editor'.savingGlobal,
                      saving |-> editor'.saving, touched |-> editor'.touched]
        /\ editor'.of = m /\ editor'.global = g /\ editor'.server = t
        /\ editor'.savingGlobal = editor.savingGlobal
    BY <1>3 DEF EditorTyped
  <1>. QED  BY <1>1, <1>2, <1>4 DEF EditorTyped

LEMMA UploaderRefilled ==
    ASSUME UploaderTyped, NEW r, Refilled(r)
    PROVE  UploaderTyped' /\ uploader'.uploading = uploader.uploading
  BY DEF UploaderTyped, Refilled

(* Nobody's form when no dialog is open. *)
LEMMA DialogClosed == NoDialog.type \notin {"metadata", "delete"}
  BY AdminMapsAssumption DEF NoDialog

(* A search or another page: its list is read. *)
LEMMA ListFetched ==
    ASSUME ApiTyped(mapsApi), MapCallsTyped, OneUpload, OneGlobal,
           UNCHANGED <<mapsApi, editor, uploader>>,
           NEW place, NEW n, FetchMetadata(place, n), ListKey' = place
    PROVE  MapsCalls'
  <1>. DEFINE r == ReadList(place, n)
  <1>1. /\ calls' = calls \cup {r}
        /\ crossed' = (crossed \/ Reads(calls) # {})
    BY DEF FetchMetadata
  <1>2. IsRequest(r) /\ r.what = "list" /\ r.saw.key = place /\ r.state = "sent"
    BY MapsNew DEF ReadList
  <1>. HIDE DEF r
  <1>3. MapCallTyped(r)
    BY <1>2 DEF MapCallTyped
  <1>4. ApiTyped(mapsApi)' /\ MapCallsTyped'
    BY <1>1, <1>3, CallsTyped DEF ApiTyped
  <1>5. OneUpload' /\ OneGlobal'
    BY <1>1, <1>2, UploadsBeside, GlobalsBeside
  <1>6. r \in calls' /\ \A j \in calls' : j = r \/ j \in calls
    BY <1>1
  <1>7. ~crossed' => \A j \in calls : j.what # "list"
    BY <1>1 DEF Reads
  <1>8. ListIsComing'
    BY <1>2, <1>6, <1>7, ListAgain
  <1>. QED  BY <1>4, <1>5, <1>8 DEF MapsCalls

(* What is clicked and typed. *)
LEMMA MapsClicked ==
    ASSUME page = "maps", MapsForms, MapsCalls,
           \/ HandleSearchChange \/ SearchSettles \/ TurnPage
           \/ OpenMapDialog \/ CloseMapDialog \/ EditForm
           \/ HandleSaveGlobal \/ HandleSave \/ ConfirmDeleteMap
           \/ ChooseModel \/ HandleUpload \/ UploadProgresses
           \/ HandleCancelUpload \/ HandleDeleteModel
    PROVE  MapsForms' /\ MapsCalls'
  <1>0. /\ BoardTyped /\ EditorTyped /\ UploaderTyped
        /\ MapOfDialog /\ FormIsOfItsMap
        /\ ApiTyped(mapsApi) /\ MapCallsTyped
        /\ OneUpload /\ OneGlobal /\ ListIsComing
    BY DEF MapsForms, MapsCalls
  <1>1. CASE HandleSearchChange
    <2>1. PICK s : board' = [board EXCEPT !.search = s, !.timer = "on"]
      BY <1>1 DEF HandleSearchChange
    <2>2. UNCHANGED <<mapsApi, active, editor, uploader, crossed, calls, doubt>>
      BY <1>1 DEF HandleSearchChange, fetchVars
    <2>3. BoardTyped' /\ board'.page = board.page
            /\ board'.debounced = board.debounced /\ board'.shown = board.shown
      BY <1>0, <2>1 DEF BoardTyped
    <2>4. MapsForms'
      BY <1>0, <2>2, <2>3
      DEF MapsForms, EditorTyped, UploaderTyped, MapOfDialog, FormIsOfItsMap
    <2>. QED  BY <2>2, <2>3, <2>4, Uncalled
  <1>2. CASE SearchSettles
    <2>. DEFINE place == [page |-> 1, search |-> board.search]
    <2>1. /\ board' = [board EXCEPT !.page = 1, !.debounced = board.search,
                         !.timer = "off", !.loading = @ \/ place # ListKey]
          /\ IF place = ListKey THEN UNCHANGED <<crossed, fetchVars>>
                              ELSE FetchMetadata(place, clicks)
          /\ UNCHANGED <<mapsApi, active, editor, uploader>>
      BY <1>2 DEF SearchSettles
    <2>2. /\ BoardTyped' /\ board'.page = 1 /\ board'.debounced = board.search
          /\ board'.shown = board.shown
      BY <1>0, <2>1 DEF BoardTyped
    <2>3. ListKey' = place
      BY <2>2 DEF ListKey
    <2>4. MapsForms'
      BY <1>0, <2>1, <2>2
      DEF MapsForms, EditorTyped, UploaderTyped, MapOfDialog, FormIsOfItsMap
    <2>5. CASE place = ListKey
      <3>1. board'.page = board.page /\ board'.debounced = board.debounced
        BY <2>2, <2>5 DEF ListKey
      <3>2. UNCHANGED <<crossed, calls, doubt>>
        BY <2>1, <2>5 DEF fetchVars
      <3>. QED  BY <2>1, <2>2, <2>4, <3>1, <3>2, Uncalled
    <2>6. CASE place # ListKey
      <3>1. FetchMetadata(place, clicks)
        BY <2>1, <2>6
      <3>. HIDE DEF place
      <3>2. MapsCalls'
        BY <1>0, <2>1, <2>3, <3>1, ListFetched
      <3>. QED  BY <2>4, <3>2
    <2>. QED  BY <2>5, <2>6
  <1>3. CASE TurnPage
    <2>1. PICK p : /\ board' = [board EXCEPT !.page = p, !.loading = TRUE]
                   /\ FetchMetadata([ListKey EXCEPT !.page = p], clicks')
      BY <1>3 DEF TurnPage
    <2>2. UNCHANGED <<mapsApi, active, editor, uploader>>
      BY <1>3 DEF TurnPage
    <2>3. BoardTyped' /\ board'.page = p /\ board'.debounced = board.debounced
      BY <1>0, <2>1 DEF BoardTyped
    <2>4. ListKey' = [ListKey EXCEPT !.page = p]
      BY <2>3 DEF ListKey
    <2>5. MapsForms'
      BY <1>0, <2>2, <2>3
      DEF MapsForms, EditorTyped, UploaderTyped, MapOfDialog, FormIsOfItsMap
    <2>6. MapsCalls'
      BY <1>0, <2>1, <2>2, <2>4, ListFetched
    <2>. QED  BY <2>5, <2>6
  <1>4. CASE OpenMapDialog
    <2>1. /\ board.shown # None
          /\ UNCHANGED <<mapsApi, board, crossed, calls, doubt>>
      BY <1>4 DEF OpenMapDialog, fetchVars
    <2>2. PICK m \in DOMAIN board.shown.entries :
            \/ /\ OpensAs("metadata", m)
               /\ Filled(m, board.shown.entries[m])
               /\ UNCHANGED uploader
            \/ /\ OpensAs("models", m)
               /\ Refilled(uploader.res)
               /\ UNCHANGED editor
            \/ /\ OpensAs("delete", m)
               /\ UNCHANGED <<editor, uploader>>
      BY <1>4 DEF OpenMapDialog
    <2>3. m \in MapNames /\ board.shown.entries[m] \in Entries
      BY <1>0, <2>1, <2>2 DEF BoardTyped, Shows
    <2>4. BoardTyped'
      BY <1>0, <2>1 DEF BoardTyped
    <2>5. \A type : OpensAs(type, m) =>
            /\ active'.type = type /\ active'.map = m
            /\ active'.entry = board.shown.entries[m]
      BY DEF OpensAs
    <2>6. CASE /\ OpensAs("metadata", m)
               /\ Filled(m, board.shown.entries[m])
               /\ UNCHANGED uploader
      <3>1. /\ EditorTyped' /\ editor'.of = m
            /\ editor'.savingGlobal = editor.savingGlobal
            /\ TriToBool(editor'.server) = board.shown.entries[m].server
        BY <1>0, <2>3, <2>6, FormFilled
      <3>2. MapOfDialog' /\ FormIsOfItsMap'
        BY <2>3, <2>5, <2>6, <3>1 DEF MapOfDialog, FormIsOfItsMap
      <3>3. UploaderTyped'
        BY <1>0, <2>6 DEF UploaderTyped
      <3>. QED  BY <2>1, <2>4, <2>6, <3>1, <3>2, <3>3, Uncalled DEF MapsForms
    <2>7. CASE /\ OpensAs("models", m)
               /\ Refilled(uploader.res)
               /\ UNCHANGED editor
      <3>1. UploaderTyped' /\ uploader'.uploading = uploader.uploading
        BY <1>0, <2>7, UploaderRefilled
      <3>2. MapOfDialog' /\ FormIsOfItsMap' /\ EditorTyped'
        BY <1>0, <2>5, <2>7 DEF MapOfDialog, FormIsOfItsMap, EditorTyped
      <3>. QED  BY <2>1, <2>4, <2>7, <3>1, <3>2, Uncalled DEF MapsForms
    <2>8. CASE OpensAs("delete", m) /\ UNCHANGED <<editor, uploader>>
      <3>1. MapOfDialog' /\ FormIsOfItsMap' /\ EditorTyped' /\ UploaderTyped'
        BY <1>0, <2>3, <2>5, <2>8
        DEF MapOfDialog, FormIsOfItsMap, EditorTyped, UploaderTyped
      <3>. QED  BY <2>1, <2>4, <2>8, <3>1, Uncalled DEF MapsForms
    <2>. QED  BY <2>2, <2>6, <2>7, <2>8
  <1>5. CASE CloseMapDialog
    <2>1. /\ active' = NoDialog
          /\ editor' = [editor EXCEPT !.saving = FALSE]
          /\ UNCHANGED <<mapsApi, board, uploader, crossed, calls, doubt>>
      BY <1>5 DEF CloseMapDialog, fetchVars
    <2>2. EditorTyped' /\ editor'.savingGlobal = editor.savingGlobal
      BY <1>0, <2>1 DEF EditorTyped
    <2>3. MapOfDialog' /\ FormIsOfItsMap'
      BY <2>1, DialogClosed DEF MapOfDialog, FormIsOfItsMap
    <2>4. BoardTyped' /\ UploaderTyped'
      BY <1>0, <2>1 DEF BoardTyped, UploaderTyped
    <2>. QED  BY <2>1, <2>2, <2>3, <2>4, Uncalled DEF MapsForms
  <1>6. CASE EditForm
    <2>1. PICK t \in (Flags \cup {"null"}) \ {editor.server} :
            editor' = [editor EXCEPT !.server = t, !.touched = TRUE]
      BY <1>6 DEF EditForm
    <2>2. UNCHANGED <<mapsApi, board, active, uploader, crossed, calls, doubt>>
      BY <1>6 DEF EditForm, fetchVars
    <2>3. /\ EditorTyped' /\ editor'.savingGlobal = editor.savingGlobal
          /\ editor'.of = editor.of /\ editor'.touched = TRUE
      BY <1>0, <2>1 DEF EditorTyped
    <2>4. MapOfDialog' /\ FormIsOfItsMap' /\ BoardTyped' /\ UploaderTyped'
      BY <1>0, <2>2, <2>3
      DEF MapOfDialog, FormIsOfItsMap, BoardTyped, UploaderTyped
    <2>. QED  BY <2>2, <2>3, <2>4, Uncalled DEF MapsForms
  <1>7. CASE HandleSaveGlobal
    <2>. DEFINE r == MapsRequest("global", active.map, editor.global, clicks',
                                 ListKey)
    <2>1. /\ ~editor.savingGlobal /\ active.type = "metadata"
          /\ calls' = calls \cup {r} /\ doubt' = doubt
          /\ UNCHANGED <<mapsApi, board, active, uploader, crossed>>
          /\ editor' = [editor EXCEPT !.savingGlobal = TRUE]
      BY <1>7 DEF HandleSaveGlobal, Saves, Send
    <2>2. IsRequest(r) /\ r.what = "global" /\ r.of = active.map
            /\ r.arg = editor.global
      BY MapsNew
    <2>. HIDE DEF r
    <2>3. MapCallTyped(r)
      BY <1>0, <2>1, <2>2 DEF MapCallTyped, MapOfDialog, EditorTyped
    <2>4. /\ EditorTyped' /\ editor'.of = editor.of
          /\ editor'.server = editor.server /\ editor'.touched = editor.touched
          /\ editor'.savingGlobal = TRUE
      BY <1>0, <2>1 DEF EditorTyped
    <2>5. MapsForms'
      BY <1>0, <2>1, <2>4
      DEF MapsForms, MapOfDialog, FormIsOfItsMap, BoardTyped, UploaderTyped
    <2>6. ApiTyped(mapsApi)' /\ MapCallsTyped'
      BY <1>0, <2>1, <2>3, CallsTyped DEF ApiTyped
    <2>7. \A j \in calls' : j = r \/ (j \in calls /\ j.what # "global")
      BY <1>0, <2>1 DEF OneGlobal
    <2>8. OneGlobal'
      BY <2>4, <2>7 DEF OneGlobal
    <2>9. OneUpload' /\ ListIsComing'
      BY <1>0, <2>1, <2>2, UploadsBeside, ListBeside
    <2>. QED  BY <2>5, <2>6, <2>8, <2>9 DEF MapsCalls
  <1>8. CASE HandleSave
    <2>. DEFINE r == MapsRequest("server", active.map, TriToBool(editor.server),
                                 clicks', ListKey)
    <2>1. /\ active.type = "metadata"
          /\ calls' = calls \cup {r} /\ doubt' = doubt
          /\ UNCHANGED <<mapsApi, board, active, uploader, crossed>>
          /\ editor' = [editor EXCEPT !.saving = TRUE]
      BY <1>8 DEF HandleSave, Saves, Send
    <2>2. IsRequest(r) /\ r.what = "server" /\ r.of = active.map
            /\ r.arg = TriToBool(editor.server)
      BY MapsNew
    <2>. HIDE DEF r
    <2>3. TriToBool(editor.server) \in Flags \cup {None}
      BY <1>0 DEF EditorTyped, TriToBool
    <2>4. MapCallTyped(r)
      BY <1>0, <2>1, <2>2, <2>3 DEF MapCallTyped, MapOfDialog
    <2>5. /\ EditorTyped' /\ editor'.of = editor.of
          /\ editor'.server = editor.server /\ editor'.touched = editor.touched
          /\ editor'.savingGlobal = editor.savingGlobal
      BY <1>0, <2>1 DEF EditorTyped
    <2>6. MapsForms'
      BY <1>0, <2>1, <2>5
      DEF MapsForms, MapOfDialog, FormIsOfItsMap, BoardTyped, UploaderTyped
    <2>. QED  BY <2>1, <2>2, <2>4, <2>5, <2>6, Called
  <1>9. CASE ConfirmDeleteMap
    <2>. DEFINE r == MapsRequest("delete", active.map, None, clicks', ListKey)
    <2>1. /\ active.type = "delete"
          /\ calls' = calls \cup {r} /\ doubt' = doubt
          /\ UNCHANGED <<mapsApi, board, active, editor, uploader, crossed>>
      BY <1>9 DEF ConfirmDeleteMap, Send
    <2>2. IsRequest(r) /\ r.what = "delete" /\ r.of = active.map
      BY MapsNew
    <2>. HIDE DEF r
    <2>3. MapCallTyped(r)
      BY <1>0, <2>1, <2>2 DEF MapCallTyped, MapOfDialog
    <2>4. MapsForms'
      BY <1>0, <2>1
      DEF MapsForms, MapOfDialog, FormIsOfItsMap, BoardTyped, UploaderTyped,
          EditorTyped
    <2>. QED  BY <2>1, <2>2, <2>3, <2>4, Called
  <1>10. CASE ChooseModel
    <2>1. /\ UNCHANGED <<mapsApi, board, active, editor, crossed, calls, doubt>>
          /\ \/ \E r : Refilled(r)
             \/ uploader' = [uploader EXCEPT !.file = TRUE]
      BY <1>10 DEF ChooseModel, fetchVars
    <2>2. UploaderTyped' /\ uploader'.uploading = uploader.uploading
      <3>1. CASE \E r : Refilled(r)
        BY <1>0, <3>1, UploaderRefilled
      <3>2. CASE uploader' = [uploader EXCEPT !.file = TRUE]
        BY <1>0, <3>2 DEF UploaderTyped
      <3>. QED  BY <2>1, <3>1, <3>2
    <2>3. MapsForms'
      BY <1>0, <2>1, <2>2
      DEF MapsForms, MapOfDialog, FormIsOfItsMap, BoardTyped, EditorTyped
    <2>. QED  BY <2>1, <2>2, <2>3, Uncalled
  <1>11. CASE HandleUpload
    <2>. DEFINE r == MapsRequest("upload", active.map, uploader.res, clicks',
                                 ListKey)
    <2>1. PICK chunked \in BOOLEAN :
            uploader' = [uploader EXCEPT !.uploading = TRUE, !.progress = FALSE,
                                         !.controller = chunked]
      BY <1>11 DEF HandleUpload
    <2>2. /\ ~uploader.uploading
          /\ calls' = calls \cup {r} /\ doubt' = doubt
          /\ UNCHANGED <<mapsApi, board, active, editor, crossed>>
      BY <1>11 DEF HandleUpload, Send
    <2>3. IsRequest(r) /\ r.what = "upload"
      BY MapsNew
    <2>. HIDE DEF r
    <2>4. MapCallTyped(r)
      BY <2>3 DEF MapCallTyped
    <2>5. UploaderTyped' /\ uploader'.uploading = TRUE
      BY <1>0, <2>1 DEF UploaderTyped
    <2>6. MapsForms'
      BY <1>0, <2>2, <2>5
      DEF MapsForms, MapOfDialog, FormIsOfItsMap, BoardTyped, EditorTyped
    <2>7. ApiTyped(mapsApi)' /\ MapCallsTyped'
      BY <1>0, <2>2, <2>4, CallsTyped DEF ApiTyped
    <2>8. \A j \in calls' : j = r \/ (j \in calls /\ j.what # "upload")
      BY <1>0, <2>2 DEF OneUpload
    <2>9. OneUpload'
      BY <2>2, <2>3, <2>5, <2>8 DEF OneUpload
    <2>10. OneGlobal' /\ ListIsComing'
      BY <1>0, <2>2, <2>3, GlobalsBeside, ListBeside
    <2>. QED  BY <2>6, <2>7, <2>9, <2>10 DEF MapsCalls
  <1>12. CASE UploadProgresses
    <2>1. /\ uploader' = [uploader EXCEPT !.progress = TRUE]
          /\ UNCHANGED <<mapsApi, board, active, editor, crossed, calls, doubt>>
      BY <1>12 DEF UploadProgresses, fetchVars
    <2>2. UploaderTyped' /\ uploader'.uploading = uploader.uploading
      BY <1>0, <2>1 DEF UploaderTyped
    <2>3. MapsForms'
      BY <1>0, <2>1, <2>2
      DEF MapsForms, MapOfDialog, FormIsOfItsMap, BoardTyped, EditorTyped
    <2>. QED  BY <2>1, <2>2, <2>3, Uncalled
  <1>13. CASE HandleCancelUpload
    <2>1. PICK k \in calls :
            /\ k.what = "upload"
            /\ calls' = (calls \ {k}) \cup
                          {[k EXCEPT !.state = "refused", !.try = Tries[page]]}
      BY <1>13 DEF HandleCancelUpload
    <2>2. UNCHANGED <<mapsApi, board, active, editor, uploader, crossed, doubt>>
      BY <1>13 DEF HandleCancelUpload, mapsVars
    <2>3. PICK n : n = Ended(k, Tries[page])
      OBVIOUS
    <2>4. calls' = (calls \ {k}) \cup {n}
      BY <2>1, <2>3 DEF Ended
    <2>5. Same(k, n) /\ n.state = "refused"
      BY <1>0, <2>1, <2>3, EndedFields DEF MapCallsTyped, MapCallTyped
    <2>6. MapCallTyped(n) /\ n.what = "upload"
      BY <2>1, <2>5 DEF MapCallTyped, Same
    <2>7. ApiTyped(mapsApi)' /\ MapCallsTyped'
      BY <1>0, <2>2, <2>4, <2>6, CallsTyped DEF ApiTyped
    <2>8. OneUpload' /\ OneGlobal'
      BY <1>0, <2>1, <2>2, <2>4, <2>6, OnesMoved
    <2>9. /\ \A j : j.what = "list" => (j \in calls' <=> j \in calls)
          /\ \A j \in calls : WillRead(j) => j \in calls'
      BY <2>1, <2>4, <2>6 DEF WillRead
    <2>10. ListIsComing'
      BY <1>0, <2>2, <2>9, ListBeside
    <2>11. MapsForms'
      BY <1>0, <2>2
      DEF MapsForms, MapOfDialog, FormIsOfItsMap, BoardTyped, EditorTyped,
          UploaderTyped
    <2>. QED  BY <2>7, <2>8, <2>10, <2>11 DEF MapsCalls
  <1>14. CASE HandleDeleteModel
    <2>. DEFINE r == MapsRequest("drop", active.map, uploader.res, clicks',
                                 ListKey)
    <2>1. /\ active' = NoDialog
          /\ calls' = calls \/ calls' = calls \cup {r}
          /\ UNCHANGED <<mapsApi, board, editor, uploader, crossed, doubt>>
      BY <1>14 DEF HandleDeleteModel
    <2>2. IsRequest(r) /\ r.what = "drop"
      BY MapsNew
    <2>. HIDE DEF r
    <2>3. MapCallTyped(r)
      BY <2>2 DEF MapCallTyped
    <2>4. MapOfDialog' /\ FormIsOfItsMap'
      BY <2>1, DialogClosed DEF MapOfDialog, FormIsOfItsMap
    <2>5. MapsForms'
      BY <1>0, <2>1, <2>4 DEF MapsForms, BoardTyped, EditorTyped, UploaderTyped
    <2>6. MapsCalls'
      BY <2>1, <2>2, <2>3, Called, Uncalled
    <2>. QED  BY <2>5, <2>6
  <1>. QED
    BY <1>1, <1>2, <1>3, <1>4, <1>5, <1>6, <1>7, <1>8, <1>9, <1>10, <1>11,
       <1>12, <1>13, <1>14

(* The API answers: a change is stored, a read brings what was stored. *)
LEMMA MapsServed ==
    ASSUME MapsForms, MapsCalls, NEW k \in calls, ServeMaps(k)
    PROVE  MapsForms' /\ MapsCalls'
  <1>0. /\ BoardTyped /\ EditorTyped /\ UploaderTyped
        /\ MapOfDialog /\ FormIsOfItsMap
        /\ ApiTyped(mapsApi) /\ MapCallsTyped
        /\ OneUpload /\ OneGlobal /\ ListIsComing
    BY DEF MapsForms, MapsCalls
  <1>. DEFINE s == IF k.what = "server" /\ mapsApi.entries[k.of] = None
                   THEN "refused" ELSE "ok"
              g == IF k.what \in {"list", "find", "models"} THEN mapsApi
                                                            ELSE None
  <1>1. /\ k.state = "sent" /\ Serves(k, s, g)
        /\ UNCHANGED <<board, active, editor, uploader, crossed>>
    BY DEF ServeMaps
  <1>2. k.what \in {"list", "find"} => s = "ok" /\ g = mapsApi
    OBVIOUS
  <1>3. /\ s = "ok" \/ (k.what = "server" /\ mapsApi.entries[k.of] = None)
        /\ s \in {"ok", "refused"}
    OBVIOUS
  <1>. HIDE DEF s, g
  <1>4. MapCallTyped(k)
    BY <1>0 DEF MapCallsTyped
  <1>5. PICK n : /\ Same(k, n) /\ n.state = s /\ n.got = g
                 /\ calls' = (calls \ {k}) \cup {n}
                 /\ lost' = lost /\ doubt' = doubt
    BY <1>1, <1>4, Served DEF MapCallTyped
  <1>6. n.what = k.what /\ n.of = k.of /\ n.arg = k.arg /\ IsRequest(n)
    BY <1>5 DEF Same
  <1>7. MapCallTyped(n)
    BY <1>0, <1>2, <1>4, <1>5, <1>6 DEF MapCallTyped
  <1>8. MapsForms'
    BY <1>0, <1>1
    DEF MapsForms, MapOfDialog, FormIsOfItsMap, BoardTyped, EditorTyped,
        UploaderTyped
  <1>9. MapCallsTyped'
    BY <1>0, <1>5, <1>7, CallsTyped
  <1>10. OneUpload' /\ OneGlobal'
    BY <1>0, <1>1, <1>5, <1>6, OnesMoved
  <1>11. /\ ApiTyped(mapsApi')
         /\ \/ WillRead(n)
            \/ /\ mapsApi'.entries = mapsApi.entries
               /\ n.what = "list" /\ n.state = "ok"
                    => n.got.entries = mapsApi'.entries
    <2>1. CASE k.what \in {"global", "server"}
      <3>1. /\ k.of \in MapNames /\ k.arg \in Flags \cup {None}
        BY <1>4, <2>1 DEF MapCallTyped
      <3>2. \/ SetFlag(k, "global") /\ k.what = "global"
            \/ SetFlag(k, "server") /\ k.what = "server"
        BY <2>1 DEF ServeMaps
      <3>3. /\ ApiTyped(mapsApi')
            /\ mapsApi.entries[k.of] = None
                 => mapsApi'.entries = mapsApi.entries
        BY <1>0, <3>1, <3>2, FlagSet
      <3>4. s # "ok" => mapsApi.entries[k.of] = None
        BY <1>3
      <3>5. s = "ok" => WillRead(n)
        BY <1>5, <1>6, <2>1 DEF WillRead
      <3>. QED  BY <1>6, <2>1, <3>3, <3>4, <3>5
    <2>2. CASE k.what = "delete"
      <3>1. mapsApi' = [mapsApi EXCEPT !.entries[k.of] = None]
        BY <2>2 DEF ServeMaps
      <3>2. /\ mapsApi'.entries = [mapsApi.entries EXCEPT ![k.of] = None]
            /\ mapsApi' = [entries |-> mapsApi'.entries,
                           models |-> mapsApi'.models]
        BY <1>0, <3>1 DEF ApiTyped
      <3>3. mapsApi'.entries \in [MapNames -> Entries \cup {None}]
        BY <1>0, <3>2 DEF ApiTyped
      <3>4. WillRead(n)
        BY <1>3, <1>5, <1>6, <2>2 DEF WillRead
      <3>. QED  BY <3>2, <3>3, <3>4 DEF ApiTyped
    <2>3. CASE k.what \in {"upload", "drop"}
      <3>1. \E m : mapsApi' = [mapsApi EXCEPT !.models = m]
        BY <2>3 DEF ServeMaps
      <3>2. ApiTyped(mapsApi') /\ mapsApi'.entries = mapsApi.entries
        BY <1>0, <3>1 DEF ApiTyped
      <3>. QED  BY <1>6, <2>3, <3>2
    <2>4. CASE k.what \notin {"global", "server", "delete", "upload", "drop"}
      <3>1. mapsApi' = mapsApi
        BY <2>4 DEF ServeMaps
      <3>2. n.what = "list" => n.got = mapsApi
        BY <1>2, <1>5, <1>6
      <3>. QED  BY <1>0, <3>1, <3>2
    <2>. QED  BY <2>1, <2>2, <2>3, <2>4
  <1>12. ListIsComing'
    BY <1>0, <1>1, <1>5, <1>11, ListMoved
  <1>. QED  BY <1>8, <1>9, <1>10, <1>11, <1>12 DEF MapsCalls

(* A request fails, or its answer is lost. *)
LEMMA MapsTroubled ==
    ASSUME MapsForms, MapsCalls, NEW k \in calls, Troubles(k),
           UNCHANGED mapsVars
    PROVE  MapsForms' /\ MapsCalls'
  <1>0. /\ BoardTyped /\ EditorTyped /\ UploaderTyped
        /\ MapOfDialog /\ FormIsOfItsMap
        /\ ApiTyped(mapsApi) /\ MapCallsTyped
        /\ OneUpload /\ OneGlobal /\ ListIsComing
    BY DEF MapsForms, MapsCalls
  <1>1. UNCHANGED <<mapsApi, board, active, editor, uploader, crossed>>
    BY DEF mapsVars
  <1>2. MapCallTyped(k)
    BY <1>0 DEF MapCallsTyped
  <1>3. PICK n : /\ Same(k, n) /\ n.state \in {"sent", "refused"}
                 /\ calls' = (calls \ {k}) \cup {n}
                 /\ doubt' = {} => doubt = {} /\ k.state = "sent"
    BY <1>2, Troubled DEF MapCallTyped
  <1>4. n.what = k.what /\ n.of = k.of /\ n.arg = k.arg /\ IsRequest(n)
    BY <1>3 DEF Same
  <1>5. MapCallTyped(n)
    BY <1>2, <1>3, <1>4 DEF MapCallTyped
  <1>6. MapsForms'
    BY <1>0, <1>1
    DEF MapsForms, MapOfDialog, FormIsOfItsMap, BoardTyped, EditorTyped,
        UploaderTyped
  <1>7. ApiTyped(mapsApi)' /\ MapCallsTyped'
    BY <1>0, <1>1, <1>3, <1>5, CallsTyped DEF ApiTyped
  <1>8. OneUpload' /\ OneGlobal'
    BY <1>0, <1>1, <1>3, <1>4, OnesMoved
  <1>9. ListIsComing'
    <2>1. CASE doubt' = {}
      <3>1. n.what = "list" /\ n.state = "ok" => n.got.entries = mapsApi'.entries
        BY <1>3, <2>1
      <3>. QED  BY <1>0, <1>1, <1>3, <2>1, <3>1, ListMoved
    <2>2. CASE doubt' # {}
      BY <2>2 DEF ListIsComing
    <2>. QED  BY <2>1, <2>2
  <1>. QED  BY <1>6, <1>7, <1>8, <1>9 DEF MapsCalls

(* A read of one map, and one of the models after an upload. *)
LEMMA FindFields ==
    ASSUME NEW k, IsRequest(k), NEW m
    PROVE  LET r == [k EXCEPT !.what = "find", !.of = m]
           IN  IsRequest(r) /\ r.what = "find" /\ r.of = m /\ r.saw = k.saw
                 /\ r.state = k.state
  <1>1. PICK l : l = [k EXCEPT !.what = "find"]
    OBVIOUS
  <1>2. l = [what |-> "find", of |-> k.of, arg |-> k.arg, saw |-> k.saw,
             try |-> k.try, limited |-> k.limited, state |-> k.state,
             got |-> k.got]
    BY <1>1 DEF IsRequest
  <1>3. PICK r : r = [l EXCEPT !.of = m]
    OBVIOUS
  <1>4. r = [what |-> "find", of |-> m, arg |-> k.arg, saw |-> k.saw,
             try |-> k.try, limited |-> k.limited, state |-> k.state,
             got |-> k.got]
    BY <1>2, <1>3
  <1>5. [k EXCEPT !.what = "find", !.of = m]
          = [[k EXCEPT !.what = "find"] EXCEPT !.of = m]
    BY Zenon
  <1>6. r = [k EXCEPT !.what = "find", !.of = m]
    BY <1>1, <1>3, <1>5
  <1>7. IsRequest(r) /\ r.what = "find" /\ r.of = m /\ r.saw = k.saw
          /\ r.state = k.state
    BY <1>4 DEF IsRequest
  <1>. QED  BY <1>6, <1>7

LEMMA SavedFields ==
    ASSUME NEW k, IsRequest(k)
    PROVE  LET r == [k EXCEPT !.arg = "saved"]
           IN  IsRequest(r) /\ r.what = k.what
  <1>1. PICK r : r = [k EXCEPT !.arg = "saved"]
    OBVIOUS
  <1>2. r = [what |-> k.what, of |-> k.of, arg |-> "saved", saw |-> k.saw,
             try |-> k.try, limited |-> k.limited, state |-> k.state,
             got |-> k.got]
    BY <1>1 DEF IsRequest
  <1>3. IsRequest(r) /\ r.what = k.what
    BY <1>2 DEF IsRequest
  <1>. QED  BY <1>1, <1>3

(* A handler that goes on reads the list, or ends. *)
LEMMA ListFetchedAfter ==
    ASSUME ApiTyped(mapsApi), MapCallsTyped, OneUpload, OneGlobal,
           NEW k \in calls, k.what \in {"find", "delete"}, mapsApi' = mapsApi,
           calls' = (calls \ {k}) \cup {ReadList(k.saw.key, k.saw.n)},
           crossed' = (crossed \/ Reads(calls) # {} \/ k.saw.key # ListKey),
           board'.page = board.page, board'.debounced = board.debounced,
           uploader' = uploader, editor'.savingGlobal = editor.savingGlobal
    PROVE  MapsCalls'
  <1>. DEFINE r == ReadList(k.saw.key, k.saw.n)
  <1>1. calls' = (calls \ {k}) \cup {r}
    OBVIOUS
  <1>2. IsRequest(r) /\ r.what = "list" /\ r.saw.key = k.saw.key
          /\ r.state = "sent"
    BY MapsNew DEF ReadList
  <1>. HIDE DEF r
  <1>3. MapCallTyped(r)
    BY <1>2 DEF MapCallTyped
  <1>4. \A j \in calls' : j = r \/ j \in calls
    BY <1>1
  <1>5. ApiTyped(mapsApi)' /\ MapCallsTyped'
    BY <1>3, <1>4, CallsTyped DEF ApiTyped
  <1>6. \A j : j.what \in {"upload", "global"} => (j \in calls' <=> j \in calls)
    BY <1>1, <1>2
  <1>7. OneUpload' /\ OneGlobal'
    BY <1>6, UploadsBeside, GlobalsBeside
  <1>8. ListKey' = ListKey
    BY DEF ListKey
  <1>9. ~crossed' => /\ k.saw.key = ListKey
                     /\ \A j \in calls : j.what # "list"
    BY DEF Reads
  <1>10. ListIsComing'
    BY <1>1, <1>2, <1>4, <1>8, <1>9, ListAgain
  <1>. QED  BY <1>5, <1>7, <1>10 DEF MapsCalls

LEMMA CallGone ==
    ASSUME ApiTyped(mapsApi), MapCallsTyped, OneUpload, OneGlobal,
           ListIsComing, NEW k \in calls, calls' = calls \ {k},
           k.what \notin {"list", "upload", "global"}, ~WillRead(k),
           UNCHANGED <<mapsApi, board, editor, uploader, crossed, doubt>>
    PROVE  MapsCalls'
  <1>1. ApiTyped(mapsApi)' /\ MapCallsTyped'
    BY DEF ApiTyped, MapCallsTyped
  <1>2. /\ \A j : j.what \in {"list", "upload", "global"}
                    => (j \in calls' <=> j \in calls)
        /\ \A j \in calls : WillRead(j) => j \in calls'
    OBVIOUS
  <1>3. OneUpload' /\ OneGlobal'
    BY <1>2, UploadsBeside, GlobalsBeside
  <1>4. ListIsComing'
    BY <1>2, ListBeside
  <1>. QED  BY <1>1, <1>3, <1>4 DEF MapsCalls

(* The dialog that a save opens. *)
LEMMA FoundDialog ==
    ASSUME NEW m, NEW e
    PROVE  LET d == [NoDialog EXCEPT !.type = "metadata", !.map = m, !.entry = e]
           IN  d.type = "metadata" /\ d.map = m /\ d.entry = e
  <1>1. PICK d : d = NoDialog
    OBVIOUS
  <1>2. DOMAIN d = {"type", "map", "entry", "has"}
    BY <1>1 DEF NoDialog
  <1>3. PICK c : c = [d EXCEPT !.type = "metadata", !.map = m, !.entry = e]
    OBVIOUS
  <1>4. c.type = "metadata" /\ c.map = m /\ c.entry = e
    BY <1>2, <1>3
  <1>. QED  BY <1>1, <1>3, <1>4

(* The handler of a map's page goes on. *)
LEMMA MapsContinued ==
    ASSUME page = "maps", MapsForms, MapsCalls, NEW k \in calls,
           MapsAnswered(k)
    PROVE  MapsForms' /\ MapsCalls'
  <1>0. /\ BoardTyped /\ EditorTyped /\ UploaderTyped
        /\ MapOfDialog /\ FormIsOfItsMap
        /\ ApiTyped(mapsApi) /\ MapCallsTyped
        /\ OneUpload /\ OneGlobal /\ ListIsComing
        /\ MapCallTyped(k)
    BY DEF MapsForms, MapsCalls, MapCallsTyped
  <1>. mapsApi' = mapsApi
    BY DEF MapsAnswered
  <1>1. CASE ListAnswered(k)
    <2>1. /\ k.what = "list" /\ k.state # "sent"
          /\ calls' = calls \ {k} /\ doubt' = doubt
          /\ board' = IF k.state = "ok"
                      THEN [board EXCEPT !.loading = FALSE,
                                         !.shown = Listing(k.got, k.saw.key)]
                      ELSE [board EXCEPT !.loading = FALSE]
          /\ crossed' = (crossed \/ k.state # "ok")
          /\ UNCHANGED <<active, editor, uploader>>
      BY <1>1 DEF ListAnswered, Follows
    <2>2. /\ board' = [page |-> board'.page, search |-> board'.search,
                       debounced |-> board'.debounced, timer |-> board'.timer,
                       shown |-> board'.shown, loading |-> board'.loading,
                       has |-> board'.has]
          /\ board'.page = board.page /\ board'.search = board.search
          /\ board'.debounced = board.debounced /\ board'.timer = board.timer
          /\ k.state = "ok" => board'.shown = Listing(k.got, k.saw.key)
          /\ k.state # "ok" => board'.shown = board.shown
      BY <1>0, <2>1 DEF BoardTyped
    <2>3. k.state = "ok" => Shows(Listing(k.got, k.saw.key))
      BY <1>0, <2>1, ListingShows DEF MapCallTyped
    <2>4. BoardTyped'
      BY <1>0, <2>2, <2>3 DEF BoardTyped
    <2>5. MapsForms'
      BY <1>0, <2>1, <2>4
      DEF MapsForms, MapOfDialog, FormIsOfItsMap, EditorTyped, UploaderTyped
    <2>6. ApiTyped(mapsApi)' /\ MapCallsTyped'
      BY <1>0, <2>1 DEF ApiTyped, MapCallsTyped
    <2>7. OneUpload' /\ OneGlobal'
      BY <1>0, <2>1, UploadsBeside, GlobalsBeside
    <2>8. ListIsComing'
      <3>1. SUFFICES ASSUME ~crossed', doubt' = {} PROVE ListIsComing'
        BY DEF ListIsComing
      <3>2. ~crossed /\ k.state = "ok"
        BY <2>1, <3>1
      <3>3. k \in Reads(calls)
        BY <2>1 DEF Reads
      <3>4. /\ k.saw.key = ListKey /\ \A j \in Reads(calls) : j = k
            /\ \/ \E j \in calls : WillRead(j)
               \/ k.got.entries = mapsApi.entries
        BY <1>0, <2>1, <3>1, <3>2, <3>3 DEF ListIsComing
      <3>5. Reads(calls)' = {}
        BY <2>1, <3>4 DEF Reads
      <3>6. ListKey' = ListKey
        BY <2>2 DEF ListKey
      <3>7. CASE \E j \in calls : WillRead(j)
        <4>1. \E j \in calls' : WillRead(j)
          BY <2>1, <3>7 DEF WillRead
        <4>. QED  BY <3>5, <4>1 DEF ListIsComing
      <3>8. CASE k.got.entries = mapsApi.entries
        <4>1. board'.shown = Listing(mapsApi', ListKey')
          BY <2>2, <3>2, <3>4, <3>6, <3>8, ListingOfEntries
        <4>. QED  BY <3>5, <4>1 DEF ListIsComing
      <3>. QED  BY <3>4, <3>7, <3>8
    <2>. QED  BY <2>5, <2>6, <2>7, <2>8 DEF MapsCalls
  <1>2. CASE ModelsAnswered(k)
    <2>1. /\ k.what = "models"
          /\ calls' = calls \ {k} /\ doubt' = doubt
          /\ board' = IF k.state = "ok"
                      THEN [board EXCEPT !.has = k.got.models] ELSE board
          /\ active' = IF k.arg = "saved" THEN NoDialog ELSE active
          /\ UNCHANGED <<editor, uploader, crossed>>
      BY <1>2 DEF ModelsAnswered, Follows
    <2>2. /\ BoardTyped' /\ board'.page = board.page
          /\ board'.debounced = board.debounced /\ board'.shown = board.shown
      BY <1>0, <2>1 DEF BoardTyped
    <2>3. MapOfDialog' /\ FormIsOfItsMap'
      <3>1. CASE active' = NoDialog
        BY <3>1, DialogClosed DEF MapOfDialog, FormIsOfItsMap
      <3>2. CASE active' = active
        BY <1>0, <2>1, <3>2 DEF MapOfDialog, FormIsOfItsMap
      <3>. QED  BY <2>1, <3>1, <3>2
    <2>4. MapsForms'
      BY <1>0, <2>1, <2>2, <2>3 DEF MapsForms, EditorTyped, UploaderTyped
    <2>5. ApiTyped(mapsApi)' /\ MapCallsTyped'
      BY <1>0, <2>1 DEF ApiTyped, MapCallsTyped
    <2>6. OneUpload' /\ OneGlobal'
      BY <1>0, <2>1, UploadsBeside, GlobalsBeside
    <2>7. ListIsComing'
      <3>1. (\E j \in calls : WillRead(j)) => \E j \in calls' : WillRead(j)
        BY <2>1 DEF WillRead
      <3>. QED  BY <1>0, <2>1, <2>2, <3>1, ListBeside
    <2>. QED  BY <2>4, <2>5, <2>6, <2>7 DEF MapsCalls
  <1>3. CASE SaveAnswered(k)
    <2>. DEFINE l == ReadList(k.saw.key, k.saw.n)
                r == [l EXCEPT !.what = "find", !.of = k.of]
    <2>1. /\ k.what \in {"global", "server"} /\ k.state # "sent"
          /\ calls' = (calls \ {k}) \cup (IF k.state # "ok" THEN {} ELSE {r})
          /\ doubt' = doubt
          /\ editor' = IF k.what = "global"
                       THEN [editor EXCEPT !.savingGlobal = FALSE]
                       ELSE [editor EXCEPT !.saving = FALSE]
          /\ UNCHANGED <<board, active, uploader, crossed>>
      BY <1>3 DEF SaveAnswered, Follows
    <2>2. IsRequest(l) /\ l.state = "sent"
      BY MapsNew DEF ReadList
    <2>3. IsRequest(r) /\ r.what = "find" /\ r.state = "sent"
      <3>. HIDE DEF l
      <3>. QED  BY <2>2, FindFields
    <2>. HIDE DEF r
    <2>4. MapCallTyped(r)
      BY <2>3 DEF MapCallTyped
    <2>5. /\ EditorTyped' /\ editor'.of = editor.of
          /\ editor'.server = editor.server /\ editor'.touched = editor.touched
          /\ k.what = "server" => editor'.savingGlobal = editor.savingGlobal
          /\ k.what = "global" => ~editor'.savingGlobal
      BY <1>0, <2>1 DEF EditorTyped
    <2>6. MapsForms'
      BY <1>0, <2>1, <2>5
      DEF MapsForms, MapOfDialog, FormIsOfItsMap, BoardTyped, UploaderTyped
    <2>7. \A j \in calls' : j = r \/ (j \in calls /\ j # k)
      BY <2>1
    <2>8. ApiTyped(mapsApi)' /\ MapCallsTyped'
      BY <1>0, <2>4, <2>7, CallsTyped DEF ApiTyped
    <2>9. \A j : j.what \in {"list", "upload"} => (j \in calls' <=> j \in calls)
      BY <2>1, <2>3
    <2>10. OneUpload'
      BY <1>0, <2>1, <2>9, UploadsBeside
    <2>11. OneGlobal'
      <3>1. CASE k.what = "global"
        <4>1. \A j \in calls' : j.what # "global"
          BY <1>0, <2>3, <2>7, <3>1 DEF OneGlobal
        <4>. QED  BY <2>5, <3>1, <4>1 DEF OneGlobal
      <3>2. CASE k.what = "server"
        <4>1. \A j : j.what = "global" => (j \in calls' <=> j \in calls)
          BY <2>1, <2>3, <3>2
        <4>. QED  BY <1>0, <2>5, <3>2, <4>1, GlobalsBeside
      <3>. QED  BY <2>1, <3>1, <3>2
    <2>12. ListIsComing'
      <3>1. CASE k.state = "ok"
        <4>1. r \in calls' /\ WillRead(r)
          BY <2>1, <2>3, <3>1 DEF WillRead
        <4>. QED  BY <1>0, <2>1, <2>9, <4>1, ListBeside
      <3>2. CASE k.state # "ok"
        <4>1. ~WillRead(k) /\ calls' = calls \ {k}
          BY <2>1, <3>2 DEF WillRead
        <4>2. (\E j \in calls : WillRead(j)) => \E j \in calls' : WillRead(j)
          BY <4>1
        <4>. QED  BY <1>0, <2>1, <2>9, <4>2, ListBeside
      <3>. QED  BY <3>1, <3>2
    <2>. QED  BY <2>6, <2>8, <2>10, <2>11, <2>12 DEF MapsCalls
  <1>4. CASE FoundAgain(k)
    <2>. DEFINE r == ReadList(k.saw.key, k.saw.n)
    <2>1. /\ k.what = "find"
          /\ calls' = (calls \ {k}) \cup {r} /\ doubt' = doubt
          /\ board' = [board EXCEPT !.loading = TRUE]
          /\ crossed' = (crossed \/ Reads(calls) # {} \/ k.saw.key # ListKey)
          /\ UNCHANGED uploader
      BY <1>4 DEF FoundAgain, Follows
    <2>2. \/ /\ k.state = "ok" /\ k.of \in Stored(k.got)
             /\ active' = [NoDialog EXCEPT !.type = "metadata", !.map = k.of,
                             !.entry = k.got.entries[k.of]]
             /\ Filled(k.of, k.got.entries[k.of])
          \/ UNCHANGED <<active, editor>>
      BY <1>4 DEF FoundAgain
    <2>3. /\ BoardTyped' /\ board'.page = board.page
          /\ board'.debounced = board.debounced /\ board'.shown = board.shown
      BY <1>0, <2>1 DEF BoardTyped
    <2>4. UploaderTyped'
      BY <1>0, <2>1 DEF UploaderTyped
    <2>5. /\ EditorTyped' /\ MapOfDialog' /\ FormIsOfItsMap'
          /\ editor'.savingGlobal = editor.savingGlobal
      <3>1. CASE /\ k.state = "ok" /\ k.of \in Stored(k.got)
                 /\ active' = [NoDialog EXCEPT !.type = "metadata",
                                 !.map = k.of, !.entry = k.got.entries[k.of]]
                 /\ Filled(k.of, k.got.entries[k.of])
        <4>. DEFINE e == k.got.entries[k.of]
        <4>1. k.of \in MapNames /\ e \in Entries
          BY <1>0, <2>1, <3>1 DEF MapCallTyped, ApiTyped, Stored
        <4>. HIDE DEF e
        <4>2. /\ active'.type = "metadata" /\ active'.map = k.of
              /\ active'.entry = e
          BY <3>1, FoundDialog DEF e
        <4>3. Filled(k.of, e)
          BY <3>1 DEF e
        <4>4. /\ EditorTyped' /\ editor'.of = k.of
              /\ editor'.savingGlobal = editor.savingGlobal
              /\ TriToBool(editor'.server) = e.server
          BY <1>0, <4>1, <4>3, FormFilled
        <4>. QED  BY <4>1, <4>2, <4>4 DEF MapOfDialog, FormIsOfItsMap
      <3>2. CASE UNCHANGED <<active, editor>>
        BY <1>0, <3>2 DEF EditorTyped, MapOfDialog, FormIsOfItsMap
      <3>. QED  BY <2>2, <3>1, <3>2
    <2>6. MapsCalls'
      BY <1>0, <2>1, <2>3, <2>5, ListFetchedAfter
    <2>. QED  BY <2>3, <2>4, <2>5, <2>6 DEF MapsForms
  <1>5. CASE MapDeleted(k)
    <2>. DEFINE r == ReadList(k.saw.key, k.saw.n)
    <2>1. /\ k.what = "delete" /\ doubt' = doubt
          /\ UNCHANGED <<editor, uploader>>
          /\ \/ /\ calls' = (calls \ {k}) \cup {r} /\ active' = NoDialog
                /\ board' = [board EXCEPT !.loading = TRUE]
                /\ crossed' = (crossed \/ Reads(calls) # {}
                                 \/ k.saw.key # ListKey)
             \/ /\ k.state # "ok" /\ calls' = calls \ {k}
                /\ UNCHANGED <<active, board, crossed>>
      BY <1>5 DEF MapDeleted, Follows
    <2>2. EditorTyped' /\ UploaderTyped'
      BY <1>0, <2>1 DEF EditorTyped, UploaderTyped
    <2>3. CASE /\ calls' = (calls \ {k}) \cup {r} /\ active' = NoDialog
               /\ board' = [board EXCEPT !.loading = TRUE]
               /\ crossed' = (crossed \/ Reads(calls) # {}
                                \/ k.saw.key # ListKey)
      <3>1. /\ BoardTyped' /\ board'.page = board.page
            /\ board'.debounced = board.debounced
        BY <1>0, <2>3 DEF BoardTyped
      <3>2. MapOfDialog' /\ FormIsOfItsMap'
        BY <2>3, DialogClosed DEF MapOfDialog, FormIsOfItsMap
      <3>3. MapsCalls'
        BY <1>0, <2>1, <2>3, <3>1, ListFetchedAfter
      <3>. QED  BY <2>2, <3>1, <3>2, <3>3 DEF MapsForms
    <2>4. CASE /\ k.state # "ok" /\ calls' = calls \ {k}
               /\ UNCHANGED <<active, board, crossed>>
      <3>1. BoardTyped' /\ MapOfDialog' /\ FormIsOfItsMap'
        BY <1>0, <2>1, <2>4 DEF BoardTyped, MapOfDialog, FormIsOfItsMap
      <3>2. ~WillRead(k)
        BY <2>1, <2>4 DEF WillRead
      <3>3. MapsCalls'
        BY <1>0, <2>1, <2>4, <3>2, CallGone
      <3>. QED  BY <2>2, <3>1, <3>3 DEF MapsForms
    <2>. QED  BY <2>1, <2>3, <2>4
  <1>6. CASE UploadAnswered(k)
    <2>. DEFINE l == ReadModels(k.saw.n)
                r == [l EXCEPT !.arg = "saved"]
    <2>1. /\ k.what = "upload"
          /\ calls' = (calls \ {k}) \cup (IF k.state # "ok" THEN {} ELSE {r})
          /\ doubt' = doubt
          /\ uploader' = [uploader EXCEPT !.uploading = FALSE,
                            !.progress = FALSE, !.controller = FALSE]
          /\ UNCHANGED <<board, active, editor, crossed>>
      BY <1>6 DEF UploadAnswered, Follows
    <2>2. IsRequest(l) /\ l.what = "models"
      BY MapsNew DEF ReadModels
    <2>3. IsRequest(r) /\ r.what = "models"
      <3>. HIDE DEF l
      <3>. QED  BY <2>2, SavedFields
    <2>. HIDE DEF r
    <2>4. MapCallTyped(r)
      BY <2>3 DEF MapCallTyped
    <2>5. UploaderTyped' /\ uploader'.uploading = FALSE
      BY <1>0, <2>1 DEF UploaderTyped
    <2>6. MapsForms'
      BY <1>0, <2>1, <2>5
      DEF MapsForms, MapOfDialog, FormIsOfItsMap, BoardTyped, EditorTyped
    <2>7. \A j \in calls' : j = r \/ (j \in calls /\ j # k)
      BY <2>1
    <2>8. ApiTyped(mapsApi)' /\ MapCallsTyped'
      BY <1>0, <2>4, <2>7, CallsTyped DEF ApiTyped
    <2>9. \A j \in calls' : j.what # "upload"
      BY <1>0, <2>1, <2>3, <2>7 DEF OneUpload
    <2>10. OneUpload'
      BY <2>5, <2>9 DEF OneUpload
    <2>11. /\ \A j : j.what \in {"list", "global"}
                       => (j \in calls' <=> j \in calls)
           /\ \A j \in calls : WillRead(j) => j \in calls'
      BY <2>1, <2>3 DEF WillRead
    <2>12. OneGlobal' /\ ListIsComing'
      BY <1>0, <2>1, <2>11, GlobalsBeside, ListBeside
    <2>. QED  BY <2>6, <2>8, <2>10, <2>12 DEF MapsCalls
  <1>7. CASE DropAnswered(k)
    <2>. DEFINE r == ReadModels(k.saw.n)
    <2>1. /\ k.what = "drop"
          /\ calls' = (calls \ {k}) \cup (IF k.state # "ok" THEN {} ELSE {r})
          /\ doubt' = doubt
          /\ UNCHANGED <<board, active, editor, uploader, crossed>>
      BY <1>7 DEF DropAnswered, Follows
    <2>2. IsRequest(r) /\ r.what = "models"
      BY MapsNew DEF ReadModels
    <2>. HIDE DEF r
    <2>3. MapCallTyped(r)
      BY <2>2 DEF MapCallTyped
    <2>4. MapsForms'
      BY <1>0, <2>1
      DEF MapsForms, MapOfDialog, FormIsOfItsMap, BoardTyped, EditorTyped,
          UploaderTyped
    <2>5. \A j \in calls' : j = r \/ (j \in calls /\ j # k)
      BY <2>1
    <2>6. ApiTyped(mapsApi)' /\ MapCallsTyped'
      BY <1>0, <2>3, <2>5, CallsTyped DEF ApiTyped
    <2>7. /\ \A j : j.what \in {"list", "global", "upload"}
                      => (j \in calls' <=> j \in calls)
          /\ \A j \in calls : WillRead(j) => j \in calls'
      BY <2>1, <2>2 DEF WillRead
    <2>8. OneUpload' /\ OneGlobal' /\ ListIsComing'
      BY <1>0, <2>1, <2>7, UploadsBeside, GlobalsBeside, ListBeside
    <2>. QED  BY <2>4, <2>6, <2>8 DEF MapsCalls
  <1>. QED
    BY <1>1, <1>2, <1>3, <1>4, <1>5, <1>6, <1>7 DEF MapsAnswered

LEMMA MapsStep ==
    ASSUME page = "maps", page' = page, MapsInv,
           [MapsNext]_<<browserVars, fetchVars, mapsVars>>
    PROVE  MapsInv'
  <1>. MapsForms /\ MapsCalls
    BY DEF MapsInv
  <1>. SUFFICES MapsForms' /\ MapsCalls'
    BY DEF MapsInv
  <1>1. ASSUME NEW k \in calls, ServeMaps(k) PROVE MapsForms' /\ MapsCalls'
    BY <1>1, MapsServed
  <1>2. ASSUME NEW k \in calls, MapsAnswered(k) PROVE MapsForms' /\ MapsCalls'
    BY <1>2, MapsContinued
  <1>3. ASSUME NEW k \in calls, Troubles(k), UNCHANGED mapsVars
        PROVE  MapsForms' /\ MapsCalls'
    BY <1>3, MapsTroubled
  <1>4. CASE UNCHANGED <<browserVars, fetchVars, mapsVars>>
    <2>1. UNCHANGED <<mapsApi, board, active, editor, uploader, crossed, calls,
                      doubt>>
      BY <1>4 DEF fetchVars, mapsVars
    <2>2. MapsForms'
      BY <2>1
      DEF MapsForms, MapOfDialog, FormIsOfItsMap, BoardTyped, EditorTyped,
          UploaderTyped
    <2>. QED  BY <2>1, <2>2, Uncalled
  <1>. QED  BY <1>1, <1>2, <1>3, <1>4, MapsClicked DEF MapsNext

(* What the page of the maps promises follows. *)
LEMMA MapsPromises == MapsInv => MapsInStep
  <1>. SUFFICES ASSUME MapsInv PROVE MapsInStep
    OBVIOUS
  <1>1. FormIsOfItsMap
    BY DEF MapsInv, MapsForms, FormIsOfItsMap
  <1>2. OneAtATime
    BY DEF MapsInv, MapsCalls, OneUpload, OneGlobal, UploaderTyped,
           OneAtATime
  <1>3. MapsListIsStored
    <2>. SUFFICES ASSUME page = "maps", calls = {}, board.timer = "off",
                         ~crossed, doubt = {}
                  PROVE  board.shown
                           = Listing(mapsApi, [page |-> board.page,
                                               search |-> board.search])
      BY DEF MapsListIsStored
    <2>1. ListIsComing /\ board.debounced = board.search
      BY DEF MapsInv, MapsCalls, MapsForms, BoardTyped
    <2>2. Reads(calls) = {}
      BY DEF Reads
    <2>3. board.shown = Listing(mapsApi, ListKey)
      BY <2>1, <2>2 DEF ListIsComing
    <2>. QED  BY <2>1, <2>3 DEF ListKey
  <1>. QED  BY <1>1, <1>2, <1>3 DEF MapsInStep

-----------------------------------------------------------------------------
(* The switches of what a community may see: until they are read nothing   *)
(* is switched, and then, when the answer to each was waited for, each     *)
(* change is of everything that was meant.                                 *)
BeingRead ==
    /\ SwitchedAs(setting) = meant
    /\ \E k \in calls : /\ calls = {k} /\ k.what = "settings"
                        /\ k.state = "ok" => k.got = setting

(* Changes are served, and answered, as they were sent: the last one is    *)
(* what is meant, and what the API keeps as soon as none is still to come. *)
BeingSent ==
    /\ \A k \in calls : /\ k.what = "anonymize" /\ k.saw \in Nat
                        /\ k.saw <= clicks
                        /\ k.state = "ok" => k.got = k.arg
    /\ \A j, k \in calls : j.saw = k.saw => j = k
    /\ \A j, k \in calls : j.saw < k.saw /\ j.state = "sent"
                             => k.state = "sent"
    /\ \A k \in calls : (\A j \in calls : j.saw <= k.saw) => k.arg = meant
    /\ (\A k \in calls : k.state # "sent") => SwitchedAs(setting) = meant
    /\ calls = {} => SwitchedAs(switches) = meant /\ SwitchedAs(kept) = meant

Keeping ==
    page = "consent" =>
      /\ lost \in Nat /\ clicks \in Nat /\ meant \in Settings
      /\ lost = 0 /\ ~swapped /\ ~early =>
           /\ Requests /\ \A k \in calls : k.state \in {"sent", "ok"}
           /\ IF settling THEN BeingRead ELSE BeingSent

(* However early the switches were used, and whatever was refused: the API *)
(* keeps the last change that it did, and the card shows the last one that *)
(* was answered.                                                           *)
ToldOfSettings ==
    \E k \in calls : /\ calls = {k} /\ k.what = "settings"
                     /\ k.state = "ok" => k.got = setting

ToldOfChanges ==
    /\ \A k \in calls : /\ k.what = "anonymize" /\ k.saw \in Nat
                        /\ k.saw <= clicks
                        /\ k.state = "ok" => k.got = k.arg
    /\ \A j, k \in calls : j.saw = k.saw => j = k
    /\ \A j, k \in calls : j.saw < k.saw /\ j.state = "sent"
                             => k.state # "ok"
    /\ \A k \in calls :
         k.state = "ok" /\ (\A j \in calls : j.state = "ok" => j.saw <= k.saw)
           => setting = k.arg
    /\ (\A k \in calls : k.state # "ok") /\ ~strayed
         => SwitchedAs(switches) = SwitchedAs(setting)

Telling ==
    page = "consent" =>
      /\ clicks \in Nat
      /\ doubt = {} /\ ~swapped =>
           Requests /\ IF settling THEN ToldOfSettings ELSE ToldOfChanges

ConsentInv == Keeping /\ Telling

LEMMA ConsentStarts ==
    ASSUME NEW s \in Settings \cup {None}, ConsentInit(s),
           clicks = 0, page = "consent" => FetchInit(ConsentReads)
    PROVE  ConsentInv
  <1>. SUFFICES ASSUME page = "consent" PROVE ConsentInv
    BY DEF ConsentInv, Keeping, Telling
  <1>. DEFINE r == Request("settings", None, None, 0)
  <1>1. calls = {r} /\ lost = 0
    BY DEF FetchInit, ConsentReads
  <1>2. IsRequest(r) /\ r.what = "settings" /\ r.state = "sent"
    BY NewRequest
  <1>. HIDE DEF r
  <1>3. setting = s /\ meant = SwitchedAs(s) /\ settling
    BY DEF ConsentInit
  <1>4. meant \in Settings
    BY <1>3 DEF SwitchedAs, Settings
  <1>5. BeingRead
    BY <1>1, <1>2, <1>3 DEF BeingRead
  <1>6. ToldOfSettings
    BY <1>1, <1>2 DEF ToldOfSettings
  <1>. QED  BY <1>1, <1>2, <1>3, <1>4, <1>5, <1>6
            DEF ConsentInv, Keeping, Telling, Requests

LEMMA ConsentKeeps ==
    ASSUME page = "consent", page' = page, Keeping,
           [ConsentNext]_<<browserVars, fetchVars, consentVars>>
    PROVE  Keeping'
  <1>0. /\ lost \in Nat /\ clicks \in Nat /\ meant \in Settings
        /\ lost = 0 /\ ~swapped /\ ~early =>
             /\ Requests /\ \A k \in calls : k.state \in {"sent", "ok"}
             /\ IF settling THEN BeingRead ELSE BeingSent
    BY DEF Keeping
  <1>1. CASE HandleToggleAnonymize
    <2>. DEFINE shown == SwitchedAs(switches)
                on(type) == IF type = "location" THEN ~shown.hide_location
                                                 ELSE ~shown.anonymized
    <2>0. PICK type \in {"location", "anonymous"} :
            /\ Send(Request("anonymize", None, Body(type, on(type), shown),
                            clicks'))
            /\ kept' = Body(type, on(type), shown)
            /\ meant' = IF type = "location"
                        THEN [meant EXCEPT !.hide_location = on(type)]
                        ELSE [anonymized |-> on(type),
                              hide_location |-> on(type)
                                                  \/ meant.hide_location]
      BY <1>1 DEF HandleToggleAnonymize
    <2>. DEFINE value == on(type)
                body == Body(type, value, shown)
    <2>1. /\ Send(Request("anonymize", None, body, clicks'))
          /\ kept' = body
          /\ meant' = IF type = "location"
                      THEN [meant EXCEPT !.hide_location = value]
                      ELSE [anonymized |-> value,
                            hide_location |-> value \/ meant.hide_location]
      BY <2>0
    <2>2. /\ ~settling /\ clicks' = clicks + 1
          /\ early' = (early \/ calls # {})
          /\ UNCHANGED <<setting, switches, settling, swapped>>
      BY <1>1 DEF HandleToggleAnonymize, Click
    <2>3. value \in BOOLEAN
      OBVIOUS
    <2>. HIDE DEF value
    <2>4. meant' \in Settings
      BY <1>0, <2>1, <2>3 DEF Settings
    <2>5. lost' = lost /\ clicks' \in Nat
      BY <1>0, <2>1, <2>2 DEF Send
    <2>6. ASSUME lost = 0, ~swapped', ~early'
          PROVE  /\ Requests' /\ \A k \in calls' : k.state \in {"sent", "ok"}
                 /\ BeingSent'
      <3>. DEFINE r == Request("anonymize", None, body, clicks')
      <3>0. /\ Requests /\ \A k \in calls : k.state \in {"sent", "ok"}
            /\ BeingSent /\ calls = {} /\ shown = meant
        BY <1>0, <2>1, <2>2, <2>6 DEF BeingSent
      <3>. HIDE DEF shown
      <3>1. body = meant'
        BY <2>1, <3>0 DEF Body
      <3>. HIDE DEF body
      <3>2. calls' = calls \cup {r}
        BY <2>1 DEF Send
      <3>3. IsRequest(r) /\ r.what = "anonymize" /\ r.arg = body
              /\ r.saw = clicks' /\ r.state = "sent"
        BY NewRequest
      <3>. HIDE DEF r
      <3>4. \A j \in calls' : j = r \/ j \in calls
        BY <3>2
      <3>5. \A k \in calls : k.saw \in Nat /\ k.saw < clicks'
        BY <1>0, <2>2, <3>0 DEF BeingSent
      <3>6. Requests' /\ \A k \in calls' : k.state \in {"sent", "ok"}
        BY <3>0, <3>3, <3>4 DEF Requests
      <3>7. /\ \A k \in calls' : /\ k.what = "anonymize" /\ k.saw \in Nat
                                 /\ k.saw <= clicks'
                                 /\ k.state = "ok" => k.got = k.arg
        BY <2>5, <3>0, <3>3, <3>4, <3>5 DEF BeingSent
      <3>8. \A j, k \in calls' : j.saw = k.saw => j = k
        BY <2>5, <3>0, <3>3, <3>4, <3>5 DEF BeingSent
      <3>9. \A j, k \in calls' : j.saw < k.saw /\ j.state = "sent"
                                   => k.state = "sent"
        BY <2>5, <3>0, <3>3, <3>4, <3>5 DEF BeingSent
      <3>10. r \in calls'
        BY <3>2
      <3>11. \A k \in calls' : (\A j \in calls' : j.saw <= k.saw)
                                 => k.arg = meant'
        <4>. SUFFICES ASSUME NEW k \in calls', r.saw <= k.saw
                      PROVE  k.arg = meant'
          BY <3>10
        <4>1. k = r
          BY <2>5, <3>3, <3>4, <3>5
        <4>. QED  BY <3>1, <3>3, <4>1
      <3>. QED  BY <3>3, <3>6, <3>7, <3>8, <3>9, <3>10, <3>11 DEF BeingSent
    <2>. QED  BY <2>2, <2>4, <2>5, <2>6 DEF Keeping
  <1>2. ASSUME NEW k \in calls, ConsentServes(k) PROVE Keeping'
    <2>1. /\ k.state = "sent"
          /\ UNCHANGED <<clicks, kept, switches, settling, meant, early>>
          /\ setting' = IF k.what = "anonymize" THEN k.arg ELSE setting
          /\ Serves(k, "ok", setting')
          /\ swapped' = (swapped \/ Overtakes(k))
      BY <1>2 DEF ConsentServes, Alone, browserVars
    <2>2. lost' = lost
      BY <2>1 DEF Serves
    <2>3. ASSUME lost = 0, ~swapped', ~early'
          PROVE  /\ Requests' /\ \A j \in calls' : j.state \in {"sent", "ok"}
                 /\ IF settling' THEN BeingRead' ELSE BeingSent'
      <3>0. /\ Requests /\ \A j \in calls : j.state \in {"sent", "ok"}
            /\ IF settling THEN BeingRead ELSE BeingSent
            /\ ~Overtakes(k)
        BY <1>0, <2>1, <2>3
      <3>. DEFINE g == setting'
      <3>1. PICK n : /\ Same(k, n) /\ n.state = "ok" /\ n.got = g
                     /\ calls' = (calls \ {k}) \cup {n}
        BY <2>1, <3>0, Served DEF Requests
      <3>2. /\ n.what = k.what /\ n.arg = k.arg /\ n.saw = k.saw
            /\ IsRequest(n)
        BY <3>1 DEF Same
      <3>3. \A j \in calls' : j = n \/ (j \in calls /\ j # k)
        BY <3>1
      <3>4. n \in calls' /\ \A j \in calls : j # k => j \in calls'
        BY <3>1
      <3>5. Requests' /\ \A j \in calls' : j.state \in {"sent", "ok"}
        BY <3>0, <3>1, <3>2, <3>3 DEF Requests
      <3>6. CASE settling
        <4>0. BeingRead
          BY <3>0, <3>6
        <4>1. SwitchedAs(setting) = meant
          BY <4>0 DEF BeingRead
        <4>2. PICK i : calls = {i} /\ i.what = "settings"
          BY <4>0 DEF BeingRead
        <4>3. i = k /\ calls = {k} /\ k.what = "settings"
          BY <4>2
        <4>4. calls' = {n} /\ setting' = setting
          BY <2>1, <3>1, <4>3
        <4>5. BeingRead'
          BY <2>1, <3>1, <3>2, <4>1, <4>3, <4>4 DEF BeingRead
        <4>. QED  BY <2>1, <3>5, <3>6, <4>5
      <3>7. CASE ~settling
        <4>0. BeingSent
          BY <3>0, <3>7
        <4>1. k.what = "anonymize" /\ setting' = k.arg
          BY <2>1, <4>0 DEF BeingSent
        <4>2. \A j \in calls' : /\ j.what = "anonymize" /\ j.saw \in Nat
                                /\ j.saw <= clicks'
                                /\ j.state = "ok" => j.got = j.arg
          BY <2>1, <3>1, <3>2, <3>3, <4>0, <4>1 DEF BeingSent
        <4>3. \A i, j \in calls' : i.saw = j.saw => i = j
          BY <3>2, <3>3, <4>0 DEF BeingSent
        <4>4. \A j \in calls : j.saw < k.saw => j.state # "sent"
          BY <3>0, <4>0 DEF Overtakes, BeingSent
        <4>5. \A i, j \in calls' : i.saw < j.saw /\ i.state = "sent"
                                     => j.state = "sent"
          BY <3>1, <3>2, <3>3, <4>0, <4>4 DEF BeingSent
        <4>6. \A i \in calls' : (\A j \in calls' : j.saw <= i.saw)
                                  => i.arg = meant'
          <5>. SUFFICES ASSUME NEW i \in calls',
                               \A j \in calls' : j.saw <= i.saw
                        PROVE  i.arg = meant
            BY <2>1
          <5>1. PICK h \in calls : h.saw = i.saw /\ h.arg = i.arg
            BY <3>2, <3>3
          <5>2. \A j \in calls : j.saw <= h.saw
            BY <3>2, <3>4, <5>1
          <5>. QED  BY <4>0, <5>1, <5>2 DEF BeingSent
        <4>7. ASSUME \A j \in calls' : j.state # "sent"
              PROVE  SwitchedAs(setting') = meant'
          <5>1. \A j \in calls : j # k => j.state # "sent"
            BY <3>4, <4>7
          <5>2. \A j \in calls : ~(k.saw < j.saw)
            BY <2>1, <4>0, <5>1 DEF BeingSent
          <5>3. \A j \in calls : j.saw <= k.saw
            BY <4>0, <5>2 DEF BeingSent
          <5>4. setting' = meant
            BY <4>0, <4>1, <5>3 DEF BeingSent
          <5>. QED  BY <1>0, <2>1, <5>4, ConsentAssumption DEF SwitchedAs
        <4>8. BeingSent'
          BY <3>4, <4>2, <4>3, <4>5, <4>6, <4>7 DEF BeingSent
        <4>. QED  BY <2>1, <3>5, <3>7, <4>8
      <3>. QED  BY <3>6, <3>7
    <2>. QED  BY <1>0, <2>1, <2>2, <2>3 DEF Keeping
  <1>3. ASSUME NEW k \in calls, ConsentAnswered(k) PROVE Keeping'
    <2>1. /\ calls' = calls \ {k} /\ lost' = lost /\ k.state # "sent"
          /\ UNCHANGED <<clicks, setting, meant, early>>
          /\ k.state = "ok" => switches' = k.got /\ kept' = k.got
          /\ settling' = (settling /\ k.what # "settings")
          /\ swapped' = (swapped \/ Overtakes(k))
      BY <1>3 DEF ConsentAnswered, Settles, Alone, browserVars
    <2>2. ASSUME lost = 0, ~swapped', ~early'
          PROVE  /\ Requests' /\ \A j \in calls' : j.state \in {"sent", "ok"}
                 /\ IF settling' THEN BeingRead' ELSE BeingSent'
      <3>0. /\ Requests /\ \A j \in calls : j.state \in {"sent", "ok"}
            /\ IF settling THEN BeingRead ELSE BeingSent
            /\ ~Overtakes(k) /\ k.state = "ok"
        BY <1>0, <2>1, <2>2
      <3>1. Requests' /\ \A j \in calls' : j.state \in {"sent", "ok"}
        BY <2>1, <3>0 DEF Requests
      <3>2. CASE settling
        <4>0. BeingRead
          BY <3>0, <3>2
        <4>1. SwitchedAs(setting) = meant
          BY <4>0 DEF BeingRead
        <4>2. PICK i : /\ calls = {i} /\ i.what = "settings"
                       /\ i.state = "ok" => i.got = setting
          BY <4>0 DEF BeingRead
        <4>3. /\ i = k /\ calls = {k} /\ k.what = "settings"
              /\ k.got = setting
          BY <3>0, <4>2
        <4>4. ~settling' /\ calls' = {} /\ switches' = setting
              /\ kept' = setting
          BY <2>1, <3>0, <4>3
        <4>5. BeingSent'
          BY <2>1, <4>1, <4>4 DEF BeingSent
        <4>. QED  BY <3>1, <4>4, <4>5
      <3>3. CASE ~settling
        <4>0. BeingSent /\ ~settling'
          BY <2>1, <3>0, <3>3
        <4>1. \A j \in calls : ~(j.saw < k.saw)
          BY <2>1, <3>0, <4>0 DEF Overtakes, BeingSent
        <4>2. \A j \in calls' : j \in calls /\ j # k
          BY <2>1
        <4>3. \A j \in calls' : (\A i \in calls' : i.saw <= j.saw)
                                  => j.arg = meant'
          <5>. SUFFICES ASSUME NEW j \in calls',
                               \A i \in calls' : i.saw <= j.saw
                        PROVE  j.arg = meant
            BY <2>1
          <5>1. \A i \in calls : i.saw <= j.saw
            BY <2>1, <4>0, <4>1, <4>2 DEF BeingSent
          <5>. QED  BY <4>0, <4>2, <5>1 DEF BeingSent
        <4>4. ASSUME \A j \in calls' : j.state # "sent"
              PROVE  SwitchedAs(setting') = meant'
          <5>1. \A j \in calls : j.state # "sent"
            BY <2>1, <4>4
          <5>. QED  BY <2>1, <4>0, <5>1 DEF BeingSent
        <4>5. ASSUME calls' = {}
              PROVE  /\ SwitchedAs(switches') = meant'
                     /\ SwitchedAs(kept') = meant'
          <5>1. \A j \in calls : j.saw <= k.saw
            BY <2>1, <4>0, <4>5 DEF BeingSent
          <5>2. switches' = meant /\ kept' = meant
            BY <2>1, <3>0, <4>0, <5>1 DEF BeingSent
          <5>. QED  BY <1>0, <2>1, <5>2, ConsentAssumption DEF SwitchedAs
        <4>6. /\ \A j \in calls' : /\ j.what = "anonymize" /\ j.saw \in Nat
                                   /\ j.saw <= clicks'
                                   /\ j.state = "ok" => j.got = j.arg
              /\ \A i, j \in calls' : i.saw = j.saw => i = j
              /\ \A i, j \in calls' : i.saw < j.saw /\ i.state = "sent"
                                        => j.state = "sent"
          BY <2>1, <4>0, <4>2 DEF BeingSent
        <4>7. BeingSent'
          BY <4>3, <4>4, <4>5, <4>6 DEF BeingSent
        <4>. QED  BY <3>1, <4>0, <4>7
      <3>. QED  BY <3>2, <3>3
    <2>. QED  BY <1>0, <2>1, <2>2 DEF Keeping
  <1>4. ASSUME NEW k \in calls, Troubles(k), UNCHANGED consentVars
        PROVE  Keeping'
    <2>1. lost' = lost + 1 /\ clicks' = clicks + 1 /\ meant' = meant
      BY <1>4 DEF Troubles, RequestFails, AnswerLost, TooMany, Click,
                  consentVars
    <2>2. lost' \in Nat /\ lost' # 0 /\ clicks' \in Nat
      BY <1>0, <2>1
    <2>. QED  BY <1>0, <2>1, <2>2 DEF Keeping
  <1>6. CASE RenderAgain
    <2>1. /\ switches' = kept
          /\ UNCHANGED <<clicks, lost, calls, setting, kept, settling, meant,
                         swapped, early>>
      BY <1>6 DEF RenderAgain, Alone, browserVars, fetchVars
    <2>2. BeingRead => BeingRead'
      BY <2>1 DEF BeingRead
    <2>3. BeingSent => BeingSent'
      BY <2>1 DEF BeingSent
    <2>. QED  BY <1>0, <2>1, <2>2, <2>3 DEF Keeping, Requests
  <1>5. CASE UNCHANGED <<browserVars, fetchVars, consentVars>>
    BY <1>0, <1>5
    DEF browserVars, fetchVars, consentVars, Keeping, Requests, BeingRead,
        BeingSent
  <1>. QED  BY <1>1, <1>2, <1>3, <1>4, <1>5, <1>6 DEF ConsentNext

LEMMA ConsentTells ==
    ASSUME page = "consent", page' = page, Telling,
           [ConsentNext]_<<browserVars, fetchVars, consentVars>>
    PROVE  Telling'
  <1>0. /\ clicks \in Nat
        /\ doubt = {} /\ ~swapped =>
             Requests /\ IF settling THEN ToldOfSettings ELSE ToldOfChanges
    BY DEF Telling
  <1>1. CASE HandleToggleAnonymize
    <2>1. PICK arg : Send(Request("anonymize", None, arg, clicks'))
      BY <1>1 DEF HandleToggleAnonymize
    <2>. DEFINE r == Request("anonymize", None, arg, clicks')
    <2>2. /\ calls' = calls \cup {r} /\ doubt' = doubt /\ ~settling
          /\ clicks' = clicks + 1
          /\ UNCHANGED <<setting, switches, settling, swapped, strayed>>
      BY <1>1, <2>1 DEF HandleToggleAnonymize, Send, Click
    <2>3. IsRequest(r) /\ r.what = "anonymize" /\ r.saw = clicks'
            /\ r.state = "sent"
      BY NewRequest
    <2>. HIDE DEF r
    <2>4. ASSUME doubt = {}, ~swapped PROVE Requests' /\ ToldOfChanges'
      <3>0. Requests /\ ToldOfChanges
        BY <1>0, <2>2, <2>4
      <3>1. \A j \in calls' : j = r \/ j \in calls
        BY <2>2
      <3>2. \A k \in calls : k.saw \in Nat /\ k.saw < clicks'
        BY <1>0, <2>2, <3>0 DEF ToldOfChanges
      <3>3. Requests'
        BY <2>3, <3>0, <3>1 DEF Requests
      <3>4. /\ \A k \in calls' : /\ k.what = "anonymize" /\ k.saw \in Nat
                                 /\ k.saw <= clicks'
                                 /\ k.state = "ok" => k.got = k.arg
            /\ \A j, k \in calls' : j.saw = k.saw => j = k
            /\ \A j, k \in calls' : j.saw < k.saw /\ j.state = "sent"
                                        => k.state # "ok"
        BY <1>0, <2>2, <2>3, <3>0, <3>1, <3>2 DEF ToldOfChanges
      <3>5. \A k \in calls : k \in calls'
        BY <2>2
      <3>6. \A k \in calls' : k.state = "ok" => k \in calls
        BY <2>3, <3>1
      <3>7. \A k \in calls' :
              k.state = "ok" /\ (\A j \in calls' : j.state = "ok"
                                                    => j.saw <= k.saw)
                => setting' = k.arg
        BY <2>2, <3>0, <3>5, <3>6 DEF ToldOfChanges
      <3>8. (\A k \in calls' : k.state # "ok") /\ ~strayed'
              => SwitchedAs(switches') = SwitchedAs(setting')
        BY <2>2, <3>0, <3>5 DEF ToldOfChanges
      <3>. QED  BY <3>3, <3>4, <3>7, <3>8 DEF ToldOfChanges
    <2>. QED  BY <1>0, <2>2, <2>4 DEF Telling
  <1>2. CASE RenderAgain
    <2>1. /\ strayed'
          /\ UNCHANGED <<clicks, doubt, calls, setting, settling, swapped>>
      BY <1>2 DEF RenderAgain, Alone, browserVars, fetchVars
    <2>2. ToldOfSettings => ToldOfSettings'
      BY <2>1 DEF ToldOfSettings
    <2>3. ToldOfChanges => ToldOfChanges'
      BY <2>1 DEF ToldOfChanges
    <2>. QED  BY <1>0, <2>1, <2>2, <2>3 DEF Telling, Requests
  <1>3. ASSUME NEW k \in calls, ConsentServes(k) PROVE Telling'
    <2>1. /\ k.state = "sent"
          /\ UNCHANGED <<clicks, switches, settling, strayed>>
          /\ setting' = IF k.what = "anonymize" THEN k.arg ELSE setting
          /\ Serves(k, "ok", setting') /\ doubt' = doubt
          /\ swapped' = (swapped \/ Overtakes(k))
      BY <1>3 DEF ConsentServes, Alone, browserVars, Serves
    <2>2. ASSUME doubt = {}, ~swapped'
          PROVE  /\ Requests'
                 /\ IF settling' THEN ToldOfSettings' ELSE ToldOfChanges'
      <3>0. /\ Requests /\ ~Overtakes(k)
            /\ IF settling THEN ToldOfSettings ELSE ToldOfChanges
        BY <1>0, <2>1, <2>2
      <3>. DEFINE g == setting'
      <3>1. PICK n : /\ Same(k, n) /\ n.state = "ok" /\ n.got = g
                     /\ calls' = (calls \ {k}) \cup {n}
        BY <2>1, <3>0, Served DEF Requests
      <3>2. /\ n.what = k.what /\ n.arg = k.arg /\ n.saw = k.saw
            /\ IsRequest(n)
        BY <3>1 DEF Same
      <3>3. \A j \in calls' : j = n \/ (j \in calls /\ j # k)
        BY <3>1
      <3>4. n \in calls'
        BY <3>1
      <3>5. Requests'
        BY <3>0, <3>2, <3>3 DEF Requests
      <3>6. CASE settling
        <4>1. PICK i : calls = {i} /\ i.what = "settings"
          BY <3>0, <3>6 DEF ToldOfSettings
        <4>2. calls' = {n} /\ n.what = "settings" /\ n.got = setting'
          BY <3>1, <3>2, <4>1
        <4>3. ToldOfSettings'
          BY <4>2 DEF ToldOfSettings
        <4>. QED  BY <2>1, <3>5, <3>6, <4>3
      <3>7. CASE ~settling
        <4>0. ToldOfChanges
          BY <3>0, <3>7
        <4>1. k.what = "anonymize" /\ setting' = k.arg
          BY <2>1, <4>0 DEF ToldOfChanges
        <4>2. \A j \in calls' : /\ j.what = "anonymize" /\ j.saw \in Nat
                                /\ j.saw <= clicks'
                                /\ j.state = "ok" => j.got = j.arg
          BY <2>1, <3>1, <3>2, <3>3, <4>0, <4>1 DEF ToldOfChanges
        <4>3. \A i, j \in calls' : i.saw = j.saw => i = j
          BY <3>2, <3>3, <4>0 DEF ToldOfChanges
        <4>4. \A j \in calls : j.saw < k.saw => j.state # "sent"
          BY <3>0, <4>0 DEF Overtakes, ToldOfChanges
        <4>5. \A i, j \in calls' : i.saw < j.saw /\ i.state = "sent"
                                     => j.state # "ok"
          BY <3>1, <3>2, <3>3, <4>0, <4>4 DEF ToldOfChanges
        <4>6. \A i \in calls' :
                i.state = "ok" /\ (\A j \in calls' : j.state = "ok"
                                                      => j.saw <= i.saw)
                  => setting' = i.arg
          <5>. SUFFICES ASSUME NEW i \in calls', i.state = "ok",
                               n.saw <= i.saw
                        PROVE  setting' = i.arg
            BY <3>1, <3>4
          <5>1. CASE i = n
            BY <3>2, <4>1, <5>1
          <5>2. CASE i # n
            <6>1. i \in calls /\ i # k /\ k.saw <= i.saw
              BY <3>2, <3>3, <5>2
            <6>2. k.saw < i.saw
              BY <4>0, <6>1 DEF ToldOfChanges
            <6>. QED  BY <2>1, <4>0, <6>1, <6>2 DEF ToldOfChanges
          <5>. QED  BY <5>1, <5>2
        <4>7. ToldOfChanges'
          BY <3>1, <3>4, <4>2, <4>3, <4>5, <4>6 DEF ToldOfChanges
        <4>. QED  BY <2>1, <3>5, <3>7, <4>7
      <3>. QED  BY <3>6, <3>7
    <2>. QED  BY <1>0, <2>1, <2>2 DEF Telling
  <1>4. ASSUME NEW k \in calls, ConsentAnswered(k) PROVE Telling'
    <2>1. /\ calls' = calls \ {k} /\ doubt' = doubt /\ k.state # "sent"
          /\ UNCHANGED <<clicks, setting>>
          /\ k.state = "ok" => switches' = k.got
          /\ k.state # "ok" => /\ switches' = switches
                               /\ strayed' = (strayed \/ k.what = "settings")
          /\ settling' = (settling /\ k.what # "settings")
          /\ swapped' = (swapped \/ Overtakes(k))
      BY <1>4 DEF ConsentAnswered, Settles, Alone, browserVars
    <2>2. ASSUME doubt = {}, ~swapped'
          PROVE  /\ Requests'
                 /\ IF settling' THEN ToldOfSettings' ELSE ToldOfChanges'
      <3>0. /\ Requests /\ ~Overtakes(k)
            /\ IF settling THEN ToldOfSettings ELSE ToldOfChanges
        BY <1>0, <2>1, <2>2
      <3>1. Requests'
        BY <2>1, <3>0 DEF Requests
      <3>2. CASE settling
        <4>1. PICK i : /\ calls = {i} /\ i.what = "settings"
                       /\ i.state = "ok" => i.got = setting
          BY <3>0, <3>2 DEF ToldOfSettings
        <4>2. i = k
          BY <4>1
        <4>3. /\ ~settling' /\ calls' = {}
              /\ ~strayed' => switches' = setting'
          BY <2>1, <4>1, <4>2
        <4>4. ToldOfChanges'
          BY <4>3 DEF ToldOfChanges
        <4>. QED  BY <3>1, <4>3, <4>4
      <3>3. CASE ~settling
        <4>0. ToldOfChanges /\ ~settling'
          BY <2>1, <3>0, <3>3
        <4>1. \A j \in calls : ~(j.saw < k.saw)
          BY <2>1, <3>0, <4>0 DEF Overtakes, ToldOfChanges
        <4>2. \A j \in calls' : j \in calls /\ j # k
          BY <2>1
        <4>3. \A j \in calls' :
                j.state = "ok" /\ (\A i \in calls' : i.state = "ok"
                                                      => i.saw <= j.saw)
                  => setting' = j.arg
          <5>. SUFFICES ASSUME NEW j \in calls', j.state = "ok",
                               \A i \in calls' : i.state = "ok"
                                                   => i.saw <= j.saw
                        PROVE  setting = j.arg
            BY <2>1
          <5>1. k.saw <= j.saw
            BY <4>0, <4>1, <4>2 DEF ToldOfChanges
          <5>2. \A i \in calls : i.state = "ok" => i.saw <= j.saw
            BY <2>1, <5>1
          <5>. QED  BY <4>0, <4>2, <5>2 DEF ToldOfChanges
        <4>4. ASSUME \A j \in calls' : j.state # "ok", ~strayed'
              PROVE  SwitchedAs(switches') = SwitchedAs(setting')
          <5>1. \A j \in calls : j = k \/ j.state # "ok"
            BY <2>1, <4>4
          <5>2. CASE k.state = "ok"
            <6>1. \A j \in calls : j.state = "ok" => j.saw <= k.saw
              BY <4>0, <5>1 DEF ToldOfChanges
            <6>2. setting = k.arg /\ switches' = k.arg
              BY <2>1, <4>0, <5>2, <6>1 DEF ToldOfChanges
            <6>. QED  BY <2>1, <6>2
          <5>3. CASE k.state # "ok"
            <6>1. ~strayed /\ \A j \in calls : j.state # "ok"
              BY <2>1, <4>4, <5>1, <5>3
            <6>. QED  BY <2>1, <4>0, <5>3, <6>1 DEF ToldOfChanges
          <5>. QED  BY <5>2, <5>3
        <4>5. /\ \A j \in calls' : /\ j.what = "anonymize" /\ j.saw \in Nat
                                   /\ j.saw <= clicks'
                                   /\ j.state = "ok" => j.got = j.arg
              /\ \A i, j \in calls' : i.saw = j.saw => i = j
              /\ \A i, j \in calls' : i.saw < j.saw /\ i.state = "sent"
                                        => j.state # "ok"
          BY <2>1, <4>0, <4>2 DEF ToldOfChanges
        <4>6. ToldOfChanges'
          BY <4>3, <4>4, <4>5 DEF ToldOfChanges
        <4>. QED  BY <3>1, <4>0, <4>6
      <3>. QED  BY <3>2, <3>3
    <2>. QED  BY <1>0, <2>1, <2>2 DEF Telling
  <1>5. ASSUME NEW k \in calls, Troubles(k), UNCHANGED consentVars
        PROVE  Telling'
    <2>1. /\ clicks' = clicks + 1
          /\ UNCHANGED <<setting, switches, settling, swapped, strayed>>
      BY <1>5 DEF Troubles, Click, consentVars
    <2>2. ASSUME doubt' = {}, ~swapped
          PROVE  Requests' /\ IF settling THEN ToldOfSettings'
                                          ELSE ToldOfChanges'
      <3>1. doubt \subseteq doubt'
        BY <1>5 DEF Troubles, RequestFails, AnswerLost, TooMany
      <3>2. Requests /\ IF settling THEN ToldOfSettings ELSE ToldOfChanges
        BY <1>0, <2>2, <3>1
      <3>3. PICK n : /\ Same(k, n) /\ n.state \in {"sent", "refused"}
                     /\ calls' = (calls \ {k}) \cup {n}
                     /\ doubt' = {} => doubt = {} /\ k.state = "sent"
        BY <1>5, <3>2, Troubled DEF Requests
      <3>4. /\ n.what = k.what /\ n.arg = k.arg /\ n.saw = k.saw
            /\ IsRequest(n) /\ k.state = "sent"
        BY <2>2, <3>3 DEF Same
      <3>5. \A j \in calls' : j = n \/ (j \in calls /\ j # k)
        BY <3>3
      <3>6. Requests'
        BY <3>2, <3>4, <3>5 DEF Requests
      <3>7. CASE settling
        <4>1. calls' = {n} /\ n.what = "settings"
          BY <3>2, <3>3, <3>4, <3>7 DEF ToldOfSettings
        <4>. QED  BY <3>3, <3>6, <3>7, <4>1 DEF ToldOfSettings
      <3>8. CASE ~settling
        <4>0. ToldOfChanges
          BY <3>2, <3>8
        <4>1. \A j \in calls' : j.state = "ok" => j \in calls
          BY <3>3, <3>5
        <4>2. \A j \in calls : j.state = "ok" => j \in calls'
          BY <3>3, <3>4
        <4>3. \A j \in calls' : /\ j.what = "anonymize" /\ j.saw \in Nat
                                /\ j.saw <= clicks'
                                /\ j.state = "ok" => j.got = j.arg
          BY <1>0, <2>1, <3>3, <3>4, <3>5, <4>0 DEF ToldOfChanges
        <4>4. \A i, j \in calls' : i.saw = j.saw => i = j
          BY <3>4, <3>5, <4>0 DEF ToldOfChanges
        <4>5. \A i, j \in calls' : i.saw < j.saw /\ i.state = "sent"
                                     => j.state # "ok"
          BY <3>3, <3>4, <3>5, <4>0 DEF ToldOfChanges
        <4>6. \A i \in calls' :
                i.state = "ok" /\ (\A j \in calls' : j.state = "ok"
                                                      => j.saw <= i.saw)
                  => setting' = i.arg
          BY <2>1, <4>0, <4>1, <4>2 DEF ToldOfChanges
        <4>7. (\A j \in calls' : j.state # "ok") /\ ~strayed'
                => SwitchedAs(switches') = SwitchedAs(setting')
          BY <2>1, <4>0, <4>2 DEF ToldOfChanges
        <4>8. ToldOfChanges'
          BY <4>3, <4>4, <4>5, <4>6, <4>7 DEF ToldOfChanges
        <4>. QED  BY <3>6, <3>8, <4>8
      <3>. QED  BY <3>7, <3>8
    <2>. QED  BY <1>0, <2>1, <2>2 DEF Telling
  <1>6. CASE UNCHANGED <<browserVars, fetchVars, consentVars>>
    BY <1>0, <1>6
    DEF browserVars, fetchVars, consentVars, Telling, Requests,
        ToldOfSettings, ToldOfChanges
  <1>. QED  BY <1>1, <1>2, <1>3, <1>4, <1>5, <1>6 DEF ConsentNext

LEMMA ConsentStep ==
    ASSUME page = "consent", page' = page, ConsentInv,
           [ConsentNext]_<<browserVars, fetchVars, consentVars>>
    PROVE  ConsentInv'
  BY ConsentKeeps, ConsentTells DEF ConsentInv

LEMMA ConsentPromises == ConsentInv => ConsentInStep
  <1>. SUFFICES ASSUME ConsentInv, page = "consent", calls = {}, ~swapped
                PROVE  ShowsWhatIsKept /\ KeepsWhatWasMeant
    BY DEF ConsentInStep
  <1>1. ShowsWhatIsKept
    BY DEF ConsentInv, Telling, ToldOfSettings, ToldOfChanges,
           ShowsWhatIsKept
  <1>2. KeepsWhatWasMeant
    BY DEF ConsentInv, Keeping, BeingRead, BeingSent, KeepsWhatWasMeant
  <1>. QED  BY <1>1, <1>2
=============================================================================

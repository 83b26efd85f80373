----------------------------- MODULE RadarClock -----------------------------
(***************************************************************************)
(* The time bar of the radar page (TemporalController): a window of time,  *)
(* a cursor in it, an animation that moves the cursor every second, a live *)
(* mode that follows the clock every minute, and the map layer, which is   *)
(* asked for the cursor's interval once 120 ms pass without a change.      *)
(* Every timer runs the closure of the render that started it, so it keeps *)
(* the window and the interval of then.  Time counts parts of a minute.    *)
(***************************************************************************)
EXTENDS Browser

CONSTANTS Ranges,     \* the choices of "Range", "all" and "1month" included
          Span,       \* [Ranges \ {"all"} -> Nat \ {0}]
          Options,    \* [Ranges -> sequence of intervals, shortest first]
          Minute,     \* how much time a minute is
          TenMinutes, \* "10min", the interval of the live mode
          FirstData,  \* initialStartDate
          Opened,     \* when the page was opened
          LastMinute  \* bound: the clock stops there

Intervals == UNION {{Options[r][i] : i \in DOMAIN Options[r]} : r \in Ranges}
MaxInterval == CHOOSE s \in Intervals : \A x \in Intervals : x <= s

ASSUME RadarAssumption ==
    /\ {"all", "1month"} \subseteq Ranges
    /\ Span \in [Ranges \ {"all"} -> Nat \ {0}]
    /\ \A r \in Ranges : Options[r] \in Seq(Nat \ {0}) \ {<<>>}
    /\ Minute \in Nat \ {0} /\ TenMinutes \in Intervals
    /\ \E s \in Intervals : \A x \in Intervals : x <= s
    /\ FirstData \in Int /\ Opened \in Int /\ LastMinute \in Int
    /\ FirstData < Opened

(* Nothing is neither a window, nor what a timer or the layer knows. *)
ASSUME NothingAssumption ==
    /\ None \notin [start : Int, end : Int]
    /\ None \notin [end : Int, interval : Nat \ {0}]
    /\ None \notin [at : Int, interval : Nat \ {0}]

VARIABLES now,        \* the clock
          window,     \* startDate and endDate
          range,      \* selectedRange
          cursor,     \* the time shown
          interval,   \* selectedInterval
          isLive,
          isPlaying,
          liveTimer,  \* the window that updateToLive closed over, or None
          playTimer,  \* end and interval that animate closed over, or None
          debounce,   \* what the layer will be asked for, or None
          layer       \* what the layer was asked for last, or None

radarVars == <<now, window, range, cursor, interval, isLive, isPlaying,
               liveTimer, playTimer, debounce, layer>>

Window(s, e) == [start |-> s, end |-> e]
Asked(t, i)  == [at |-> t, interval |-> i]

(* The window of a range ends now. *)
WindowOf(r) == Window(IF r = "all" THEN FirstData ELSE now - Span[r], now)

(* The cursor moved: the effect on it replaces what the handler debounced. *)
ShowAt(t, i) == cursor' = t /\ debounce' = Asked(t, i)

LeaveLive == isLive' = FALSE /\ liveTimer' = None
StopPlay  == isPlaying' = FALSE /\ playTimer' = None

(* updateToLive, which knows the window w. *)
ToLive(w, i) ==
    /\ window' = IF now > w.end THEN Window(now - (w.end - w.start), now)
                                ELSE window
    /\ ShowAt(now, i)

(* Mounted: live, and the month before now; the live timer was started     *)
(* with the window of the first render.                                    *)
RadarInit ==
    /\ now = Opened
    /\ range = "1month"
    /\ window = WindowOf("1month")
    /\ cursor = Opened
    /\ interval = TenMinutes
    /\ isLive = TRUE
    /\ isPlaying = FALSE
    /\ liveTimer = Window(FirstData, Opened)
    /\ playTimer = None
    /\ debounce = Asked(Opened, TenMinutes)
    /\ layer = None

-----------------------------------------------------------------------------
(* Mutant: the animation starts beside the live mode. *)
PlayBesideLive ==
    /\ Click
    /\ IF isPlaying
       THEN StopPlay /\ UNCHANGED <<isLive, liveTimer>>
       ELSE /\ isPlaying' = TRUE
            /\ playTimer' = [end |-> window.end, interval |-> interval]
            /\ UNCHANGED <<isLive, liveTimer>>
    /\ UNCHANGED <<now, window, range, cursor, interval, debounce, layer>>

(* The play button and the effect on isPlaying. *)
TogglePlay ==
    /\ Click
    /\ IF isPlaying
       THEN StopPlay /\ UNCHANGED <<isLive, liveTimer>>
       ELSE /\ isPlaying' = TRUE
            /\ playTimer' = [end |-> window.end, interval |-> interval]
            /\ LeaveLive
    /\ UNCHANGED <<now, window, range, cursor, interval, debounce, layer>>

(* The live button and the effect on isLive. *)
ToggleLive ==
    /\ Click
    /\ IF isLive
       THEN /\ LeaveLive
            /\ UNCHANGED <<window, cursor, interval, isPlaying, playTimer,
                           debounce>>
       ELSE /\ isLive' = TRUE
            /\ interval' = TenMinutes
            /\ StopPlay
            /\ liveTimer' = window
            /\ ToLive(window, TenMinutes)
    /\ UNCHANGED <<now, range, layer>>

(* Mutant: a step back is not stopped at the start of the window. *)
StepBackPast ==
    /\ ~isPlaying /\ cursor # window.start
    /\ Click
    /\ LeaveLive
    /\ ShowAt(cursor - interval, interval)
    /\ UNCHANGED <<now, window, range, interval, isPlaying, playTimer, layer>>

StepBack ==
    /\ ~isPlaying /\ cursor # window.start
    /\ Click
    /\ LeaveLive
    /\ ShowAt(IF cursor - interval < window.start THEN window.start
                                                  ELSE cursor - interval,
              interval)
    /\ UNCHANGED <<now, window, range, interval, isPlaying, playTimer, layer>>

StepForward ==
    /\ ~isPlaying /\ cursor # window.end
    /\ Click
    /\ LeaveLive
    /\ ShowAt(IF cursor + interval > window.end THEN window.end
                                                ELSE cursor + interval,
              interval)
    /\ UNCHANGED <<now, window, range, interval, isPlaying, playTimer, layer>>

(* The slider snaps to the nearest multiple of the interval from the       *)
(* start, the one after the end included when it is nearest.               *)
Snapped == {k * interval : k \in {j \in 0..(window.end - window.start + 1) :
                2 * (j * interval) <= 2 * (window.end - window.start) + interval}}

(* second(0): the slider shows whole minutes only. *)
WholeMinute(t) == t - (t % Minute)

MoveSlider ==
    /\ Click
    /\ LeaveLive
    /\ \E offset \in Snapped :
          ShowAt(WholeMinute(window.start + offset), interval)
    /\ UNCHANGED <<now, window, range, interval, isPlaying, playTimer, layer>>

(* Another range: a window that ends now, the cursor moved up to its start *)
(* if it is before, and an interval the range offers.                      *)
ChangeRange(r) ==
    /\ r # range
    /\ Click
    /\ range' = r
    /\ window' = WindowOf(r)
    /\ interval' = IF \E i \in DOMAIN Options[r] : Options[r][i] = interval
                   THEN interval ELSE Options[r][1]
    /\ ShowAt(IF cursor < window'.start THEN window'.start ELSE cursor,
              interval')
    /\ UNCHANGED <<now, isLive, isPlaying, liveTimer, playTimer, layer>>

(* Mutant: the layer keeps the interval of the handler's own closure. *)
ChangeIntervalStale(i) ==
    /\ ~isLive /\ i # interval
    /\ Click
    /\ interval' = i
    /\ ShowAt(cursor, interval)
    /\ UNCHANGED <<now, window, range, isLive, isPlaying, liveTimer,
                   playTimer, layer>>

(* Disabled while live. *)
ChangeInterval(i) ==
    /\ ~isLive /\ i # interval
    /\ Click
    /\ interval' = i
    /\ ShowAt(cursor, i)
    /\ UNCHANGED <<now, window, range, isLive, isPlaying, liveTimer,
                   playTimer, layer>>

-----------------------------------------------------------------------------
(* animate, every second: it knows the end and the interval of its start. *)
PlayTick ==
    /\ isPlaying
    /\ Alone
    /\ LET next == cursor + playTimer.interval
       IN  IF next > playTimer.end
           THEN StopPlay /\ UNCHANGED <<cursor, debounce>>
           ELSE /\ ShowAt(next, interval)
                /\ UNCHANGED <<isPlaying, playTimer>>
    /\ UNCHANGED <<now, window, range, interval, isLive, liveTimer, layer>>

(* updateToLive, every minute. *)
LiveTick ==
    /\ isLive
    /\ Alone
    /\ ToLive(liveTimer, interval)
    /\ UNCHANGED <<now, range, interval, isLive, isPlaying, liveTimer,
                   playTimer, layer>>

(* 120 ms without a change. *)
LayerUpdates ==
    /\ debounce # None
    /\ Alone
    /\ layer' = debounce
    /\ debounce' = None
    /\ UNCHANGED <<now, window, range, cursor, interval, isLive, isPlaying,
                   liveTimer, playTimer>>

ClockTicks ==
    /\ now < LastMinute
    /\ Alone
    /\ now' = now + 1
    /\ UNCHANGED <<window, range, cursor, interval, isLive, isPlaying,
                   liveTimer, playTimer, debounce, layer>>

RadarNext ==
    \/ TogglePlay \/ ToggleLive \/ StepBack \/ StepForward \/ MoveSlider
    \/ \E r \in Ranges : ChangeRange(r)
    \/ \E i \in DOMAIN Options[range] : ChangeInterval(Options[range][i])
    \/ PlayTick \/ LiveTick \/ LayerUpdates \/ ClockTicks

RadarSpec == /\ BrowserInit("radar") /\ RadarInit
             /\ [][RadarNext]_<<browserVars, radarVars>>

(* While the animation runs. *)
RadarWaits == isPlaying

-----------------------------------------------------------------------------
RadarTypeOK ==
    /\ now \in Int
    /\ window \in [start : Int, end : Int]
    /\ range \in Ranges
    /\ cursor \in Int
    /\ interval \in Nat \ {0}
    /\ isLive \in BOOLEAN /\ isPlaying \in BOOLEAN
    /\ liveTimer = None \/ liveTimer \in [start : Int, end : Int]
    /\ playTimer = None \/ playTimer \in [end : Int, interval : Nat \ {0}]
    /\ \A a \in {debounce, layer} :
         a = None \/ a \in [at : Int, interval : Nat \ {0}]

(* The minute timer exists exactly in live mode, the second timer exactly  *)
(* while playing, and never both.                                          *)
OneClock ==
    /\ isLive = (liveTimer # None)
    /\ isPlaying = (playTimer # None)
    /\ ~(isLive /\ isPlaying)

(* Once nothing is debounced, the layer shows the cursor's time for the    *)
(* interval selected.                                                      *)
LayerFollows == debounce = None => layer = Asked(cursor, interval)

(* The cursor is less than a minute before the window, where the slider    *)
(* cuts the seconds off, and at most half an interval after it, where the  *)
(* slider snaps.                                                           *)
CursorInWindow ==
    /\ window.start - cursor < Minute
    /\ 2 * (cursor - window.end) <= MaxInterval

(***************************************************************************)
(* The time bar, the layer and the timers agree, in whatever order the     *)
(* buttons, the slider, the range and the clock change them, although each *)
(* timer knows only the render it was started in: one clock at most drives *)
(* the cursor, the cursor stays in a window that moves under it ("Don't go *)
(* before start date", which the code keeps to the minute), and the layer  *)
(* is asked for what the bar shows.                                        *)
(***************************************************************************)
RadarInStep == OneClock /\ LayerFollows /\ CursorInWindow
=============================================================================
